------------------------- MODULE HttpRequest_proofs -------------------------
(***************************************************************************)
(* A request on its way through the web server: the parser that reads it   *)
(* and the handler that answers it, for texts and paths of any length.     *)
(*                                                                         *)
(* The type invariant of the parser is not inductive: that headers.back()  *)
(* exists in header_value rests on its existence in the state before. Nor  *)
(* is it that the parser accepts the requests and nothing else: that rests *)
(* on what every state of the automaton stands for, which RequestReading   *)
(* says: Reads of what has been read, Keeps of what has been kept of it. A *)
(* step is proved group of states by group of states: it leads from what   *)
(* the old state stands for to what the new one does, and where it         *)
(* rejects, no text that begins so is a request. The headers are a         *)
(* recursive function of the positions, reasoned about by induction over   *)
(* them.                                                                   *)
(*                                                                         *)
(* What the handler promises rests on url_decode, a recursive function of  *)
(* the position.  Its values are reasoned about by induction over the      *)
(* positions: a set of them that has 0 and, with each, the next, has all.  *)
(* The invariant says that the request, as far as it is an encoding,       *)
(* decodes to the path that is meant.                                      *)
(***************************************************************************)
EXTENDS RequestReading, RequestHandler, SequenceTheorems, FiniteSetTheorems, TLAPS

-----------------------------------------------------------------------------
(* The parser *)

\* What a step leaves in state_ and request_.
Sound(s, r) ==
    /\ s \in State
    /\ r \in Request
    /\ s \in InHeader => r.headers # <<>>

\* A step that moves to a sound pair keeps the invariant.
LEMMA SoundStep ==
  ASSUME IInv, NEW c \in Char, text' = Append(text, c),
         result' \in {"good", "bad", "indeterminate"}, Sound(state', request')
  PROVE  IInv'
<1>1. text' \in Seq(Char)
  BY DEF IInv, TypeOK
<1> QED
  BY <1>1 DEF IInv, TypeOK, Sound, Request, InHeader

\* A rejected character leaves state_ and request_ alone.
LEMMA RejectSound == IInv /\ Reject => Sound(state', request') /\ result' = "bad"
  BY DEF IInv, TypeOK, Reject, Sound, Request

\* One that only changes the state needs a header where that state does.
LEMMA SkipSound ==
  ASSUME IInv, NEW s \in State, Skip(s), s \in InHeader => request.headers # <<>>
  PROVE  Sound(state', request') /\ result' = result
  BY DEF IInv, TypeOK, Skip, Goto, Sound, Request

\* A header that is opened is the last of the headers.
LEMMA OpenHeaderType ==
  ASSUME TypeOK, NEW c \in Char
  PROVE  OpenHeader(c) \in Request /\ OpenHeader(c).headers # <<>>
<1>1. request \in Request
  BY DEF TypeOK, Request
<1>2. [name |-> <<c>>, value |-> <<>>] \in Header
  BY DEF Header
<1>3. /\ Append(request.headers, [name |-> <<c>>, value |-> <<>>]) \in Seq(Header)
      /\ Append(request.headers, [name |-> <<c>>, value |-> <<>>]) # <<>>
  <2> DEFINE h == [name |-> <<c>>, value |-> <<>>]
             hs == request.headers
  <2>1. h \in Header /\ hs \in Seq(Header)
    BY <1>1, <1>2 DEF Request
  <2> HIDE DEF h, hs
  <2>2. Append(hs, h) \in Seq(Header) /\ Len(Append(hs, h)) > 0
    BY <2>1
  <2>3. Append(hs, h) # <<>>
    BY <2>2
  <2> QED
    BY <2>2, <2>3 DEF h, hs
<1> QED
  BY <1>1, <1>3 DEF OpenHeader, Request

\* Writing to the last header of a list that has one keeps the list.
LEMMA AddToLastType ==
  ASSUME TypeOK, NEW c \in Char, request.headers # <<>>
  PROVE  /\ AddToName(c) \in Request /\ AddToName(c).headers # <<>>
         /\ AddToValue(c) \in Request /\ AddToValue(c).headers # <<>>
<1> DEFINE hs == request.headers
           n == Len(hs)
<1>1. request \in Request /\ hs \in Seq(Header) /\ hs # <<>>
  BY DEF TypeOK, Request
<1>2. n \in 1..Len(hs) /\ hs[n] \in Header
  BY <1>1
<1>3. /\ Append(hs[n].name, c) \in Seq(Char)
      /\ Append(hs[n].value, c) \in Seq(Char)
  BY <1>2 DEF Header
<1> HIDE DEF n
<1>4. /\ [hs[n] EXCEPT !.name = Append(@, c)] \in Header
      /\ [hs[n] EXCEPT !.value = Append(@, c)] \in Header
  BY <1>2, <1>3 DEF Header
<1>5. ASSUME NEW h \in Header
      PROVE  [hs EXCEPT ![n] = h] \in Seq(Header) /\ [hs EXCEPT ![n] = h] # <<>>
  <2> HIDE DEF hs
  <2>1. Len([hs EXCEPT ![n] = h]) = Len(hs) /\ [hs EXCEPT ![n] = h] \in Seq(Header)
    BY <1>1, <1>2
  <2> QED
    BY <1>1, <1>2, <2>1
<1>6. ASSUME NEW new \in Seq(Header), new # <<>>
      PROVE  [request EXCEPT !.headers = new] \in Request /\ [request EXCEPT !.headers = new].headers # <<>>
  BY <1>1, <1>6 DEF Request
<1>7. AddToName(c) \in Request /\ AddToName(c).headers # <<>>
  <2> DEFINE h == [hs[n] EXCEPT !.name = Append(@, c)]
  <2>1. AddToName(c) = [request EXCEPT !.headers = [hs EXCEPT ![n] = h]]
    BY DEF AddToName, n
  <2>2. h \in Header
    BY <1>4
  <2> HIDE DEF h
  <2>3. [hs EXCEPT ![n] = h] \in Seq(Header) /\ [hs EXCEPT ![n] = h] # <<>>
    BY <2>2, <1>5
  <2> HIDE DEF hs
  <2> QED
    BY <2>1, <2>3, <1>6
<1>8. AddToValue(c) \in Request /\ AddToValue(c).headers # <<>>
  <2> DEFINE h == [hs[n] EXCEPT !.value = Append(@, c)]
  <2>1. AddToValue(c) = [request EXCEPT !.headers = [hs EXCEPT ![n] = h]]
    BY DEF AddToValue, n
  <2>2. h \in Header
    BY <1>4
  <2> HIDE DEF h
  <2>3. [hs EXCEPT ![n] = h] \in Seq(Header) /\ [hs EXCEPT ![n] = h] # <<>>
    BY <2>2, <1>5
  <2> HIDE DEF hs
  <2> QED
    BY <2>1, <2>3, <1>6
<1> QED
  BY <1>7, <1>8

\* A step that keeps a character needs a header where its state does.
LEMMA StoreSound ==
  ASSUME NEW s \in State, NEW r \in Request, Store(s, r), s \in InHeader => r.headers # <<>>
  PROVE  Sound(state', request') /\ result' = result
  BY DEF Store, Goto, Sound

\* Every step of the automaton on a character keeps the invariant.
LEMMA ConsumeSound ==
  ASSUME IInv, NEW c \in Char, result = "indeterminate", Consume(c)
  PROVE  Sound(state', request') /\ result' \in {"good", "bad", "indeterminate"}
<1>0. TypeOK /\ request \in Request
  BY DEF IInv, TypeOK, Request
<1>1. CASE Reject
  BY <1>1, RejectSound
<1>2. ASSUME NEW s \in State \ InHeader, Skip(s)
      PROVE  Sound(state', request') /\ result' = result
  BY <1>2, SkipSound
<1>3. ASSUME NEW s \in State, Skip(s), state \in InHeader
      PROVE  Sound(state', request') /\ result' = result
  BY <1>3, SkipSound DEF IInv
<1>4. ASSUME NEW s \in State, NEW r \in Request, Store(s, r), s \notin InHeader \/ r.headers # <<>>
      PROVE  Sound(state', request') /\ result' = result
  BY <1>4, StoreSound
<1>5. CASE ConsumeAwaited(c)
  <2>1. CASE Skip(Following[state])
    <3>1. /\ Following[state] \in State
          /\ Following[state] \notin InHeader \/ state \in InHeader
      BY <1>5 DEF ConsumeAwaited, Awaited, Following, State, InHeader
    <3> QED
      BY <2>1, <3>1, <1>2, <1>3
  <2> QED
    BY <1>1, <1>5, <2>1 DEF ConsumeAwaited
<1>6. CASE ConsumeMethod(c)
  <2>1. [request EXCEPT !.method = Append(@, c)] \in Request
    <3>1. request.method \in Seq(Char)
      BY <1>0 DEF Request
    <3>2. Append(request.method, c) \in Seq(Char)
      BY <3>1
    <3> QED
      BY <1>0, <3>2 DEF Request
  <2> QED
    BY <1>1, <1>2, <1>4, <1>6, <2>1 DEF ConsumeMethod, State, InHeader
<1>7. CASE ConsumeUri(c)
  <2>1. [request EXCEPT !.uri = Append(@, c)] \in Request
    <3>1. request.uri \in Seq(Char)
      BY <1>0 DEF Request
    <3>2. Append(request.uri, c) \in Seq(Char)
      BY <3>1
    <3> QED
      BY <1>0, <3>2 DEF Request
  <2> QED
    BY <1>1, <1>2, <1>4, <1>7, <2>1 DEF ConsumeUri, State, InHeader
<1>8. CASE ConsumeMajor(c) \/ ConsumeMinor(c)
  <2>1. /\ [request EXCEPT !.major = @ + 1] \in Request
        /\ [request EXCEPT !.minor = @ + 1] \in Request
    <3>1. request.major + 1 \in Nat /\ request.minor + 1 \in Nat
      BY <1>0 DEF Request
    <3> QED
      BY <1>0, <3>1 DEF Request
  <2> QED
    BY <1>1, <1>2, <1>4, <1>8, <2>1 DEF ConsumeMajor, ConsumeMinor, State, InHeader
<1>9. CASE ConsumeHeaderLine(c)
  <2>1. CASE request.headers # <<>> /\ Skip("header_lws")
    BY <2>1, SkipSound DEF State
  <2>2. OpenHeader(c) \in Request /\ OpenHeader(c).headers # <<>>
    BY <1>0, OpenHeaderType
  <2> QED
    BY <1>1, <1>2, <1>4, <1>9, <2>1, <2>2 DEF ConsumeHeaderLine, State, InHeader
<1>10. CASE ConsumeHeaderName(c) \/ ConsumeLws(c) \/ ConsumeHeaderValue(c)
  <2>1. state \in InHeader
    BY <1>10 DEF ConsumeHeaderName, ConsumeLws, ConsumeHeaderValue, InHeader
  <2>2. /\ AddToName(c) \in Request /\ AddToName(c).headers # <<>>
        /\ AddToValue(c) \in Request /\ AddToValue(c).headers # <<>>
    BY <1>0, <2>1, AddToLastType DEF IInv
  <2> QED
    BY <1>1, <1>2, <1>3, <1>4, <1>10, <2>1, <2>2
       DEF ConsumeHeaderName, ConsumeLws, ConsumeHeaderValue, State, InHeader
<1>11. CASE ConsumeLast(c)
  BY <1>0, <1>11 DEF ConsumeLast, Sound, IInv, TypeOK, InHeader
<1> QED
  BY <1>5, <1>6, <1>7, <1>8, <1>9, <1>10, <1>11 DEF Consume
-----------------------------------------------------------------------------
\* The automaton starts in the invariant.
LEMMA InitIInv == Init => IInv
  BY DEF Init, IInv, TypeOK, State, InHeader

\* A character taken in or none: the invariant stays.
LEMMA NextIInv == IInv /\ [Next]_vars => IInv'
<1> SUFFICES ASSUME IInv, [Next]_vars PROVE IInv'
  OBVIOUS
<1>1. CASE UNCHANGED vars
  BY <1>1 DEF vars, IInv, TypeOK, InHeader
<1>2. CASE Next
  <2>1. PICK c \in Char : Consume(c) /\ text' = Append(text, c)
    BY <1>2, InputAssumption DEF Next
  <2>2. result = "indeterminate"
    BY <1>2 DEF Next
  <2> QED
    BY <2>1, <2>2, ConsumeSound, SoundStep
<1> QED
  BY <1>1, <1>2

\* request_parser keeps its types, and never calls headers.back() without a
\* header, whatever it is fed.
THEOREM TypeCorrect == Spec => []TypeOK
<1>1. IInv => TypeOK
  BY DEF IInv
<1> QED
  BY <1>1, InitIInv, NextIInv, PTL DEF Spec

-----------------------------------------------------------------------------
(* Induction over positions *)

\* A set of natural numbers has a least one.
LEMMA LeastNatural ==
    ASSUME NEW T, T \subseteq Nat, T # {}
    PROVE  \E n \in T : \A m \in T : m >= n
<1> DEFINE U == {1..n : n \in T}
<1>1. U \subseteq FiniteSubsetsOf(Nat) /\ U # {}
  <2> SUFFICES ASSUME NEW n \in T PROVE 1..n \in FiniteSubsetsOf(Nat)
    OBVIOUS
  <2> QED BY FS_Interval DEF FiniteSubsetsOf
<1>2. IsWellFoundedOn(StrictSubsetOrdering(Nat), FiniteSubsetsOf(Nat))
  BY FS_StrictSubsetOrderingWellFounded
<1> HIDE DEF U
<1>3. PICK X \in U : \A Y \in U : ~(<<Y, X>> \in StrictSubsetOrdering(Nat))
  BY <1>1, <1>2, WFMin
<1>4. PICK n \in T : X = 1..n
  BY <1>3 DEF U
<1>5. ASSUME NEW m \in T, m < n PROVE FALSE
  <2>1. 1..m \in U
    BY DEF U
  <2>2. 1..m \subseteq 1..n /\ n \in 1..n /\ n \notin 1..m /\ 1..n \subseteq Nat /\ 1..m \subseteq Nat
    BY <1>5
  <2>3. <<1..m, 1..n>> \in StrictSubsetOrdering(Nat)
    BY <2>2, Zenon DEF StrictSubsetOrdering
  <2> QED BY <1>3, <1>4, <2>1, <2>3
<1> QED BY <1>5

\* Induction over positions from zero, with a set for the property.
LEMMA PositionInduction ==
    ASSUME NEW n \in Nat, NEW T, 0 \in T, \A k \in 0..n : k \in T /\ k < n => k + 1 \in T
    PROVE  0..n \subseteq T
<1> DEFINE U == {k \in 0..n : k \notin T}
<1> SUFFICES ASSUME U # {} PROVE FALSE
  OBVIOUS
<1>1. PICK k \in U : \A m \in U : m >= k
  <2> U \subseteq Nat
    OBVIOUS
  <2> HIDE DEF U
  <2> QED BY LeastNatural
<1>2. k # 0 /\ k \in 0..n /\ k \notin T
  OBVIOUS
<1>3. k - 1 \in 0..n /\ k - 1 < n /\ (k - 1) + 1 = k /\ ~(k - 1 >= k)
  BY <1>2
<1>4. k - 1 \in T
  BY <1>1, <1>3
<1> QED BY <1>2, <1>3, <1>4
-----------------------------------------------------------------------------
(* A text and what comes before its last characters *)

\* A text with one more character.
LEMMA AppendIs ==
    ASSUME NEW t \in Seq(Char), NEW c \in Char
    PROVE  /\ Append(t, c) \in Seq(Char)
           /\ Len(Append(t, c)) = Len(t) + 1
           /\ Append(t, c)[Len(t) + 1] = c
           /\ Extends(t, Append(t, c))
BY DEF Extends

\* A part of a text is not changed by what comes after it.
LEMMA ExtendsAll ==
    \A t \in Seq(Char), u \in Seq(Char), b \in Nat : \A S : \A e \in 0..Len(t) :
        Extends(t, u) => (All(u, b, e, S) <=> All(t, b, e, S))
BY DEF Extends, All

\* So a part that was a call, a version, a line stays one.
LEMMA ExtendsCall ==
    ASSUME NEW t \in Seq(Char), NEW u \in Seq(Char), Extends(t, u), NEW e \in 0..Len(t), IsCall(t, e)
    PROVE  IsCall(u, e)
<1>1. PICK i \in 2..(e - 1) :
         /\ t[i] = "SP" /\ t[e] = "SP"
         /\ All(t, 0, i - 1, Token) /\ All(t, i, e - 1, Printable \ {"SP"})
  BY DEF IsCall
<1>2. /\ i \in 1..Len(t) /\ e \in 1..Len(t)
      /\ i - 1 \in 0..Len(t) /\ e - 1 \in 0..Len(t) /\ 0 \in Nat /\ i \in Nat
  OBVIOUS
<1>3. u[i] = "SP" /\ u[e] = "SP"
  BY <1>1, <1>2 DEF Extends
<1>4. All(u, 0, i - 1, Token) /\ All(u, i, e - 1, Printable \ {"SP"})
  BY <1>1, <1>2, ExtendsAll
<1> QED
  BY <1>3, <1>4 DEF IsCall

LEMMA ExtendsVersion ==
    ASSUME NEW t \in Seq(Char), NEW u \in Seq(Char), Extends(t, u),
           NEW b \in Nat, NEW e \in 0..Len(t), IsVersion(t, b, e)
    PROVE  IsVersion(u, b, e)
<1>1. PICK dot \in (b + 7)..(e - 1) :
         /\ \A k \in 1..5 : t[b + k] = Http[k]
         /\ All(t, b + 5, dot - 1, {"0"}) /\ t[dot] = "." /\ All(t, dot, e, {"0"})
  BY DEF IsVersion
<1>2. /\ dot \in 1..Len(t) /\ b + 5 \in Nat /\ dot \in Nat
      /\ dot - 1 \in 0..Len(t) /\ \A k \in 1..5 : b + k \in 1..Len(t)
  OBVIOUS
<1>3. u[dot] = "." /\ \A k \in 1..5 : u[b + k] = Http[k]
  BY <1>1, <1>2 DEF Extends
<1>4. All(u, b + 5, dot - 1, {"0"}) /\ All(u, dot, e, {"0"})
  BY <1>1, <1>2, ExtendsAll
<1> QED
  BY <1>3, <1>4 DEF IsVersion

LEMMA ExtendsRequestLine ==
    ASSUME NEW t \in Seq(Char), NEW u \in Seq(Char), Extends(t, u),
           NEW e \in 0..Len(t), IsRequestLine(t, e)
    PROVE  IsRequestLine(u, e)
<1>1. PICK i \in 3..e : IsCall(t, i) /\ IsVersion(t, i, e)
  BY DEF IsRequestLine
<1>2. i \in 0..Len(t) /\ i \in Nat
  OBVIOUS
<1>3. IsCall(u, i) /\ IsVersion(u, i, e)
  BY <1>1, <1>2, ExtendsCall, ExtendsVersion
<1> QED
  BY <1>3 DEF IsRequestLine

LEMMA ExtendsHeader ==
    ASSUME NEW t \in Seq(Char), NEW u \in Seq(Char), Extends(t, u),
           NEW b \in Nat, NEW e \in 0..Len(t), IsHeader(t, b, e)
    PROVE  IsHeader(u, b, e)
<1>1. PICK i \in (b + 2)..(e - 1) :
         /\ t[i] = ":" /\ t[i + 1] = "SP"
         /\ All(t, b, i - 1, Token) /\ All(t, i + 1, e, Printable)
  BY DEF IsHeader
<1>2. i \in 1..Len(t) /\ i + 1 \in 1..Len(t) /\ i - 1 \in 0..Len(t) /\ i + 1 \in Nat
  OBVIOUS
<1>3. u[i] = ":" /\ u[i + 1] = "SP"
  BY <1>1, <1>2 DEF Extends
<1>4. All(u, b, i - 1, Token) /\ All(u, i + 1, e, Printable)
  BY <1>1, <1>2, ExtendsAll
<1> QED
  BY <1>3, <1>4 DEF IsHeader

LEMMA ExtendsFolded ==
    ASSUME NEW t \in Seq(Char), NEW u \in Seq(Char), Extends(t, u),
           NEW b \in Nat, NEW e \in 0..Len(t), IsFolded(t, b, e)
    PROVE  IsFolded(u, b, e)
<1>1. PICK i \in (b + 1)..e : All(t, b, i, White) /\ All(t, i, e, Printable)
  BY DEF IsFolded
<1>2. i \in 0..Len(t) /\ i \in Nat
  OBVIOUS
<1>3. All(u, b, i, White) /\ All(u, i, e, Printable)
  BY <1>1, <1>2, ExtendsAll
<1> QED
  BY <1>3 DEF IsFolded

LEMMA ExtendsFits ==
    ASSUME NEW t \in Seq(Char), NEW u \in Seq(Char), Extends(t, u),
           NEW e \in 1..Len(t), NEW b \in 0..(e - 1), Fits(t, b, e)
    PROVE  Fits(u, b, e)
<1>1. /\ b + 1 < e /\ t[e - 1] = "CR"
      /\ IF b = 0 THEN IsRequestLine(t, e - 2)
         ELSE \/ IsHeader(t, b, e - 2)
              \/ IsFolded(t, b, e - 2) /\ \E f \in 1..(b - 1) : t[f] = "LF"
  BY DEF Fits
<1>2. /\ e - 1 \in 1..Len(t) /\ e - 2 \in 0..Len(t) /\ b \in Nat
      /\ \A f \in 1..(b - 1) : f \in 1..Len(t)
  BY <1>1
<1>3. /\ u[e - 1] = "CR"
      /\ \A f \in 1..(b - 1) : u[f] = t[f]
  BY <1>1, <1>2 DEF Extends
<1>4. /\ IsRequestLine(t, e - 2) => IsRequestLine(u, e - 2)
      /\ IsHeader(t, b, e - 2) => IsHeader(u, b, e - 2)
      /\ IsFolded(t, b, e - 2) => IsFolded(u, b, e - 2)
  BY <1>2, ExtendsRequestLine, ExtendsHeader, ExtendsFolded
<1> QED
  BY <1>1, <1>3, <1>4 DEF Fits

IsStart(t, b, e) ==
    /\ b = 0 \/ t[b] = "LF"
    /\ \A k \in (b + 1)..(e - 1) : t[k] # "LF"

\* There is only one place where a line may begin.
LEMMA StartIs ==
    ASSUME NEW t, NEW e \in Nat, NEW b \in 0..(e - 1), IsStart(t, b, e)
    PROVE  Start(t, e) = b
<1>1. \A a \in 0..(e - 1) : IsStart(t, a, e) => a = b
  <2> SUFFICES ASSUME NEW a \in 0..(e - 1), IsStart(t, a, e), a # b PROVE FALSE
    OBVIOUS
  <2>1. CASE a < b
    <3>1. b \in (a + 1)..(e - 1) /\ b # 0
      BY <2>1
    <3> QED BY <3>1 DEF IsStart
  <2>2. CASE b < a
    <3>1. a \in (b + 1)..(e - 1) /\ a # 0
      BY <2>2
    <3> QED BY <3>1 DEF IsStart
  <2> QED BY <2>1, <2>2
<1> QED
  BY <1>1 DEF Start, IsStart

\* Before every position there is a last line feed, or the beginning.
LEMMA StartExists ==
    ASSUME NEW t \in Seq(Char), NEW e \in 1..Len(t)
    PROVE  Start(t, e) \in 0..(e - 1) /\ IsStart(t, Start(t, e), e)
<1> DEFINE T == {n \in 0..(e - 1) : \E b \in 0..n : IsStart(t, b, n + 1)}
<1>1. e - 1 \in Nat /\ 0 \in 0..(e - 1) /\ e - 1 \in 0..(e - 1) /\ (e - 1) + 1 = e
  OBVIOUS
<1>2. 0 \in T
  <2>1. IsStart(t, 0, 0 + 1)
    BY DEF IsStart
  <2>2. 0 \in 0..0
    OBVIOUS
  <2> QED BY <1>1, <2>1, <2>2
<1>3. \A k \in 0..(e - 1) : k \in T /\ k < e - 1 => k + 1 \in T
  <2> SUFFICES ASSUME NEW k \in 0..(e - 1), k \in T, k < e - 1 PROVE k + 1 \in T
    OBVIOUS
  <2>1. k + 1 \in 0..(e - 1) /\ k + 1 \in 0..(k + 1)
    OBVIOUS
  <2>2. CASE t[k + 1] = "LF"
    <3>1. IsStart(t, k + 1, (k + 1) + 1)
      BY <2>2 DEF IsStart
    <3> QED BY <2>1, <3>1
  <2>3. CASE t[k + 1] # "LF"
    <3>1. PICK b \in 0..k : IsStart(t, b, k + 1)
      OBVIOUS
    <3>2. IsStart(t, b, (k + 1) + 1) /\ b \in 0..(k + 1)
      BY <2>3, <3>1 DEF IsStart
    <3> QED BY <2>1, <3>2
  <2> QED BY <2>2, <2>3
<1> HIDE DEF T
<1>4. e - 1 \in T
  BY <1>1, <1>2, <1>3, PositionInduction
<1> USE DEF T
<1>5. PICK b \in 0..(e - 1) : IsStart(t, b, e)
  BY <1>1, <1>4
<1>6. Start(t, e) = b
  BY <1>5, StartIs
<1> QED
  BY <1>5, <1>6

\* A line begins where it began, whatever comes after it.
LEMMA ExtendsStart ==
    ASSUME NEW t \in Seq(Char), NEW u \in Seq(Char), Extends(t, u), NEW e \in 1..Len(t)
    PROVE  Start(u, e) = Start(t, e)
<1> DEFINE b == Start(t, e)
<1>1. b \in 0..(e - 1) /\ IsStart(t, b, e)
  BY StartExists
<1> HIDE DEF b
<1>2. IsStart(u, b, e)
  BY <1>1 DEF IsStart, Extends
<1>3. Start(u, e) = b
  BY <1>1, <1>2, StartIs
<1> QED
  BY <1>3 DEF b

-----------------------------------------------------------------------------
(* What the parser has read *)

\* What has been read of the line that is being read does not depend on the
\* lines before it.
LEMMA BeginsMore ==
    ASSUME NEW t \in Seq(Char), NEW c \in Char, NEW b \in 0..Len(t), Begins(t, b)
    PROVE  /\ c # "LF" => Begins(Append(t, c), b)
           /\ c = "LF" => Begins(Append(t, c), Len(t) + 1)
<1> DEFINE u == Append(t, c)
<1>1. Len(u) = Len(t) + 1 /\ Extends(t, u) /\ u[Len(t) + 1] = c
  BY AppendIs
<1> HIDE DEF u
<1>2. Begins(u, Len(t) + 1) \/ c # "LF"
  BY <1>1 DEF Begins
<1>3. Begins(u, b) \/ c = "LF"
  BY <1>1 DEF Begins, Extends
<1> QED
  BY <1>2, <1>3 DEF u

\* One more character is one more line feed or none.
LEMMA FeedsMore ==
    ASSUME NEW t \in Seq(Char), NEW c \in Char
    PROVE  Feeds(Append(t, c)) = Feeds(t) \cup (IF c = "LF" THEN {Len(t) + 1} ELSE {})
<1> DEFINE u == Append(t, c)
<1>1. u \in Seq(Char) /\ Len(u) = Len(t) + 1 /\ Extends(t, u) /\ u[Len(t) + 1] = c
  BY AppendIs
<1> HIDE DEF u
<1>2. DOMAIN u = 1..(Len(t) + 1) /\ DOMAIN t = 1..Len(t) /\ Len(t) \in Nat
  BY <1>1
<1>3. Feeds(u) = Feeds(t) \cup (IF c = "LF" THEN {Len(t) + 1} ELSE {})
  BY <1>1, <1>2 DEF Feeds, Extends
<1> QED
  BY <1>3 DEF u

\* The complete lines stay so; one that ends now has to fit.
LEMMA CompleteMore ==
    ASSUME NEW t \in Seq(Char), NEW c \in Char, Complete(t),
           c = "LF" => \E b \in 0..Len(t) : Begins(t, b) /\ Fits(Append(t, c), b, Len(t) + 1)
    PROVE  Complete(Append(t, c))
<1> DEFINE u == Append(t, c)
<1>1. u \in Seq(Char) /\ Len(u) = Len(t) + 1 /\ Extends(t, u)
  BY AppendIs
<1>2. Feeds(u) = Feeds(t) \cup (IF c = "LF" THEN {Len(t) + 1} ELSE {})
  BY FeedsMore
<1>3. c = "LF" => \E b \in 0..Len(t) : Begins(t, b) /\ Fits(u, b, Len(t) + 1)
  OBVIOUS
<1> HIDE DEF u
<1>4. ASSUME NEW e \in Feeds(t)
      PROVE  Fits(u, Start(u, e), e)
  <2>1. e \in 1..Len(t)
    BY DEF Feeds
  <2>2. Start(t, e) \in 0..(e - 1) /\ Start(u, e) = Start(t, e)
    BY <1>1, <2>1, StartExists, ExtendsStart
  <2>3. Fits(t, Start(t, e), e)
    BY DEF Complete
  <2> QED
    BY <1>1, <2>1, <2>2, <2>3, ExtendsFits
<1>5. ASSUME c = "LF"
      PROVE  Fits(u, Start(u, Len(t) + 1), Len(t) + 1)
  <2>1. PICK b \in 0..Len(t) : Begins(t, b) /\ Fits(u, b, Len(t) + 1)
    BY <1>3, <1>5
  <2>2. IsStart(u, b, Len(t) + 1)
    BY <1>1, <2>1 DEF IsStart, Begins, Extends
  <2>3. Len(t) + 1 \in Nat /\ b \in 0..((Len(t) + 1) - 1)
    OBVIOUS
  <2>4. Start(u, Len(t) + 1) = b
    BY <2>2, <2>3, StartIs
  <2> QED
    BY <2>1, <2>4
<1>6. Complete(u)
  BY <1>2, <1>4, <1>5 DEF Complete
<1> QED
  BY <1>6 DEF u

\* Reads by the kind of line.
LEMMA ReadsLine ==
    ASSUME NEW t \in Seq(Char), NEW s
    PROVE  /\ s \in HeaderStates =>
                (Reads(s, t) <=> /\ Complete(t)
                                 /\ \E b \in 1..Len(t) : Begins(t, b) /\ InHeaderLine(s, t, b, Len(t)))
           /\ s \notin HeaderStates =>
                (Reads(s, t) <=> Complete(t) /\ Begins(t, 0) /\ InRequestLine(s, t, Len(t)))
BY DEF Reads

\* On in the request line.
LEMMA RequestLineOn ==
    ASSUME NEW t \in Seq(Char), NEW c \in Char \ {"LF"},
           NEW s, s \notin HeaderStates, Reads(s, t),
           NEW r, r \notin HeaderStates,
           InRequestLine(s, t, Len(t)) => InRequestLine(r, Append(t, c), Len(t) + 1)
    PROVE  Reads(r, Append(t, c))
<1> DEFINE u == Append(t, c)
<1>1. Complete(t) /\ Begins(t, 0) /\ InRequestLine(s, t, Len(t)) /\ 0 \in 0..Len(t) /\ c # "LF"
  BY ReadsLine
<1>2. u \in Seq(Char) /\ Len(u) = Len(t) + 1 /\ Complete(u) /\ Begins(u, 0)
  BY <1>1, AppendIs, BeginsMore, CompleteMore
<1>3. InRequestLine(r, u, Len(t) + 1)
  BY <1>1
<1> HIDE DEF u
<1>4. Reads(r, u)
  BY <1>2, <1>3, ReadsLine
<1> QED
  BY <1>4 DEF u

\* On in a header.
LEMMA HeaderLineOn ==
    ASSUME NEW t \in Seq(Char), NEW c \in Char \ {"LF"},
           NEW s \in HeaderStates, Reads(s, t), NEW r \in HeaderStates,
           \A b \in 1..Len(t) : InHeaderLine(s, t, b, Len(t)) => InHeaderLine(r, Append(t, c), b, Len(t) + 1)
    PROVE  Reads(r, Append(t, c))
<1> DEFINE u == Append(t, c)
<1>1. PICK b \in 1..Len(t) : Complete(t) /\ Begins(t, b) /\ InHeaderLine(s, t, b, Len(t))
  BY ReadsLine
<1>2. b \in 0..Len(t) /\ c # "LF"
  OBVIOUS
<1>3. u \in Seq(Char) /\ Len(u) = Len(t) + 1 /\ Complete(u) /\ Begins(u, b)
  BY <1>1, <1>2, AppendIs, BeginsMore, CompleteMore
<1>4. InHeaderLine(r, u, b, Len(t) + 1) /\ b \in 1..(Len(t) + 1)
  BY <1>1
<1> HIDE DEF u
<1>5. Reads(r, u)
  BY <1>3, <1>4, ReadsLine
<1> QED
  BY <1>5 DEF u

\* On to the next line.
LEMMA LineEnds ==
    ASSUME NEW t \in Seq(Char), NEW b \in 0..Len(t), Complete(t), Begins(t, b),
           Fits(Append(t, "LF"), b, Len(t) + 1)
    PROVE  Reads("header_line_start", Append(t, "LF"))
<1> DEFINE u == Append(t, "LF")
<1>0. "LF" \in Char
  BY DEF Char
<1>1. u \in Seq(Char) /\ Len(u) = Len(t) + 1 /\ Complete(u) /\ Begins(u, Len(t) + 1)
  BY <1>0, AppendIs, BeginsMore, CompleteMore
<1>2. Len(t) + 1 \in 1..(Len(t) + 1) /\ InHeaderLine("header_line_start", u, Len(t) + 1, Len(t) + 1)
  BY DEF InHeaderLine
<1> HIDE DEF u
<1>3. Reads("header_line_start", u)
  BY <1>1, <1>2, ReadsLine DEF HeaderStates
<1> QED
  BY <1>3 DEF u

\* A class of characters, and one more character.
LEMMA AllMore ==
    ASSUME NEW t \in Seq(Char), NEW c \in Char, NEW b \in 0..Len(t), NEW S
    PROVE  /\ \A e \in 0..Len(t) : All(Append(t, c), b, e, S) <=> All(t, b, e, S)
           /\ All(Append(t, c), b, Len(t) + 1, S) <=> All(t, b, Len(t), S) /\ c \in S
<1> DEFINE u == Append(t, c)
           n == Len(t)
<1>1. n \in Nat /\ u[n + 1] = c /\ \A k \in 1..n : u[k] = t[k]
  BY AppendIs DEF Extends
<1> HIDE DEF u, n
<1>2. n + 1 \in (b + 1)..(n + 1)
  BY <1>1 DEF n
<1>3. /\ \A e \in 0..n : All(u, b, e, S) <=> All(t, b, e, S)
      /\ All(u, b, n + 1, S) <=> All(t, b, n, S) /\ c \in S
  BY <1>1, <1>2 DEF All, n
<1> QED
  BY <1>3 DEF u, n

\* The letters of Http, one by one.
LEMMA HttpIs == Http[1] = "H" /\ Http[2] = "T" /\ Http[3] = "T" /\ Http[4] = "P" /\ Http[5] = "/"
BY DEF Http

-----------------------------------------------------------------------------
(* The steps in the request line *)

\* A character of the method.
LEMMA OnMethod ==
    ASSUME NEW t \in Seq(Char), NEW c \in Token, Reads("method_start", t) \/ Reads("method", t)
    PROVE  Reads("method", Append(t, c))
<1> DEFINE u == Append(t, c)
<1>0. c \in Char \ {"LF"} /\ Len(t) \in Nat
  BY DEF Token, Char
<1>1. InRequestLine("method_start", t, Len(t)) \/ InRequestLine("method", t, Len(t))
         => All(t, 0, Len(t), Token)
  BY <1>0 DEF InRequestLine, All
<1>2. All(u, 0, Len(t) + 1, Token) <=> All(t, 0, Len(t), Token) /\ c \in Token
  BY <1>0, AllMore
<1> HIDE DEF u
<1>3. InRequestLine("method_start", t, Len(t)) \/ InRequestLine("method", t, Len(t))
         => InRequestLine("method", u, Len(t) + 1)
  BY <1>0, <1>1, <1>2 DEF InRequestLine
<1> QED
  BY <1>0, <1>3, RequestLineOn DEF u, HeaderStates

\* The space behind the method.
LEMMA OnMethodEnd ==
    ASSUME NEW t \in Seq(Char), Reads("method", t)
    PROVE  Reads("uri", Append(t, "SP"))
<1> DEFINE u == Append(t, "SP")
           n == Len(t)
<1>0. "SP" \in Char \ {"LF"} /\ n \in Nat
  BY DEF Char
<1>1. ASSUME InRequestLine("method", t, n)
      PROVE  InRequestLine("uri", u, n + 1)
  <2>1. n > 0 /\ All(t, 0, n, Token)
    BY <1>1 DEF InRequestLine
  <2>2. u[n + 1] = "SP" /\ All(u, 0, n, Token)
    BY <1>0, <2>1, AppendIs, AllMore
  <2> HIDE DEF u, n
  <2>3. n + 1 \in 2..(n + 1) /\ All(u, n + 1, n + 1, Printable \ {"SP"}) /\ (n + 1) - 1 = n
    BY <1>0, <2>1 DEF All
  <2>4. InUri(u, n + 1)
    BY <2>2, <2>3 DEF InUri
  <2> QED
    BY <2>4 DEF InRequestLine
<1> QED
  BY <1>0, <1>1, RequestLineOn DEF HeaderStates

\* A character of the uri.
LEMMA OnUri ==
    ASSUME NEW t \in Seq(Char), NEW c \in Printable \ {"SP"}, Reads("uri", t)
    PROVE  Reads("uri", Append(t, c))
<1> DEFINE u == Append(t, c)
           n == Len(t)
<1>0. c \in Char \ {"LF"} /\ c \in Char /\ n \in Nat
  BY DEF Printable
<1>1. ASSUME InRequestLine("uri", t, n)
      PROVE  InRequestLine("uri", u, n + 1)
  <2>1. PICK i \in 2..n :
           t[i] = "SP" /\ All(t, 0, i - 1, Token) /\ All(t, i, n, Printable \ {"SP"})
    BY <1>1 DEF InRequestLine, InUri
  <2>2. i - 1 \in 0..n /\ i \in 0..n /\ i \in 1..n /\ i \in 2..(n + 1) /\ 0 \in 0..n
    BY <1>0
  <2>3. u[i] = "SP" /\ All(u, 0, i - 1, Token) /\ All(u, i, n + 1, Printable \ {"SP"})
    BY <1>0, <2>1, <2>2, AppendIs, AllMore, SMTT(30) DEF Extends
  <2> HIDE DEF u, n
  <2>4. InUri(u, n + 1)
    BY <2>2, <2>3 DEF InUri
  <2> QED
    BY <2>4 DEF InRequestLine
<1> QED
  BY <1>0, <1>1, RequestLineOn DEF HeaderStates

\* The space behind the uri.
LEMMA OnUriEnd ==
    ASSUME NEW t \in Seq(Char), Reads("uri", t)
    PROVE  Reads("http_version_h", Append(t, "SP"))
<1> DEFINE u == Append(t, "SP")
           n == Len(t)
<1>0. "SP" \in Char \ {"LF"} /\ "SP" \in Char /\ n \in Nat
  BY DEF Char
<1>1. ASSUME InRequestLine("uri", t, n)
      PROVE  InRequestLine("http_version_h", u, n + 1)
  <2>1. PICK i \in 2..n :
           t[i] = "SP" /\ All(t, 0, i - 1, Token) /\ All(t, i, n, Printable \ {"SP"})
    BY <1>1 DEF InRequestLine, InUri
  <2>2. /\ i - 1 \in 0..n /\ i \in 0..n /\ i \in 1..n /\ i \in 2..((n + 1) - 1) /\ 0 \in 0..n
        /\ n \in 0..n /\ (n + 1) - 1 = n
    BY <1>0
  <2>3. u[n + 1] = "SP" /\ u[i] = "SP" /\ All(u, 0, i - 1, Token) /\ All(u, i, n, Printable \ {"SP"})
    BY <1>0, <2>1, <2>2, AppendIs, AllMore DEF Extends
  <2> HIDE DEF u, n
  <2>4. IsCall(u, n + 1)
    BY <2>2, <2>3 DEF IsCall
  <2>5. (n + 1) - 0 = n + 1 /\ n + 1 >= 3
    BY <1>0, <2>2
  <2>6. InVersion(u, n + 1, 0)
    BY <2>4, <2>5 DEF InVersion
  <2> QED
    BY <2>6 DEF InRequestLine
<1> QED
  BY <1>0, <1>1, RequestLineOn DEF HeaderStates

\* One more letter of the version.
LEMMA VersionMore ==
    ASSUME NEW t \in Seq(Char), NEW m \in 0..4, InVersion(t, Len(t), m), Http[m + 1] \in Char
    PROVE  InVersion(Append(t, Http[m + 1]), Len(t) + 1, m + 1)
<1> DEFINE c == Http[m + 1]
           u == Append(t, c)
           n == Len(t)
<1>1. n \in Nat /\ n - m >= 3 /\ IsCall(t, n - m) /\ \A k \in 1..m : t[n - m + k] = Http[k]
  BY DEF InVersion
<1>2. u \in Seq(Char) /\ u[n + 1] = c /\ Extends(t, u) /\ \A k \in 1..n : u[k] = t[k]
  BY AppendIs DEF Extends
<1>3. n - m \in 0..n /\ (n + 1) - (m + 1) = n - m
  BY <1>1
<1>4. IsCall(u, n - m)
  <2> HIDE DEF u, c
  <2> QED BY <1>1, <1>2, <1>3, ExtendsCall
<1> HIDE DEF u, n, c
<1>5. ASSUME NEW k \in 1..(m + 1)
      PROVE  u[n - m + k] = Http[k]
  <2>1. CASE k = m + 1
    BY <1>1, <1>2, <2>1 DEF c
  <2>2. CASE k \in 1..m
    <3>1. n - m + k \in 1..n
      BY <1>1, <2>2
    <3> QED BY <1>1, <1>2, <2>2, <3>1
  <2> QED BY <2>1, <2>2
<1>6. InVersion(u, n + 1, m + 1)
  BY <1>1, <1>3, <1>4, <1>5 DEF InVersion
<1> QED
  BY <1>6 DEF u, n, c

\* The five characters of the version.
LEMMA OnVersion ==
    ASSUME NEW t \in Seq(Char)
    PROVE  /\ Reads("http_version_h", t) => Reads("http_version_t_1", Append(t, "H"))
           /\ Reads("http_version_t_1", t) => Reads("http_version_t_2", Append(t, "T"))
           /\ Reads("http_version_t_2", t) => Reads("http_version_p", Append(t, "T"))
           /\ Reads("http_version_p", t) => Reads("http_version_slash", Append(t, "P"))
           /\ Reads("http_version_slash", t) => Reads("http_version_major_start", Append(t, "/"))
<1>0. {"H", "T", "P", "/"} \subseteq Char \ {"LF"} /\ {"H", "T", "P", "/"} \subseteq Char
  BY DEF Char
<1> DEFINE n == Len(t)
<1>1. \A m \in 0..4 : InVersion(t, n, m) /\ Http[m + 1] \in Char => InVersion(Append(t, Http[m + 1]), n + 1, m + 1)
  BY VersionMore
<1>2. /\ InVersion(t, n, 0) => InVersion(Append(t, "H"), n + 1, 1)
      /\ InVersion(t, n, 1) => InVersion(Append(t, "T"), n + 1, 2)
      /\ InVersion(t, n, 2) => InVersion(Append(t, "T"), n + 1, 3)
      /\ InVersion(t, n, 3) => InVersion(Append(t, "P"), n + 1, 4)
      /\ InVersion(t, n, 4) => InVersion(Append(t, "/"), n + 1, 5)
  <2> HIDE DEF n
  <2>1. /\ 0 + 1 = 1 /\ 1 + 1 = 2 /\ 2 + 1 = 3 /\ 3 + 1 = 4 /\ 4 + 1 = 5
        /\ 0 \in 0..4 /\ 1 \in 0..4 /\ 2 \in 0..4 /\ 3 \in 0..4 /\ 4 \in 0..4
    OBVIOUS
  <2> QED BY <1>0, <1>1, <2>1, HttpIs
<1> HIDE DEF n
<1>3. /\ InRequestLine("http_version_h", t, n) => InRequestLine("http_version_t_1", Append(t, "H"), n + 1)
      /\ InRequestLine("http_version_t_1", t, n) => InRequestLine("http_version_t_2", Append(t, "T"), n + 1)
      /\ InRequestLine("http_version_t_2", t, n) => InRequestLine("http_version_p", Append(t, "T"), n + 1)
      /\ InRequestLine("http_version_p", t, n) => InRequestLine("http_version_slash", Append(t, "P"), n + 1)
      /\ InRequestLine("http_version_slash", t, n) => InRequestLine("http_version_major_start", Append(t, "/"), n + 1)
  BY <1>2 DEF InRequestLine
<1>4. ASSUME NEW c \in {"H", "T", "P", "/"}, NEW s, NEW r, s \notin HeaderStates, r \notin HeaderStates,
             InRequestLine(s, t, n) => InRequestLine(r, Append(t, c), n + 1), Reads(s, t)
      PROVE  Reads(r, Append(t, c))
  BY <1>0, <1>4, RequestLineOn DEF n
<1> QED
  BY <1>3, <1>4 DEF HeaderStates

\* A digit before the dot.
LEMMA OnMajor ==
    ASSUME NEW t \in Seq(Char), Reads("http_version_major_start", t) \/ Reads("http_version_major", t)
    PROVE  Reads("http_version_major", Append(t, "0"))
<1> DEFINE u == Append(t, "0")
           n == Len(t)
<1>0. "0" \in Char \ {"LF"} /\ "0" \in Char /\ n \in Nat
  BY DEF Char
<1>1. ASSUME InRequestLine("http_version_major_start", t, n) \/ InRequestLine("http_version_major", t, n)
      PROVE  InRequestLine("http_version_major", u, n + 1)
  <2>1. PICK j \in 8..n : InVersion(t, j, 5) /\ All(t, j, n, {"0"})
    <3>1. CASE InVersion(t, n, 5)
      <4>1. n \in 8..n /\ All(t, n, n, {"0"})
        BY <1>0, <3>1 DEF InVersion, All
      <4> QED BY <3>1, <4>1
    <3>2. CASE InMajor(t, n)
      <4>1. \A j \in 8..(n - 1) : j \in 8..n
        BY <1>0
      <4> QED BY <3>2, <4>1 DEF InMajor
    <3> QED BY <1>1, <3>1, <3>2 DEF InRequestLine
  <2>2. j \in 8..((n + 1) - 1) /\ j \in 0..n /\ j - 5 \in 0..n /\ \A k \in 1..5 : j - 5 + k \in 1..n
    BY <1>0
  <2>3. u \in Seq(Char) /\ Extends(t, u) /\ All(u, j, n + 1, {"0"})
    BY <1>0, <2>1, <2>2, AppendIs, AllMore
  <2> HIDE DEF u
  <2>4. InVersion(u, j, 5)
    <3>1. IsCall(u, j - 5)
      BY <2>1, <2>2, <2>3, ExtendsCall DEF InVersion
    <3>2. \A k \in 1..5 : u[j - 5 + k] = Http[k]
      BY <2>1, <2>2, <2>3 DEF InVersion, Extends
    <3> QED BY <2>1, <3>1, <3>2 DEF InVersion
  <2>5. InMajor(u, n + 1)
    BY <2>2, <2>3, <2>4 DEF InMajor
  <2> QED
    BY <2>5 DEF InRequestLine
<1> QED
  BY <1>0, <1>1, RequestLineOn DEF HeaderStates

\* The digits before the dot, with more behind them.
LEMMA MajorStays ==
    ASSUME NEW t \in Seq(Char), NEW u \in Seq(Char), Extends(t, u), NEW e \in 0..Len(t), InMajor(t, e)
    PROVE  InMajor(u, e)
<1>1. PICK j \in 8..(e - 1) : InVersion(t, j, 5) /\ All(t, j, e, {"0"})
  BY DEF InMajor
<1>2. j \in Nat /\ j - 5 \in 0..Len(t) /\ \A k \in 1..5 : j - 5 + k \in 1..Len(t)
  OBVIOUS
<1>3. All(u, j, e, {"0"}) /\ IsCall(u, j - 5)
  BY <1>1, <1>2, ExtendsAll, ExtendsCall DEF InVersion
<1>4. \A k \in 1..5 : u[j - 5 + k] = Http[k]
  BY <1>1, <1>2 DEF InVersion, Extends
<1> QED
  BY <1>1, <1>3, <1>4 DEF InMajor, InVersion

\* The dot.
LEMMA OnMajorEnd ==
    ASSUME NEW t \in Seq(Char), Reads("http_version_major", t)
    PROVE  Reads("http_version_minor_start", Append(t, "."))
<1> DEFINE u == Append(t, ".")
           n == Len(t)
<1>0. "." \in Char \ {"LF"} /\ "." \in Char /\ n \in Nat
  BY DEF Char
<1>1. ASSUME InRequestLine("http_version_major", t, n)
      PROVE  InRequestLine("http_version_minor_start", u, n + 1)
  <2>1. InMajor(u, n) /\ u[n + 1] = "."
    <3>1. InMajor(t, n) /\ n \in 0..Len(t)
      BY <1>0, <1>1 DEF InRequestLine
    <3> QED BY <1>0, <3>1, AppendIs, MajorStays
  <2> HIDE DEF u, n
  <2>2. n + 1 > 0 /\ (n + 1) - 1 = n
    BY <1>0
  <2> QED
    BY <2>1, <2>2 DEF InRequestLine
<1> QED
  BY <1>0, <1>1, RequestLineOn DEF HeaderStates

\* A digit behind the dot.
LEMMA OnMinor ==
    ASSUME NEW t \in Seq(Char), Reads("http_version_minor_start", t) \/ Reads("http_version_minor", t)
    PROVE  Reads("http_version_minor", Append(t, "0"))
<1> DEFINE u == Append(t, "0")
           n == Len(t)
<1>0. "0" \in Char \ {"LF"} /\ "0" \in Char /\ n \in Nat
  BY DEF Char
<1>u. u \in Seq(Char) /\ Extends(t, u) /\ u[n + 1] = "0"
  BY <1>0, AppendIs
<1>1. ASSUME InRequestLine("http_version_minor_start", t, n)
      PROVE  InRequestLine("http_version_minor", u, n + 1)
  <2>1. n > 0 /\ t[n] = "." /\ InMajor(t, n - 1)
    BY <1>1 DEF InRequestLine
  <2>2. u[n] = "." /\ InMajor(u, n - 1)
    <3>1. n \in 1..n /\ n - 1 \in 0..n
      BY <1>0, <2>1
    <3> HIDE DEF u
    <3> QED BY <1>u, <2>1, <3>1, MajorStays DEF Extends
  <2> HIDE DEF u, n
  <2>3. PICK j \in 8..((n - 1) - 1) : InVersion(u, j, 5) /\ All(u, j, n - 1, {"0"})
    BY <2>2 DEF InMajor
  <2>4. All(u, n, n + 1, {"0"}) /\ j - 5 \in 3..(n + 1) /\ n \in ((j - 5) + 7)..((n + 1) - 1) /\ (j - 5) + 5 = j
    BY <1>0, <1>u DEF All
  <2>5. IsVersion(u, j - 5, n + 1)
    BY <2>2, <2>3, <2>4 DEF IsVersion, InVersion
  <2>6. IsRequestLine(u, n + 1)
    BY <2>3, <2>4, <2>5 DEF IsRequestLine, InVersion
  <2> QED
    BY <2>6 DEF InRequestLine
<1>2. ASSUME InRequestLine("http_version_minor", t, n)
      PROVE  InRequestLine("http_version_minor", u, n + 1)
  <2>1. PICK i \in 3..n : IsCall(t, i) /\ IsVersion(t, i, n)
    BY <1>2 DEF InRequestLine, IsRequestLine
  <2>2. PICK dot \in (i + 7)..(n - 1) :
           /\ \A k \in 1..5 : t[i + k] = Http[k]
           /\ All(t, i + 5, dot - 1, {"0"}) /\ t[dot] = "." /\ All(t, dot, n, {"0"})
    BY <2>1 DEF IsVersion
  <2>3. /\ i \in 0..n /\ dot \in 0..n /\ dot \in 1..n /\ dot - 1 \in 0..n /\ i + 5 \in 0..n
        /\ \A k \in 1..5 : i + k \in 1..n
    BY <1>0
  <2>4. /\ IsCall(u, i)
        /\ \A k \in 1..5 : u[i + k] = Http[k]
        /\ u[dot] = "."
    <3> HIDE DEF u
    <3> QED BY <1>u, <2>1, <2>2, <2>3, ExtendsCall DEF Extends
  <2>5. All(u, i + 5, dot - 1, {"0"}) /\ All(u, dot, n + 1, {"0"})
    BY <1>0, <2>2, <2>3, AllMore
  <2> HIDE DEF u, n
  <2>6. dot \in (i + 7)..((n + 1) - 1) /\ i \in 3..(n + 1)
    BY <1>0
  <2>7. IsVersion(u, i, n + 1)
    BY <2>4, <2>5, <2>6 DEF IsVersion
  <2>8. IsRequestLine(u, n + 1)
    BY <2>4, <2>6, <2>7 DEF IsRequestLine
  <2> QED
    BY <2>8 DEF InRequestLine
<1> QED
  BY <1>0, <1>1, <1>2, RequestLineOn DEF HeaderStates

\* The end of the request line, its carriage return and its line feed.
LEMMA OnMinorEnd ==
    ASSUME NEW t \in Seq(Char), Reads("http_version_minor", t)
    PROVE  Reads("expecting_newline_1", Append(t, "CR"))
<1> DEFINE u == Append(t, "CR")
           n == Len(t)
<1>0. "CR" \in Char \ {"LF"} /\ "CR" \in Char /\ n \in Nat
  BY DEF Char
<1>1. ASSUME InRequestLine("http_version_minor", t, n)
      PROVE  InRequestLine("expecting_newline_1", u, n + 1)
  <2>1. IsRequestLine(u, n) /\ u[n + 1] = "CR"
    <3>1. IsRequestLine(t, n) /\ n \in 0..Len(t)
      BY <1>0, <1>1 DEF InRequestLine
    <3> QED BY <1>0, <3>1, AppendIs, ExtendsRequestLine
  <2> HIDE DEF u, n
  <2>2. n + 1 > 0 /\ (n + 1) - 1 = n
    BY <1>0
  <2> QED
    BY <2>1, <2>2 DEF InRequestLine
<1> QED
  BY <1>0, <1>1, RequestLineOn DEF HeaderStates

LEMMA OnRequestLineEnd ==
    ASSUME NEW t \in Seq(Char), Reads("expecting_newline_1", t)
    PROVE  Reads("header_line_start", Append(t, "LF"))
<1> DEFINE u == Append(t, "LF")
           n == Len(t)
<1>0. "LF" \in Char /\ n \in Nat /\ 0 \in 0..n
  BY DEF Char
<1>1. Complete(t) /\ Begins(t, 0) /\ n > 0 /\ t[n] = "CR" /\ IsRequestLine(t, n - 1)
  BY ReadsLine DEF HeaderStates, InRequestLine
<1>2. u \in Seq(Char) /\ Extends(t, u) /\ n - 1 \in 0..n /\ n \in 1..n
  BY <1>0, <1>1, AppendIs
<1>3. 1 < n
  BY <1>0, <1>1 DEF IsRequestLine
<1>4. Fits(u, 0, n + 1)
  <2>1. IsRequestLine(u, n - 1) /\ u[n] = "CR"
    <3> HIDE DEF u
    <3> QED BY <1>1, <1>2, ExtendsRequestLine DEF Extends
  <2> HIDE DEF u, n
  <2>2. (n + 1) - 1 = n /\ (n + 1) - 2 = n - 1 /\ 0 + 1 < n + 1
    BY <1>0, <1>3
  <2> QED BY <2>1, <2>2 DEF Fits
<1> QED
  BY <1>0, <1>1, <1>4, LineEnds

-----------------------------------------------------------------------------
(* The steps in a header *)

\* Whether there is a line before the one at b does not change.
LEMMA LaterStays ==
    ASSUME NEW t \in Seq(Char), NEW u \in Seq(Char), Extends(t, u), NEW b \in 1..Len(t)
    PROVE  Later(u, b) <=> Later(t, b)
<1>1. \A f \in 1..(b - 1) : f \in 1..Len(t)
  OBVIOUS
<1> QED
  BY <1>1 DEF Later, Extends

\* A character of a name.
LEMMA OnName ==
    ASSUME NEW t \in Seq(Char), NEW c \in Token, NEW s \in {"header_line_start", "header_name"}, Reads(s, t)
    PROVE  Reads("header_name", Append(t, c))
<1> DEFINE u == Append(t, c)
           n == Len(t)
<1>0. c \in Char \ {"LF"} /\ c \in Char /\ n \in Nat
  BY DEF Token, Char
<1>1. ASSUME NEW b \in 1..n, InHeaderLine(s, t, b, n)
      PROVE  InHeaderLine("header_name", u, b, n + 1)
  <2>1. n >= b /\ All(t, b, n, Token)
    BY <1>0, <1>1 DEF InHeaderLine, All
  <2>2. All(u, b, n + 1, Token)
    BY <1>0, <2>1, AllMore
  <2> HIDE DEF u, n
  <2>3. n + 1 > b
    BY <1>0, <2>1
  <2> QED
    BY <2>2, <2>3 DEF InHeaderLine
<1> QED
  BY <1>0, <1>1, HeaderLineOn DEF HeaderStates

\* The colon.
LEMMA OnColon ==
    ASSUME NEW t \in Seq(Char), Reads("header_name", t)
    PROVE  Reads("space_before_header_value", Append(t, ":"))
<1> DEFINE u == Append(t, ":")
           n == Len(t)
<1>0. ":" \in Char \ {"LF"} /\ ":" \in Char /\ n \in Nat
  BY DEF Char
<1>1. ASSUME NEW b \in 1..n, InHeaderLine("header_name", t, b, n)
      PROVE  InHeaderLine("space_before_header_value", u, b, n + 1)
  <2>1. n > b /\ All(t, b, n, Token)
    BY <1>1 DEF InHeaderLine
  <2>2. All(u, b, n, Token) /\ u[n + 1] = ":"
    BY <1>0, <2>1, AllMore, AppendIs
  <2> HIDE DEF u, n
  <2>3. n + 1 > b + 1 /\ (n + 1) - 1 = n
    BY <1>0, <2>1
  <2> QED
    BY <2>2, <2>3 DEF InHeaderLine
<1> QED
  BY <1>0, <1>1, HeaderLineOn DEF HeaderStates

\* The space behind the colon.
LEMMA OnSpace ==
    ASSUME NEW t \in Seq(Char), Reads("space_before_header_value", t)
    PROVE  Reads("header_value", Append(t, "SP"))
<1> DEFINE u == Append(t, "SP")
           n == Len(t)
<1>0. "SP" \in Char \ {"LF"} /\ "SP" \in Char /\ n \in Nat
  BY DEF Char
<1>1. ASSUME NEW b \in 1..n, InHeaderLine("space_before_header_value", t, b, n)
      PROVE  InHeaderLine("header_value", u, b, n + 1)
  <2>1. n > b + 1 /\ t[n] = ":" /\ All(t, b, n - 1, Token)
    BY <1>1 DEF InHeaderLine
  <2>2. n - 1 \in 0..n /\ n \in 1..n
    BY <1>0, <2>1
  <2>3. All(u, b, n - 1, Token) /\ u[n] = ":" /\ u[n + 1] = "SP"
    BY <1>0, <2>1, <2>2, AllMore, AppendIs DEF Extends
  <2> HIDE DEF u, n
  <2>4. n \in (b + 2)..((n + 1) - 1) /\ All(u, n + 1, n + 1, Printable)
    BY <1>0, <2>1 DEF All
  <2>5. IsHeader(u, b, n + 1)
    BY <2>3, <2>4 DEF IsHeader
  <2> QED
    BY <2>5 DEF InHeaderLine
<1> QED
  BY <1>0, <1>1, HeaderLineOn DEF HeaderStates

\* White space that a folded line starts with.
LEMMA OnFold ==
    ASSUME NEW t \in Seq(Char), NEW c \in White,
           \/ Reads("header_line_start", t) /\ Later(t, Len(t))
           \/ Reads("header_lws", t)
    PROVE  Reads("header_lws", Append(t, c))
<1> DEFINE u == Append(t, c)
           n == Len(t)
<1>0. c \in Char \ {"LF"} /\ c \in Char /\ n \in Nat
  BY DEF White, Char
<1>1. ASSUME NEW b \in 1..n,
             \/ InHeaderLine("header_line_start", t, b, n) /\ Later(t, n)
             \/ InHeaderLine("header_lws", t, b, n)
      PROVE  InHeaderLine("header_lws", u, b, n + 1)
  <2>1. n >= b /\ Later(t, b) /\ All(t, b, n, White)
    BY <1>0, <1>1 DEF InHeaderLine, All
  <2>2. All(u, b, n + 1, White)
    BY <1>0, <2>1, AllMore
  <2>3. Later(u, b)
    BY <1>0, <2>1, AppendIs, LaterStays
  <2> HIDE DEF u, n
  <2>4. n + 1 > b
    BY <1>0, <2>1
  <2> QED
    BY <2>2, <2>3, <2>4 DEF InHeaderLine
<1>2. CASE Reads("header_line_start", t) /\ Later(t, n)
  BY <1>0, <1>1, <1>2, HeaderLineOn DEF HeaderStates
<1>3. CASE Reads("header_lws", t)
  BY <1>0, <1>1, <1>3, HeaderLineOn DEF HeaderStates
<1> QED
  BY <1>2, <1>3

\* The carriage return of the empty line.
LEMMA OnEmptyLine ==
    ASSUME NEW t \in Seq(Char), Reads("header_line_start", t)
    PROVE  Reads("expecting_newline_3", Append(t, "CR"))
<1> DEFINE u == Append(t, "CR")
           n == Len(t)
<1>0. "CR" \in Char \ {"LF"} /\ "CR" \in Char /\ n \in Nat
  BY DEF Char
<1>1. ASSUME NEW b \in 1..n, InHeaderLine("header_line_start", t, b, n)
      PROVE  InHeaderLine("expecting_newline_3", u, b, n + 1)
  <2>1. n = b /\ u[n + 1] = "CR"
    BY <1>0, <1>1, AppendIs DEF InHeaderLine
  <2> HIDE DEF u, n
  <2> QED
    BY <2>1 DEF InHeaderLine
<1> QED
  BY <1>0, <1>1, HeaderLineOn DEF HeaderStates

\* The end of a folded line that has nothing but white space.
LEMMA OnFoldEnd ==
    ASSUME NEW t \in Seq(Char), Reads("header_lws", t)
    PROVE  Reads("expecting_newline_2", Append(t, "CR"))
<1> DEFINE u == Append(t, "CR")
           n == Len(t)
<1>0. "CR" \in Char \ {"LF"} /\ "CR" \in Char /\ n \in Nat
  BY DEF Char
<1>1. ASSUME NEW b \in 1..n, InHeaderLine("header_lws", t, b, n)
      PROVE  InHeaderLine("expecting_newline_2", u, b, n + 1)
  <2>1. n > b /\ Later(t, b) /\ All(t, b, n, White)
    BY <1>1 DEF InHeaderLine
  <2>2. All(u, b, n, White) /\ u[n + 1] = "CR" /\ Later(u, b)
    <3>1. u \in Seq(Char) /\ u[n + 1] = "CR" /\ Extends(t, u)
      BY <1>0, AppendIs
    <3>2. n \in 0..n /\ b \in 0..n
      BY <1>0
    <3>3. All(u, b, n, White)
      BY <1>0, <2>1, <3>2, AllMore
    <3> HIDE DEF u
    <3> QED BY <2>1, <3>1, <3>3, LaterStays
  <2> HIDE DEF u, n
  <2>3. n + 1 > b /\ (n + 1) - 1 = n /\ n \in (b + 1)..n /\ All(u, n, n, Printable)
    BY <1>0, <2>1 DEF All
  <2>4. IsFolded(u, b, n)
    BY <2>2, <2>3 DEF IsFolded
  <2> QED
    BY <2>2, <2>3, <2>4 DEF InHeaderLine
<1> QED
  BY <1>0, <1>1, HeaderLineOn DEF HeaderStates

\* The first other character of a folded line.
LEMMA OnFoldText ==
    ASSUME NEW t \in Seq(Char), NEW c \in Printable \ {"SP"}, Reads("header_lws", t)
    PROVE  Reads("header_value", Append(t, c))
<1> DEFINE u == Append(t, c)
           n == Len(t)
<1>0. c \in Char \ {"LF"} /\ c \in Char /\ n \in Nat /\ c \notin White /\ c \in Printable
  BY DEF Printable, White
<1>1. ASSUME NEW b \in 1..n, InHeaderLine("header_lws", t, b, n)
      PROVE  InHeaderLine("header_value", u, b, n + 1)
  <2>1. n > b /\ Later(t, b) /\ All(t, b, n, White)
    BY <1>1 DEF InHeaderLine
  <2>2. All(u, b, n, White) /\ u[n + 1] = c /\ Later(u, b)
    <3>1. u \in Seq(Char) /\ u[n + 1] = c /\ Extends(t, u)
      BY <1>0, AppendIs
    <3>2. n \in 0..n /\ b \in 0..n
      BY <1>0
    <3>3. All(u, b, n, White)
      BY <1>0, <2>1, <3>2, AllMore
    <3> HIDE DEF u
    <3> QED BY <2>1, <3>1, <3>3, LaterStays
  <2> HIDE DEF u, n
  <2>3. n \in (b + 1)..((n + 1) - 1) /\ All(u, n, n + 1, Printable)
    BY <1>0, <2>1, <2>2 DEF All
  <2>4. Resumed(u, b, n + 1)
    BY <1>0, <2>2, <2>3 DEF Resumed
  <2> QED
    BY <2>2, <2>4 DEF InHeaderLine
<1> QED
  BY <1>0, <1>1, HeaderLineOn DEF HeaderStates

\* A character of a value, be it of the header's line or of a folded one.
LEMMA OnValue ==
    ASSUME NEW t \in Seq(Char), NEW c \in Printable, Reads("header_value", t)
    PROVE  Reads("header_value", Append(t, c))
<1> DEFINE u == Append(t, c)
           n == Len(t)
<1>0. c \in Char \ {"LF"} /\ c \in Char /\ n \in Nat
  BY DEF Printable
<1>u. u \in Seq(Char) /\ Extends(t, u)
  BY <1>0, AppendIs
<1>1. ASSUME NEW b \in 1..n, IsHeader(t, b, n)
      PROVE  IsHeader(u, b, n + 1)
  <2>1. PICK i \in (b + 2)..(n - 1) :
           /\ t[i] = ":" /\ t[i + 1] = "SP"
           /\ All(t, b, i - 1, Token) /\ All(t, i + 1, n, Printable)
    BY <1>1 DEF IsHeader
  <2>2. i \in 1..n /\ i + 1 \in 1..n /\ i - 1 \in 0..n /\ i + 1 \in 0..n /\ b \in 0..n
    BY <1>0
  <2>3. u[i] = ":" /\ u[i + 1] = "SP"
    <3> HIDE DEF u
    <3> QED BY <1>u, <2>1, <2>2 DEF Extends
  <2>4. All(u, b, i - 1, Token) /\ All(u, i + 1, n + 1, Printable)
    BY <1>0, <2>1, <2>2, AllMore
  <2> HIDE DEF u, n
  <2>5. i \in (b + 2)..((n + 1) - 1)
    BY <1>0
  <2> QED
    BY <2>3, <2>4, <2>5 DEF IsHeader
<1>2. ASSUME NEW b \in 1..n, Resumed(t, b, n)
      PROVE  Resumed(u, b, n + 1)
  <2>1. PICK i \in (b + 1)..(n - 1) :
           All(t, b, i, White) /\ t[i + 1] \notin White /\ All(t, i, n, Printable)
    BY <1>2 DEF Resumed
  <2>2. i + 1 \in 1..n /\ i \in 0..n /\ b \in 0..n
    BY <1>0
  <2>3. u[i + 1] \notin White
    <3> HIDE DEF u
    <3> QED BY <1>u, <2>1, <2>2 DEF Extends
  <2>4. All(u, b, i, White) /\ All(u, i, n + 1, Printable)
    BY <1>0, <2>1, <2>2, AllMore
  <2> HIDE DEF u, n
  <2>5. i \in (b + 1)..((n + 1) - 1)
    BY <1>0
  <2> QED
    BY <2>3, <2>4, <2>5 DEF Resumed
<1>3. ASSUME NEW b \in 1..n, InHeaderLine("header_value", t, b, n)
      PROVE  InHeaderLine("header_value", u, b, n + 1)
  <2>1. IsHeader(t, b, n) \/ (Later(t, b) /\ Resumed(t, b, n))
    BY <1>3 DEF InHeaderLine
  <2>2. Later(u, b) <=> Later(t, b)
    BY <1>u, LaterStays
  <2>3. IsHeader(u, b, n + 1) \/ (Later(u, b) /\ Resumed(u, b, n + 1))
    BY <1>1, <1>2, <2>1, <2>2
  <2> HIDE DEF u, n
  <2> QED
    BY <2>3 DEF InHeaderLine
<1> QED
  BY <1>0, <1>3, HeaderLineOn DEF HeaderStates

\* A folded line whose text has begun is a folded line.
LEMMA ResumedIsFolded ==
    ASSUME NEW t, NEW b \in Nat, NEW e \in Nat, Resumed(t, b, e)
    PROVE  IsFolded(t, b, e)
BY DEF Resumed, IsFolded

\* The end of a value.
LEMMA OnValueEnd ==
    ASSUME NEW t \in Seq(Char), Reads("header_value", t)
    PROVE  Reads("expecting_newline_2", Append(t, "CR"))
<1> DEFINE u == Append(t, "CR")
           n == Len(t)
<1>0. "CR" \in Char \ {"LF"} /\ "CR" \in Char /\ n \in Nat /\ n \in 0..n
  BY DEF Char
<1>1. ASSUME NEW b \in 1..n, InHeaderLine("header_value", t, b, n)
      PROVE  InHeaderLine("expecting_newline_2", u, b, n + 1)
  <2>1. IsHeader(t, b, n) \/ (Later(t, b) /\ IsFolded(t, b, n))
    BY <1>0, <1>1, ResumedIsFolded DEF InHeaderLine
  <2>2. u \in Seq(Char) /\ Extends(t, u) /\ u[n + 1] = "CR"
    BY <1>0, AppendIs
  <2> HIDE DEF u
  <2>3. IsHeader(u, b, n) \/ (Later(u, b) /\ IsFolded(u, b, n))
    BY <1>0, <2>1, <2>2, LaterStays, ExtendsHeader, ExtendsFolded
  <2> HIDE DEF n
  <2>4. n + 1 > b /\ (n + 1) - 1 = n
    BY <1>0
  <2> QED
    BY <2>2, <2>3, <2>4 DEF InHeaderLine
<1> QED
  BY <1>0, <1>1, HeaderLineOn DEF HeaderStates

\* The line feed of a header, after which one may be continued.
LEMMA OnHeaderEnd ==
    ASSUME NEW t \in Seq(Char), Reads("expecting_newline_2", t)
    PROVE  /\ Reads("header_line_start", Append(t, "LF"))
           /\ Later(Append(t, "LF"), Len(t) + 1)
<1> DEFINE u == Append(t, "LF")
           n == Len(t)
<1>0. "LF" \in Char /\ n \in Nat
  BY DEF Char
<1>1. PICK b \in 1..n :
         /\ Complete(t) /\ Begins(t, b)
         /\ n > b /\ t[n] = "CR"
         /\ IsHeader(t, b, n - 1) \/ (Later(t, b) /\ IsFolded(t, b, n - 1))
  <2>1. PICK b \in 1..n : Complete(t) /\ Begins(t, b) /\ InHeaderLine("expecting_newline_2", t, b, n)
    BY ReadsLine DEF HeaderStates
  <2> HIDE DEF n
  <2> QED BY <2>1 DEF InHeaderLine
<1>2. u \in Seq(Char) /\ Extends(t, u) /\ n - 1 \in 0..n /\ n \in 1..n /\ b \in 0..n
  BY <1>0, <1>1, AppendIs
<1>3. Fits(u, b, n + 1) /\ Later(u, n + 1)
  <2>1. u[n] = "CR" /\ (IsHeader(u, b, n - 1) \/ (Later(u, b) /\ IsFolded(u, b, n - 1))) /\ u[b] = "LF"
    <3> HIDE DEF u
    <3>1. t[b] = "LF"
      BY <1>1 DEF Begins
    <3> QED BY <1>1, <1>2, <3>1, LaterStays, ExtendsHeader, ExtendsFolded DEF Extends
  <2> HIDE DEF u, n
  <2>2. (n + 1) - 1 = n /\ (n + 1) - 2 = n - 1 /\ b + 1 < n + 1 /\ b \in 1..n
    BY <1>0, <1>1
  <2> QED BY <2>1, <2>2 DEF Fits, Later
<1> QED
  BY <1>0, <1>1, <1>2, <1>3, LineEnds

-----------------------------------------------------------------------------
(* From every place the end of a request can be reached *)

\* The line feed of the empty line.
LEMMA OnLast ==
    ASSUME NEW t \in Seq(Char), Reads("expecting_newline_3", t)
    PROVE  IsRequest(Append(t, "LF"))
<1> DEFINE u == Append(t, "LF")
           n == Len(t)
<1>0. "LF" \in Char /\ n \in Nat
  BY DEF Char
<1>1. PICK b \in 1..n : Complete(t) /\ Begins(t, b) /\ n = b + 1 /\ t[n] = "CR"
  BY ReadsLine DEF HeaderStates, InHeaderLine
<1>2. u \in Seq(Char) /\ Len(u) = n + 1 /\ Extends(t, u) /\ u[n + 1] = "LF" /\ Feeds(u) = Feeds(t) \cup {n + 1}
  BY <1>0, AppendIs, FeedsMore
<1> HIDE DEF u
<1>3. n \in 1..n /\ n - 1 \in 1..n /\ n - 1 = b /\ t[b] = "LF"
  BY <1>0, <1>1 DEF Begins
<1>4. u[n] = "CR" /\ n - 1 \in Feeds(u)
  BY <1>1, <1>2, <1>3 DEF Extends, Feeds
<1>5. ASSUME NEW e \in Feeds(t)
      PROVE  Fits(u, Start(u, e), e)
  <2>1. e \in 1..n /\ Fits(t, Start(t, e), e)
    BY <1>1 DEF Feeds, Complete
  <2>2. Start(t, e) \in 0..(e - 1) /\ Start(u, e) = Start(t, e)
    BY <1>2, <2>1, StartExists, ExtendsStart
  <2> QED
    BY <1>2, <2>1, <2>2, ExtendsFits
<1>6. Len(u) - 2 = n - 1 /\ Len(u) - 1 = n
  BY <1>0, <1>2
<1>7. IsRequest(u)
  <2>1. /\ Len(u) \in Feeds(u) /\ Len(u) - 2 \in Feeds(u) /\ u[Len(u) - 1] = "CR"
        /\ \A e \in Feeds(u) : e = Len(u) \/ Fits(u, Start(u, e), e)
    BY <1>2, <1>4, <1>5, <1>6
  <2> HIDE DEF n
  <2> QED BY <2>1 DEF IsRequest
<1> QED
  BY <1>7 DEF u

\* The characters of the sample, one by one.
LEMMA SampleIs ==
    /\ Sample \in Seq(Char) /\ Len(Sample) = 23
    /\ Sample[1] = "a" /\ Sample[2] = "SP" /\ Sample[3] = "SP" /\ Sample[4] = "H"
    /\ Sample[5] = "T" /\ Sample[6] = "T" /\ Sample[7] = "P" /\ Sample[8] = "/"
    /\ Sample[9] = "0" /\ Sample[10] = "." /\ Sample[11] = "0" /\ Sample[12] = "CR"
    /\ Sample[13] = "LF" /\ Sample[14] = "a" /\ Sample[15] = ":" /\ Sample[16] = "SP"
    /\ Sample[17] = "CR" /\ Sample[18] = "LF" /\ Sample[19] = "SP" /\ Sample[20] = "CR"
    /\ Sample[21] = "LF" /\ Sample[22] = "CR" /\ Sample[23] = "LF"
BY DEF Sample, Char

\* With the end of the sample from its character k on, the text is a request.
Leads(t, k) == IsRequest(t \o SubSeq(Sample, k, 23))

\* A rest is taken one character after the other.
LEMMA RestMore ==
    ASSUME NEW s \in Seq(Char), NEW t \in Seq(Char), NEW k \in 1..Len(s)
    PROVE  t \o SubSeq(s, k, Len(s)) = Append(t, s[k]) \o SubSeq(s, k + 1, Len(s))
<1> DEFINE v == SubSeq(s, k, Len(s))
           w == SubSeq(s, k + 1, Len(s))
           m == Len(s)
           n == Len(t)
           c == s[k]
           x == Append(t, c)
<1>1. m \in Nat /\ n \in Nat /\ c \in Char /\ k \in 1..m
  OBVIOUS
<1>2. v \in Seq(Char) /\ Len(v) = m - k + 1 /\ \A i \in 1..(m - k + 1) : v[i] = s[k + i - 1]
  OBVIOUS
<1>3. w \in Seq(Char) /\ Len(w) = m - k /\ \A i \in 1..(m - k) : w[i] = s[k + 1 + i - 1]
  OBVIOUS
<1>4. x \in Seq(Char) /\ Len(x) = n + 1 /\ x[n + 1] = c /\ \A i \in 1..n : x[i] = t[i]
  BY <1>1
<1> HIDE DEF v, w, x
<1>5. /\ t \o v \in Seq(Char) /\ Len(t \o v) = n + Len(v)
      /\ \A i \in 1..(n + Len(v)) : (t \o v)[i] = IF i <= n THEN t[i] ELSE v[i - n]
  BY <1>2, ConcatProperties
<1>6. /\ x \o w \in Seq(Char) /\ Len(x \o w) = Len(x) + Len(w)
      /\ \A i \in 1..(Len(x) + Len(w)) : (x \o w)[i] = IF i <= Len(x) THEN x[i] ELSE w[i - Len(x)]
  BY <1>3, <1>4, ConcatProperties
<1> DEFINE y == t \o v
           z == x \o w
<1>y. /\ y \in Seq(Char) /\ Len(y) = n + m - k + 1
      /\ \A i \in 1..(n + m - k + 1) : y[i] = IF i <= n THEN t[i] ELSE v[i - n]
  BY <1>1, <1>2, <1>5
<1>z. /\ z \in Seq(Char) /\ Len(z) = n + m - k + 1
      /\ \A i \in 1..(n + m - k + 1) : z[i] = IF i <= n + 1 THEN x[i] ELSE w[i - (n + 1)]
  BY <1>1, <1>3, <1>4, <1>6
<1> HIDE DEF y, z, m, n, c
<1>7. ASSUME NEW i \in 1..(n + m - k + 1)
      PROVE  y[i] = z[i]
  <2>1. CASE i <= n
    BY <1>1, <1>4, <1>y, <1>z, <2>1
  <2>2. CASE i = n + 1
    <3>1. y[i] = v[1] /\ 1 \in 1..(m - k + 1) /\ k + 1 - 1 = k
      BY <1>1, <1>y, <2>2
    <3>2. v[1] = s[k]
      BY <1>2, <3>1
    <3> QED BY <1>1, <1>4, <1>z, <2>2, <3>1, <3>2 DEF c
  <2>3. CASE i > n + 1
    <3>1. /\ y[i] = v[i - n] /\ i - n \in 1..(m - k + 1)
          /\ z[i] = w[i - (n + 1)] /\ i - (n + 1) \in 1..(m - k)
      BY <1>1, <1>y, <1>z, <2>3
    <3>2. k + (i - n) - 1 = k + 1 + (i - (n + 1)) - 1
      BY <1>1
    <3>3. v[i - n] = s[k + (i - n) - 1] /\ w[i - (n + 1)] = s[k + 1 + (i - (n + 1)) - 1]
      BY <1>2, <1>3, <3>1
    <3> QED BY <3>1, <3>2, <3>3
  <2> QED BY <1>1, <2>1, <2>2, <2>3
<1>8. y = z
  BY <1>y, <1>z, <1>7, SeqEqual
<1> QED
  BY <1>8 DEF y, z, v, w, x, c, m

\* The sample leads on from where one of its characters leads.
LEMMA LeadsMore ==
    ASSUME NEW t \in Seq(Char), NEW k \in 1..23, NEW c \in Char, Sample[k] = c, Leads(Append(t, c), k + 1)
    PROVE  Leads(t, k)
<1>1. Sample \in Seq(Char) /\ Len(Sample) = 23
  BY SampleIs
<1>2. t \o SubSeq(Sample, k, 23) = Append(t, Sample[k]) \o SubSeq(Sample, k + 1, 23)
  BY <1>1, RestMore
<1> QED
  BY <1>2 DEF Leads

\* From a place in a header.
LEMMA HeaderLeads ==
    ASSUME NEW t \in Seq(Char)
    PROVE  /\ Reads("expecting_newline_3", t) => Leads(t, 23)
           /\ Reads("header_line_start", t) => Leads(t, 22)
           /\ Reads("expecting_newline_2", t) => Leads(t, 21)
           /\ Reads("header_lws", t) => Leads(t, 20)
           /\ Reads("header_value", t) => Leads(t, 20)
<1>0. "CR" \in Char /\ "LF" \in Char
  BY DEF Char
<1>1. ASSUME NEW u \in Seq(Char), Reads("expecting_newline_3", u)
      PROVE  Leads(u, 23)
  <2>1. IsRequest(Append(u, "LF"))
    BY <1>1, OnLast
  <2>2. Append(u, "LF") \o SubSeq(Sample, 23 + 1, 23) = Append(u, "LF")
    <3>1. SubSeq(Sample, 23 + 1, 23) = <<>>
      BY SampleIs
    <3>2. Append(u, "LF") \in Seq(Char)
      BY <1>0
    <3> QED BY <3>1, <3>2
  <2>3. Leads(Append(u, "LF"), 23 + 1)
    BY <2>1, <2>2 DEF Leads
  <2> QED BY <1>0, <2>3, LeadsMore, SampleIs
<1>2. ASSUME NEW u \in Seq(Char), Reads("header_line_start", u)
      PROVE  Leads(u, 22)
  <2> DEFINE v == Append(u, "CR")
  <2>1. v \in Seq(Char) /\ Reads("expecting_newline_3", v)
    BY <1>0, <1>2, OnEmptyLine
  <2> HIDE DEF v
  <2>2. Leads(v, 22 + 1)
    BY <2>1, <1>1
  <2> QED BY <1>0, <2>2, LeadsMore, SampleIs DEF v
<1>3. ASSUME NEW u \in Seq(Char), Reads("expecting_newline_2", u)
      PROVE  Leads(u, 21)
  <2> DEFINE v == Append(u, "LF")
  <2>1. v \in Seq(Char) /\ Reads("header_line_start", v)
    BY <1>0, <1>3, OnHeaderEnd
  <2> HIDE DEF v
  <2>2. Leads(v, 21 + 1)
    BY <2>1, <1>2
  <2> QED BY <1>0, <2>2, LeadsMore, SampleIs DEF v
<1>4. ASSUME NEW u \in Seq(Char), Reads("header_lws", u)
      PROVE  Leads(u, 20)
  <2> DEFINE v == Append(u, "CR")
  <2>1. v \in Seq(Char) /\ Reads("expecting_newline_2", v)
    BY <1>0, <1>4, OnFoldEnd
  <2> HIDE DEF v
  <2>2. Leads(v, 20 + 1)
    BY <2>1, <1>3
  <2> QED BY <1>0, <2>2, LeadsMore, SampleIs DEF v
<1>5. ASSUME NEW u \in Seq(Char), Reads("header_value", u)
      PROVE  Leads(u, 20)
  <2> DEFINE v == Append(u, "CR")
  <2>1. v \in Seq(Char) /\ Reads("expecting_newline_2", v)
    BY <1>0, <1>5, OnValueEnd
  <2> HIDE DEF v
  <2>2. Leads(v, 20 + 1)
    BY <2>1, <1>3
  <2> QED BY <1>0, <2>2, LeadsMore, SampleIs DEF v
<1> QED
  BY <1>1, <1>2, <1>3, <1>4, <1>5

\* From a place in the name of a header.
LEMMA NameLeads ==
    ASSUME NEW t \in Seq(Char)
    PROVE  /\ Reads("space_before_header_value", t) => Leads(t, 16)
           /\ Reads("header_name", t) => Leads(t, 15)
           /\ Reads("header_line_start", t) => Leads(t, 14)
<1>0. /\ "CR" \in Char /\ "LF" \in Char /\ "SP" \in Char /\ ":" \in Char /\ "a" \in Char
      /\ "a" \in Token /\ "SP" \in White
  BY DEF Char, Token, White
<1>1. ASSUME NEW u \in Seq(Char), Reads("space_before_header_value", u)
      PROVE  Leads(u, 16)
  <2> DEFINE u1 == Append(u, "SP")
             u2 == Append(u1, "CR")
             u3 == Append(u2, "LF")
             u4 == Append(u3, "SP")
  <2>1. u1 \in Seq(Char) /\ Reads("header_value", u1)
    BY <1>0, <1>1, OnSpace
  <2> HIDE DEF u1
  <2>2. u2 \in Seq(Char) /\ Reads("expecting_newline_2", u2)
    BY <1>0, <2>1, OnValueEnd
  <2> HIDE DEF u2
  <2>3. u3 \in Seq(Char) /\ Len(u3) = Len(u2) + 1
    BY <1>0, <2>2
  <2>4. Reads("header_line_start", u3) /\ Later(u3, Len(u2) + 1)
    BY <2>2, OnHeaderEnd
  <2> HIDE DEF u3
  <2>5. u4 \in Seq(Char)
    BY <1>0, <2>3
  <2>6. Reads("header_lws", u4)
    BY <1>0, <2>3, <2>4, OnFold
  <2> HIDE DEF u4
  <2>7. Leads(u4, 19 + 1)
    BY <2>5, <2>6, HeaderLeads
  <2>8. Leads(u3, 18 + 1)
    BY <1>0, <2>3, <2>7, LeadsMore, SampleIs DEF u4
  <2>9. Leads(u2, 17 + 1)
    BY <1>0, <2>2, <2>8, LeadsMore, SampleIs DEF u3
  <2>10. Leads(u1, 16 + 1)
    BY <1>0, <2>1, <2>9, LeadsMore, SampleIs DEF u2
  <2> QED
    BY <1>0, <2>10, LeadsMore, SampleIs DEF u1
<1>2. ASSUME NEW u \in Seq(Char), Reads("header_name", u)
      PROVE  Leads(u, 15)
  <2> DEFINE v == Append(u, ":")
  <2>1. v \in Seq(Char) /\ Reads("space_before_header_value", v)
    BY <1>0, <1>2, OnColon
  <2> HIDE DEF v
  <2>2. Leads(v, 15 + 1)
    BY <2>1, <1>1
  <2> QED BY <1>0, <2>2, LeadsMore, SampleIs DEF v
<1>3. ASSUME NEW u \in Seq(Char), Reads("header_line_start", u)
      PROVE  Leads(u, 14)
  <2> DEFINE v == Append(u, "a")
  <2>1. v \in Seq(Char) /\ Reads("header_name", v)
    BY <1>0, <1>3, OnName
  <2> HIDE DEF v
  <2>2. Leads(v, 14 + 1)
    BY <2>1, <1>2
  <2> QED BY <1>0, <2>2, LeadsMore, SampleIs DEF v
<1> QED
  BY <1>1, <1>2, <1>3

\* From a place in the request line.
LEMMA RequestLineLeads ==
    ASSUME NEW t \in Seq(Char)
    PROVE  /\ Reads("expecting_newline_1", t) => Leads(t, 13)
           /\ Reads("http_version_minor", t) => Leads(t, 12)
           /\ Reads("http_version_minor_start", t) => Leads(t, 11)
           /\ Reads("http_version_major", t) => Leads(t, 10)
           /\ Reads("http_version_major_start", t) => Leads(t, 9)
           /\ Reads("http_version_slash", t) => Leads(t, 8)
           /\ Reads("http_version_p", t) => Leads(t, 7)
           /\ Reads("http_version_t_2", t) => Leads(t, 6)
           /\ Reads("http_version_t_1", t) => Leads(t, 5)
           /\ Reads("http_version_h", t) => Leads(t, 4)
           /\ Reads("uri", t) => Leads(t, 3)
           /\ Reads("method", t) => Leads(t, 2)
           /\ Reads("method_start", t) => Leads(t, 1)
<1>0. /\ "CR" \in Char /\ "LF" \in Char /\ "SP" \in Char /\ "." \in Char /\ "0" \in Char /\ "/" \in Char
      /\ "H" \in Char /\ "T" \in Char /\ "P" \in Char /\ "a" \in Char /\ "a" \in Token
  BY DEF Char, Token
<1>1. ASSUME NEW u \in Seq(Char), Reads("expecting_newline_1", u)
      PROVE  Leads(u, 13)
  <2> DEFINE v == Append(u, "LF")
  <2>1. v \in Seq(Char) /\ Reads("header_line_start", v)
    BY <1>0, <1>1, OnRequestLineEnd
  <2> HIDE DEF v
  <2>2. Leads(v, 13 + 1)
    BY <2>1, NameLeads
  <2> QED BY <1>0, <2>2, LeadsMore, SampleIs DEF v
<1>2. ASSUME NEW u \in Seq(Char), Reads("http_version_minor", u)
      PROVE  Leads(u, 12)
  <2> DEFINE v == Append(u, "CR")
  <2>1. v \in Seq(Char) /\ Reads("expecting_newline_1", v)
    BY <1>0, <1>2, OnMinorEnd
  <2> HIDE DEF v
  <2>2. Leads(v, 12 + 1)
    BY <2>1, <1>1
  <2> QED BY <1>0, <2>2, LeadsMore, SampleIs DEF v
<1>3. ASSUME NEW u \in Seq(Char), Reads("http_version_minor_start", u)
      PROVE  Leads(u, 11)
  <2> DEFINE v == Append(u, "0")
  <2>1. v \in Seq(Char) /\ Reads("http_version_minor", v)
    BY <1>0, <1>3, OnMinor
  <2> HIDE DEF v
  <2>2. Leads(v, 11 + 1)
    BY <2>1, <1>2
  <2> QED BY <1>0, <2>2, LeadsMore, SampleIs DEF v
<1>4. ASSUME NEW u \in Seq(Char), Reads("http_version_major", u)
      PROVE  Leads(u, 10)
  <2> DEFINE v == Append(u, ".")
  <2>1. v \in Seq(Char) /\ Reads("http_version_minor_start", v)
    BY <1>0, <1>4, OnMajorEnd
  <2> HIDE DEF v
  <2>2. Leads(v, 10 + 1)
    BY <2>1, <1>3
  <2> QED BY <1>0, <2>2, LeadsMore, SampleIs DEF v
<1>5. ASSUME NEW u \in Seq(Char), Reads("http_version_major_start", u)
      PROVE  Leads(u, 9)
  <2> DEFINE v == Append(u, "0")
  <2>1. v \in Seq(Char) /\ Reads("http_version_major", v)
    BY <1>0, <1>5, OnMajor
  <2> HIDE DEF v
  <2>2. Leads(v, 9 + 1)
    BY <2>1, <1>4
  <2> QED BY <1>0, <2>2, LeadsMore, SampleIs DEF v
<1>6. ASSUME NEW u \in Seq(Char), Reads("http_version_slash", u)
      PROVE  Leads(u, 8)
  <2> DEFINE v == Append(u, "/")
  <2>1. v \in Seq(Char) /\ Reads("http_version_major_start", v)
    BY <1>0, <1>6, OnVersion
  <2> HIDE DEF v
  <2>2. Leads(v, 8 + 1)
    BY <2>1, <1>5
  <2> QED BY <1>0, <2>2, LeadsMore, SampleIs DEF v
<1>7. ASSUME NEW u \in Seq(Char), Reads("http_version_p", u)
      PROVE  Leads(u, 7)
  <2> DEFINE v == Append(u, "P")
  <2>1. v \in Seq(Char) /\ Reads("http_version_slash", v)
    BY <1>0, <1>7, OnVersion
  <2> HIDE DEF v
  <2>2. Leads(v, 7 + 1)
    BY <2>1, <1>6
  <2> QED BY <1>0, <2>2, LeadsMore, SampleIs DEF v
<1>8. ASSUME NEW u \in Seq(Char), Reads("http_version_t_2", u)
      PROVE  Leads(u, 6)
  <2> DEFINE v == Append(u, "T")
  <2>1. v \in Seq(Char) /\ Reads("http_version_p", v)
    BY <1>0, <1>8, OnVersion
  <2> HIDE DEF v
  <2>2. Leads(v, 6 + 1)
    BY <2>1, <1>7
  <2> QED BY <1>0, <2>2, LeadsMore, SampleIs DEF v
<1>9. ASSUME NEW u \in Seq(Char), Reads("http_version_t_1", u)
      PROVE  Leads(u, 5)
  <2> DEFINE v == Append(u, "T")
  <2>1. v \in Seq(Char) /\ Reads("http_version_t_2", v)
    BY <1>0, <1>9, OnVersion
  <2> HIDE DEF v
  <2>2. Leads(v, 5 + 1)
    BY <2>1, <1>8
  <2> QED BY <1>0, <2>2, LeadsMore, SampleIs DEF v
<1>10. ASSUME NEW u \in Seq(Char), Reads("http_version_h", u)
      PROVE  Leads(u, 4)
  <2> DEFINE v == Append(u, "H")
  <2>1. v \in Seq(Char) /\ Reads("http_version_t_1", v)
    BY <1>0, <1>10, OnVersion
  <2> HIDE DEF v
  <2>2. Leads(v, 4 + 1)
    BY <2>1, <1>9
  <2> QED BY <1>0, <2>2, LeadsMore, SampleIs DEF v
<1>11. ASSUME NEW u \in Seq(Char), Reads("uri", u)
      PROVE  Leads(u, 3)
  <2> DEFINE v == Append(u, "SP")
  <2>1. v \in Seq(Char) /\ Reads("http_version_h", v)
    BY <1>0, <1>11, OnUriEnd
  <2> HIDE DEF v
  <2>2. Leads(v, 3 + 1)
    BY <2>1, <1>10
  <2> QED BY <1>0, <2>2, LeadsMore, SampleIs DEF v
<1>12. ASSUME NEW u \in Seq(Char), Reads("method", u)
      PROVE  Leads(u, 2)
  <2> DEFINE v == Append(u, "SP")
  <2>1. v \in Seq(Char) /\ Reads("uri", v)
    BY <1>0, <1>12, OnMethodEnd
  <2> HIDE DEF v
  <2>2. Leads(v, 2 + 1)
    BY <2>1, <1>11
  <2> QED BY <1>0, <2>2, LeadsMore, SampleIs DEF v
<1>13. ASSUME NEW u \in Seq(Char), Reads("method_start", u)
      PROVE  Leads(u, 1)
  <2> DEFINE v == Append(u, "a")
  <2>1. v \in Seq(Char) /\ Reads("method", v)
    BY <1>0, <1>13, OnMethod
  <2> HIDE DEF v
  <2>2. Leads(v, 1 + 1)
    BY <2>1, <1>12
  <2> QED BY <1>0, <2>2, LeadsMore, SampleIs DEF v
<1> QED
  BY <1>1, <1>2, <1>3, <1>4, <1>5, <1>6, <1>7, <1>8, <1>9, <1>10, <1>11, <1>12, <1>13

\* What the parser has read can still become a request.
LEMMA Hopeful ==
    ASSUME NEW t \in Seq(Char), NEW s \in State, Reads(s, t)
    PROVE  \E rest \in Rests : IsRequest(t \o rest)
<1>1. PICK k \in 1..23 : Leads(t, k)
  BY HeaderLeads, NameLeads, RequestLineLeads, SMTT(30) DEF State
<1>2. SubSeq(Sample, k, 23) \in Rests
  BY SampleIs DEF Rests, Suffixes
<1> QED
  BY <1>1, <1>2 DEF Leads

-----------------------------------------------------------------------------
(* From a rejected character none can *)

\* In a request the line that has begun ends, as a line of a request may.
LEMMA LineOf ==
    ASSUME NEW t \in Seq(Char), NEW b \in 0..Len(t), Begins(t, b),
           NEW u \in Seq(Char), Extends(t, u), Len(u) > Len(t), IsRequest(u)
    PROVE  \E e \in (Len(t) + 1)..Len(u) :
              /\ u[e] = "LF" /\ u[e - 1] = "CR" /\ b + 1 < e
              /\ Fits(u, b, e) \/ (b > 0 /\ e = b + 2)
<1> DEFINE n == Len(t)
           m == Len(u)
           T == {k \in (n + 1)..m : u[k] = "LF"}
<1>1. n \in Nat /\ m \in Nat /\ m > n /\ DOMAIN u = 1..m
  OBVIOUS
<1>2. /\ m \in Feeds(u) /\ m - 2 \in Feeds(u) /\ u[m - 1] = "CR"
      /\ \A e \in Feeds(u) \ {m} : Fits(u, Start(u, e), e)
  BY DEF IsRequest
<1>b. \A k \in 1..n : u[k] = t[k]
  BY DEF Extends
<1> HIDE DEF n, m
<1>3. T # {} /\ T \subseteq Nat
  BY <1>1, <1>2 DEF Feeds
<1>4. PICK e \in T : \A k \in T : k >= e
  <2> HIDE DEF T
  <2> QED BY <1>3, LeastNatural
<1>5. e \in (n + 1)..m /\ u[e] = "LF" /\ e \in Nat /\ e \in Feeds(u) /\ b \in 0..n
  BY <1>1, <1>4 DEF Feeds, n
<1>6. \A k \in (b + 1)..(e - 1) : u[k] # "LF"
  <2> SUFFICES ASSUME NEW k \in (b + 1)..(e - 1), u[k] = "LF" PROVE FALSE
    OBVIOUS
  <2>1. CASE k <= n
    <3>1. k \in (b + 1)..n /\ k \in 1..n
      BY <1>1, <1>5, <2>1
    <3> QED BY <1>b, <3>1 DEF Begins, n
  <2>2. CASE k > n
    <3>1. k \in (n + 1)..m /\ ~(k >= e)
      BY <1>1, <1>5, <2>2
    <3> QED BY <1>4, <3>1
  <2> QED BY <1>1, <1>5, <2>1, <2>2
<1>7. b = 0 \/ u[b] = "LF"
  BY <1>1, <1>5, <1>b DEF Begins
<1>8. CASE e # m
  <2>1. b \in 0..(e - 1) /\ IsStart(u, b, e)
    BY <1>1, <1>5, <1>6, <1>7 DEF IsStart
  <2>2. Start(u, e) = b
    BY <1>5, <2>1, StartIs
  <2>3. Fits(u, b, e)
    BY <1>2, <1>5, <1>8, <2>2
  <2> QED BY <1>5, <2>3 DEF Fits, n, m
<1>9. CASE e = m
  <2>1. u[e - 1] = "CR" /\ u[e - 2] = "LF" /\ e - 2 \in 1..e
    BY <1>1, <1>2, <1>9 DEF Feeds
  <2>2. ~(e - 2 \in (b + 1)..(e - 1))
    BY <1>6, <2>1
  <2>3. b # e - 1
    BY <1>7, <2>1
  <2>4. b = e - 2
    BY <1>1, <1>5, <2>1, <2>2, <2>3
  <2>5. b > 0 /\ e = b + 2 /\ b + 1 < e
    BY <1>5, <2>1, <2>4
  <2> QED BY <1>5, <2>1, <2>5 DEF n, m
<1> QED
  BY <1>8, <1>9

\* The first line of a request, and one of its later lines.
LEMMA RequestLineOf ==
    ASSUME NEW t \in Seq(Char), NEW s, s \notin HeaderStates, Reads(s, t), NEW c \in Char,
           NEW u \in Seq(Char), Extends(Append(t, c), u), IsRequest(u)
    PROVE  /\ Len(u) > Len(t) /\ Extends(t, u) /\ u[Len(t) + 1] = c
           /\ InRequestLine(s, t, Len(t))
           /\ \E e \in (Len(t) + 1)..Len(u) :
                 e > 1 /\ u[e] = "LF" /\ u[e - 1] = "CR" /\ IsRequestLine(u, e - 2)
<1>1. /\ Append(t, c) \in Seq(Char) /\ Len(Append(t, c)) = Len(t) + 1
      /\ Append(t, c)[Len(t) + 1] = c /\ Extends(t, Append(t, c)) /\ Len(t) \in Nat
  BY AppendIs
<1> DEFINE v == Append(t, c)
<1> HIDE DEF v
<1>2. Len(u) > Len(t) /\ Extends(t, u) /\ u[Len(t) + 1] = c
  BY <1>1 DEF Extends, v
<1>3. Begins(t, 0) /\ InRequestLine(s, t, Len(t)) /\ 0 \in 0..Len(t)
  BY ReadsLine
<1>4. PICK e \in (Len(t) + 1)..Len(u) :
         /\ u[e] = "LF" /\ u[e - 1] = "CR" /\ 0 + 1 < e
         /\ Fits(u, 0, e) \/ (0 > 0 /\ e = 0 + 2)
  BY <1>2, <1>3, LineOf
<1>5. e > 1 /\ IsRequestLine(u, e - 2)
  BY <1>4 DEF Fits
<1> QED
  BY <1>2, <1>3, <1>4, <1>5

LEMMA HeaderLineOf ==
    ASSUME NEW t \in Seq(Char), NEW s \in HeaderStates, Reads(s, t), NEW c \in Char,
           NEW u \in Seq(Char), Extends(Append(t, c), u), IsRequest(u)
    PROVE  /\ Len(u) > Len(t) /\ Extends(t, u) /\ u[Len(t) + 1] = c
           /\ \E b \in 1..Len(t) :
                 /\ InHeaderLine(s, t, b, Len(t))
                 /\ \E e \in (Len(t) + 1)..Len(u) :
                       /\ u[e] = "LF" /\ u[e - 1] = "CR" /\ b + 1 < e
                       /\ \/ e = b + 2
                          \/ IsHeader(u, b, e - 2)
                          \/ IsFolded(u, b, e - 2) /\ Later(u, b)
<1>1. /\ Append(t, c) \in Seq(Char) /\ Len(Append(t, c)) = Len(t) + 1
      /\ Append(t, c)[Len(t) + 1] = c /\ Extends(t, Append(t, c)) /\ Len(t) \in Nat
  BY AppendIs
<1> DEFINE v == Append(t, c)
<1> HIDE DEF v
<1>2. Len(u) > Len(t) /\ Extends(t, u) /\ u[Len(t) + 1] = c
  BY <1>1 DEF Extends, v
<1>3. PICK b \in 1..Len(t) : Begins(t, b) /\ InHeaderLine(s, t, b, Len(t))
  BY ReadsLine
<1>b. b \in 0..Len(t) /\ b # 0
  OBVIOUS
<1>4. PICK e \in (Len(t) + 1)..Len(u) :
         /\ u[e] = "LF" /\ u[e - 1] = "CR" /\ b + 1 < e
         /\ Fits(u, b, e) \/ (b > 0 /\ e = b + 2)
  BY <1>2, <1>3, <1>b, LineOf
<1>5. e = b + 2 \/ IsHeader(u, b, e - 2) \/ (IsFolded(u, b, e - 2) /\ Later(u, b))
  BY <1>4, <1>b DEF Fits, Later
<1> QED
  BY <1>2, <1>3, <1>4, <1>5

\* What a line may consist of.
LEMMA SetsOfChars ==
    /\ "SP" \notin Token /\ ":" \notin Token /\ "CR" \notin Token /\ "SP" \notin Printable \ {"SP"}
    /\ Token \subseteq Printable /\ "SP" \in Printable /\ "." \in Printable /\ "0" \in Printable
    /\ ":" \in Printable /\ White \subseteq Printable \cup {"HT"}
    /\ \A k \in 1..5 : Http[k] \in Printable
    /\ "CR" \notin Printable \cup {"HT"} /\ "LF" \notin Printable \cup {"HT"}
    /\ \A c \in White : c \notin Token
BY HttpIs DEF Token, Printable, Char, White

\* No control character in either kind of line.
LEMMA RequestLineChars ==
    ASSUME NEW u \in Seq(Char), NEW e \in Nat, IsRequestLine(u, e)
    PROVE  All(u, 0, e, Printable)
<1>1. PICK j \in 3..e : IsCall(u, j) /\ IsVersion(u, j, e)
  BY DEF IsRequestLine
<1>2. PICK i \in 2..(j - 1) :
         /\ u[i] = "SP" /\ u[j] = "SP"
         /\ All(u, 0, i - 1, Token) /\ All(u, i, j - 1, Printable \ {"SP"})
  BY <1>1 DEF IsCall
<1>3. PICK dot \in (j + 7)..(e - 1) :
         /\ \A k \in 1..5 : u[j + k] = Http[k]
         /\ All(u, j + 5, dot - 1, {"0"}) /\ u[dot] = "." /\ All(u, dot, e, {"0"})
  BY <1>1 DEF IsVersion
<1> SUFFICES ASSUME NEW k \in 1..e PROVE u[k] \in Printable
  BY DEF All
<1>4. CASE k < i
  BY <1>2, <1>4, SetsOfChars DEF All
<1>5. CASE k > i /\ k < j
  BY <1>2, <1>5, SetsOfChars DEF All
<1>6. CASE k \in (j + 1)..(j + 5)
  <2>1. k - j \in 1..5 /\ k = j + (k - j)
    BY <1>6
  <2>2. u[k] = Http[k - j]
    BY <1>3, <2>1
  <2> QED BY <2>1, <2>2, SetsOfChars
<1>7. CASE k > j + 5
  BY <1>3, <1>7, SetsOfChars DEF All
<1>8. k < i \/ k = i \/ (k > i /\ k < j) \/ k = j \/ k \in (j + 1)..(j + 5) \/ k > j + 5
  OBVIOUS
<1> QED
  BY <1>2, <1>4, <1>5, <1>6, <1>7, <1>8, SetsOfChars

LEMMA HeaderLineChars ==
    ASSUME NEW u \in Seq(Char), NEW b \in Nat, NEW e \in Nat, IsHeader(u, b, e) \/ IsFolded(u, b, e)
    PROVE  All(u, b, e, Printable \cup {"HT"})
<1>1. CASE IsHeader(u, b, e)
  <2>1. PICK i \in (b + 2)..(e - 1) :
           /\ u[i] = ":" /\ u[i + 1] = "SP"
           /\ All(u, b, i - 1, Token) /\ All(u, i + 1, e, Printable)
    BY <1>1 DEF IsHeader
  <2> SUFFICES ASSUME NEW k \in (b + 1)..e PROVE u[k] \in Printable
    BY DEF All
  <2>2. k < i \/ k = i \/ k = i + 1 \/ k > i + 1
    OBVIOUS
  <2> QED BY <2>1, <2>2, SetsOfChars DEF All
<1>2. CASE IsFolded(u, b, e)
  <2>1. PICK i \in (b + 1)..e : All(u, b, i, White) /\ All(u, i, e, Printable)
    BY <1>2 DEF IsFolded
  <2> SUFFICES ASSUME NEW k \in (b + 1)..e PROVE u[k] \in Printable \cup {"HT"}
    BY DEF All
  <2>2. k <= i \/ k > i
    OBVIOUS
  <2> QED BY <2>1, <2>2, SetsOfChars DEF All
<1> QED
  BY <1>1, <1>2

\* A method has no space, so that there is one method only,
LEMMA FirstSpace ==
    ASSUME NEW u, NEW p \in Nat, NEW q \in Nat, p > 0, q > 0,
           u[p] = "SP", All(u, 0, p - 1, Token), u[q] = "SP", All(u, 0, q - 1, Token)
    PROVE  p = q
BY SetsOfChars DEF All

\* and one uri only.
LEMMA CallUnique ==
    ASSUME NEW u, NEW i \in Nat, NEW j \in Nat, IsCall(u, i), IsCall(u, j)
    PROVE  i = j
<1>1. PICK p \in 2..(i - 1) :
         /\ u[p] = "SP" /\ u[i] = "SP"
         /\ All(u, 0, p - 1, Token) /\ All(u, p, i - 1, Printable \ {"SP"})
  BY DEF IsCall
<1>2. PICK q \in 2..(j - 1) :
         /\ u[q] = "SP" /\ u[j] = "SP"
         /\ All(u, 0, q - 1, Token) /\ All(u, q, j - 1, Printable \ {"SP"})
  BY DEF IsCall
<1>3. p = q
  <2>1. p \in Nat /\ q \in Nat /\ p > 0 /\ q > 0
    OBVIOUS
  <2> QED BY <1>1, <1>2, <2>1, FirstSpace
<1>4. ~(i < j) /\ ~(j < i)
  BY <1>1, <1>2, <1>3, SetsOfChars DEF All
<1> QED
  BY <1>4

\* A text and a rest extend the text.
LEMMA ExtendsRest ==
    ASSUME NEW t \in Seq(Char), NEW rest \in Seq(Char)
    PROVE  t \o rest \in Seq(Char) /\ Extends(t, t \o rest)
<1>1. /\ t \o rest \in Seq(Char) /\ Len(t \o rest) = Len(t) + Len(rest)
      /\ \A i \in 1..(Len(t) + Len(rest)) : (t \o rest)[i] = IF i <= Len(t) THEN t[i] ELSE rest[i - Len(t)]
  BY ConcatProperties
<1> DEFINE u == t \o rest
<1> HIDE DEF u
<1>2. Len(t) \in Nat /\ Len(rest) \in Nat
  OBVIOUS
<1>3. Extends(t, u)
  BY <1>1, <1>2 DEF Extends, u
<1> QED
  BY <1>1, <1>3 DEF u

\* No request goes on in a way the method, the uri, the version does not.
LEMMA NotInMethod ==
    ASSUME NEW t \in Seq(Char), NEW s \in {"method_start", "method"}, Reads(s, t),
           NEW c \in Char \ Token, c = "SP" => s = "method_start",
           NEW u \in Seq(Char), Extends(Append(t, c), u), IsRequest(u)
    PROVE  FALSE
<1> DEFINE n == Len(t)
<1>1. /\ n \in Nat /\ Extends(t, u) /\ u[n + 1] = c /\ InRequestLine(s, t, n)
      /\ \E e \in (n + 1)..Len(u) : e > 1 /\ IsRequestLine(u, e - 2)
  BY RequestLineOf DEF HeaderStates
<1>2. All(t, 0, n, Token) /\ (c = "SP" => n = 0)
  BY <1>1 DEF InRequestLine, All
<1>3. PICK e \in (n + 1)..Len(u) : e > 1 /\ IsRequestLine(u, e - 2)
  BY <1>1
<1>4. PICK j \in 3..(e - 2) : IsCall(u, j)
  BY <1>3 DEF IsRequestLine
<1>5. PICK i \in 2..(j - 1) : u[i] = "SP" /\ All(u, 0, i - 1, Token)
  BY <1>4 DEF IsCall
<1>6. All(u, 0, n, Token)
  BY <1>1, <1>2 DEF All, Extends
<1> HIDE DEF n
<1>7. CASE i <= n
  BY <1>1, <1>5, <1>6, <1>7, SetsOfChars DEF All
<1>8. CASE i = n + 1
  BY <1>1, <1>2, <1>5, <1>8
<1>9. CASE i > n + 1
  <2>1. n + 1 \in 1..(i - 1)
    BY <1>1, <1>9
  <2> QED BY <1>1, <1>5, <2>1 DEF All
<1> QED
  BY <1>1, <1>7, <1>8, <1>9

LEMMA NotInUri ==
    ASSUME NEW t \in Seq(Char), Reads("uri", t), NEW c \in Char \ Printable,
           NEW u \in Seq(Char), Extends(Append(t, c), u), IsRequest(u)
    PROVE  FALSE
<1> DEFINE n == Len(t)
<1>1. /\ n \in Nat /\ Extends(t, u) /\ u[n + 1] = c /\ InRequestLine("uri", t, n)
      /\ \E e \in (n + 1)..Len(u) : e > 1 /\ u[e] = "LF" /\ u[e - 1] = "CR" /\ IsRequestLine(u, e - 2)
  BY RequestLineOf DEF HeaderStates
<1>2. PICK i \in 2..n : t[i] = "SP" /\ All(t, 0, i - 1, Token) /\ All(t, i, n, Printable \ {"SP"})
  BY <1>1 DEF InRequestLine, InUri
<1>3. PICK e \in (n + 1)..Len(u) : e > 1 /\ u[e] = "LF" /\ u[e - 1] = "CR" /\ IsRequestLine(u, e - 2)
  BY <1>1
<1>4. u[i] = "SP" /\ All(u, 0, i - 1, Token) /\ All(u, i, n, Printable \ {"SP"})
  <2>1. 0 \in Nat /\ i \in Nat /\ i \in 1..Len(t) /\ i - 1 \in 0..Len(t) /\ n \in 0..Len(t)
    OBVIOUS
  <2>2. u[i] = t[i]
    BY <1>1, <2>1 DEF Extends
  <2> QED BY <1>1, <1>2, <2>1, <2>2, ExtendsAll
<1>5. All(u, 0, e - 2, Printable)
  <2>1. e - 2 \in Nat
    BY <1>3
  <2> QED BY <1>3, <2>1, RequestLineChars
<1> HIDE DEF n
<1>6. CASE n + 1 <= e - 2
  <2>1. n + 1 \in 1..(e - 2)
    BY <1>1, <1>6
  <2> QED BY <1>1, <1>5, <2>1 DEF All
<1>7. CASE n + 1 = e - 1
  <2>1. PICK j \in 3..n : IsCall(u, j)
    <3>1. e - 2 = n
      BY <1>1, <1>7
    <3> QED BY <1>3, <3>1 DEF IsRequestLine
  <2>2. PICK p \in 2..(j - 1) : u[p] = "SP" /\ u[j] = "SP" /\ All(u, 0, p - 1, Token)
    BY <2>1 DEF IsCall
  <2>3. p = i
    BY <1>4, <2>2, FirstSpace
  <2>4. j \in (i + 1)..n
    BY <2>3
  <2> QED BY <1>4, <2>2, <2>4, SetsOfChars DEF All
<1>8. CASE n + 1 = e
  <2>1. u[n] = "CR"
    BY <1>1, <1>3, <1>8
  <2>2. n = i \/ n \in (i + 1)..n
    BY <1>1
  <2> QED BY <1>4, <2>1, <2>2, SetsOfChars DEF All
<1> QED
  BY <1>1, <1>6, <1>7, <1>8

\* The letters of a version stay.
LEMMA VersionStays ==
    ASSUME NEW t \in Seq(Char), NEW u \in Seq(Char), Extends(t, u), NEW m \in 0..5,
           NEW e \in 0..Len(t), InVersion(t, e, m)
    PROVE  InVersion(u, e, m)
<1>1. e - m >= 3 /\ IsCall(t, e - m) /\ \A k \in 1..m : t[e - m + k] = Http[k]
  BY DEF InVersion
<1>2. e - m \in 0..Len(t) /\ \A k \in 1..m : e - m + k \in 1..Len(t)
  BY <1>1
<1>3. IsCall(u, e - m) /\ \A k \in 1..m : u[e - m + k] = Http[k]
  BY <1>1, <1>2, ExtendsCall DEF Extends
<1> QED
  BY <1>1, <1>3 DEF InVersion

\* In a request a version that has begun goes on.
LEMMA VersionOf ==
    ASSUME NEW u \in Seq(Char), NEW e \in Nat, IsRequestLine(u, e),
           NEW m \in 0..5, NEW j \in Nat, InVersion(u, j + m, m)
    PROVE  /\ \A k \in 1..5 : u[j + k] = Http[k]
           /\ \E dot \in (j + 7)..(e - 1) :
                 All(u, j + 5, dot - 1, {"0"}) /\ u[dot] = "." /\ All(u, dot, e, {"0"})
<1>1. PICK i \in 3..e : IsCall(u, i) /\ IsVersion(u, i, e)
  BY DEF IsRequestLine
<1>2. IsCall(u, j)
  <2>1. (j + m) - m = j
    OBVIOUS
  <2> QED BY <2>1 DEF InVersion
<1>3. i = j
  BY <1>1, <1>2, CallUnique
<1> QED
  BY <1>1, <1>3 DEF IsVersion

LEMMA NotInVersion ==
    ASSUME NEW t \in Seq(Char), NEW s, s \notin HeaderStates, Reads(s, t), NEW m \in 0..5,
           InRequestLine(s, t, Len(t)) => InVersion(t, Len(t), m),
           NEW c \in Char, IF m = 5 THEN c # "0" ELSE c # Http[m + 1],
           NEW u \in Seq(Char), Extends(Append(t, c), u), IsRequest(u)
    PROVE  FALSE
<1> DEFINE n == Len(t)
           j == n - m
<1>1. /\ n \in Nat /\ Extends(t, u) /\ u[n + 1] = c /\ InVersion(t, n, m)
      /\ \E e \in (n + 1)..Len(u) : e > 1 /\ IsRequestLine(u, e - 2)
  BY RequestLineOf
<1>2. PICK e \in (n + 1)..Len(u) : e > 1 /\ IsRequestLine(u, e - 2)
  BY <1>1
<1>3. n >= m + 3 /\ n \in 0..n
  BY <1>1 DEF InVersion
<1>4. InVersion(u, n, m)
  BY <1>1, <1>3, VersionStays
<1> HIDE DEF n
<1>5. j \in Nat /\ j + m = n /\ e - 2 \in Nat
  BY <1>1, <1>2, <1>3
<1> HIDE DEF j
<1>6. /\ \A k \in 1..5 : u[j + k] = Http[k]
      /\ \E dot \in (j + 7)..((e - 2) - 1) :
            All(u, j + 5, dot - 1, {"0"}) /\ u[dot] = "." /\ All(u, dot, e - 2, {"0"})
  BY <1>2, <1>4, <1>5, VersionOf
<1>7. CASE m = 5
  <2>1. PICK dot \in (j + 7)..((e - 2) - 1) : All(u, j + 5, dot - 1, {"0"})
    BY <1>6
  <2>2. n + 1 \in (j + 5 + 1)..(dot - 1)
    BY <1>1, <1>5, <1>7
  <2> QED BY <1>1, <1>7, <2>1, <2>2 DEF All
<1>8. CASE m # 5
  <2>1. m + 1 \in 1..5 /\ j + (m + 1) = n + 1
    BY <1>1, <1>5, <1>8
  <2> QED BY <1>1, <1>6, <1>8, <2>1
<1> QED
  BY <1>7, <1>8

LEMMA NotInMajor ==
    ASSUME NEW t \in Seq(Char), Reads("http_version_major", t), NEW c \in Char \ {".", "0"},
           NEW u \in Seq(Char), Extends(Append(t, c), u), IsRequest(u)
    PROVE  FALSE
<1> DEFINE n == Len(t)
<1>1. /\ n \in Nat /\ Extends(t, u) /\ u[n + 1] = c /\ InRequestLine("http_version_major", t, n)
      /\ \E e \in (n + 1)..Len(u) : e > 1 /\ IsRequestLine(u, e - 2)
  BY RequestLineOf DEF HeaderStates
<1>2. PICK e \in (n + 1)..Len(u) : e > 1 /\ IsRequestLine(u, e - 2)
  BY <1>1
<1>3. InMajor(u, n)
  <2>1. InMajor(t, n) /\ n \in 0..Len(t)
    BY <1>1 DEF InRequestLine
  <2> QED BY <1>1, <2>1, MajorStays
<1> HIDE DEF n
<1>4. PICK i \in 8..(n - 1) : InVersion(u, i, 5) /\ All(u, i, n, {"0"})
  BY <1>3 DEF InMajor
<1> DEFINE j == i - 5
<1>5. j \in Nat /\ j + 5 = i /\ e - 2 \in Nat /\ 5 \in 0..5
  BY <1>2
<1> HIDE DEF j
<1>6. PICK dot \in (j + 7)..((e - 2) - 1) :
         All(u, j + 5, dot - 1, {"0"}) /\ u[dot] = "." /\ All(u, dot, e - 2, {"0"})
  BY <1>2, <1>4, <1>5, VersionOf
<1>7. CASE dot <= n
  <2>1. dot \in (i + 1)..n
    BY <1>5, <1>7
  <2> QED BY <1>4, <1>6, <2>1 DEF All
<1>8. CASE dot = n + 1
  BY <1>1, <1>6, <1>8
<1>9. CASE dot > n + 1
  <2>1. n + 1 \in (j + 5 + 1)..(dot - 1)
    BY <1>1, <1>5, <1>9
  <2> QED BY <1>1, <1>6, <2>1 DEF All
<1> QED
  BY <1>1, <1>7, <1>8, <1>9

LEMMA NotAfterDot ==
    ASSUME NEW t \in Seq(Char), Reads("http_version_minor_start", t), NEW c \in Char \ {"0"},
           NEW u \in Seq(Char), Extends(Append(t, c), u), IsRequest(u)
    PROVE  FALSE
<1> DEFINE n == Len(t)
<1>1. /\ n \in Nat /\ Extends(t, u) /\ u[n + 1] = c /\ InRequestLine("http_version_minor_start", t, n)
      /\ \E e \in (n + 1)..Len(u) : e > 1 /\ IsRequestLine(u, e - 2)
  BY RequestLineOf DEF HeaderStates
<1>2. PICK e \in (n + 1)..Len(u) : e > 1 /\ IsRequestLine(u, e - 2)
  BY <1>1
<1>3. InMajor(u, n - 1) /\ u[n] = "." /\ n > 0
  <2>1. InMajor(t, n - 1) /\ t[n] = "." /\ n > 0
    BY <1>1 DEF InRequestLine
  <2>2. n - 1 \in 0..Len(t) /\ n \in 1..Len(t)
    BY <2>1
  <2> QED BY <1>1, <2>1, <2>2, MajorStays DEF Extends
<1> HIDE DEF n
<1>4. PICK i \in 8..((n - 1) - 1) : InVersion(u, i, 5) /\ All(u, i, n - 1, {"0"})
  BY <1>3 DEF InMajor
<1> DEFINE j == i - 5
<1>5. j \in Nat /\ j + 5 = i /\ e - 2 \in Nat /\ 5 \in 0..5
  BY <1>2
<1> HIDE DEF j
<1>6. PICK dot \in (j + 7)..((e - 2) - 1) :
         All(u, j + 5, dot - 1, {"0"}) /\ u[dot] = "." /\ All(u, dot, e - 2, {"0"})
  BY <1>2, <1>4, <1>5, VersionOf
<1>7. CASE dot < n
  <2>1. dot \in (i + 1)..(n - 1)
    BY <1>1, <1>5, <1>7
  <2> QED BY <1>4, <1>6, <2>1 DEF All
<1>8. CASE dot = n
  <2>1. n + 1 \in (dot + 1)..(e - 2)
    BY <1>1, <1>2, <1>8
  <2> QED BY <1>1, <1>6, <2>1 DEF All
<1>9. CASE dot > n
  <2>1. n \in (j + 5 + 1)..(dot - 1)
    BY <1>1, <1>5, <1>9
  <2> QED BY <1>3, <1>6, <2>1 DEF All
<1> QED
  BY <1>1, <1>7, <1>8, <1>9

LEMMA NotInMinor ==
    ASSUME NEW t \in Seq(Char), Reads("http_version_minor", t), NEW c \in Char \ {"CR", "0"},
           NEW u \in Seq(Char), Extends(Append(t, c), u), IsRequest(u)
    PROVE  FALSE
<1> DEFINE n == Len(t)
<1>1. /\ n \in Nat /\ Extends(t, u) /\ u[n + 1] = c /\ InRequestLine("http_version_minor", t, n)
      /\ \E e \in (n + 1)..Len(u) : e > 1 /\ u[e - 1] = "CR" /\ IsRequestLine(u, e - 2)
  BY RequestLineOf DEF HeaderStates
<1>2. PICK e \in (n + 1)..Len(u) : e > 1 /\ u[e - 1] = "CR" /\ IsRequestLine(u, e - 2)
  BY <1>1
<1>3. IsRequestLine(u, n)
  <2>1. IsRequestLine(t, n) /\ n \in 0..Len(t)
    BY <1>1 DEF InRequestLine
  <2> QED BY <1>1, <2>1, ExtendsRequestLine
<1> HIDE DEF n
<1>4. PICK j \in 3..n : IsCall(u, j) /\ IsVersion(u, j, n)
  BY <1>3 DEF IsRequestLine
<1>5. PICK i \in 3..(e - 2) : IsCall(u, i) /\ IsVersion(u, i, e - 2)
  BY <1>2 DEF IsRequestLine
<1>6. i = j
  BY <1>4, <1>5, CallUnique
<1>7. PICK d \in (j + 7)..(n - 1) : All(u, j + 5, d - 1, {"0"}) /\ u[d] = "." /\ All(u, d, n, {"0"})
  BY <1>4 DEF IsVersion
<1>8. PICK dot \in (j + 7)..((e - 2) - 1) :
         All(u, j + 5, dot - 1, {"0"}) /\ u[dot] = "." /\ All(u, dot, e - 2, {"0"})
  BY <1>5, <1>6 DEF IsVersion
<1>9. dot = d
  <2>1. CASE dot < d
    <3>1. dot \in (j + 5 + 1)..(d - 1)
      BY <2>1
    <3> QED BY <1>7, <1>8, <3>1 DEF All
  <2>2. CASE dot > d
    <3>1. d \in (j + 5 + 1)..(dot - 1)
      BY <2>2
    <3> QED BY <1>7, <1>8, <3>1 DEF All
  <2> QED BY <2>1, <2>2
<1>10. CASE n + 1 <= e - 2
  <2>1. n + 1 \in (dot + 1)..(e - 2)
    BY <1>1, <1>9, <1>10
  <2> QED BY <1>1, <1>8, <2>1 DEF All
<1>11. CASE n + 1 = e - 1
  BY <1>1, <1>2, <1>11
<1>12. CASE n + 1 = e
  <2>1. n \in (d + 1)..n /\ e - 1 = n
    BY <1>1, <1>12
  <2> QED BY <1>2, <1>7, <2>1 DEF All
<1> QED
  BY <1>1, <1>10, <1>11, <1>12

\* Behind the carriage return there is a line feed.
LEMMA NotAfterRequestLine ==
    ASSUME NEW t \in Seq(Char), Reads("expecting_newline_1", t), NEW c \in Char \ {"LF"},
           NEW u \in Seq(Char), Extends(Append(t, c), u), IsRequest(u)
    PROVE  FALSE
<1> DEFINE n == Len(t)
<1>1. /\ n \in Nat /\ Extends(t, u) /\ u[n + 1] = c /\ InRequestLine("expecting_newline_1", t, n)
      /\ \E e \in (n + 1)..Len(u) : e > 1 /\ u[e] = "LF" /\ IsRequestLine(u, e - 2)
  BY RequestLineOf DEF HeaderStates
<1>2. PICK e \in (n + 1)..Len(u) : e > 1 /\ u[e] = "LF" /\ IsRequestLine(u, e - 2)
  BY <1>1
<1>3. n > 0 /\ u[n] = "CR"
  <2>1. n > 0 /\ t[n] = "CR"
    BY <1>1 DEF InRequestLine
  <2>2. n \in 1..Len(t)
    BY <2>1
  <2> QED BY <1>1, <2>1, <2>2 DEF Extends
<1> HIDE DEF n
<1>4. n + 1 # e
  BY <1>1, <1>2
<1>5. n \in 1..(e - 2) /\ e - 2 \in Nat
  BY <1>1, <1>2, <1>3, <1>4
<1>6. u[n] \in Printable
  BY <1>2, <1>5, RequestLineChars DEF All
<1> QED
  BY <1>3, <1>6, SetsOfChars

\* A line starts with a name, with white space if there is a header to continue,
\* or is empty.
LEMMA NotAtLineStart ==
    ASSUME NEW t \in Seq(Char), Reads("header_line_start", t),
           NEW c \in Char \ (Token \cup {"CR"}), c \in White => ~Later(t, Len(t)),
           NEW u \in Seq(Char), Extends(Append(t, c), u), IsRequest(u)
    PROVE  FALSE
<1> DEFINE n == Len(t)
<1>1. /\ n \in Nat /\ Extends(t, u) /\ u[n + 1] = c
      /\ \E b \in 1..n :
            /\ InHeaderLine("header_line_start", t, b, n)
            /\ \E e \in (n + 1)..Len(u) :
                  /\ u[e] = "LF" /\ u[e - 1] = "CR" /\ b + 1 < e
                  /\ e = b + 2 \/ IsHeader(u, b, e - 2) \/ (IsFolded(u, b, e - 2) /\ Later(u, b))
  BY HeaderLineOf DEF HeaderStates
<1>2. PICK b \in 1..n :
         /\ InHeaderLine("header_line_start", t, b, n)
         /\ \E e \in (n + 1)..Len(u) :
               /\ u[e] = "LF" /\ u[e - 1] = "CR" /\ b + 1 < e
               /\ e = b + 2 \/ IsHeader(u, b, e - 2) \/ (IsFolded(u, b, e - 2) /\ Later(u, b))
  BY <1>1
<1>3. PICK e \in (n + 1)..Len(u) :
         /\ u[e] = "LF" /\ u[e - 1] = "CR" /\ b + 1 < e
         /\ e = b + 2 \/ IsHeader(u, b, e - 2) \/ (IsFolded(u, b, e - 2) /\ Later(u, b))
  BY <1>2
<1>4. b = n /\ (Later(u, b) => Later(t, n))
  <2>1. b = n
    BY <1>2 DEF InHeaderLine
  <2> QED BY <1>1, <2>1, LaterStays
<1> HIDE DEF n
<1>5. CASE e = b + 2
  <2>1. e - 1 = n + 1
    BY <1>1, <1>4, <1>5
  <2> QED BY <1>1, <1>3, <2>1
<1>6. CASE IsHeader(u, b, e - 2)
  <2>1. u[b + 1] \in Token
    BY <1>6 DEF IsHeader, All
  <2> QED BY <1>1, <1>4, <2>1
<1>7. CASE IsFolded(u, b, e - 2) /\ Later(u, b)
  <2>1. u[b + 1] \in White
    BY <1>7 DEF IsFolded, All
  <2>2. c \notin White
    BY <1>4, <1>7 DEF n
  <2> QED BY <1>1, <1>4, <2>1, <2>2
<1> QED
  BY <1>3, <1>5, <1>6, <1>7

\* The first character of a line tells a header from a folded line.
LEMMA KindOfLine ==
    ASSUME NEW u, NEW b \in Nat, NEW e \in Int
    PROVE  /\ IsHeader(u, b, e) => u[b + 1] \in Token
           /\ IsFolded(u, b, e) => u[b + 1] \in White
BY DEF IsHeader, IsFolded, All

\* Nor does a request go on in a way a name, a fold, a value does not.
LEMMA NotInName ==
    ASSUME NEW t \in Seq(Char), Reads("header_name", t), NEW c \in Char \ (Token \cup {":"}),
           NEW u \in Seq(Char), Extends(Append(t, c), u), IsRequest(u)
    PROVE  FALSE
<1> DEFINE n == Len(t)
<1>1. /\ n \in Nat /\ Extends(t, u) /\ u[n + 1] = c
      /\ \E b \in 1..n :
            /\ InHeaderLine("header_name", t, b, n)
            /\ \E e \in (n + 1)..Len(u) :
                  /\ u[e - 1] = "CR" /\ b + 1 < e
                  /\ e = b + 2 \/ IsHeader(u, b, e - 2) \/ IsFolded(u, b, e - 2)
  BY HeaderLineOf DEF HeaderStates
<1>2. PICK b \in 1..n :
         /\ InHeaderLine("header_name", t, b, n)
         /\ \E e \in (n + 1)..Len(u) :
               /\ u[e - 1] = "CR" /\ b + 1 < e
               /\ e = b + 2 \/ IsHeader(u, b, e - 2) \/ IsFolded(u, b, e - 2)
  BY <1>1
<1>3. PICK e \in (n + 1)..Len(u) :
         /\ u[e - 1] = "CR" /\ b + 1 < e
         /\ e = b + 2 \/ IsHeader(u, b, e - 2) \/ IsFolded(u, b, e - 2)
  BY <1>2
<1>4. n > b /\ All(u, b, n, Token)
  <2>1. n > b /\ All(t, b, n, Token)
    BY <1>2 DEF InHeaderLine
  <2>2. b \in Nat /\ n \in 0..Len(t)
    OBVIOUS
  <2> QED BY <1>1, <2>1, <2>2, ExtendsAll
<1> HIDE DEF n
<1>5. u[b + 1] \in Token /\ b \in Nat /\ e - 2 \in Int
  BY <1>1, <1>3, <1>4 DEF All
<1>6. CASE e = b + 2
  BY <1>3, <1>5, <1>6, SetsOfChars
<1>7. CASE IsHeader(u, b, e - 2)
  <2>1. PICK i \in (b + 2)..((e - 2) - 1) : u[i] = ":" /\ All(u, b, i - 1, Token)
    BY <1>7 DEF IsHeader
  <2>2. CASE i <= n
    BY <1>1, <1>4, <2>1, <2>2, SetsOfChars DEF All
  <2>3. CASE i = n + 1
    BY <1>1, <2>1, <2>3
  <2>4. CASE i > n + 1
    <3>1. n + 1 \in (b + 1)..(i - 1)
      BY <1>1, <1>4, <2>4
    <3> QED BY <1>1, <2>1, <3>1 DEF All
  <2> QED BY <1>1, <2>2, <2>3, <2>4
<1>8. CASE IsFolded(u, b, e - 2)
  BY <1>5, <1>8, KindOfLine, SetsOfChars
<1> QED
  BY <1>3, <1>6, <1>7, <1>8

LEMMA NotAfterColon ==
    ASSUME NEW t \in Seq(Char), Reads("space_before_header_value", t), NEW c \in Char \ {"SP"},
           NEW u \in Seq(Char), Extends(Append(t, c), u), IsRequest(u)
    PROVE  FALSE
<1> DEFINE n == Len(t)
<1>1. /\ n \in Nat /\ Extends(t, u) /\ u[n + 1] = c
      /\ \E b \in 1..n :
            /\ InHeaderLine("space_before_header_value", t, b, n)
            /\ \E e \in (n + 1)..Len(u) :
                  /\ u[e - 1] = "CR" /\ b + 1 < e
                  /\ e = b + 2 \/ IsHeader(u, b, e - 2) \/ IsFolded(u, b, e - 2)
  BY HeaderLineOf DEF HeaderStates
<1>2. PICK b \in 1..n :
         /\ InHeaderLine("space_before_header_value", t, b, n)
         /\ \E e \in (n + 1)..Len(u) :
               /\ u[e - 1] = "CR" /\ b + 1 < e
               /\ e = b + 2 \/ IsHeader(u, b, e - 2) \/ IsFolded(u, b, e - 2)
  BY <1>1
<1>3. PICK e \in (n + 1)..Len(u) :
         /\ u[e - 1] = "CR" /\ b + 1 < e
         /\ e = b + 2 \/ IsHeader(u, b, e - 2) \/ IsFolded(u, b, e - 2)
  BY <1>2
<1>4. n > b + 1 /\ u[n] = ":" /\ All(u, b, n - 1, Token)
  <2>1. n > b + 1 /\ t[n] = ":" /\ All(t, b, n - 1, Token)
    BY <1>2 DEF InHeaderLine
  <2>2. b \in Nat /\ n - 1 \in 0..Len(t) /\ n \in 1..Len(t)
    BY <2>1
  <2>3. u[n] = t[n]
    BY <1>1, <2>2 DEF Extends
  <2> QED BY <1>1, <2>1, <2>2, <2>3, ExtendsAll
<1> HIDE DEF n
<1>5. u[b + 1] \in Token /\ b \in Nat /\ e - 2 \in Int
  BY <1>1, <1>3, <1>4 DEF All
<1>6. CASE e = b + 2
  BY <1>3, <1>5, <1>6, SetsOfChars
<1>7. CASE IsHeader(u, b, e - 2)
  <2>1. PICK i \in (b + 2)..((e - 2) - 1) : u[i] = ":" /\ u[i + 1] = "SP" /\ All(u, b, i - 1, Token)
    BY <1>7 DEF IsHeader
  <2>2. i = n
    BY <1>1, <1>4, <2>1, SetsOfChars DEF All
  <2> QED BY <1>1, <2>1, <2>2
<1>8. CASE IsFolded(u, b, e - 2)
  BY <1>5, <1>8, KindOfLine, SetsOfChars
<1> QED
  BY <1>3, <1>6, <1>7, <1>8

LEMMA NotInFold ==
    ASSUME NEW t \in Seq(Char), Reads("header_lws", t), NEW c \in Char \ (Printable \cup {"CR", "HT"}),
           NEW u \in Seq(Char), Extends(Append(t, c), u), IsRequest(u)
    PROVE  FALSE
<1> DEFINE n == Len(t)
<1>1. /\ n \in Nat /\ Extends(t, u) /\ u[n + 1] = c
      /\ \E b \in 1..n :
            /\ InHeaderLine("header_lws", t, b, n)
            /\ \E e \in (n + 1)..Len(u) :
                  /\ u[e - 1] = "CR" /\ b + 1 < e
                  /\ e = b + 2 \/ IsHeader(u, b, e - 2) \/ IsFolded(u, b, e - 2)
  BY HeaderLineOf DEF HeaderStates
<1>2. PICK b \in 1..n :
         /\ InHeaderLine("header_lws", t, b, n)
         /\ \E e \in (n + 1)..Len(u) :
               /\ u[e - 1] = "CR" /\ b + 1 < e
               /\ e = b + 2 \/ IsHeader(u, b, e - 2) \/ IsFolded(u, b, e - 2)
  BY <1>1
<1>3. PICK e \in (n + 1)..Len(u) :
         /\ u[e - 1] = "CR" /\ b + 1 < e
         /\ e = b + 2 \/ IsHeader(u, b, e - 2) \/ IsFolded(u, b, e - 2)
  BY <1>2
<1>4. n > b /\ All(u, b, n, White)
  <2>1. n > b /\ All(t, b, n, White)
    BY <1>2 DEF InHeaderLine
  <2>2. b \in Nat /\ n \in 0..Len(t)
    OBVIOUS
  <2> QED BY <1>1, <2>1, <2>2, ExtendsAll
<1> HIDE DEF n
<1>5. u[b + 1] \in White /\ u[n] \in White /\ b \in Nat /\ e - 2 \in Int /\ e - 2 >= b
  BY <1>1, <1>3, <1>4 DEF All
<1>6. CASE e = b + 2
  BY <1>3, <1>5, <1>6, SetsOfChars
<1>7. CASE e > b + 2
  <2>1. All(u, b, e - 2, Printable \cup {"HT"})
    <3>1. e # b + 2 /\ e - 2 \in Nat
      BY <1>5, <1>7
    <3> QED BY <1>3, <1>5, <3>1, HeaderLineChars
  <2>2. CASE n + 1 <= e - 2
    <3>1. n + 1 \in (b + 1)..(e - 2)
      BY <1>1, <1>4, <2>2
    <3> QED BY <1>1, <2>1, <3>1 DEF All
  <2>3. CASE n + 1 = e - 1
    BY <1>1, <1>3, <2>3
  <2>4. CASE n + 1 = e
    <3>1. u[n] = "CR"
      BY <1>1, <1>3, <2>4
    <3> QED BY <1>5, <3>1, SetsOfChars
  <2> QED BY <1>1, <2>2, <2>3, <2>4
<1> QED
  BY <1>3, <1>5, <1>6, <1>7

LEMMA NotInValue ==
    ASSUME NEW t \in Seq(Char), Reads("header_value", t), NEW c \in Char \ (Printable \cup {"CR"}),
           NEW u \in Seq(Char), Extends(Append(t, c), u), IsRequest(u)
    PROVE  FALSE
<1> DEFINE n == Len(t)
<1>1. /\ n \in Nat /\ Extends(t, u) /\ u[n + 1] = c
      /\ \E b \in 1..n :
            /\ InHeaderLine("header_value", t, b, n)
            /\ \E e \in (n + 1)..Len(u) :
                  /\ u[e - 1] = "CR" /\ b + 1 < e
                  /\ e = b + 2 \/ IsHeader(u, b, e - 2) \/ IsFolded(u, b, e - 2)
  BY HeaderLineOf DEF HeaderStates
<1>2. PICK b \in 1..n :
         /\ InHeaderLine("header_value", t, b, n)
         /\ \E e \in (n + 1)..Len(u) :
               /\ u[e - 1] = "CR" /\ b + 1 < e
               /\ e = b + 2 \/ IsHeader(u, b, e - 2) \/ IsFolded(u, b, e - 2)
  BY <1>1
<1>3. PICK e \in (n + 1)..Len(u) :
         /\ u[e - 1] = "CR" /\ b + 1 < e
         /\ e = b + 2 \/ IsHeader(u, b, e - 2) \/ IsFolded(u, b, e - 2)
  BY <1>2
<1>4. IsHeader(t, b, n) \/ Resumed(t, b, n)
  BY <1>2 DEF InHeaderLine
<1>5. b \in Nat /\ n \in 0..Len(t) /\ e - 2 \in Int
  BY <1>3
<1>6. CASE IsHeader(t, b, n)
  <2>1. IsHeader(u, b, n)
    BY <1>1, <1>5, <1>6, ExtendsHeader
  <2> HIDE DEF n
  <2>2. PICK i \in (b + 2)..(n - 1) :
           /\ u[i] = ":" /\ u[i + 1] = "SP"
           /\ All(u, b, i - 1, Token) /\ All(u, i + 1, n, Printable)
    BY <2>1 DEF IsHeader
  <2>3. u[b + 1] \in Token
    BY <1>5, <2>1, KindOfLine
  <2>4. PICK j \in (b + 2)..((e - 2) - 1) :
           /\ u[j] = ":" /\ All(u, b, j - 1, Token) /\ All(u, j + 1, e - 2, Printable)
    <3>1. e # b + 2
      BY <1>3, <2>3, SetsOfChars
    <3>2. IsHeader(u, b, e - 2)
      BY <1>3, <1>5, <2>3, <3>1, KindOfLine, SetsOfChars
    <3> QED BY <3>2 DEF IsHeader
  <2>5. i = j
    BY <2>2, <2>4, SetsOfChars DEF All
  <2>6. CASE n + 1 <= e - 2
    <3>1. n + 1 \in (j + 1 + 1)..(e - 2)
      BY <1>1, <2>5, <2>6
    <3> QED BY <1>1, <2>4, <3>1 DEF All
  <2>7. CASE n + 1 = e - 1
    BY <1>1, <1>3, <2>7
  <2>8. CASE n + 1 = e
    <3>1. u[n] = "CR"
      BY <1>1, <1>3, <2>8
    <3>2. n = i + 1 \/ n \in (i + 1 + 1)..n
      BY <1>1
    <3> QED BY <2>2, <3>1, <3>2, SetsOfChars DEF All
  <2> QED BY <1>1, <2>6, <2>7, <2>8
<1>7. CASE Resumed(t, b, n)
  <2>1. PICK i \in (b + 1)..(n - 1) :
           All(t, b, i, White) /\ t[i + 1] \notin White /\ All(t, i, n, Printable)
    BY <1>7 DEF Resumed
  <2>2. i \in Nat /\ i \in 0..Len(t) /\ i + 1 \in 1..Len(t)
    BY <1>5
  <2>3. All(u, b, i, White) /\ u[i + 1] \notin White /\ All(u, i, n, Printable)
    <3>1. u[i + 1] = t[i + 1]
      BY <1>1, <2>2 DEF Extends
    <3> QED BY <1>1, <1>5, <2>1, <2>2, <3>1, ExtendsAll
  <2> HIDE DEF n
  <2>4. u[b + 1] \in White
    BY <2>3 DEF All
  <2>5. PICK j \in (b + 1)..(e - 2) : All(u, b, j, White) /\ All(u, j, e - 2, Printable)
    <3>1. e # b + 2
      BY <1>3, <2>4, SetsOfChars
    <3>2. IsFolded(u, b, e - 2)
      BY <1>3, <1>5, <2>4, <3>1, KindOfLine, SetsOfChars
    <3> QED BY <3>2 DEF IsFolded
  <2>6. j <= i
    BY <2>3, <2>5 DEF All
  <2>7. CASE n + 1 <= e - 2
    <3>1. n + 1 \in (j + 1)..(e - 2)
      BY <1>1, <2>6, <2>7
    <3> QED BY <1>1, <2>5, <3>1 DEF All
  <2>8. CASE n + 1 = e - 1
    BY <1>1, <1>3, <2>8
  <2>9. CASE n + 1 = e
    <3>1. u[n] = "CR" /\ n \in (i + 1)..n
      BY <1>1, <1>3, <2>9
    <3> QED BY <2>3, <3>1, SetsOfChars DEF All
  <2> QED BY <1>1, <2>7, <2>8, <2>9
<1> QED
  BY <1>4, <1>6, <1>7

\* Behind the carriage return of a header or of the empty line, too.
LEMMA NotAfterHeader ==
    ASSUME NEW t \in Seq(Char), NEW s \in {"expecting_newline_2", "expecting_newline_3"}, Reads(s, t),
           NEW c \in Char \ {"LF"},
           NEW u \in Seq(Char), Extends(Append(t, c), u), IsRequest(u)
    PROVE  FALSE
<1> DEFINE n == Len(t)
<1>1. /\ n \in Nat /\ Extends(t, u) /\ u[n + 1] = c
      /\ \E b \in 1..n :
            /\ InHeaderLine(s, t, b, n)
            /\ \E e \in (n + 1)..Len(u) :
                  /\ u[e] = "LF" /\ b + 1 < e
                  /\ e = b + 2 \/ IsHeader(u, b, e - 2) \/ IsFolded(u, b, e - 2)
  BY HeaderLineOf DEF HeaderStates
<1>2. PICK b \in 1..n :
         /\ InHeaderLine(s, t, b, n)
         /\ \E e \in (n + 1)..Len(u) :
               /\ u[e] = "LF" /\ b + 1 < e
               /\ e = b + 2 \/ IsHeader(u, b, e - 2) \/ IsFolded(u, b, e - 2)
  BY <1>1
<1>3. PICK e \in (n + 1)..Len(u) :
         /\ u[e] = "LF" /\ b + 1 < e
         /\ e = b + 2 \/ IsHeader(u, b, e - 2) \/ IsFolded(u, b, e - 2)
  BY <1>2
<1>4. n > b /\ u[n] = "CR"
  <2>1. n > b /\ t[n] = "CR"
    BY <1>2 DEF InHeaderLine
  <2>2. n \in 1..Len(t)
    BY <2>1
  <2> QED BY <1>1, <2>1, <2>2 DEF Extends
<1> HIDE DEF n
<1>5. n + 1 # e
  BY <1>1, <1>3
<1>6. n \in (b + 1)..(e - 2) /\ b \in Nat /\ e - 2 \in Nat /\ e # b + 2
  BY <1>1, <1>3, <1>4, <1>5
<1>7. All(u, b, e - 2, Printable \cup {"HT"})
  BY <1>3, <1>6, HeaderLineChars
<1> QED
  BY <1>4, <1>6, <1>7, SetsOfChars DEF All

\* What wants more is no request yet.
LEMMA NotYet ==
    ASSUME NEW t \in Seq(Char), NEW s, Reads(s, t)
    PROVE  ~IsRequest(t)
<1> SUFFICES ASSUME IsRequest(t) PROVE FALSE
  OBVIOUS
<1> DEFINE n == Len(t)
<1>1. /\ n \in Feeds(t) /\ n - 2 \in Feeds(t) /\ t[n - 1] = "CR" /\ n \in 1..n /\ n - 2 \in 1..n
  BY DEF IsRequest, Feeds
<1>2. Fits(t, Start(t, n), n)
  BY <1>1 DEF Reads, Complete
<1> HIDE DEF n
<1>3. IsStart(t, n - 2, n)
  <2>1. t[n - 2] = "LF"
    BY <1>1 DEF Feeds
  <2>2. \A k \in (n - 2 + 1)..(n - 1) : k = n - 1
    BY <1>1
  <2> QED BY <1>1, <2>1, <2>2 DEF IsStart
<1>4. Start(t, n) = n - 2
  BY <1>1, <1>3, StartIs
<1>5. IsHeader(t, n - 2, n - 2) \/ IsFolded(t, n - 2, n - 2)
  BY <1>1, <1>2, <1>4 DEF Fits
<1> QED
  BY <1>1, <1>5 DEF IsHeader, IsFolded

-----------------------------------------------------------------------------
(* The decisions of the parser *)

\* The tests of the code and the classes of the grammar.
LEMMA Classes ==
    \A c \in Char : /\ IsToken(c) <=> c \in Token
                    /\ is_ctl(c) <=> c \notin Printable
                    /\ is_digit(c) <=> c = "0"
                    /\ c \in {"SP", "HT"} <=> c \in White
BY DEF IsToken, is_char, is_ctl, is_tspecial, is_digit, Char, Token, Printable, White

\* To reject is right where no request goes on.
LEMMA RejectDecides ==
    ASSUME text \in Seq(Char), NEW c \in Char, text' = Append(text, c), Reject,
           \A u \in Seq(Char) : Extends(Append(text, c), u) => ~IsRequest(u)
    PROVE  Decides'
<1>1. Append(text, c) \in Seq(Char) /\ result' = "bad"
  BY DEF Reject
<1> DEFINE v == Append(text, c)
<1> HIDE DEF v
<1>2. Hopeless(v)
  <2> SUFFICES ASSUME NEW rest \in Seq(Char) PROVE ~IsRequest(v \o rest)
    BY DEF Hopeless
  <2>1. v \in Seq(Char)
    BY <1>1 DEF v
  <2>2. v \o rest \in Seq(Char) /\ Extends(v, v \o rest)
    BY <2>1, ExtendsRest
  <2> QED BY <2>2 DEF v
<1> QED
  BY <1>1, <1>2 DEF Decides, v

\* On in the request line: no header is touched.
LEMMA RequestLineDecides ==
    ASSUME NEW s, s \notin HeaderStates, state' = s, result' = "indeterminate",
           request'.headers = <<>>, Reads(s, text')
    PROVE  Decides'
BY DEF Decides, HeaderStates

\* The states of the request line, each with the steps above.
LEMMA MethodDecides ==
    ASSUME text \in Seq(Char), request \in Request, Decides, result = "indeterminate",
           NEW c \in Char, text' = Append(text, c), ConsumeMethod(c)
    PROVE  Decides'
<1>1. state \in {"method_start", "method"} /\ Reads(state, text) /\ request.headers = <<>>
  BY DEF Decides, ConsumeMethod, HeaderStates
<1>2. CASE c = "SP" /\ state = "method"
  <2>1. Skip("uri")
    BY <1>2 DEF ConsumeMethod
  <2>2. Reads("uri", text')
    BY <1>1, <1>2, OnMethodEnd
  <2> QED BY <1>1, <2>1, <2>2, RequestLineDecides DEF Skip, Goto, HeaderStates
<1>3. CASE ~(c = "SP" /\ state = "method") /\ c \in Token
  <2>1. Store("method", [request EXCEPT !.method = Append(@, c)])
    BY <1>3, Classes DEF ConsumeMethod
  <2>2. Reads("method", text')
    BY <1>1, <1>3, OnMethod
  <2>3. [request EXCEPT !.method = Append(@, c)].headers = request.headers
    BY DEF Request
  <2> QED BY <1>1, <2>1, <2>2, <2>3, RequestLineDecides DEF Store, Goto, HeaderStates
<1>4. CASE ~(c = "SP" /\ state = "method") /\ c \notin Token
  <2>1. Reject
    BY <1>4, Classes DEF ConsumeMethod
  <2>2. \A u \in Seq(Char) : Extends(Append(text, c), u) => ~IsRequest(u)
    BY <1>1, <1>4, NotInMethod
  <2> QED BY <2>1, <2>2, RejectDecides
<1> QED
  BY <1>2, <1>3, <1>4

LEMMA UriDecides ==
    ASSUME text \in Seq(Char), request \in Request, Decides, result = "indeterminate",
           NEW c \in Char, text' = Append(text, c), ConsumeUri(c)
    PROVE  Decides'
<1>1. state = "uri" /\ Reads("uri", text) /\ request.headers = <<>>
  BY DEF Decides, ConsumeUri, HeaderStates
<1>2. CASE c = "SP"
  <2>1. Skip("http_version_h")
    BY <1>2 DEF ConsumeUri
  <2>2. Reads("http_version_h", text')
    BY <1>1, <1>2, OnUriEnd
  <2> QED BY <1>1, <2>1, <2>2, RequestLineDecides DEF Skip, Goto, HeaderStates
<1>3. CASE c \in Printable \ {"SP"}
  <2>1. Store("uri", [request EXCEPT !.uri = Append(@, c)])
    BY <1>3, Classes DEF ConsumeUri
  <2>2. Reads("uri", text')
    BY <1>1, <1>3, OnUri
  <2>3. [request EXCEPT !.uri = Append(@, c)].headers = request.headers
    BY DEF Request
  <2> QED BY <1>1, <2>1, <2>2, <2>3, RequestLineDecides DEF Store, Goto, HeaderStates
<1>4. CASE c # "SP" /\ c \notin Printable
  <2>1. Reject
    BY <1>4, Classes DEF ConsumeUri
  <2>2. \A u \in Seq(Char) : Extends(Append(text, c), u) => ~IsRequest(u)
    BY <1>1, <1>4, NotInUri
  <2> QED BY <2>1, <2>2, RejectDecides
<1> QED
  BY <1>2, <1>3, <1>4

LEMMA MajorDecides ==
    ASSUME text \in Seq(Char), request \in Request, Decides, result = "indeterminate",
           NEW c \in Char, text' = Append(text, c), ConsumeMajor(c)
    PROVE  Decides'
<1>1. /\ state \in {"http_version_major_start", "http_version_major"}
      /\ Reads(state, text) /\ request.headers = <<>>
  BY DEF Decides, ConsumeMajor, HeaderStates
<1>2. CASE c = "." /\ state = "http_version_major"
  <2>1. Skip("http_version_minor_start")
    BY <1>2 DEF ConsumeMajor
  <2>2. Reads("http_version_minor_start", text')
    BY <1>1, <1>2, OnMajorEnd
  <2> QED BY <1>1, <2>1, <2>2, RequestLineDecides DEF Skip, Goto, HeaderStates
<1>3. CASE c = "0"
  <2>1. Store("http_version_major", [request EXCEPT !.major = @ + 1])
    BY <1>3, Classes DEF ConsumeMajor
  <2>2. Reads("http_version_major", text')
    BY <1>1, <1>3, OnMajor
  <2>3. [request EXCEPT !.major = @ + 1].headers = request.headers
    BY DEF Request
  <2> QED BY <1>1, <2>1, <2>2, <2>3, RequestLineDecides DEF Store, Goto, HeaderStates
<1>4. CASE ~(c = "." /\ state = "http_version_major") /\ c # "0"
  <2>1. Reject
    BY <1>4, Classes DEF ConsumeMajor
  <2>2. \A u \in Seq(Char) : Extends(Append(text, c), u) => ~IsRequest(u)
    <3>1. CASE state = "http_version_major"
      BY <1>1, <1>4, <3>1, NotInMajor
    <3>2. CASE state = "http_version_major_start"
      <4>1. Reads("http_version_major_start", text) /\ "http_version_major_start" \notin HeaderStates /\ 5 \in 0..5
        BY <1>1, <3>2 DEF HeaderStates
      <4>2. InRequestLine("http_version_major_start", text, Len(text)) => InVersion(text, Len(text), 5)
        BY DEF InRequestLine
      <4> QED BY <1>4, <4>1, <4>2, NotInVersion
    <3> QED BY <1>1, <3>1, <3>2
  <2> QED BY <2>1, <2>2, RejectDecides
<1> QED
  BY <1>2, <1>3, <1>4

LEMMA MinorDecides ==
    ASSUME text \in Seq(Char), request \in Request, Decides, result = "indeterminate",
           NEW c \in Char, text' = Append(text, c), ConsumeMinor(c)
    PROVE  Decides'
<1>1. /\ state \in {"http_version_minor_start", "http_version_minor"}
      /\ Reads(state, text) /\ request.headers = <<>>
  BY DEF Decides, ConsumeMinor, HeaderStates
<1>2. CASE c = "CR" /\ state = "http_version_minor"
  <2>1. Skip("expecting_newline_1")
    BY <1>2 DEF ConsumeMinor
  <2>2. Reads("expecting_newline_1", text')
    BY <1>1, <1>2, OnMinorEnd
  <2> QED BY <1>1, <2>1, <2>2, RequestLineDecides DEF Skip, Goto, HeaderStates
<1>3. CASE c = "0"
  <2>1. Store("http_version_minor", [request EXCEPT !.minor = @ + 1])
    BY <1>3, Classes DEF ConsumeMinor
  <2>2. Reads("http_version_minor", text')
    BY <1>1, <1>3, OnMinor
  <2>3. [request EXCEPT !.minor = @ + 1].headers = request.headers
    BY DEF Request
  <2> QED BY <1>1, <2>1, <2>2, <2>3, RequestLineDecides DEF Store, Goto, HeaderStates
<1>4. CASE ~(c = "CR" /\ state = "http_version_minor") /\ c # "0"
  <2>1. Reject
    BY <1>4, Classes DEF ConsumeMinor
  <2>2. \A u \in Seq(Char) : Extends(Append(text, c), u) => ~IsRequest(u)
    BY <1>1, <1>4, NotAfterDot, NotInMinor
  <2> QED BY <2>1, <2>2, RejectDecides
<1> QED
  BY <1>2, <1>3, <1>4

\* On in the header lines, past the beginning of one.
LEMMA HeaderDecides ==
    ASSUME NEW s \in HeaderStates \ {"header_line_start"}, state' = s, result' = "indeterminate",
           s = "expecting_newline_2" => request'.headers # <<>>, Reads(s, text')
    PROVE  Decides'
BY DEF Decides, HeaderStates

\* Behind the request line no header can be continued yet.
LEMMA FirstHeaderLine ==
    ASSUME NEW t \in Seq(Char), Reads("expecting_newline_1", t)
    PROVE  ~Later(Append(t, "LF"), Len(t) + 1)
<1> DEFINE u == Append(t, "LF")
           n == Len(t)
<1>1. Len(u) = n + 1 /\ Extends(t, u) /\ n \in Nat
  BY AppendIs DEF Char
<1> HIDE DEF u
<1>2. Begins(t, 0)
  BY DEF Reads, HeaderStates
<1>3. \A k \in 1..n : u[k] # "LF"
  BY <1>1, <1>2 DEF Begins, Extends
<1>4. ~Later(u, n + 1)
  BY <1>1, <1>3 DEF Later
<1> QED
  BY <1>4 DEF u

\* The letters of the version.
LEMMA VersionDecides ==
    ASSUME text \in Seq(Char), request \in Request, Decides, result = "indeterminate",
           NEW c \in Char, text' = Append(text, c), ConsumeAwaited(c),
           state \in {"http_version_h", "http_version_t_1", "http_version_t_2",
                      "http_version_p", "http_version_slash"}
    PROVE  Decides'
<1>1. Reads(state, text) /\ request.headers = <<>> /\ state \notin HeaderStates
  BY DEF Decides, HeaderStates
<1>2. CASE c = Awaited[state]
  <2>1. Skip(Following[state])
    BY <1>2 DEF ConsumeAwaited
  <2>2. Reads(Following[state], text') /\ Following[state] \notin HeaderStates
    <3>1. CASE state = "http_version_h"
      BY <1>1, <1>2, <3>1, OnVersion DEF Awaited, Following, HeaderStates
    <3>2. CASE state = "http_version_t_1"
      BY <1>1, <1>2, <3>2, OnVersion DEF Awaited, Following, HeaderStates
    <3>3. CASE state = "http_version_t_2"
      BY <1>1, <1>2, <3>3, OnVersion DEF Awaited, Following, HeaderStates
    <3>4. CASE state = "http_version_p"
      BY <1>1, <1>2, <3>4, OnVersion DEF Awaited, Following, HeaderStates
    <3>5. CASE state = "http_version_slash"
      BY <1>1, <1>2, <3>5, OnVersion DEF Awaited, Following, HeaderStates
    <3> QED BY <3>1, <3>2, <3>3, <3>4, <3>5
  <2> QED BY <1>1, <2>1, <2>2, RequestLineDecides DEF Skip, Goto
<1>3. CASE c # Awaited[state]
  <2>1. Reject
    BY <1>3 DEF ConsumeAwaited
  <2>2. PICK m \in 0..4 : /\ InRequestLine(state, text, Len(text)) => InVersion(text, Len(text), m)
                          /\ Awaited[state] = Http[m + 1]
    <3>1. CASE state = "http_version_h"
      <4> WITNESS 0 \in 0..4
      <4> QED BY <3>1, HttpIs DEF InRequestLine, Awaited
    <3>2. CASE state = "http_version_t_1"
      <4> WITNESS 1 \in 0..4
      <4> QED BY <3>2, HttpIs DEF InRequestLine, Awaited
    <3>3. CASE state = "http_version_t_2"
      <4> WITNESS 2 \in 0..4
      <4> QED BY <3>3, HttpIs DEF InRequestLine, Awaited
    <3>4. CASE state = "http_version_p"
      <4> WITNESS 3 \in 0..4
      <4> QED BY <3>4, HttpIs DEF InRequestLine, Awaited
    <3>5. CASE state = "http_version_slash"
      <4> WITNESS 4 \in 0..4
      <4> QED BY <3>5, HttpIs DEF InRequestLine, Awaited
    <3> QED BY <3>1, <3>2, <3>3, <3>4, <3>5
  <2>3. m \in 0..5 /\ (IF m = 5 THEN c # "0" ELSE c # Http[m + 1])
    BY <1>3, <2>2
  <2>4. \A u \in Seq(Char) : Extends(Append(text, c), u) => ~IsRequest(u)
    BY <1>1, <2>2, <2>3, NotInVersion
  <2> QED BY <2>1, <2>4, RejectDecides
<1> QED
  BY <1>2, <1>3

\* The states that wait for one character.
LEMMA AwaitedDecides ==
    ASSUME text \in Seq(Char), request \in Request, Decides, result = "indeterminate",
           NEW c \in Char, text' = Append(text, c), ConsumeAwaited(c)
    PROVE  Decides'
<1>1. Reads(state, text)
  BY DEF Decides
<1>2. CASE state \in {"http_version_h", "http_version_t_1", "http_version_t_2",
                      "http_version_p", "http_version_slash"}
  BY <1>2, VersionDecides
<1>3. CASE state = "expecting_newline_1"
  <2>1. CASE c = "LF"
    <3>1. Skip("header_line_start")
      BY <1>3, <2>1 DEF ConsumeAwaited, Awaited, Following
    <3>2. Reads("header_line_start", text') /\ ~Later(text', Len(text) + 1)
      BY <1>1, <1>3, <2>1, OnRequestLineEnd, FirstHeaderLine
    <3>3. request.headers = <<>> /\ Len(text') = Len(text) + 1
      BY <1>3, AppendIs DEF Decides, HeaderStates
    <3> QED BY <3>1, <3>2, <3>3 DEF Decides, Skip, Goto, HeaderStates
  <2>2. CASE c # "LF"
    <3>1. Reject
      BY <1>3, <2>2 DEF ConsumeAwaited, Awaited
    <3>2. \A u \in Seq(Char) : Extends(Append(text, c), u) => ~IsRequest(u)
      BY <1>1, <1>3, <2>2, NotAfterRequestLine
    <3> QED BY <3>1, <3>2, RejectDecides
  <2> QED BY <2>1, <2>2
<1>4. CASE state = "space_before_header_value"
  <2>1. CASE c = "SP"
    <3>1. Skip("header_value")
      BY <1>4, <2>1 DEF ConsumeAwaited, Awaited, Following
    <3>2. Reads("header_value", text')
      BY <1>1, <1>4, <2>1, OnSpace
    <3> QED BY <3>1, <3>2, HeaderDecides DEF Skip, Goto, HeaderStates
  <2>2. CASE c # "SP"
    <3>1. Reject
      BY <1>4, <2>2 DEF ConsumeAwaited, Awaited
    <3>2. \A u \in Seq(Char) : Extends(Append(text, c), u) => ~IsRequest(u)
      BY <1>1, <1>4, <2>2, NotAfterColon
    <3> QED BY <3>1, <3>2, RejectDecides
  <2> QED BY <2>1, <2>2
<1>5. CASE state = "expecting_newline_2"
  <2>1. CASE c = "LF"
    <3>1. Skip("header_line_start")
      BY <1>5, <2>1 DEF ConsumeAwaited, Awaited, Following
    <3>2. Reads("header_line_start", text') /\ Later(text', Len(text) + 1)
      BY <1>1, <1>5, <2>1, OnHeaderEnd
    <3>3. request.headers # <<>> /\ Len(text') = Len(text) + 1
      BY <1>5, AppendIs DEF Decides
    <3> QED BY <3>1, <3>2, <3>3 DEF Decides, Skip, Goto, HeaderStates
  <2>2. CASE c # "LF"
    <3>1. Reject
      BY <1>5, <2>2 DEF ConsumeAwaited, Awaited
    <3>2. \A u \in Seq(Char) : Extends(Append(text, c), u) => ~IsRequest(u)
      BY <1>1, <1>5, <2>2, NotAfterHeader
    <3> QED BY <3>1, <3>2, RejectDecides
  <2> QED BY <2>1, <2>2
<1> QED
  BY <1>2, <1>3, <1>4, <1>5 DEF ConsumeAwaited, Awaited

\* The states of a header.
LEMMA HeaderLineDecides ==
    ASSUME text \in Seq(Char), request \in Request, Decides, result = "indeterminate",
           NEW c \in Char, text' = Append(text, c), ConsumeHeaderLine(c)
    PROVE  Decides'
<1>1. /\ state = "header_line_start" /\ Reads("header_line_start", text)
      /\ request.headers # <<>> <=> Later(text, Len(text))
  BY DEF Decides, ConsumeHeaderLine
<1>2. CASE c = "CR"
  <2>1. Skip("expecting_newline_3")
    BY <1>2 DEF ConsumeHeaderLine
  <2>2. Reads("expecting_newline_3", text')
    BY <1>1, <1>2, OnEmptyLine
  <2> QED BY <2>1, <2>2, HeaderDecides DEF Skip, Goto, HeaderStates
<1>3. CASE request.headers # <<>> /\ c \in White
  <2>1. Skip("header_lws")
    BY <1>3 DEF ConsumeHeaderLine, White
  <2>2. Reads("header_lws", text')
    BY <1>1, <1>3, OnFold
  <2> QED BY <2>1, <2>2, HeaderDecides DEF Skip, Goto, HeaderStates
<1>4. CASE c \in Token
  <2>1. Store("header_name", OpenHeader(c))
    <3>1. c # "CR" /\ c \notin {"SP", "HT"} /\ IsToken(c)
      BY <1>4, Classes DEF Token
    <3> QED BY <3>1 DEF ConsumeHeaderLine
  <2>2. Reads("header_name", text')
    BY <1>1, <1>4, OnName
  <2> QED BY <2>1, <2>2, HeaderDecides DEF Store, Goto, HeaderStates
<1>5. CASE c \notin Token \cup {"CR"} /\ (c \in White => request.headers = <<>>)
  <2>1. Reject
    BY <1>5, Classes DEF ConsumeHeaderLine
  <2>2. \A u \in Seq(Char) : Extends(Append(text, c), u) => ~IsRequest(u)
    BY <1>1, <1>5, NotAtLineStart
  <2> QED BY <2>1, <2>2, RejectDecides
<1> QED
  BY <1>2, <1>3, <1>4, <1>5

LEMMA HeaderNameDecides ==
    ASSUME text \in Seq(Char), request \in Request, Decides, result = "indeterminate",
           NEW c \in Char, text' = Append(text, c), ConsumeHeaderName(c)
    PROVE  Decides'
<1>1. state = "header_name" /\ Reads("header_name", text)
  BY DEF Decides, ConsumeHeaderName
<1>2. CASE c = ":"
  <2>1. Skip("space_before_header_value")
    BY <1>2 DEF ConsumeHeaderName
  <2>2. Reads("space_before_header_value", text')
    BY <1>1, <1>2, OnColon
  <2> QED BY <2>1, <2>2, HeaderDecides DEF Skip, Goto, HeaderStates
<1>3. CASE c \in Token
  <2>1. Store("header_name", AddToName(c))
    <3>1. c # ":" /\ IsToken(c)
      BY <1>3, Classes DEF Token
    <3> QED BY <3>1 DEF ConsumeHeaderName
  <2>2. Reads("header_name", text')
    BY <1>1, <1>3, OnName
  <2> QED BY <2>1, <2>2, HeaderDecides DEF Store, Goto, HeaderStates
<1>4. CASE c \notin Token \cup {":"}
  <2>1. Reject
    BY <1>4, Classes DEF ConsumeHeaderName
  <2>2. \A u \in Seq(Char) : Extends(Append(text, c), u) => ~IsRequest(u)
    BY <1>1, <1>4, NotInName
  <2> QED BY <2>1, <2>2, RejectDecides
<1> QED
  BY <1>2, <1>3, <1>4

LEMMA LwsDecides ==
    ASSUME text \in Seq(Char), request \in Request, Decides, result = "indeterminate",
           request.headers # <<>>, NEW c \in Char, text' = Append(text, c), ConsumeLws(c)
    PROVE  Decides'
<1>1. state = "header_lws" /\ Reads("header_lws", text)
  BY DEF Decides, ConsumeLws
<1>2. CASE c = "CR"
  <2>1. Skip("expecting_newline_2")
    BY <1>2 DEF ConsumeLws
  <2>2. Reads("expecting_newline_2", text')
    BY <1>1, <1>2, OnFoldEnd
  <2> QED BY <2>1, <2>2, HeaderDecides DEF Skip, Goto, HeaderStates
<1>3. CASE c \in White
  <2>1. Skip("header_lws")
    BY <1>3 DEF ConsumeLws, White
  <2>2. Reads("header_lws", text')
    BY <1>1, <1>3, OnFold
  <2> QED BY <2>1, <2>2, HeaderDecides DEF Skip, Goto, HeaderStates
<1>4. CASE c \in Printable \ {"SP"}
  <2>1. Store("header_value", AddToValue(c))
    <3>1. c # "CR" /\ c \notin {"SP", "HT"} /\ ~is_ctl(c)
      BY <1>4, Classes DEF Printable
    <3> QED BY <3>1 DEF ConsumeLws
  <2>2. Reads("header_value", text')
    BY <1>1, <1>4, OnFoldText
  <2> QED BY <2>1, <2>2, HeaderDecides DEF Store, Goto, HeaderStates
<1>5. CASE c \notin Printable \cup {"CR", "HT"}
  <2>1. Reject
    <3>1. c # "CR" /\ c \notin {"SP", "HT"} /\ is_ctl(c)
      BY <1>5, Classes DEF Printable, Char
    <3> QED BY <3>1 DEF ConsumeLws
  <2>2. \A u \in Seq(Char) : Extends(Append(text, c), u) => ~IsRequest(u)
    BY <1>1, <1>5, NotInFold
  <2> QED BY <2>1, <2>2, RejectDecides
<1> QED
  BY <1>2, <1>3, <1>4, <1>5 DEF White

LEMMA HeaderValueDecides ==
    ASSUME text \in Seq(Char), request \in Request, Decides, result = "indeterminate",
           request.headers # <<>>, NEW c \in Char, text' = Append(text, c), ConsumeHeaderValue(c)
    PROVE  Decides'
<1>1. state = "header_value" /\ Reads("header_value", text)
  BY DEF Decides, ConsumeHeaderValue
<1>2. CASE c = "CR"
  <2>1. Skip("expecting_newline_2")
    BY <1>2 DEF ConsumeHeaderValue
  <2>2. Reads("expecting_newline_2", text')
    BY <1>1, <1>2, OnValueEnd
  <2> QED BY <2>1, <2>2, HeaderDecides DEF Skip, Goto, HeaderStates
<1>3. CASE c \in Printable
  <2>1. Store("header_value", AddToValue(c))
    <3>1. c # "CR" /\ ~is_ctl(c)
      BY <1>3, Classes DEF Printable
    <3> QED BY <3>1 DEF ConsumeHeaderValue
  <2>2. Reads("header_value", text')
    BY <1>1, <1>3, OnValue
  <2> QED BY <2>1, <2>2, HeaderDecides DEF Store, Goto, HeaderStates
<1>4. CASE c \notin Printable \cup {"CR"}
  <2>1. Reject
    BY <1>4, Classes DEF ConsumeHeaderValue
  <2>2. \A u \in Seq(Char) : Extends(Append(text, c), u) => ~IsRequest(u)
    BY <1>1, <1>4, NotInValue
  <2> QED BY <2>1, <2>2, RejectDecides
<1> QED
  BY <1>2, <1>3, <1>4

\* The last character.
LEMMA LastDecides ==
    ASSUME text \in Seq(Char), request \in Request, Decides, result = "indeterminate",
           NEW c \in Char, text' = Append(text, c), ConsumeLast(c)
    PROVE  Decides'
<1>1. state = "expecting_newline_3" /\ Reads("expecting_newline_3", text)
  BY DEF Decides, ConsumeLast
<1>2. CASE c = "LF"
  <2>1. IsRequest(text') /\ result' = "good"
    BY <1>1, <1>2, OnLast DEF ConsumeLast
  <2> QED BY <2>1 DEF Decides
<1>3. CASE c # "LF"
  <2>1. Reject
    BY <1>3 DEF ConsumeLast, Reject
  <2>2. \A u \in Seq(Char) : Extends(Append(text, c), u) => ~IsRequest(u)
    BY <1>1, <1>3, NotAfterHeader
  <2> QED BY <2>1, <2>2, RejectDecides
<1> QED
  BY <1>2, <1>3

\* So every character leaves the parser with a decision that is right.
LEMMA ConsumeDecides ==
    ASSUME IInv, Decides, result = "indeterminate",
           NEW c \in Char, text' = Append(text, c), Consume(c)
    PROVE  Decides'
<1>1. text \in Seq(Char) /\ request \in Request
  BY DEF IInv, TypeOK, Request
<1>2. CASE ConsumeLws(c)
  <2>1. request.headers # <<>>
    BY <1>2 DEF ConsumeLws, IInv, InHeader
  <2> QED BY <1>1, <1>2, <2>1, LwsDecides
<1>3. CASE ConsumeHeaderValue(c)
  <2>1. request.headers # <<>>
    BY <1>3 DEF ConsumeHeaderValue, IInv, InHeader
  <2> QED BY <1>1, <1>3, <2>1, HeaderValueDecides
<1>4. CASE ConsumeAwaited(c) \/ ConsumeMethod(c) \/ ConsumeUri(c)
  BY <1>1, <1>4, AwaitedDecides, MethodDecides, UriDecides
<1>5. CASE ConsumeMajor(c) \/ ConsumeMinor(c)
  BY <1>1, <1>5, MajorDecides, MinorDecides
<1>6. CASE ConsumeHeaderLine(c) \/ ConsumeHeaderName(c) \/ ConsumeLast(c)
  BY <1>1, <1>6, HeaderLineDecides, HeaderNameDecides, LastDecides
<1> QED
  BY <1>2, <1>3, <1>4, <1>5, <1>6 DEF Consume

LEMMA InitDecides == Init => Decides
<1> SUFFICES ASSUME Init PROVE Decides
  OBVIOUS
<1>1. state = "method_start" /\ text = <<>> /\ result = "indeterminate" /\ request.headers = <<>>
  BY DEF Init
<1>2. Complete(<<>>) /\ Begins(<<>>, 0) /\ Len(<<>>) = 0 /\ InRequestLine("method_start", <<>>, 0)
  BY DEF Complete, Feeds, Begins, InRequestLine
<1>3. Reads("method_start", <<>>)
  BY <1>2 DEF Reads, HeaderStates
<1> QED
  BY <1>1, <1>3 DEF Decides

LEMMA NextDecides == IInv /\ Decides /\ [Next]_vars => Decides'
<1> SUFFICES ASSUME IInv, Decides, [Next]_vars PROVE Decides'
  OBVIOUS
<1>1. CASE UNCHANGED vars
  BY <1>1 DEF vars, Decides
<1>2. CASE Next
  <2>1. PICK c \in Char : Consume(c) /\ text' = Append(text, c)
    BY <1>2, InputAssumption DEF Next
  <2> QED
    BY <1>2, <2>1, ConsumeDecides DEF Next
<1> QED
  BY <1>1, <1>2

\* A text no rest completes is not complete as it is.
LEMMA HopelessIsNone ==
    ASSUME NEW t \in Seq(Char), Hopeless(t)
    PROVE  ~IsRequest(t)
<1>1. <<>> \in Seq(Char) /\ t \o <<>> = t
  OBVIOUS
<1> QED
  BY <1>1 DEF Hopeless

\* The rests of the sample are texts.
LEMMA RestsAreTexts == Rests \subseteq Seq(Char)
<1> SUFFICES ASSUME NEW rest \in Rests PROVE rest \in Seq(Char)
  OBVIOUS
<1>1. Sample \in Seq(Char)
  BY SampleIs
<1> DEFINE s == Sample
<1> HIDE DEF s, Sample
<1>2. s \in Seq(Char) /\ rest \in {SubSeq(s, l, Len(s)) : l \in 1..Len(s)} \cup {<<>>}
  BY <1>1 DEF Rests, Suffixes, s
<1>3. CASE rest = <<>>
  BY <1>3
<1>4. CASE rest # <<>>
  <2>1. PICK l \in 1..Len(s) : rest = SubSeq(s, l, Len(s))
    BY <1>2, <1>4
  <2>2. SubSeq(s, l, Len(s)) \in Seq(Char)
    BY <1>2
  <2> QED BY <2>1, <2>2
<1> QED
  BY <1>3, <1>4

-----------------------------------------------------------------------------
(* What has been read, kept *)

\* A part of a text, and what one more character does to it.
LEMMA PartIs ==
    ASSUME NEW t \in Seq(Char), NEW e \in 0..Len(t), NEW b \in 0..e
    PROVE  /\ Part(t, b, e) \in Seq(Char)
           /\ Len(Part(t, b, e)) = e - b
           /\ \A k \in 1..(e - b) : Part(t, b, e)[k] = t[b + k]
<1>1. b + 1 \in 1..(Len(t) + 1) /\ e \in b..Len(t) /\ \A i \in (b + 1)..e : t[i] \in Char
  OBVIOUS
<1>2. Part(t, b, e) \in Seq(Char) /\ Len(Part(t, b, e)) = e - b
  BY <1>1, SubSeqProperties DEF Part
<1>3. \A k \in 1..(e - b) : Part(t, b, e)[k] = t[b + k]
  BY <1>1 DEF Part
<1> QED
  BY <1>2, <1>3

LEMMA PartStays ==
    ASSUME NEW t \in Seq(Char), NEW u \in Seq(Char), Extends(t, u), NEW e \in 0..Len(t), NEW b \in 0..e
    PROVE  Part(u, b, e) = Part(t, b, e)
<1> DEFINE p == Part(t, b, e)
           q == Part(u, b, e)
<1>0. e \in 0..Len(u)
  BY DEF Extends
<1>1. p \in Seq(Char) /\ Len(p) = e - b /\ \A k \in 1..(e - b) : p[k] = t[b + k]
  BY PartIs
<1>4. q \in Seq(Char) /\ Len(q) = e - b /\ \A k \in 1..(e - b) : q[k] = u[b + k]
  BY <1>0, PartIs
<1> HIDE DEF p, q
<1>2. \A k \in 1..(e - b) : b + k \in 1..Len(t)
  OBVIOUS
<1>3. \A k \in 1..Len(p) : p[k] = q[k]
  BY <1>1, <1>2, <1>4 DEF Extends
<1>5. p = q
  BY <1>1, <1>3, <1>4, SeqEqual
<1> QED
  BY <1>5 DEF p, q

LEMMA PartMore ==
    ASSUME NEW t \in Seq(Char), NEW c \in Char, NEW b \in 0..Len(t)
    PROVE  Part(Append(t, c), b, Len(t) + 1) = Append(Part(t, b, Len(t)), c)
<1> DEFINE n == Len(t)
           u == Append(t, c)
           p == Part(t, b, n)
           q == Part(u, b, n + 1)
           r == Append(p, c)
<1>1. n \in Nat /\ u \in Seq(Char) /\ Len(u) = n + 1 /\ u[n + 1] = c /\ \A k \in 1..n : u[k] = t[k]
  BY AppendIs DEF Extends
<1> HIDE DEF u
<1>a. n \in 0..Len(t) /\ b \in 0..n
  BY <1>1
<1>b. n + 1 \in 0..Len(u) /\ b \in 0..(n + 1)
  BY <1>1
<1>c. p \in Seq(Char) /\ Len(p) = n - b /\ \A k \in 1..(n - b) : p[k] = t[b + k]
  BY <1>a, PartIs
<1>d. q \in Seq(Char) /\ Len(q) = (n + 1) - b /\ \A k \in 1..((n + 1) - b) : q[k] = u[b + k]
  BY <1>1, <1>b, PartIs
<1>2. /\ p \in Seq(Char) /\ Len(p) = n - b /\ \A k \in 1..(n - b) : p[k] = t[b + k]
      /\ q \in Seq(Char) /\ Len(q) = (n + 1) - b /\ \A k \in 1..((n + 1) - b) : q[k] = u[b + k]
  BY <1>c, <1>d
<1> HIDE DEF p, q, n
<1>3. r \in Seq(Char) /\ Len(r) = Len(p) + 1 /\ r[Len(p) + 1] = c /\ \A k \in 1..Len(p) : r[k] = p[k]
  BY <1>2, AppendIs DEF Extends
<1> HIDE DEF r
<1>4. Len(r) = Len(q) /\ b \in 0..n
  BY <1>1, <1>2, <1>3 DEF n
<1>5. ASSUME NEW k \in 1..Len(q) PROVE q[k] = r[k]
  <2>1. CASE k = Len(p) + 1
    <3>1. b + k = n + 1 /\ k \in 1..((n + 1) - b)
      BY <1>1, <1>2, <1>4, <2>1
    <3> QED BY <1>1, <1>2, <1>3, <2>1, <3>1
  <2>2. CASE k \in 1..Len(p)
    <3>1. b + k \in 1..n /\ k \in 1..((n + 1) - b) /\ k \in 1..(n - b)
      BY <1>1, <1>2, <1>4, <2>2
    <3> QED BY <1>1, <1>2, <1>3, <2>2, <3>1
  <2> QED BY <1>1, <1>2, <1>3, <1>4, <2>1, <2>2
<1>6. q = r
  BY <1>2, <1>3, <1>4, <1>5, SeqEqual
<1> QED
  BY <1>6 DEF q, r, p, n, u

LEMMA PartNone ==
    ASSUME NEW t \in Seq(Char), NEW b \in 0..Len(t)
    PROVE  Part(t, b, b) = <<>>
<1>1. Part(t, b, b) \in Seq(Char) /\ Len(Part(t, b, b)) = b - b
  BY PartIs
<1> QED
  BY <1>1, EmptySeq

\* There is one first c.
LEMMA FirstIs ==
    ASSUME NEW t \in Seq(Char), NEW b \in Nat, NEW c, NEW i \in (b + 1)..Len(t),
           t[i] = c, All(t, b, i - 1, Char \ {c})
    PROVE  First(t, b, c) = i
<1>1. ASSUME NEW j \in (b + 1)..Len(t), t[j] = c, All(t, b, j - 1, Char \ {c})
      PROVE  j = i
  <2>1. ~(j < i)
    <3> SUFFICES ASSUME j < i PROVE FALSE
      OBVIOUS
    <3>1. j \in (b + 1)..(i - 1)
      OBVIOUS
    <3> QED BY <1>1, <3>1 DEF All
  <2>2. ~(i < j)
    <3> SUFFICES ASSUME i < j PROVE FALSE
      OBVIOUS
    <3>1. i \in (b + 1)..(j - 1)
      OBVIOUS
    <3> QED BY <1>1, <3>1 DEF All
  <2> QED BY <2>1, <2>2
<1> QED
  BY <1>1 DEF First

\* A header's line adds a header, a folded line continues the last.
LEMMA WithHeader ==
    ASSUME NEW t \in Seq(Char), NEW b \in Nat, NEW e \in 0..Len(t), NEW i \in (b + 2)..(e - 1),
           t[i] = ":", All(t, b, i - 1, Token), NEW hs
    PROVE  WithLine(hs, t, b, e) =
               Append(hs, [name |-> Part(t, b, i - 1), value |-> Part(t, i + 1, e)])
<1>1. t[b + 1] \notin White
  <2>1. b + 1 \in (b + 1)..(i - 1)
    OBVIOUS
  <2> QED BY <2>1 DEF All, Token, White
<1>2. First(t, b, ":") = i
  <2>1. i \in (b + 1)..Len(t)
    OBVIOUS
  <2>2. All(t, b, i - 1, Char \ {":"})
    BY SetsOfChars DEF All, Token, Char
  <2> QED BY <2>1, <2>2, FirstIs
<1> QED
  BY <1>1, <1>2 DEF WithLine, HeaderOf

LEMMA WithFold ==
    ASSUME NEW t \in Seq(Char), NEW b \in Nat, NEW e \in 0..Len(t), NEW i \in (b + 1)..e,
           All(t, b, i, White), i = e \/ t[i + 1] \notin White, NEW hs
    PROVE  WithLine(hs, t, b, e) = Continued(hs, Part(t, i, e))
<1>1. t[b + 1] \in White
  <2>1. b + 1 \in (b + 1)..i
    OBVIOUS
  <2> QED BY <2>1 DEF All
<1>2. ASSUME NEW j \in b..e, All(t, b, j, White), j = e \/ t[j + 1] \notin White
      PROVE  j = i
  <2>1. ~(j < i)
    <3> SUFFICES ASSUME j < i PROVE FALSE
      OBVIOUS
    <3>1. j + 1 \in (b + 1)..i /\ j # e
      OBVIOUS
    <3> QED BY <1>2, <3>1 DEF All
  <2>2. ~(i < j)
    <3> SUFFICES ASSUME i < j PROVE FALSE
      OBVIOUS
    <3>1. i + 1 \in (b + 1)..j /\ i # e
      OBVIOUS
    <3> QED BY <1>2, <3>1 DEF All
  <2> QED BY <2>1, <2>2
<1>3. Unfolded(t, b, e) = Part(t, i, e)
  <2>1. i \in b..e
    OBVIOUS
  <2>2. (CHOOSE j \in b..e : All(t, b, j, White) /\ (j = e \/ t[j + 1] \notin White)) = i
    BY <1>2, <2>1
  <2> QED BY <2>2 DEF Unfolded
<1> QED
  BY <1>1, <1>3 DEF WithLine

\* The white space a folded line starts with has an end.
LEMMA FoldEnds ==
    ASSUME NEW t \in Seq(Char), NEW b \in Nat, NEW e \in 0..Len(t), IsFolded(t, b, e)
    PROVE  \E i \in (b + 1)..e : All(t, b, i, White) /\ (i = e \/ t[i + 1] \notin White)
<1>1. PICK j \in (b + 1)..e : All(t, b, j, White)
  BY DEF IsFolded
<1> DEFINE T == {k \in (b + 1)..e : k = e \/ t[k + 1] \notin White}
<1>2. e \in T /\ T \subseteq Nat
  OBVIOUS
<1> HIDE DEF T
<1>3. PICK i \in T : \A k \in T : k >= i
  BY <1>2, LeastNatural
<1> USE DEF T
<1>4. i \in (b + 1)..e /\ (i = e \/ t[i + 1] \notin White)
  OBVIOUS
<1>5. ASSUME NEW k \in (b + 1)..i PROVE t[k] \in White
  <2>1. CASE k = b + 1
    <3>1. b + 1 \in (b + 1)..j
      OBVIOUS
    <3> QED BY <1>1, <2>1, <3>1 DEF All
  <2>2. CASE k # b + 1
    <3>1. k - 1 \in (b + 1)..e /\ ~(k - 1 >= i) /\ (k - 1) + 1 = k
      BY <1>4, <2>2
    <3>2. k - 1 \notin T
      BY <1>3, <3>1
    <3> QED BY <3>1, <3>2
  <2> QED BY <2>1, <2>2
<1>6. All(t, b, i, White)
  BY <1>5 DEF All
<1> QED
  BY <1>4, <1>6

\* What a line adds to the headers does not depend on what comes after it.
LEMMA WithLineStays ==
    ASSUME NEW t \in Seq(Char), NEW u \in Seq(Char), Extends(t, u),
           NEW b \in Nat, NEW e \in 0..Len(t), IsHeader(t, b, e) \/ IsFolded(t, b, e), NEW hs
    PROVE  WithLine(hs, u, b, e) = WithLine(hs, t, b, e)
<1>0. e \in 0..Len(u)
  BY DEF Extends
<1>1. CASE IsHeader(t, b, e)
  <2>1. PICK i \in (b + 2)..(e - 1) : t[i] = ":" /\ All(t, b, i - 1, Token)
    BY <1>1 DEF IsHeader
  <2>2. i \in 1..Len(t) /\ i - 1 \in 0..Len(t) /\ b \in 0..(i - 1) /\ i + 1 \in 0..e
    OBVIOUS
  <2>3. u[i] = ":" /\ All(u, b, i - 1, Token)
    BY <2>1, <2>2, ExtendsAll DEF Extends
  <2>4. Part(u, b, i - 1) = Part(t, b, i - 1) /\ Part(u, i + 1, e) = Part(t, i + 1, e)
    BY <2>2, PartStays
  <2>5. WithLine(hs, t, b, e) = Append(hs, [name |-> Part(t, b, i - 1), value |-> Part(t, i + 1, e)])
    BY <2>1, WithHeader
  <2>6. WithLine(hs, u, b, e) = Append(hs, [name |-> Part(u, b, i - 1), value |-> Part(u, i + 1, e)])
    BY <1>0, <2>3, WithHeader
  <2> QED BY <2>4, <2>5, <2>6
<1>2. CASE IsFolded(t, b, e)
  <2>1. PICK i \in (b + 1)..e : All(t, b, i, White) /\ (i = e \/ t[i + 1] \notin White)
    BY <1>2, FoldEnds
  <2>2. i \in 0..Len(t) /\ i \in 0..e /\ (i # e => i + 1 \in 1..Len(t))
    OBVIOUS
  <2>3. All(u, b, i, White) /\ (i = e \/ u[i + 1] \notin White)
    BY <2>1, <2>2, ExtendsAll DEF Extends
  <2>4. Part(u, i, e) = Part(t, i, e)
    BY <2>2, PartStays
  <2>5. WithLine(hs, t, b, e) = Continued(hs, Part(t, i, e))
    BY <2>1, WithFold
  <2>6. WithLine(hs, u, b, e) = Continued(hs, Part(u, i, e))
    BY <1>0, <2>3, WithFold
  <2> QED BY <2>4, <2>5, <2>6
<1> QED
  BY <1>1, <1>2

\* A list of headers, and one more character of the last one's name or value.
MoreName(hs, c) == [hs EXCEPT ![Len(hs)].name = Append(@, c)]
MoreValue(hs, c) == [hs EXCEPT ![Len(hs)].value = Append(@, c)]

\* The three operations on the headers leave method and uri alone.
LEMMA AddToIs ==
    ASSUME request \in Request, NEW c
    PROVE  /\ AddToName(c).headers = MoreName(request.headers, c)
           /\ AddToValue(c).headers = MoreValue(request.headers, c)
           /\ OpenHeader(c).headers = Append(request.headers, [name |-> <<c>>, value |-> <<>>])
           /\ AddToName(c).method = request.method /\ AddToName(c).uri = request.uri
           /\ AddToValue(c).method = request.method /\ AddToValue(c).uri = request.uri
           /\ OpenHeader(c).method = request.method /\ OpenHeader(c).uri = request.uri
<1>1. /\ AddToName(c) = [request EXCEPT !.headers = MoreName(request.headers, c)]
      /\ AddToValue(c) = [request EXCEPT !.headers = MoreValue(request.headers, c)]
      /\ OpenHeader(c) = [request EXCEPT !.headers = Append(request.headers, [name |-> <<c>>, value |-> <<>>])]
  BY DEF AddToName, AddToValue, OpenHeader, MoreName, MoreValue
<1>2. \A new : /\ [request EXCEPT !.headers = new].headers = new
               /\ [request EXCEPT !.headers = new].method = request.method
               /\ [request EXCEPT !.headers = new].uri = request.uri
  BY DEF Request
<1> QED
  BY <1>1, <1>2

\* The header that was added last is the last.
LEMMA AppendedIs ==
    ASSUME NEW hs \in Seq(Header), NEW h
    PROVE  /\ Len(Append(hs, h)) = Len(hs) + 1
           /\ Append(hs, h)[Len(hs) + 1] = h
           /\ \A g : [Append(hs, h) EXCEPT ![Len(hs) + 1] = g] = Append(hs, g)
<1> DEFINE S == Header \cup {h}
<1>1. hs \in Seq(S) /\ h \in S
  OBVIOUS
<1> HIDE DEF S
<1>2. Len(Append(hs, h)) = Len(hs) + 1 /\ Append(hs, h)[Len(hs) + 1] = h
  BY <1>1
<1>3. ASSUME NEW g
      PROVE  [Append(hs, h) EXCEPT ![Len(hs) + 1] = g] = Append(hs, g)
  <2> DEFINE R == Header \cup {h, g}
             n == Len(hs)
             a == Append(hs, h)
             b == Append(hs, g)
             d == [a EXCEPT ![n + 1] = g]
  <2>1. hs \in Seq(R) /\ h \in R /\ g \in R /\ n \in Nat
    OBVIOUS
  <2> HIDE DEF R
  <2>2. /\ a \in Seq(R) /\ Len(a) = n + 1 /\ a[n + 1] = h /\ \A k \in 1..n : a[k] = hs[k]
        /\ b \in Seq(R) /\ Len(b) = n + 1 /\ b[n + 1] = g /\ \A k \in 1..n : b[k] = hs[k]
    BY <2>1, AppendProperties
  <2> HIDE DEF a, b, n
  <2>3. d \in Seq(R) /\ Len(d) = n + 1 /\ \A k \in 1..(n + 1) : d[k] = IF k = n + 1 THEN g ELSE a[k]
    BY <2>1, <2>2
  <2> HIDE DEF d
  <2>4. \A k \in 1..Len(d) : d[k] = b[k]
    BY <2>1, <2>2, <2>3
  <2>5. d = b
    BY <2>2, <2>3, <2>4, SeqEqual
  <2> QED BY <2>5 DEF d, a, b, n
<1> QED
  BY <1>2, <1>3

\* The header that is read grows.
LEMMA AppendedGrows ==
    ASSUME NEW hs \in Seq(Header), NEW h \in Header, NEW c \in Char
    PROVE  /\ MoreName(Append(hs, h), c) = Append(hs, [h EXCEPT !.name = Append(@, c)])
           /\ MoreValue(Append(hs, h), c) = Append(hs, [h EXCEPT !.value = Append(@, c)])
<1> DEFINE a == Append(hs, h)
<1>1. Len(a) = Len(hs) + 1 /\ a[Len(hs) + 1] = h /\ \A g : [a EXCEPT ![Len(hs) + 1] = g] = Append(hs, g)
  BY AppendedIs
<1> HIDE DEF a
<1>2. MoreName(a, c) = Append(hs, [h EXCEPT !.name = Append(@, c)])
  BY <1>1 DEF MoreName
<1>3. MoreValue(a, c) = Append(hs, [h EXCEPT !.value = Append(@, c)])
  BY <1>1 DEF MoreValue
<1> QED
  BY <1>2, <1>3 DEF a

\* So does the header that is continued.
LEMMA ContinuedIs ==
    ASSUME NEW hs \in Seq(Header)
    PROVE  /\ \A value : hs = <<>> => Continued(hs, value) = <<>>
           /\ hs # <<>> => Continued(hs, <<>>) = hs
           /\ hs # <<>> => \A value \in Seq(Char), c \in Char :
                 MoreValue(Continued(hs, value), c) = Continued(hs, Append(value, c))
<1> DEFINE n == Len(hs)
<1>1. ASSUME NEW value, hs = <<>> PROVE Continued(hs, value) = <<>>
  <2>1. DOMAIN hs = {}
    BY <1>1
  <2> QED BY <1>1, <2>1 DEF Continued
<1>2. ASSUME hs # <<>>
      PROVE  n \in DOMAIN hs /\ hs[n] \in Header /\ hs[n].value \in Seq(Char)
  <2>1. n \in DOMAIN hs /\ hs[n] \in Header
    BY <1>2
  <2> QED BY <2>1 DEF Header
<1>3. ASSUME hs # <<>>
      PROVE  Continued(hs, <<>>) = hs
  <2>1. hs[n].value \o <<>> = hs[n].value
    BY <1>2, <1>3
  <2>2. [hs[n] EXCEPT !.value = hs[n].value] = hs[n]
    BY <1>2, <1>3 DEF Header
  <2>3. [hs EXCEPT ![n] = hs[n]] = hs
    BY <1>2, <1>3
  <2> QED BY <2>1, <2>2, <2>3 DEF Continued
<1>4. ASSUME hs # <<>>, NEW value \in Seq(Char), NEW c \in Char
      PROVE  MoreValue(Continued(hs, value), c) = Continued(hs, Append(value, c))
  <2> DEFINE v == hs[n].value
             w == v \o value
             h == [hs[n] EXCEPT !.value = w]
             g == [hs[n] EXCEPT !.value = Append(w, c)]
             a == [hs EXCEPT ![n] = h]
  <2>1. v \in Seq(Char) /\ n \in DOMAIN hs /\ hs[n] \in Header
    BY <1>2, <1>4
  <2>2. v \o Append(value, c) = Append(w, c) /\ w \in Seq(Char)
    <3> HIDE DEF v
    <3>1. Append(value, c) = value \o <<c>> /\ w \in Seq(Char)
      BY <2>1, <1>4
    <3>2. Append(w, c) = w \o <<c>>
      BY <3>1, <1>4, SMTT(30)
    <3>3. v \o (value \o <<c>>) = (v \o value) \o <<c>>
      BY <2>1, <1>4, ConcatAssociative
    <3> QED BY <3>1, <3>2, <3>3
  <2>3. Continued(hs, value) = a /\ Continued(hs, Append(value, c)) = [hs EXCEPT ![n] = g]
    BY <2>2 DEF Continued
  <2> HIDE DEF w, v
  <2>4. h.value = w /\ [h EXCEPT !.value = Append(w, c)] = g
    BY <2>1 DEF Header
  <2>5. h \in Header
    BY <2>1, <2>2 DEF Header
  <2> HIDE DEF h, g
  <2>6. Len(a) = n /\ a[n] = h /\ \A x : [a EXCEPT ![n] = x] = [hs EXCEPT ![n] = x]
    BY <2>1, <2>5
  <2>7. MoreValue(a, c) = [a EXCEPT ![n] = g]
    <3> HIDE DEF a
    <3> QED BY <2>4, <2>6 DEF MoreValue
  <2> QED BY <2>3, <2>6, <2>7
<1> QED
  BY <1>1, <1>3, <1>4

-----------------------------------------------------------------------------
(* The headers of a text, line by line *)

\* What the character at n adds to the headers before it.
HeadersAt(t, n, hs) ==
    IF t[n] # "LF" \/ Start(t, n) \in {0, n - 2} THEN hs
    ELSE WithLine(hs, t, Start(t, n), n - 2)

HeadersUpTo(t, f) ==
    f = [n \in 0..Len(t) |-> IF n = 0 THEN <<>> ELSE HeadersAt(t, n, f[n - 1])]

\* The recursive function of Headers exists.
LEMMA HeadersDefined ==
    ASSUME NEW t \in Seq(Char)
    PROVE  \E f : HeadersUpTo(t, f) /\ Headers(t) = f[Len(t)]
<1> DEFINE Is(f, m) == f = [n \in 0..m |-> IF n = 0 THEN <<>> ELSE HeadersAt(t, n, f[n - 1])]
           Solved(m) == \E f : Is(f, m)
           T == {m \in 0..Len(t) : Solved(m)}
<1>1. Len(t) \in Nat
  OBVIOUS
<1>2. ASSUME NEW m \in Nat, Solved(m)
      PROVE  Solved(m + 1)
  <2>1. PICK g : Is(g, m)
    BY <1>2
  <2>2. g[0] = <<>> /\ \A k \in 1..m : g[k] = HeadersAt(t, k, g[k - 1])
    <3>1. 0 \in 0..m /\ \A k \in 1..m : k \in 0..m /\ k # 0
      BY <1>2
    <3> QED BY <2>1, <3>1
  <2> DEFINE last == HeadersAt(t, m + 1, g[m])
             f == [k \in 0..(m + 1) |-> IF k = m + 1 THEN last ELSE g[k]]
  <2> HIDE DEF last
  <2>3. f[m + 1] = last /\ \A k \in 0..m : f[k] = g[k]
    <3>1. m + 1 \in 0..(m + 1) /\ \A k \in 0..m : k \in 0..(m + 1) /\ k # m + 1
      BY <1>2
    <3> QED BY <3>1
  <2>4. f = [k \in 0..(m + 1) |-> f[k]]
    OBVIOUS
  <2> HIDE DEF f
  <2>5. ASSUME NEW k \in 0..(m + 1)
        PROVE  f[k] = IF k = 0 THEN <<>> ELSE HeadersAt(t, k, f[k - 1])
    <3>1. CASE k = 0
      <4>1. 0 \in 0..m
        BY <1>2
      <4> QED BY <2>2, <2>3, <3>1, <4>1
    <3>2. CASE k \in 1..m
      <4>1. k \in 0..m /\ k - 1 \in 0..m /\ k # 0
        BY <1>2, <3>2
      <4> QED BY <2>2, <2>3, <3>2, <4>1
    <3>3. CASE k = m + 1
      <4>1. k - 1 = m /\ m \in 0..m /\ k # 0
        BY <1>2, <3>3
      <4> QED BY <2>3, <3>3, <4>1 DEF last
    <3>4. k = 0 \/ k \in 1..m \/ k = m + 1
      BY <1>2
    <3> QED BY <3>1, <3>2, <3>3, <3>4
  <2>6. Is(f, m + 1)
    BY <2>4, <2>5
  <2> QED BY <2>6
<1>3. Solved(0)
  <2> DEFINE f == [k \in 0..0 |-> <<>>]
  <2>1. \A k \in 0..0 : k = 0
    OBVIOUS
  <2>2. Is(f, 0)
    BY <2>1
  <2> QED BY <2>2
<1> HIDE DEF Solved
<1>4. Len(t) \in T
  <2>1. 0 \in T
    BY <1>1, <1>3
  <2>2. \A k \in 0..Len(t) : k \in T /\ k < Len(t) => k + 1 \in T
    <3> SUFFICES ASSUME NEW k \in 0..Len(t), k \in T, k < Len(t) PROVE k + 1 \in T
      OBVIOUS
    <3>1. k \in Nat /\ Solved(k) /\ k + 1 \in 0..Len(t)
      BY <1>1
    <3> QED BY <1>2, <3>1
  <2> HIDE DEF T
  <2>3. 0..Len(t) \subseteq T
    BY <1>1, <2>1, <2>2, PositionInduction
  <2> QED BY <1>1, <2>3
<1> USE DEF Solved
<1>5. PICK f : Is(f, Len(t))
  BY <1>4
<1>6. HeadersUpTo(t, CHOOSE g : HeadersUpTo(t, g))
  BY <1>5 DEF HeadersUpTo
<1>7. Headers(t) = (CHOOSE g : HeadersUpTo(t, g))[Len(t)]
  BY DEF Headers, HeadersUpTo, HeadersAt
<1> QED
  BY <1>6, <1>7

\* Its values, step by step.
LEMMA HeadersSteps ==
    ASSUME NEW t \in Seq(Char)
    PROVE  \E f : /\ f[0] = <<>>
                  /\ \A n \in 1..Len(t) : f[n] = HeadersAt(t, n, f[n - 1])
                  /\ Headers(t) = f[Len(t)]
<1>1. PICK f : HeadersUpTo(t, f) /\ Headers(t) = f[Len(t)]
  BY HeadersDefined
<1>2. 0 \in 0..Len(t) /\ \A n \in 1..Len(t) : n \in 0..Len(t) /\ n # 0
  OBVIOUS
<1>3. f[0] = <<>> /\ \A n \in 1..Len(t) : f[n] = HeadersAt(t, n, f[n - 1])
  BY <1>1, <1>2 DEF HeadersUpTo
<1> QED
  BY <1>1, <1>3

\* A line that has been read says the same in every longer text.
LEMMA HeadersAtStays ==
    ASSUME NEW t \in Seq(Char), NEW u \in Seq(Char), Extends(t, u), Complete(t),
           NEW n \in 1..Len(t), NEW hs
    PROVE  HeadersAt(u, n, hs) = HeadersAt(t, n, hs)
<1>1. u[n] = t[n] /\ Start(u, n) = Start(t, n)
  BY ExtendsStart DEF Extends
<1> DEFINE b == Start(t, n)
<1>2. CASE t[n] # "LF" \/ b \in {0, n - 2}
  BY <1>1, <1>2 DEF HeadersAt
<1>3. CASE t[n] = "LF" /\ b \notin {0, n - 2}
  <2>1. b \in 0..(n - 1)
    BY StartExists
  <2>2. n \in Feeds(t)
    BY <1>3 DEF Feeds
  <2>3. Fits(t, b, n)
    BY <2>2 DEF Complete
  <2> HIDE DEF b
  <2>4. b + 1 < n /\ (IsHeader(t, b, n - 2) \/ IsFolded(t, b, n - 2))
    BY <1>3, <2>3 DEF Fits
  <2>5. b \in Nat /\ n - 2 \in 0..Len(t)
    BY <2>1, <2>4
  <2>6. WithLine(hs, u, b, n - 2) = WithLine(hs, t, b, n - 2)
    BY <2>4, <2>5, WithLineStays
  <2> QED BY <1>1, <1>3, <2>6 DEF HeadersAt, b
<1> QED
  BY <1>2, <1>3

\* So one more character is one more step.
LEMMA HeadersMore ==
    ASSUME NEW t \in Seq(Char), NEW c \in Char, Complete(t)
    PROVE  Headers(Append(t, c)) = HeadersAt(Append(t, c), Len(t) + 1, Headers(t))
<1> DEFINE u == Append(t, c)
           n == Len(t)
<1>1. u \in Seq(Char) /\ Len(u) = n + 1 /\ Extends(t, u) /\ n \in Nat
  BY AppendIs
<1>2. PICK f : /\ f[0] = <<>>
               /\ \A k \in 1..n : f[k] = HeadersAt(t, k, f[k - 1])
               /\ Headers(t) = f[n]
  BY HeadersSteps
<1> HIDE DEF u
<1>3. PICK g : /\ g[0] = <<>>
               /\ \A k \in 1..(n + 1) : g[k] = HeadersAt(u, k, g[k - 1])
               /\ Headers(u) = g[n + 1]
  BY <1>1, HeadersSteps
<1> DEFINE T == {k \in 0..n : g[k] = f[k]}
<1>4. 0 \in T
  BY <1>1, <1>2, <1>3
<1>5. \A k \in 0..n : k \in T /\ k < n => k + 1 \in T
  <2> SUFFICES ASSUME NEW k \in 0..n, k \in T, k < n PROVE k + 1 \in T
    OBVIOUS
  <2>1. k + 1 \in 1..n /\ k + 1 \in 1..(n + 1) /\ (k + 1) - 1 = k /\ k + 1 \in 0..n
    BY <1>1
  <2>2. f[k + 1] = HeadersAt(t, k + 1, f[k]) /\ g[k + 1] = HeadersAt(u, k + 1, g[k])
    BY <1>2, <1>3, <2>1
  <2>3. HeadersAt(u, k + 1, g[k]) = HeadersAt(t, k + 1, g[k])
    BY <1>1, <2>1, HeadersAtStays
  <2>4. g[k] = f[k]
    OBVIOUS
  <2> QED BY <2>1, <2>2, <2>3, <2>4
<1> HIDE DEF T
<1>6. n \in T
  BY <1>1, <1>4, <1>5, PositionInduction, SMTT(30)
<1>7. g[n] = f[n] /\ n + 1 \in 1..(n + 1) /\ (n + 1) - 1 = n
  BY <1>1, <1>6 DEF T
<1>8. Headers(u) = HeadersAt(u, n + 1, Headers(t))
  BY <1>2, <1>3, <1>7
<1> QED
  BY <1>8 DEF u

\* A line adds to the headers when its line feed is read.
LEMMA HeadersStay ==
    ASSUME NEW t \in Seq(Char), NEW c \in Char \ {"LF"}, Complete(t)
    PROVE  Headers(Append(t, c)) = Headers(t)
<1>1. Append(t, c)[Len(t) + 1] = c
  BY AppendIs
<1> QED
  BY <1>1, HeadersMore DEF HeadersAt

LEMMA HeadersAdd ==
    ASSUME NEW t \in Seq(Char), Complete(t), NEW b \in 0..Len(t), Begins(t, b)
    PROVE  Headers(Append(t, "LF")) =
               IF b \in {0, Len(t) - 1} THEN Headers(t)
               ELSE WithLine(Headers(t), Append(t, "LF"), b, Len(t) - 1)
<1> DEFINE u == Append(t, "LF")
           n == Len(t)
<1>1. "LF" \in Char
  BY DEF Char
<1>2. u \in Seq(Char) /\ Len(u) = n + 1 /\ Extends(t, u) /\ u[n + 1] = "LF" /\ n \in Nat
  BY <1>1, AppendIs
<1>3. Headers(u) = HeadersAt(u, n + 1, Headers(t))
  BY <1>1, HeadersMore
<1> HIDE DEF u
<1>4. IsStart(u, b, n + 1)
  BY <1>2 DEF IsStart, Begins, Extends
<1>5. n + 1 \in Nat /\ b \in 0..((n + 1) - 1) /\ (n + 1) - 2 = n - 1
  BY <1>2
<1>6. Start(u, n + 1) = b
  BY <1>4, <1>5, StartIs
<1>7. Headers(u) = IF b \in {0, n - 1} THEN Headers(t) ELSE WithLine(Headers(t), u, b, n - 1)
  BY <1>2, <1>3, <1>5, <1>6 DEF HeadersAt
<1> QED
  BY <1>7 DEF u

-----------------------------------------------------------------------------
(* What the parser has kept of what it has read *)

\* Method and uri stay what they are in every longer text,
LEMMA CallStays ==
    ASSUME NEW t \in Seq(Char), NEW u \in Seq(Char), Extends(t, u), NEW r, CallKept(t, r)
    PROVE  CallKept(u, r)
<1>1. PICK i \in 2..Len(t) : \E j \in (i + 1)..Len(t) :
         /\ t[i] = "SP" /\ t[j] = "SP"
         /\ All(t, 0, i - 1, Char \ {"SP"}) /\ All(t, i, j - 1, Char \ {"SP"})
         /\ r.method = Part(t, 0, i - 1) /\ r.uri = Part(t, i, j - 1)
  BY DEF CallKept
<1>2. PICK j \in (i + 1)..Len(t) :
         /\ t[i] = "SP" /\ t[j] = "SP"
         /\ All(t, 0, i - 1, Char \ {"SP"}) /\ All(t, i, j - 1, Char \ {"SP"})
         /\ r.method = Part(t, 0, i - 1) /\ r.uri = Part(t, i, j - 1)
  BY <1>1
<1>3. /\ i \in 1..Len(t) /\ j \in 1..Len(t) /\ i \in 2..Len(u) /\ j \in (i + 1)..Len(u)
      /\ i - 1 \in 0..Len(t) /\ j - 1 \in 0..Len(t) /\ 0 \in 0..(i - 1) /\ i \in 0..(j - 1)
      /\ 0 \in Nat /\ i \in Nat
  BY DEF Extends
<1>4. u[i] = "SP" /\ u[j] = "SP"
  BY <1>2, <1>3 DEF Extends
<1>5. All(u, 0, i - 1, Char \ {"SP"}) /\ All(u, i, j - 1, Char \ {"SP"})
  BY <1>2, <1>3, ExtendsAll
<1>6. Part(u, 0, i - 1) = Part(t, 0, i - 1) /\ Part(u, i, j - 1) = Part(t, i, j - 1)
  BY <1>3, PartStays
<1> QED
  BY <1>2, <1>3, <1>4, <1>5, <1>6 DEF CallKept

\* and are the ones the grammar says.
LEMMA CallIs ==
    ASSUME NEW t \in Seq(Char), NEW r, CallKept(t, r)
    PROVE  r.method = Method(t) /\ r.uri = Uri(t)
<1>1. PICK i \in 2..Len(t) : \E j \in (i + 1)..Len(t) :
         /\ t[i] = "SP" /\ t[j] = "SP"
         /\ All(t, 0, i - 1, Char \ {"SP"}) /\ All(t, i, j - 1, Char \ {"SP"})
         /\ r.method = Part(t, 0, i - 1) /\ r.uri = Part(t, i, j - 1)
  BY DEF CallKept
<1>2. PICK j \in (i + 1)..Len(t) :
         /\ t[i] = "SP" /\ t[j] = "SP"
         /\ All(t, 0, i - 1, Char \ {"SP"}) /\ All(t, i, j - 1, Char \ {"SP"})
         /\ r.method = Part(t, 0, i - 1) /\ r.uri = Part(t, i, j - 1)
  BY <1>1
<1>3. 0 \in Nat /\ i \in Nat /\ i \in (0 + 1)..Len(t)
  OBVIOUS
<1>4. First(t, 0, "SP") = i
  BY <1>2, <1>3, FirstIs
<1>5. First(t, i, "SP") = j
  BY <1>2, <1>3, FirstIs
<1> QED
  BY <1>2, <1>4, <1>5 DEF Method, Uri

\* Behind the request line nothing touches method and uri.
LEMMA CallKeptOn ==
    ASSUME text \in Seq(Char), NEW c \in Char, text' = Append(text, c),
           KeepsCall(state, text, request), state \notin InCall, state' \notin InCall,
           request'.method = request.method, request'.uri = request.uri
    PROVE  KeepsCall(state', text', request')
<1>1. CallKept(text, request)
  BY DEF KeepsCall
<1> DEFINE u == Append(text, c)
<1>2. u \in Seq(Char) /\ Extends(text, u)
  BY AppendIs
<1> HIDE DEF u
<1>3. CallKept(u, request)
  BY <1>1, <1>2, CallStays
<1>4. CallKept(u, request')
  BY <1>3 DEF CallKept
<1>5. text' = u
  BY DEF u
<1> QED
  BY <1>4, <1>5 DEF KeepsCall, InCall

\* Between two lines the headers are the ones of the complete lines.
BetweenLines(s) == s \notin {"header_name", "space_before_header_value", "header_value",
                      "header_lws", "expecting_newline_2"}

\* On in a line: what is kept of it follows from what was kept of it.
LEMMA HeadersKeptOn ==
    ASSUME NEW t \in Seq(Char), NEW c \in Char \ {"LF"}, Complete(t),
           NEW s, NEW r, NEW hs, NEW new, KeepsHeaders(s, t, hs),
           \A b \in 0..Len(t) : Begins(t, b) /\ hs = KeptOf(s, t, b) => new = KeptOf(r, Append(t, c), b)
    PROVE  KeepsHeaders(r, Append(t, c), new)
<1> DEFINE u == Append(t, c)
           n == Len(t)
<1>1. u \in Seq(Char) /\ Len(u) = n + 1 /\ u[n + 1] = c /\ n \in Nat /\ \A k \in 1..n : u[k] = t[k]
  BY AppendIs DEF Extends
<1>2. Headers(u) = Headers(t)
  BY HeadersStay
<1> HIDE DEF u
<1>3. ASSUME NEW b \in 0..Len(u), Begins(u, b)
      PROVE  b \in 0..n /\ Begins(t, b)
  <2>1. b # n + 1
    BY <1>1, <1>3 DEF Begins
  <2>2. b \in 0..n
    BY <1>1, <2>1
  <2>3. b = 0 \/ t[b] = "LF"
    BY <1>1, <1>3, <2>2 DEF Begins
  <2>4. \A k \in (b + 1)..n : t[k] # "LF"
    BY <1>1, <1>3, <2>2 DEF Begins
  <2> QED BY <2>2, <2>3, <2>4 DEF Begins
<1>4. KeepsHeaders(r, u, new)
  BY <1>2, <1>3 DEF KeepsHeaders, u
<1> QED
  BY <1>4 DEF u

\* Where no header is being read nothing is kept of the line.
LEMMA PlainKeptOn ==
    ASSUME NEW t \in Seq(Char), NEW c \in Char \ {"LF"}, Complete(t),
           NEW s, BetweenLines(s), NEW r, BetweenLines(r), NEW hs, KeepsHeaders(s, t, hs)
    PROVE  KeepsHeaders(r, Append(t, c), hs)
<1>1. Headers(Append(t, c)) = Headers(t)
  BY HeadersStay
<1>2. \A b \in 0..Len(t) : KeptOf(s, t, b) = Headers(t) /\ KeptOf(r, Append(t, c), b) = Headers(Append(t, c))
  BY DEF KeptOf, BetweenLines
<1> QED
  BY <1>1, <1>2, HeadersKeptOn

\* The line that is being read is the one that has begun.
LEMMA LineRead ==
    ASSUME NEW t \in Seq(Char), NEW s \in HeaderStates, Reads(s, t), NEW b \in 0..Len(t), Begins(t, b)
    PROVE  Complete(t) /\ b \in 1..Len(t) /\ InHeaderLine(s, t, b, Len(t))
<1>1. PICK a \in 1..Len(t) : Complete(t) /\ Begins(t, a) /\ InHeaderLine(s, t, a, Len(t))
  BY ReadsLine
<1>2. ~(a < b)
  <2> SUFFICES ASSUME a < b PROVE FALSE
    OBVIOUS
  <2>1. b \in (a + 1)..Len(t) /\ b # 0
    OBVIOUS
  <2> QED BY <1>1, <2>1 DEF Begins
<1>3. ~(b < a)
  <2> SUFFICES ASSUME b < a PROVE FALSE
    OBVIOUS
  <2>1. a \in (b + 1)..Len(t) /\ a # 0
    OBVIOUS
  <2> QED BY <1>1, <2>1 DEF Begins
<1>4. a = b
  BY <1>2, <1>3
<1> QED
  BY <1>1, <1>4

\* A header is opened, its name grows, its value begins.
LEMMA KeepOpen ==
    ASSUME NEW t \in Seq(Char), NEW c \in Token, NEW hs,
           Reads("header_line_start", t), KeepsHeaders("header_line_start", t, hs)
    PROVE  KeepsHeaders("header_name", Append(t, c), Append(hs, [name |-> <<c>>, value |-> <<>>]))
<1> DEFINE u == Append(t, c)
           n == Len(t)
<1>0. c \in Char \ {"LF"} /\ Complete(t)
  BY DEF Token, Char, Reads
<1>1. Len(u) = n + 1 /\ Headers(u) = Headers(t)
  BY <1>0, AppendIs, HeadersStay
<1>2. Part(u, n, n + 1) = <<c>>
  <2>1. Part(u, n, n + 1) = Append(Part(t, n, n), c) /\ Part(t, n, n) = <<>>
    BY <1>0, PartMore, PartNone
  <2> QED BY <2>1
<1> HIDE DEF u
<1>3. ASSUME NEW b \in 0..n, Begins(t, b), hs = KeptOf("header_line_start", t, b)
      PROVE  Append(hs, [name |-> <<c>>, value |-> <<>>]) = KeptOf("header_name", u, b)
  <2>1. b = n
    BY <1>3, LineRead DEF HeaderStates, InHeaderLine
  <2> QED BY <1>1, <1>2, <1>3, <2>1 DEF KeptOf
<1> QED
  BY <1>0, <1>3, HeadersKeptOn DEF u

LEMMA KeepName ==
    ASSUME NEW t \in Seq(Char), NEW c \in Char \ {"LF"}, NEW hs,
           Reads("header_name", t), KeepsHeaders("header_name", t, hs)
    PROVE  /\ KeepsHeaders("header_name", Append(t, c), MoreName(hs, c))
           /\ KeepsHeaders("space_before_header_value", Append(t, c), hs)
<1> DEFINE u == Append(t, c)
           n == Len(t)
<1>0. Complete(t) /\ Headers(t) \in Seq(Header)
  BY DEF Reads, KeepsHeaders
<1>1. u \in Seq(Char) /\ Len(u) = n + 1 /\ Headers(u) = Headers(t) /\ Extends(t, u) /\ (n + 1) - 1 = n
  BY <1>0, AppendIs, HeadersStay
<1>2. ASSUME NEW b \in 0..n
      PROVE  Part(u, b, n + 1) = Append(Part(t, b, n), c) /\ Part(u, b, n) = Part(t, b, n)
  <2>1. Part(u, b, n + 1) = Append(Part(t, b, n), c)
    BY PartMore
  <2> HIDE DEF u
  <2>2. Part(u, b, n) = Part(t, b, n)
    BY <1>1, PartStays
  <2> QED BY <2>1, <2>2
<1> HIDE DEF u
<1>3. ASSUME NEW b \in 0..n, hs = KeptOf("header_name", t, b)
      PROVE  /\ MoreName(hs, c) = KeptOf("header_name", u, b)
             /\ hs = KeptOf("space_before_header_value", u, b)
  <2>1. hs = Append(Headers(t), [name |-> Part(t, b, n), value |-> <<>>])
    BY <1>3 DEF KeptOf
  <2>2. MoreName(hs, c) = Append(Headers(t), [name |-> Append(Part(t, b, n), c), value |-> <<>>])
    <3> DEFINE p == Part(t, b, n)
               h == [name |-> p, value |-> <<>>]
    <3>1. n \in 0..Len(t) /\ b \in 0..n /\ c \in Char
      OBVIOUS
    <3>2. p \in Seq(Char)
      BY <3>1, PartIs
    <3> HIDE DEF p
    <3>3. h \in Header /\ h.name = p
      BY <3>2 DEF Header
    <3>4. \A x : [h EXCEPT !.name = x] = [name |-> x, value |-> <<>>]
      OBVIOUS
    <3> HIDE DEF h
    <3>5. MoreName(Append(Headers(t), h), c) = Append(Headers(t), [h EXCEPT !.name = Append(@, c)])
      BY <1>0, <3>1, <3>3, AppendedGrows, ZenonT(30)
    <3>6. MoreName(Append(Headers(t), h), c) = Append(Headers(t), [name |-> Append(p, c), value |-> <<>>])
      BY <3>3, <3>4, <3>5
    <3> QED BY <2>1, <3>6 DEF h, p
  <2>3. KeptOf("header_name", u, b) = Append(Headers(u), [name |-> Part(u, b, n + 1), value |-> <<>>])
    BY <1>1 DEF KeptOf
  <2>4. KeptOf("space_before_header_value", u, b) = Append(Headers(u), [name |-> Part(u, b, n), value |-> <<>>])
    BY <1>1 DEF KeptOf
  <2> QED BY <1>1, <1>2, <2>1, <2>2, <2>3, <2>4
<1>4. KeepsHeaders("header_name", u, MoreName(hs, c))
  BY <1>0, <1>3, HeadersKeptOn DEF u
<1>5. KeepsHeaders("space_before_header_value", u, hs)
  BY <1>0, <1>3, HeadersKeptOn DEF u
<1> QED
  BY <1>4, <1>5 DEF u

LEMMA KeepSpace ==
    ASSUME NEW t \in Seq(Char), NEW hs, Reads("space_before_header_value", t),
           KeepsHeaders("space_before_header_value", t, hs)
    PROVE  KeepsHeaders("header_value", Append(t, "SP"), hs)
<1> DEFINE u == Append(t, "SP")
           n == Len(t)
<1>0. "SP" \in Char \ {"LF"} /\ Complete(t)
  BY DEF Char, Reads
<1>1. u \in Seq(Char) /\ Len(u) = n + 1 /\ Headers(u) = Headers(t) /\ Extends(t, u) /\ n \in Nat
  BY <1>0, AppendIs, HeadersStay
<1> HIDE DEF u
<1>3. ASSUME NEW b \in 0..n, Begins(t, b), hs = KeptOf("space_before_header_value", t, b)
      PROVE  hs = KeptOf("header_value", u, b)
  <2>1. n > b + 1 /\ t[n] = ":" /\ All(t, b, n - 1, Token)
    BY <1>3, LineRead DEF HeaderStates, InHeaderLine
  <2>2. n \in 1..n /\ n - 1 \in 0..n /\ b \in Nat /\ b \in 0..(n - 1) /\ n + 1 \in 0..Len(u) /\ n \in (b + 2)..((n + 1) - 1)
    BY <1>1, <2>1
  <2>3. u[n] = ":" /\ All(u, b, n - 1, Token)
    BY <1>1, <2>1, <2>2, ExtendsAll DEF Extends
  <2>4. Part(u, b, n - 1) = Part(t, b, n - 1)
    BY <1>1, <2>2, PartStays
  <2>5. Part(u, n + 1, n + 1) = <<>>
    BY <1>1, <2>2, PartNone
  <2>6. WithLine(Headers(u), u, b, n + 1) = Append(Headers(u), [name |-> Part(u, b, n - 1), value |-> Part(u, n + 1, n + 1)])
    BY <1>1, <2>2, <2>3, WithHeader, ZenonT(30)
  <2> QED BY <1>1, <1>3, <2>4, <2>5, <2>6 DEF KeptOf
<1> QED
  BY <1>0, <1>3, HeadersKeptOn DEF u

\* The white space of a folded line is not kept.
LEMMA KeepFold ==
    ASSUME NEW t \in Seq(Char), NEW c \in White, NEW s \in {"header_line_start", "header_lws"}, NEW hs \in Seq(Header),
           hs # <<>>, Reads(s, t), KeepsHeaders(s, t, hs)
    PROVE  KeepsHeaders("header_lws", Append(t, c), hs)
<1> DEFINE u == Append(t, c)
           n == Len(t)
<1>0. c \in Char \ {"LF"} /\ Complete(t) /\ Headers(t) \in Seq(Header)
  BY DEF White, Char, Reads, KeepsHeaders
<1>1. u \in Seq(Char) /\ Len(u) = n + 1 /\ Headers(u) = Headers(t) /\ Extends(t, u) /\ u[n + 1] = c /\ n \in Nat
  BY <1>0, AppendIs, HeadersStay
<1>2. ASSUME NEW b \in 0..n, All(t, b, n, White)
      PROVE  All(u, b, n + 1, White)
  BY <1>0, <1>2, AllMore
<1> HIDE DEF u
<1>3. ASSUME NEW b \in 0..n, Begins(t, b), hs = KeptOf(s, t, b)
      PROVE  hs = KeptOf("header_lws", u, b)
  <2>1. All(t, b, n, White)
    <3>1. InHeaderLine(s, t, b, n)
      BY <1>3, LineRead DEF HeaderStates
    <3> QED BY <3>1 DEF InHeaderLine, All
  <2>2. All(u, b, n + 1, White)
    BY <1>2, <2>1
  <2>3. b \in Nat /\ n + 1 \in 0..Len(u) /\ n + 1 \in (b + 1)..(n + 1)
    BY <1>1
  <2>4. WithLine(Headers(u), u, b, n + 1) = Continued(Headers(u), Part(u, n + 1, n + 1))
    BY <1>1, <2>2, <2>3, WithFold
  <2>5. Part(u, n + 1, n + 1) = <<>>
    BY <1>1, <2>3, PartNone
  <2>6. KeptOf("header_lws", u, b) = Continued(Headers(t), <<>>)
    BY <1>1, <2>4, <2>5 DEF KeptOf
  <2>7. CASE s = "header_line_start"
    <3>1. hs = Headers(t)
      BY <1>3, <2>7 DEF KeptOf
    <3> QED BY <1>0, <2>6, <3>1, ContinuedIs
  <2>8. CASE s = "header_lws"
    <3>1. hs = WithLine(Headers(t), t, b, n) /\ n > b
      BY <1>3, <2>8, LineRead DEF KeptOf, HeaderStates, InHeaderLine
    <3>2. n \in 0..Len(t) /\ n \in (b + 1)..n
      BY <1>1, <3>1
    <3>3. WithLine(Headers(t), t, b, n) = Continued(Headers(t), Part(t, n, n))
      BY <2>1, <2>3, <3>2, WithFold
    <3>4. Part(t, n, n) = <<>>
      BY <3>2, PartNone
    <3> QED BY <2>6, <3>1, <3>3, <3>4
  <2> QED BY <2>7, <2>8
<1> QED
  BY <1>0, <1>3, HeadersKeptOn DEF u

\* The value of a header grows, the one of its own line and the one that a
\* folded line continues.
LEMMA KeepFoldText ==
    ASSUME NEW t \in Seq(Char), NEW c \in Printable \ {"SP"}, NEW hs \in Seq(Header),
           hs # <<>>, Reads("header_lws", t), KeepsHeaders("header_lws", t, hs)
    PROVE  KeepsHeaders("header_value", Append(t, c), MoreValue(hs, c))
<1> DEFINE u == Append(t, c)
           n == Len(t)
<1>0. c \in Char \ {"LF"} /\ c \notin White /\ Complete(t) /\ Headers(t) \in Seq(Header) /\ <<>> \in Seq(Char)
  BY DEF Printable, White, Char, Reads, KeepsHeaders
<1>1. u \in Seq(Char) /\ Len(u) = n + 1 /\ Headers(u) = Headers(t) /\ Extends(t, u) /\ u[n + 1] = c /\ n \in Nat
  BY <1>0, AppendIs, HeadersStay
<1>2. Part(u, n, n + 1) = Append(<<>>, c)
  <2>1. Part(u, n, n + 1) = Append(Part(t, n, n), c)
    BY <1>0, PartMore
  <2>2. Part(t, n, n) = <<>>
    BY PartNone
  <2> QED BY <2>1, <2>2
<1> HIDE DEF u
<1>3. ASSUME NEW b \in 0..n, Begins(t, b), hs = KeptOf("header_lws", t, b)
      PROVE  MoreValue(hs, c) = KeptOf("header_value", u, b)
  <2>1. n > b /\ All(t, b, n, White)
    BY <1>3, LineRead DEF HeaderStates, InHeaderLine
  <2>2. b \in Nat /\ n \in 0..Len(t) /\ n \in (b + 1)..n /\ n + 1 \in 0..Len(u) /\ n \in (b + 1)..(n + 1)
    BY <1>1, <2>1
  <2>3. hs = Continued(Headers(t), <<>>)
    <3>1. WithLine(Headers(t), t, b, n) = Continued(Headers(t), Part(t, n, n))
      BY <2>1, <2>2, WithFold
    <3>2. Part(t, n, n) = <<>>
      BY <2>2, PartNone
    <3> QED BY <1>3, <3>1, <3>2 DEF KeptOf
  <2>4. Headers(t) # <<>>
    BY <1>0, <2>3, ContinuedIs
  <2>5. MoreValue(hs, c) = Continued(Headers(t), Append(<<>>, c))
    BY <1>0, <2>3, <2>4, ContinuedIs
  <2>6. All(u, b, n, White) /\ u[n + 1] \notin White
    BY <1>0, <1>1, <2>1, <2>2, ExtendsAll
  <2>7. WithLine(Headers(u), u, b, n + 1) = Continued(Headers(u), Part(u, n, n + 1))
    BY <1>1, <2>2, <2>6, WithFold
  <2> QED BY <1>1, <1>2, <2>5, <2>7 DEF KeptOf
<1> QED
  BY <1>0, <1>3, HeadersKeptOn DEF u

LEMMA KeepValue ==
    ASSUME NEW t \in Seq(Char), NEW c \in Printable, NEW hs \in Seq(Header),
           hs # <<>>, Reads("header_value", t), KeepsHeaders("header_value", t, hs)
    PROVE  KeepsHeaders("header_value", Append(t, c), MoreValue(hs, c))
<1> DEFINE u == Append(t, c)
           n == Len(t)
           H == Headers(t)
<1>0. c \in Char \ {"LF"} /\ Complete(t) /\ H \in Seq(Header)
  BY DEF Printable, Char, Reads, KeepsHeaders
<1>1. u \in Seq(Char) /\ Len(u) = n + 1 /\ Headers(u) = H /\ Extends(t, u) /\ n \in Nat
  BY <1>0, AppendIs, HeadersStay
<1>2. \A i \in 0..n : Part(u, i, n + 1) = Append(Part(t, i, n), c)
  BY <1>0, PartMore
<1> HIDE DEF u, H
<1>3. ASSUME NEW b \in 0..n, Begins(t, b), hs = KeptOf("header_value", t, b)
      PROVE  MoreValue(hs, c) = KeptOf("header_value", u, b)
  <2>1. IsHeader(t, b, n) \/ Resumed(t, b, n)
    BY <1>3, LineRead DEF HeaderStates, InHeaderLine
  <2>2. hs = WithLine(H, t, b, n) /\ KeptOf("header_value", u, b) = WithLine(H, u, b, n + 1)
    BY <1>1, <1>3 DEF KeptOf, H
  <2>3. b \in Nat /\ n \in 0..Len(t) /\ n + 1 \in 0..Len(u)
    BY <1>1
  <2>4. CASE IsHeader(t, b, n)
    <3>1. PICK i \in (b + 2)..(n - 1) : t[i] = ":" /\ All(t, b, i - 1, Token)
      BY <2>4 DEF IsHeader
    <3>2. /\ i \in 1..n /\ i - 1 \in 0..n /\ b \in 0..(i - 1) /\ i + 1 \in 0..n /\ i \in (b + 2)..((n + 1) - 1)
          /\ n \in 0..Len(t)
      BY <1>1, <3>1
    <3>3. u[i] = ":" /\ All(u, b, i - 1, Token)
      BY <1>1, <2>3, <3>1, <3>2, ExtendsAll DEF Extends
    <3> DEFINE name == Part(t, b, i - 1)
               value == Part(t, i + 1, n)
               h == [name |-> name, value |-> value]
    <3>4. name \in Seq(Char) /\ Part(u, b, i - 1) = name
      BY <1>1, <3>2, PartIs, PartStays, ZenonT(30)
    <3>5. value \in Seq(Char) /\ Part(u, i + 1, n + 1) = Append(value, c)
      BY <1>2, <3>2, PartIs
    <3>6. hs = Append(H, h)
      BY <2>2, <2>3, <3>1, WithHeader
    <3>7. WithLine(H, u, b, n + 1) = Append(H, [name |-> name, value |-> Append(value, c)])
      <4>1. WithLine(H, u, b, n + 1) = Append(H, [name |-> Part(u, b, i - 1), value |-> Part(u, i + 1, n + 1)])
        BY <1>1, <2>3, <3>2, <3>3, WithHeader, ZenonT(30)
      <4> HIDE DEF name, value
      <4> QED BY <3>4, <3>5, <4>1
    <3> HIDE DEF name, value
    <3>8. h \in Header /\ h.value = value
      BY <3>4, <3>5 DEF Header
    <3>9. \A x : [h EXCEPT !.value = x] = [name |-> name, value |-> x]
      OBVIOUS
    <3> HIDE DEF h
    <3>10. MoreValue(Append(H, h), c) = Append(H, [h EXCEPT !.value = Append(@, c)])
      BY <1>0, <3>8, AppendedGrows, ZenonT(30)
    <3>11. MoreValue(Append(H, h), c) = Append(H, [name |-> name, value |-> Append(value, c)])
      BY <3>8, <3>9, <3>10
    <3> QED BY <2>2, <3>6, <3>7, <3>11
  <2>5. CASE Resumed(t, b, n)
    <3>1. PICK i \in (b + 1)..(n - 1) : All(t, b, i, White) /\ t[i + 1] \notin White
      BY <2>5 DEF Resumed
    <3>2. /\ i \in 0..n /\ i + 1 \in 1..n /\ i \in (b + 1)..n /\ i \in (b + 1)..(n + 1)
          /\ i \in 0..Len(t) /\ n \in 0..Len(t)
      BY <1>1, <3>1
    <3>3. All(u, b, i, White) /\ u[i + 1] \notin White
      BY <1>1, <2>3, <3>1, <3>2, ExtendsAll DEF Extends
    <3> DEFINE value == Part(t, i, n)
    <3>4. value \in Seq(Char) /\ Part(u, i, n + 1) = Append(value, c)
      BY <1>2, <3>2, PartIs
    <3>5. hs = Continued(H, value)
      BY <2>2, <2>3, <3>1, <3>2, WithFold
    <3>6. WithLine(H, u, b, n + 1) = Continued(H, Part(u, i, n + 1))
      BY <1>1, <2>3, <3>2, <3>3, WithFold, ZenonT(30)
    <3> HIDE DEF value
    <3>7. H # <<>>
      BY <1>0, <3>5, ContinuedIs
    <3>8. MoreValue(hs, c) = Continued(H, Append(value, c))
      BY <1>0, <3>4, <3>5, <3>7, ContinuedIs
    <3> QED BY <2>2, <3>4, <3>6, <3>8
  <2> QED BY <2>1, <2>4, <2>5
<1> QED
  BY <1>0, <1>3, HeadersKeptOn DEF u

\* The end of a line changes nothing.
LEMMA KeepLineEnd ==
    ASSUME NEW t \in Seq(Char), NEW s \in {"header_lws", "header_value"}, NEW hs,
           Reads(s, t), KeepsHeaders(s, t, hs)
    PROVE  KeepsHeaders("expecting_newline_2", Append(t, "CR"), hs)
<1> DEFINE u == Append(t, "CR")
           n == Len(t)
<1>0. "CR" \in Char \ {"LF"} /\ Complete(t)
  BY DEF Char, Reads
<1>1. u \in Seq(Char) /\ Len(u) = n + 1 /\ Headers(u) = Headers(t) /\ Extends(t, u) /\ n \in Nat /\ (n + 1) - 1 = n
  BY <1>0, AppendIs, HeadersStay
<1> HIDE DEF u
<1>3. ASSUME NEW b \in 0..n, Begins(t, b), hs = KeptOf(s, t, b)
      PROVE  hs = KeptOf("expecting_newline_2", u, b)
  <2>0. InHeaderLine(s, t, b, n)
    BY <1>3, LineRead DEF HeaderStates
  <2>1. IsHeader(t, b, n) \/ IsFolded(t, b, n)
    <3>1. CASE s = "header_value"
      <4>1. b \in Nat /\ n \in Nat
        BY <1>1
      <4> QED BY <2>0, <3>1, <4>1, ResumedIsFolded DEF InHeaderLine
    <3>2. CASE s = "header_lws"
      <4>1. n > b /\ All(t, b, n, White)
        BY <2>0, <3>2 DEF InHeaderLine
      <4>2. n \in (b + 1)..n /\ All(t, n, n, Printable)
        BY <1>1, <4>1 DEF All
      <4> QED BY <4>1, <4>2 DEF IsFolded
    <3> QED BY <3>1, <3>2
  <2>2. b \in Nat /\ n \in 0..Len(t)
    BY <1>1
  <2>3. WithLine(Headers(t), u, b, n) = WithLine(Headers(t), t, b, n)
    BY <1>1, <2>1, <2>2, WithLineStays
  <2> QED BY <1>1, <1>3, <2>3 DEF KeptOf
<1> QED
  BY <1>0, <1>3, HeadersKeptOn DEF u

\* A line that ends is one of the lines the headers are read from.
LEMMA KeepLine ==
    ASSUME NEW t \in Seq(Char), NEW hs \in Seq(Header), Reads("expecting_newline_2", t),
           KeepsHeaders("expecting_newline_2", t, hs)
    PROVE  KeepsHeaders("header_line_start", Append(t, "LF"), hs)
<1> DEFINE u == Append(t, "LF")
           n == Len(t)
<1>1. PICK b \in 1..n : Complete(t) /\ Begins(t, b) /\ InHeaderLine("expecting_newline_2", t, b, n)
  BY ReadsLine DEF HeaderStates
<1>2. n > b /\ (IsHeader(t, b, n - 1) \/ IsFolded(t, b, n - 1))
  BY <1>1 DEF InHeaderLine
<1>3. b # n - 1 /\ b # 0 /\ b \in 0..n /\ b \in Nat /\ n - 1 \in 0..Len(t)
  <2>1. b # n - 1
    <3> SUFFICES ASSUME b = n - 1 PROVE FALSE
      OBVIOUS
    <3> QED BY <1>2 DEF IsHeader, IsFolded
  <2> QED BY <1>2, <2>1
<1>4. u \in Seq(Char) /\ Extends(t, u)
  BY AppendIs DEF Char
<1>5. Headers(u) = WithLine(Headers(t), u, b, n - 1)
  BY <1>1, <1>3, HeadersAdd
<1> HIDE DEF u
<1>6. WithLine(Headers(t), u, b, n - 1) = WithLine(Headers(t), t, b, n - 1)
  BY <1>2, <1>3, <1>4, WithLineStays
<1>7. hs = WithLine(Headers(t), t, b, n - 1)
  BY <1>1, <1>3 DEF KeepsHeaders, KeptOf
<1>8. KeepsHeaders("header_line_start", u, hs)
  BY <1>5, <1>6, <1>7 DEF KeepsHeaders, KeptOf
<1> QED
  BY <1>8 DEF u

\* The request line and the empty line say nothing of the headers.
LEMMA KeepRequestLine ==
    ASSUME NEW t \in Seq(Char), NEW hs, Reads("expecting_newline_1", t),
           KeepsHeaders("expecting_newline_1", t, hs)
    PROVE  KeepsHeaders("header_line_start", Append(t, "LF"), hs)
<1> DEFINE u == Append(t, "LF")
<1>1. Complete(t) /\ Begins(t, 0) /\ 0 \in 0..Len(t)
  BY ReadsLine DEF HeaderStates
<1>2. Headers(u) = Headers(t)
  BY <1>1, HeadersAdd
<1>3. hs = Headers(t) /\ Headers(t) \in Seq(Header)
  BY <1>1 DEF KeepsHeaders, KeptOf
<1> HIDE DEF u
<1>4. KeepsHeaders("header_line_start", u, hs)
  BY <1>2, <1>3 DEF KeepsHeaders, KeptOf
<1> QED
  BY <1>4 DEF u

LEMMA KeepLast ==
    ASSUME NEW t \in Seq(Char), NEW hs, Reads("expecting_newline_3", t),
           KeepsHeaders("expecting_newline_3", t, hs)
    PROVE  hs = Headers(Append(t, "LF"))
<1>1. PICK b \in 1..Len(t) : Complete(t) /\ Begins(t, b) /\ InHeaderLine("expecting_newline_3", t, b, Len(t))
  BY ReadsLine DEF HeaderStates
<1>2. b = Len(t) - 1 /\ b \in 0..Len(t)
  BY <1>1 DEF InHeaderLine
<1>3. Headers(Append(t, "LF")) = Headers(t)
  BY <1>1, <1>2, HeadersAdd
<1>4. hs = Headers(t)
  BY <1>1, <1>2 DEF KeepsHeaders, KeptOf
<1> QED
  BY <1>3, <1>4

-----------------------------------------------------------------------------
(* Every step keeps what it has read *)

Reading == IInv /\ Decides /\ Keeps /\ result = "indeterminate"

\* What is known while the parser reads.
LEMMA WhileReading ==
    ASSUME Reading
    PROVE  /\ text \in Seq(Char) /\ request \in Request /\ request.headers \in Seq(Header)
           /\ request.method \in Seq(Char) /\ request.uri \in Seq(Char)
           /\ Reads(state, text) /\ Complete(text)
           /\ KeepsCall(state, text, request) /\ KeepsHeaders(state, text, request.headers)
<1>1. text \in Seq(Char) /\ request \in Request
  BY DEF Reading, IInv, TypeOK, Request
<1>2. request.headers \in Seq(Header) /\ request.method \in Seq(Char) /\ request.uri \in Seq(Char)
  BY <1>1 DEF Request
<1>3. Reads(state, text) /\ KeepsCall(state, text, request) /\ KeepsHeaders(state, text, request.headers)
  BY DEF Reading, Decides, Keeps
<1>4. Complete(text)
  BY <1>3 DEF Reads
<1> QED
  BY <1>1, <1>2, <1>3, <1>4

\* Of a broken text nothing is said.
LEMMA RejectKeeps == ASSUME result' = "bad" PROVE Keeps'
BY DEF Keeps, SaysWhatWasSent

\* The parser goes on.
LEMMA GoKeeps ==
    ASSUME NEW s, state' = s, result' = "indeterminate",
           KeepsCall(s, text', request'), KeepsHeaders(s, text', request'.headers)
    PROVE  Keeps'
BY DEF Keeps, SaysWhatWasSent

\* On in the request line.
LEMMA MethodKeeps ==
    ASSUME Reading, NEW c \in Char, text' = Append(text, c), ConsumeMethod(c)
    PROVE  Keeps'
<1> DEFINE u == Append(text, c)
           n == Len(text)
<1>0. /\ text \in Seq(Char) /\ request \in Request /\ Reads(state, text) /\ Complete(text)
      /\ KeepsCall(state, text, request) /\ KeepsHeaders(state, text, request.headers)
      /\ result = "indeterminate" /\ state \in {"method_start", "method"} /\ BetweenLines(state)
  BY WhileReading DEF Reading, ConsumeMethod, BetweenLines
<1>1. /\ u \in Seq(Char) /\ Len(u) = n + 1 /\ u[n + 1] = c /\ Extends(text, u) /\ n \in Nat
      /\ Part(u, 0, n + 1) = Append(Part(text, 0, n), c)
      /\ text' = u
  BY <1>0, AppendIs, PartMore
<1>2. c # "LF" => /\ KeepsHeaders("method", u, request.headers)
                  /\ KeepsHeaders("uri", u, request.headers)
  BY <1>0, PlainKeptOn DEF BetweenLines
<1> HIDE DEF u
<1>3. CASE c = "SP" /\ state = "method"
  <2>1. Skip("uri")
    BY <1>3 DEF ConsumeMethod
  <2>2. request.method = Part(text, 0, n) /\ request.uri = <<>>
    BY <1>0, <1>3 DEF KeepsCall
  <2>3. n > 0 /\ All(text, 0, n, Token)
    BY <1>0, <1>3 DEF Reads, HeaderStates, InRequestLine
  <2>4. All(text, 0, n, Char \ {"SP"})
    BY <2>3, SetsOfChars DEF All, Token, Char
  <2>5. /\ n + 1 \in 2..Len(u) /\ (n + 1) - 1 = n /\ n \in 0..Len(text) /\ 0 \in 0..n /\ 0 \in Nat
        /\ n + 1 \in 0..Len(u)
    BY <1>1, <2>3
  <2>6. All(u, 0, n, Char \ {"SP"}) /\ Part(u, 0, n) = Part(text, 0, n)
    BY <1>0, <1>1, <2>4, <2>5, ExtendsAll, PartStays
  <2>7. All(u, n + 1, Len(u), Char \ {"SP"}) /\ Part(u, n + 1, Len(u)) = <<>>
    <3>1. All(u, n + 1, Len(u), Char \ {"SP"})
      BY <1>1 DEF All
    <3> QED BY <1>1, <2>5, <3>1, PartNone
  <2>8. KeepsCall("uri", u, request)
    BY <1>1, <1>3, <2>2, <2>5, <2>6, <2>7 DEF KeepsCall, InCall
  <2> QED BY <1>0, <1>1, <1>2, <1>3, <2>1, <2>8, GoKeeps DEF Skip, Goto
<1>4. CASE ~(c = "SP" /\ state = "method") /\ c \in Token
  <2>1. Store("method", [request EXCEPT !.method = Append(@, c)])
    BY <1>4, Classes DEF ConsumeMethod
  <2>2. c # "LF"
    BY <1>4 DEF Token
  <2>3. /\ request'.headers = request.headers /\ request'.uri = request.uri
        /\ request'.method = Append(request.method, c)
    BY <1>0, <2>1 DEF Store, Request
  <2>4. request.method = Part(text, 0, n) /\ request.uri = <<>>
    <3>1. CASE state = "method"
      BY <1>0, <3>1 DEF KeepsCall
    <3>2. CASE state = "method_start"
      <4>1. n = 0 /\ request.method = <<>> /\ request.uri = <<>>
        BY <1>0, <3>2 DEF KeepsCall, Reads, HeaderStates, InRequestLine
      <4>2. Part(text, 0, 0) = <<>>
        BY <1>0, <1>1, PartNone
      <4> QED BY <4>1, <4>2
    <3> QED BY <1>0, <3>1, <3>2
  <2>5. KeepsCall("method", u, request')
    BY <1>1, <2>3, <2>4 DEF KeepsCall, InCall
  <2> QED BY <1>0, <1>1, <1>2, <2>1, <2>2, <2>3, <2>5, GoKeeps DEF Store, Goto
<1>5. CASE ~(c = "SP" /\ state = "method") /\ c \notin Token
  <2>1. Reject
    BY <1>5, Classes DEF ConsumeMethod
  <2> QED BY <2>1, RejectKeeps DEF Reject
<1> QED
  BY <1>3, <1>4, <1>5

LEMMA UriKeeps ==
    ASSUME Reading, NEW c \in Char, text' = Append(text, c), ConsumeUri(c)
    PROVE  Keeps'
<1> DEFINE u == Append(text, c)
           n == Len(text)
<1>0. /\ text \in Seq(Char) /\ request \in Request /\ Complete(text)
      /\ KeepsCall(state, text, request) /\ KeepsHeaders(state, text, request.headers)
      /\ result = "indeterminate" /\ state = "uri" /\ BetweenLines(state)
  BY WhileReading DEF Reading, ConsumeUri, BetweenLines
<1>1. /\ u \in Seq(Char) /\ Len(u) = n + 1 /\ u[n + 1] = c /\ Extends(text, u) /\ n \in Nat
      /\ text' = u
  BY <1>0, AppendIs
<1>2. c # "LF" => /\ KeepsHeaders("uri", u, request.headers)
                  /\ KeepsHeaders("http_version_h", u, request.headers)
  BY <1>0, PlainKeptOn DEF BetweenLines
<1>3. PICK i \in 2..n :
         /\ text[i] = "SP"
         /\ All(text, 0, i - 1, Char \ {"SP"}) /\ All(text, i, n, Char \ {"SP"})
         /\ request.method = Part(text, 0, i - 1) /\ request.uri = Part(text, i, n)
  BY <1>0 DEF KeepsCall
<1>4. /\ i \in 1..n /\ i \in 0..n /\ i \in 2..Len(u) /\ i - 1 \in 0..n /\ 0 \in 0..(i - 1) /\ i \in Nat
      /\ 0 \in Nat /\ n \in 0..n
  BY <1>1
<1>5. Part(u, i, n + 1) = Append(Part(text, i, n), c)
  BY <1>0, <1>4, PartMore
<1>6. c # "SP" => All(u, i, n + 1, Char \ {"SP"})
  BY <1>0, <1>3, <1>4, AllMore
<1> HIDE DEF u
<1>7. /\ u[i] = "SP" /\ All(u, 0, i - 1, Char \ {"SP"}) /\ All(u, i, n, Char \ {"SP"})
      /\ Part(u, 0, i - 1) = Part(text, 0, i - 1) /\ Part(u, i, n) = Part(text, i, n)
  <2>1. u[i] = "SP"
    BY <1>1, <1>3, <1>4 DEF Extends
  <2>2. All(u, 0, i - 1, Char \ {"SP"}) /\ All(u, i, n, Char \ {"SP"})
    BY <1>0, <1>1, <1>3, <1>4, ExtendsAll
  <2>3. Part(u, 0, i - 1) = Part(text, 0, i - 1) /\ Part(u, i, n) = Part(text, i, n)
    BY <1>0, <1>1, <1>4, PartStays
  <2> QED BY <2>1, <2>2, <2>3
<1>8. CASE c = "SP"
  <2>1. Skip("http_version_h")
    BY <1>8 DEF ConsumeUri
  <2>2. n + 1 \in (i + 1)..Len(u) /\ (n + 1) - 1 = n
    BY <1>1, <1>4
  <2>3. CallKept(u, request)
    BY <1>1, <1>3, <1>4, <1>7, <1>8, <2>2 DEF CallKept
  <2>4. KeepsCall("http_version_h", u, request)
    BY <2>3 DEF KeepsCall, InCall
  <2> QED BY <1>0, <1>1, <1>2, <1>8, <2>1, <2>4, GoKeeps DEF Skip, Goto
<1>9. CASE c \in Printable \ {"SP"}
  <2>1. Store("uri", [request EXCEPT !.uri = Append(@, c)])
    BY <1>9, Classes DEF ConsumeUri
  <2>2. c # "LF"
    BY <1>9 DEF Printable
  <2>3. /\ request'.headers = request.headers /\ request'.method = request.method
        /\ request'.uri = Append(request.uri, c)
    BY <1>0, <2>1 DEF Store, Request
  <2>4. KeepsCall("uri", u, request')
    BY <1>1, <1>3, <1>4, <1>5, <1>6, <1>7, <1>9, <2>3 DEF KeepsCall, InCall
  <2> QED BY <1>0, <1>1, <1>2, <2>1, <2>2, <2>3, <2>4, GoKeeps DEF Store, Goto
<1>10. CASE c # "SP" /\ c \notin Printable
  <2>1. Reject
    BY <1>10, Classes DEF ConsumeUri
  <2> QED BY <2>1, RejectKeeps DEF Reject
<1> QED
  BY <1>8, <1>9, <1>10

\* On behind the request line's two spaces.
LEMMA OnKeeps ==
    ASSUME Reading, NEW c \in Char, text' = Append(text, c), state \notin InCall,
           NEW s, s \notin InCall, state' = s, result' = "indeterminate",
           request'.method = request.method, request'.uri = request.uri,
           KeepsHeaders(s, text', request'.headers)
    PROVE  Keeps'
<1>1. text \in Seq(Char) /\ KeepsCall(state, text, request)
  BY WhileReading
<1>2. KeepsCall(state', text', request')
  BY <1>1, CallKeptOn
<1> QED
  BY <1>2, GoKeeps

\* On to a state in which no header is read.
LEMMA PlainKeeps ==
    ASSUME Reading, NEW c \in Char \ {"LF"}, text' = Append(text, c),
           state \notin InCall, BetweenLines(state), NEW s, s \notin InCall, BetweenLines(s),
           state' = s, result' = "indeterminate",
           request'.method = request.method, request'.uri = request.uri,
           request'.headers = request.headers
    PROVE  Keeps'
<1>1. text \in Seq(Char) /\ Complete(text) /\ KeepsHeaders(state, text, request.headers)
  BY WhileReading
<1>2. KeepsHeaders(s, Append(text, c), request.headers)
  BY <1>1, PlainKeptOn
<1> QED
  BY <1>2, OnKeeps

\* Of the version nothing is kept but its digits.
LEMMA MajorMinorKeeps ==
    ASSUME Reading, NEW c \in Char, text' = Append(text, c), ConsumeMajor(c) \/ ConsumeMinor(c)
    PROVE  Keeps'
<1>0. /\ request \in Request /\ result = "indeterminate"
      /\ state \in {"http_version_major_start", "http_version_major",
                    "http_version_minor_start", "http_version_minor"}
      /\ state \notin InCall /\ BetweenLines(state)
  BY WhileReading DEF Reading, ConsumeMajor, ConsumeMinor, BetweenLines, InCall
<1>1. CASE Reject
  BY <1>1, RejectKeeps DEF Reject
<1>2. ASSUME NEW s \in {"http_version_minor_start", "expecting_newline_1"}, Skip(s), c # "LF"
      PROVE  Keeps'
  <2>1. s \notin InCall /\ BetweenLines(s) /\ c \in Char \ {"LF"}
    BY <1>2 DEF BetweenLines, InCall
  <2>2. state' = s /\ result' = "indeterminate" /\ request' = request
    BY <1>0, <1>2 DEF Skip, Goto
  <2> QED BY <1>0, <2>1, <2>2, PlainKeeps
<1>3. ASSUME NEW s \in {"http_version_major", "http_version_minor"},
             \/ Store(s, [request EXCEPT !.major = @ + 1])
             \/ Store(s, [request EXCEPT !.minor = @ + 1]),
             c # "LF"
      PROVE  Keeps'
  <2>1. s \notin InCall /\ BetweenLines(s) /\ c \in Char \ {"LF"}
    BY <1>3 DEF BetweenLines, InCall
  <2>2. state' = s /\ result' = "indeterminate"
    BY <1>0, <1>3 DEF Store, Goto
  <2>3. /\ request'.method = request.method /\ request'.uri = request.uri
        /\ request'.headers = request.headers
    BY <1>0, <1>3 DEF Store, Request
  <2> QED BY <1>0, <2>1, <2>2, <2>3, PlainKeeps
<1>4. is_digit(c) => c # "LF"
  BY DEF is_digit
<1> QED
  BY <1>1, <1>2, <1>3, <1>4 DEF ConsumeMajor, ConsumeMinor

\* The states that wait for one character.
LEMMA AwaitedKeeps ==
    ASSUME Reading, NEW c \in Char, text' = Append(text, c), ConsumeAwaited(c)
    PROVE  Keeps'
<1>0. /\ text \in Seq(Char) /\ request.headers \in Seq(Header) /\ Reads(state, text)
      /\ KeepsHeaders(state, text, request.headers)
      /\ result = "indeterminate" /\ state \in DOMAIN Awaited /\ state \notin InCall
  BY WhileReading DEF Reading, ConsumeAwaited, Awaited, InCall
<1>1. CASE c # Awaited[state]
  <2>1. Reject
    BY <1>1 DEF ConsumeAwaited
  <2> QED BY <2>1, RejectKeeps DEF Reject
<1>2. CASE c = Awaited[state]
  <2>1. Skip(Following[state])
    BY <1>2 DEF ConsumeAwaited
  <2>2. state' = Following[state] /\ result' = "indeterminate" /\ request' = request
    BY <1>0, <2>1 DEF Skip, Goto
  <2>3. Following[state] \notin InCall
    BY <1>0 DEF Awaited, Following, InCall
  <2>4. CASE state \in {"http_version_h", "http_version_t_1", "http_version_t_2",
                        "http_version_p", "http_version_slash"}
    <3>1. BetweenLines(state) /\ BetweenLines(Following[state]) /\ c \in Char \ {"LF"}
      BY <1>2, <2>4 DEF Awaited, Following, BetweenLines
    <3> QED BY <1>0, <2>2, <2>3, <3>1, PlainKeeps
  <2>5. CASE state = "expecting_newline_1"
    <3>1. c = "LF" /\ Following[state] = "header_line_start"
      BY <1>2, <2>5 DEF Awaited, Following
    <3>2. KeepsHeaders("header_line_start", text', request.headers)
      BY <1>0, <2>5, <3>1, KeepRequestLine
    <3> QED BY <1>0, <2>2, <2>3, <3>1, <3>2, OnKeeps
  <2>6. CASE state = "space_before_header_value"
    <3>1. c = "SP" /\ Following[state] = "header_value"
      BY <1>2, <2>6 DEF Awaited, Following
    <3>2. KeepsHeaders("header_value", text', request.headers)
      BY <1>0, <2>6, <3>1, KeepSpace
    <3> QED BY <1>0, <2>2, <2>3, <3>1, <3>2, OnKeeps
  <2>7. CASE state = "expecting_newline_2"
    <3>1. c = "LF" /\ Following[state] = "header_line_start"
      BY <1>2, <2>7 DEF Awaited, Following
    <3>2. KeepsHeaders("header_line_start", text', request.headers)
      BY <1>0, <2>7, <3>1, KeepLine
    <3> QED BY <1>0, <2>2, <2>3, <3>1, <3>2, OnKeeps
  <2> QED BY <1>0, <2>4, <2>5, <2>6, <2>7 DEF Awaited
<1> QED
  BY <1>1, <1>2

\* The states of a header.
LEMMA HeaderLineKeeps ==
    ASSUME Reading, NEW c \in Char, text' = Append(text, c), ConsumeHeaderLine(c)
    PROVE  Keeps'
<1>0. /\ text \in Seq(Char) /\ request \in Request /\ request.headers \in Seq(Header) /\ Reads(state, text)
      /\ KeepsHeaders(state, text, request.headers)
      /\ result = "indeterminate" /\ state = "header_line_start" /\ state \notin InCall /\ BetweenLines(state)
  BY WhileReading DEF Reading, ConsumeHeaderLine, BetweenLines, InCall
<1>1. CASE c = "CR"
  <2>1. Skip("expecting_newline_3")
    BY <1>1 DEF ConsumeHeaderLine
  <2>2. state' = "expecting_newline_3" /\ result' = "indeterminate" /\ request' = request
    BY <1>0, <2>1 DEF Skip, Goto
  <2>3. "expecting_newline_3" \notin InCall /\ BetweenLines("expecting_newline_3") /\ c \in Char \ {"LF"}
    BY <1>1 DEF BetweenLines, InCall
  <2> QED BY <1>0, <2>2, <2>3, PlainKeeps
<1>2. CASE request.headers # <<>> /\ c \in White
  <2>1. Skip("header_lws")
    BY <1>2 DEF ConsumeHeaderLine, White
  <2>2. state' = "header_lws" /\ result' = "indeterminate" /\ request' = request
    BY <1>0, <2>1 DEF Skip, Goto
  <2>3. KeepsHeaders("header_lws", text', request.headers)
    BY <1>0, <1>2, KeepFold
  <2> QED BY <1>0, <2>2, <2>3, OnKeeps DEF InCall
<1>3. CASE c \in Token
  <2>1. Store("header_name", OpenHeader(c))
    <3>1. c # "CR" /\ c \notin {"SP", "HT"} /\ IsToken(c)
      BY <1>3, Classes DEF Token
    <3> QED BY <3>1 DEF ConsumeHeaderLine
  <2>2. state' = "header_name" /\ result' = "indeterminate" /\ request' = OpenHeader(c)
    BY <1>0, <2>1 DEF Store, Goto
  <2>3. /\ request'.headers = Append(request.headers, [name |-> <<c>>, value |-> <<>>])
        /\ request'.method = request.method /\ request'.uri = request.uri
    BY <1>0, <2>2, AddToIs
  <2>4. KeepsHeaders("header_name", text', request'.headers)
    BY <1>0, <1>3, <2>3, KeepOpen
  <2> QED BY <1>0, <2>2, <2>3, <2>4, OnKeeps DEF InCall
<1>4. CASE c \notin Token \cup {"CR"} /\ (c \in White => request.headers = <<>>)
  <2>1. Reject
    BY <1>4, Classes DEF ConsumeHeaderLine
  <2> QED BY <2>1, RejectKeeps DEF Reject
<1> QED
  BY <1>1, <1>2, <1>3, <1>4

LEMMA HeaderNameKeeps ==
    ASSUME Reading, NEW c \in Char, text' = Append(text, c), ConsumeHeaderName(c)
    PROVE  Keeps'
<1>0. /\ text \in Seq(Char) /\ request \in Request /\ Reads(state, text)
      /\ KeepsHeaders(state, text, request.headers)
      /\ result = "indeterminate" /\ state = "header_name" /\ state \notin InCall
  BY WhileReading DEF Reading, ConsumeHeaderName, InCall
<1>1. CASE c = ":"
  <2>1. Skip("space_before_header_value")
    BY <1>1 DEF ConsumeHeaderName
  <2>2. state' = "space_before_header_value" /\ result' = "indeterminate" /\ request' = request
    BY <1>0, <2>1 DEF Skip, Goto
  <2>3. KeepsHeaders("space_before_header_value", text', request.headers)
    BY <1>0, <1>1, KeepName
  <2> QED BY <1>0, <2>2, <2>3, OnKeeps DEF InCall
<1>2. CASE c \in Token
  <2>1. Store("header_name", AddToName(c))
    <3>1. c # ":" /\ IsToken(c)
      BY <1>2, Classes DEF Token
    <3> QED BY <3>1 DEF ConsumeHeaderName
  <2>2. state' = "header_name" /\ result' = "indeterminate" /\ request' = AddToName(c)
    BY <1>0, <2>1 DEF Store, Goto
  <2>3. /\ request'.headers = MoreName(request.headers, c)
        /\ request'.method = request.method /\ request'.uri = request.uri
    BY <1>0, <2>2, AddToIs
  <2>4. KeepsHeaders("header_name", text', request'.headers)
    <3>1. c \in Char \ {"LF"}
      BY <1>2 DEF Token
    <3> QED BY <1>0, <2>3, <3>1, KeepName
  <2> QED BY <1>0, <2>2, <2>3, <2>4, OnKeeps DEF InCall
<1>3. CASE c \notin Token \cup {":"}
  <2>1. Reject
    BY <1>3, Classes DEF ConsumeHeaderName
  <2> QED BY <2>1, RejectKeeps DEF Reject
<1> QED
  BY <1>1, <1>2, <1>3

LEMMA LwsKeeps ==
    ASSUME Reading, NEW c \in Char, text' = Append(text, c), ConsumeLws(c)
    PROVE  Keeps'
<1>0. /\ text \in Seq(Char) /\ request \in Request /\ request.headers \in Seq(Header) /\ Reads(state, text)
      /\ KeepsHeaders(state, text, request.headers)
      /\ result = "indeterminate" /\ state = "header_lws" /\ state \notin InCall
  BY WhileReading DEF Reading, ConsumeLws, InCall
<1>a. request.headers # <<>>
  BY <1>0 DEF Reading, IInv, InHeader
<1>1. CASE c = "CR"
  <2>1. Skip("expecting_newline_2")
    BY <1>1 DEF ConsumeLws
  <2>2. state' = "expecting_newline_2" /\ result' = "indeterminate" /\ request' = request
    BY <1>0, <2>1 DEF Skip, Goto
  <2>3. KeepsHeaders("expecting_newline_2", text', request.headers)
    BY <1>0, <1>1, KeepLineEnd
  <2> QED BY <1>0, <2>2, <2>3, OnKeeps DEF InCall
<1>2. CASE c \in White
  <2>1. Skip("header_lws")
    BY <1>2 DEF ConsumeLws, White
  <2>2. state' = "header_lws" /\ result' = "indeterminate" /\ request' = request
    BY <1>0, <2>1 DEF Skip, Goto
  <2>3. KeepsHeaders("header_lws", text', request.headers)
    BY <1>0, <1>a, <1>2, KeepFold
  <2> QED BY <1>0, <2>2, <2>3, OnKeeps DEF InCall
<1>3. CASE c \in Printable \ {"SP"}
  <2>1. Store("header_value", AddToValue(c))
    <3>1. c # "CR" /\ c \notin {"SP", "HT"} /\ ~is_ctl(c)
      BY <1>3, Classes DEF Printable
    <3> QED BY <3>1 DEF ConsumeLws
  <2>2. state' = "header_value" /\ result' = "indeterminate" /\ request' = AddToValue(c)
    BY <1>0, <2>1 DEF Store, Goto
  <2>3. /\ request'.headers = MoreValue(request.headers, c)
        /\ request'.method = request.method /\ request'.uri = request.uri
    BY <1>0, <2>2, AddToIs
  <2>4. KeepsHeaders("header_value", text', request'.headers)
    BY <1>0, <1>a, <1>3, <2>3, KeepFoldText
  <2> QED BY <1>0, <2>2, <2>3, <2>4, OnKeeps DEF InCall
<1>4. CASE c \notin Printable \cup {"CR", "HT"}
  <2>1. Reject
    <3>1. c # "CR" /\ c \notin {"SP", "HT"} /\ is_ctl(c)
      BY <1>4, Classes DEF Printable, Char
    <3> QED BY <3>1 DEF ConsumeLws
  <2> QED BY <2>1, RejectKeeps DEF Reject
<1> QED
  BY <1>1, <1>2, <1>3, <1>4 DEF White

LEMMA HeaderValueKeeps ==
    ASSUME Reading, NEW c \in Char, text' = Append(text, c), ConsumeHeaderValue(c)
    PROVE  Keeps'
<1>0. /\ text \in Seq(Char) /\ request \in Request /\ request.headers \in Seq(Header) /\ Reads(state, text)
      /\ KeepsHeaders(state, text, request.headers)
      /\ result = "indeterminate" /\ state = "header_value" /\ state \notin InCall
  BY WhileReading DEF Reading, ConsumeHeaderValue, InCall
<1>a. request.headers # <<>>
  BY <1>0 DEF Reading, IInv, InHeader
<1>1. CASE c = "CR"
  <2>1. Skip("expecting_newline_2")
    BY <1>1 DEF ConsumeHeaderValue
  <2>2. state' = "expecting_newline_2" /\ result' = "indeterminate" /\ request' = request
    BY <1>0, <2>1 DEF Skip, Goto
  <2>3. KeepsHeaders("expecting_newline_2", text', request.headers)
    BY <1>0, <1>1, KeepLineEnd
  <2> QED BY <1>0, <2>2, <2>3, OnKeeps DEF InCall
<1>2. CASE c \in Printable
  <2>1. Store("header_value", AddToValue(c))
    <3>1. c # "CR" /\ ~is_ctl(c)
      BY <1>2, Classes DEF Printable
    <3> QED BY <3>1 DEF ConsumeHeaderValue
  <2>2. state' = "header_value" /\ result' = "indeterminate" /\ request' = AddToValue(c)
    BY <1>0, <2>1 DEF Store, Goto
  <2>3. /\ request'.headers = MoreValue(request.headers, c)
        /\ request'.method = request.method /\ request'.uri = request.uri
    BY <1>0, <2>2, AddToIs
  <2>4. KeepsHeaders("header_value", text', request'.headers)
    BY <1>0, <1>a, <1>2, <2>3, KeepValue
  <2> QED BY <1>0, <2>2, <2>3, <2>4, OnKeeps DEF InCall
<1>3. CASE c \notin Printable \cup {"CR"}
  <2>1. Reject
    BY <1>3, Classes DEF ConsumeHeaderValue
  <2> QED BY <2>1, RejectKeeps DEF Reject
<1> QED
  BY <1>1, <1>2, <1>3

\* The last character.
LEMMA LastKeeps ==
    ASSUME Reading, NEW c \in Char, text' = Append(text, c), ConsumeLast(c)
    PROVE  Keeps'
<1>0. /\ text \in Seq(Char) /\ Reads(state, text)
      /\ KeepsCall(state, text, request) /\ KeepsHeaders(state, text, request.headers)
      /\ state = "expecting_newline_3" /\ request' = request
  BY WhileReading DEF ConsumeLast
<1>1. CASE c = "LF"
  <2>1. result' = "good"
    BY <1>1 DEF ConsumeLast
  <2>2. request.headers = Headers(text')
    BY <1>0, <1>1, KeepLast
  <2>3. request.method = Method(text') /\ request.uri = Uri(text')
    <3>1. CallKept(text, request)
      BY <1>0 DEF KeepsCall, InCall
    <3> DEFINE u == Append(text, c)
    <3>2. u \in Seq(Char) /\ Extends(text, u) /\ text' = u
      BY <1>0, AppendIs
    <3> HIDE DEF u
    <3>3. CallKept(u, request)
      BY <1>0, <3>1, <3>2, CallStays
    <3>4. request.method = Method(u) /\ request.uri = Uri(u)
      BY <3>2, <3>3, CallIs
    <3> QED BY <3>2, <3>4
  <2> QED BY <1>0, <2>1, <2>2, <2>3 DEF Keeps, SaysWhatWasSent
<1>2. CASE c # "LF"
  BY <1>2, RejectKeeps DEF ConsumeLast
<1> QED
  BY <1>1, <1>2

\* So every character is kept where it belongs.
LEMMA ConsumeKeeps ==
    ASSUME Reading, NEW c \in Char, text' = Append(text, c), Consume(c)
    PROVE  Keeps'
<1>1. CASE ConsumeAwaited(c) \/ ConsumeMethod(c) \/ ConsumeUri(c)
  BY <1>1, AwaitedKeeps, MethodKeeps, UriKeeps
<1>2. CASE ConsumeMajor(c) \/ ConsumeMinor(c)
  BY <1>2, MajorMinorKeeps
<1>3. CASE ConsumeHeaderLine(c) \/ ConsumeHeaderName(c) \/ ConsumeLast(c)
  BY <1>3, HeaderLineKeeps, HeaderNameKeeps, LastKeeps
<1>4. CASE ConsumeLws(c) \/ ConsumeHeaderValue(c)
  BY <1>4, LwsKeeps, HeaderValueKeeps
<1> QED
  BY <1>1, <1>2, <1>3, <1>4 DEF Consume

LEMMA InitKeeps == Init => Keeps
<1> SUFFICES ASSUME Init PROVE Keeps
  OBVIOUS
<1>1. /\ state = "method_start" /\ text = <<>> /\ result = "indeterminate"
      /\ request.method = <<>> /\ request.uri = <<>> /\ request.headers = <<>>
  BY DEF Init
<1>2. KeepsCall("method_start", <<>>, request)
  BY <1>1 DEF KeepsCall, InCall
<1>3. Headers(<<>>) = <<>>
  <2>1. <<>> \in Seq(Char) /\ Len(<<>>) = 0
    OBVIOUS
  <2> QED BY <2>1, HeadersSteps
<1>4. KeepsHeaders("method_start", <<>>, <<>>)
  <2>1. \A b : KeptOf("method_start", <<>>, b) = Headers(<<>>)
    BY DEF KeptOf
  <2>2. Headers(<<>>) \in Seq(Header)
    <3>1. <<>> \in Seq(Header)
      OBVIOUS
    <3> QED BY <1>3, <3>1, Zenon
  <2> QED BY <1>3, <2>1, <2>2 DEF KeepsHeaders
<1> QED
  BY <1>1, <1>2, <1>4 DEF Keeps, SaysWhatWasSent

LEMMA NextKeeps == IInv /\ Decides /\ Keeps /\ [Next]_vars => Keeps'
<1> SUFFICES ASSUME IInv, Decides, Keeps, [Next]_vars PROVE Keeps'
  OBVIOUS
<1>1. CASE UNCHANGED vars
  BY <1>1 DEF vars, Keeps, SaysWhatWasSent
<1>2. CASE Next
  <2>1. PICK c \in Char : Consume(c) /\ text' = Append(text, c)
    BY <1>2, InputAssumption DEF Next
  <2>2. Reading
    BY <1>2 DEF Next, Reading
  <2> QED
    BY <2>1, <2>2, ConsumeKeeps
<1> QED
  BY <1>1, <1>2

-----------------------------------------------------------------------------
(* The parser's promises *)

LEMMA InitUnderstands == Init => IInv /\ Decides /\ Keeps
BY InitIInv, InitDecides, InitKeeps

LEMMA AlwaysUnderstands == Spec => [](IInv /\ Decides /\ Keeps)
<1>1. (IInv /\ Decides /\ Keeps) /\ [Next]_vars => (IInv /\ Decides /\ Keeps)'
  BY NextIInv, NextDecides, NextKeeps
<1> QED
  BY <1>1, InitUnderstands, PTL DEF Spec

\* AcceptsRequests: request_parser says good exactly when what it has
\* consumed is a request, for texts of any length.
THEOREM AcceptsExactly == Spec => []AcceptsRequests
<1>1. IInv /\ Decides => AcceptsRequests
  <2> SUFFICES ASSUME IInv, Decides PROVE AcceptsRequests
    OBVIOUS
  <2>1. text \in Seq(Char) /\ result \in {"good", "bad", "indeterminate"} /\ state \in State
    BY DEF IInv, TypeOK
  <2>2. CASE result = "good"
    BY <2>2 DEF Decides, AcceptsRequests
  <2>3. CASE result = "bad"
    BY <2>1, <2>3, HopelessIsNone DEF Decides, AcceptsRequests
  <2>4. CASE result = "indeterminate"
    BY <2>1, <2>4, NotYet DEF Decides, AcceptsRequests
  <2> QED BY <2>1, <2>2, <2>3, <2>4
<1> QED
  BY <1>1, AlwaysUnderstands, PTL

\* RejectsAtOnce: as long as request_parser wants more one of the rests of
\* the sample completes a request, and what it has rejected none completes.
THEOREM DecidesAtOnce == Spec => []RejectsAtOnce
<1>1. IInv /\ Decides => RejectsAtOnce
  <2> SUFFICES ASSUME IInv, Decides PROVE RejectsAtOnce
    OBVIOUS
  <2>1. text \in Seq(Char) /\ state \in State
    BY DEF IInv, TypeOK
  <2>2. result = "indeterminate" => \E rest \in Rests : IsRequest(text \o rest)
    BY <2>1, Hopeful DEF Decides
  <2>3. result = "bad" => \A rest \in Rests : ~IsRequest(text \o rest)
    BY RestsAreTexts DEF Decides, Hopeless
  <2> QED BY <2>2, <2>3 DEF RejectsAtOnce
<1> QED
  BY <1>1, AlwaysUnderstands, PTL

\* What a run cannot try: request_parser rejects a text only when nothing at
\* all that could follow would make a request of it, and wants more only of
\* one that something does, at any length of the text.
THEOREM RejectsForGood ==
    Spec => [](/\ result = "bad" => Hopeless(text)
               /\ result = "indeterminate" => ~Hopeless(text))
<1>1. IInv /\ Decides => /\ result = "bad" => Hopeless(text)
                         /\ result = "indeterminate" => ~Hopeless(text)
  <2> SUFFICES ASSUME IInv, Decides
               PROVE  /\ result = "bad" => Hopeless(text)
                      /\ result = "indeterminate" => ~Hopeless(text)
    OBVIOUS
  <2>1. text \in Seq(Char) /\ state \in State
    BY DEF IInv, TypeOK
  <2>2. result = "indeterminate" => \E rest \in Rests : IsRequest(text \o rest)
    BY <2>1, Hopeful DEF Decides
  <2> QED BY <2>2, RestsAreTexts DEF Decides, Hopeless
<1> QED
  BY <1>1, AlwaysUnderstands, PTL

\* SaysWhatWasSent: the request of a text the parser calls good has the
\* method, the uri and the headers the text says, folded lines joined.
THEOREM SaysItTruly == Spec => []SaysWhatWasSent
<1>1. Keeps => SaysWhatWasSent
  BY DEF Keeps
<1> QED
  BY <1>1, AlwaysUnderstands, PTL

-----------------------------------------------------------------------------
(* Escapes *)

\* What a path may consist of, decoded or not.
Letters == {"r", "d", "b", "i", "n", "d", "e", "x", "h", "t", "m", "l", "g", "f"}
Decoded == Character \cup DOMAIN Code \cup DOMAIN HexDigit \cup {Other} \cup Letters
Path == Seq(Decoded)
Result == [out : Path, bad : BOOLEAN, skip : {0, 1, 2}]

\* The tables.
LEMMA CodeIs ==
    /\ DOMAIN Code = {"SP", "%", "+", ".", "/"}
    /\ Code["SP"] = 32 /\ Code["%"] = 37 /\ Code["+"] = 43 /\ Code["."] = 46 /\ Code["/"] = 47
BY DEF Code

\* An escape has two digits that make the code.
LEMMA EscapeIs ==
    ASSUME NEW c, NEW e \in Escapes(c)
    PROVE  \E d, u \in DOMAIN HexDigit :
              e = <<"%", d, u>> /\ 16 * HexDigit[d] + HexDigit[u] = Code[c]
<1>1. PICK p \in (DOMAIN HexDigit) \X (DOMAIN HexDigit) : e = <<"%", p[1], p[2]>>
  BY DEF Escapes
<1>2. 16 * HexDigit[e[2]] + HexDigit[e[3]] = Code[c]
  BY DEF Escapes
<1>3. e[2] = p[1] /\ e[3] = p[2] /\ p[1] \in DOMAIN HexDigit /\ p[2] \in DOMAIN HexDigit
  BY <1>1
<1> QED BY <1>1, <1>2, <1>3

\* A byte is read as the character it is the code of.
LEMMA ByteIs == \A c \in DOMAIN Code : Byte(Code[c]) = c
<1> SUFFICES ASSUME NEW c \in DOMAIN Code PROVE Byte(Code[c]) = c
  OBVIOUS
<1>1. \A b \in DOMAIN Code : Code[b] = Code[c] => b = c
  BY CodeIs
<1>2. {b \in DOMAIN Code : Code[b] = Code[c]} = {c}
  BY <1>1
<1> QED BY <1>2 DEF Byte

LEMMA ByteType == \A value : Byte(value) \in Decoded
BY DEF Byte, Decoded

-----------------------------------------------------------------------------
(* url_decode *)

\* The recursion of url_decode has a solution, and the result is its last value.
LEMMA DecodingDefined ==
    ASSUME NEW in \in Path
    PROVE  \E f : /\ f = [i \in 0..Len(in) |->
                            IF i = 0 THEN Decoding(<<>>, 0) ELSE DecodeAt(in, i, f[i - 1])]
                  /\ url_decode(in) = f[Len(in)]
<1> DEFINE Is(f, n) == f = [i \in 0..n |->
                  IF i = 0 THEN Decoding(<<>>, 0) ELSE DecodeAt(in, i, f[i - 1])]
           Solved(n) == \E f : Is(f, n)
           T == {n \in 0..Len(in) : Solved(n)}
<1>1. Len(in) \in Nat
  OBVIOUS
<1>2. ASSUME NEW n \in Nat, Solved(n)
      PROVE  Solved(n + 1)
  <2>1. PICK g : Is(g, n)
    BY <1>2
  <2>2. g[0] = Decoding(<<>>, 0) /\ \A k \in 1..n : g[k] = DecodeAt(in, k, g[k - 1])
    <3>1. 0 \in 0..n /\ \A k \in 1..n : k \in 0..n /\ k # 0
      BY <1>2
    <3> HIDE DEF Decoding
    <3> QED BY <2>1, <3>1
  <2> DEFINE last == DecodeAt(in, n + 1, g[n])
             f == [k \in 0..(n + 1) |-> IF k = n + 1 THEN last ELSE g[k]]
  <2> HIDE DEF last
  <2>3. f[n + 1] = last /\ \A k \in 0..n : f[k] = g[k]
    <3>1. n + 1 \in 0..(n + 1) /\ \A k \in 0..n : k \in 0..(n + 1) /\ k # n + 1
      BY <1>2
    <3> QED BY <3>1
  <2>4. f = [k \in 0..(n + 1) |-> f[k]]
    OBVIOUS
  <2> HIDE DEF f
  <2>5. ASSUME NEW k \in 0..(n + 1)
        PROVE  f[k] = IF k = 0 THEN Decoding(<<>>, 0) ELSE DecodeAt(in, k, f[k - 1])
    <3>1. CASE k = 0
      <4>1. 0 \in 0..n
        BY <1>2
      <4> QED BY <2>2, <2>3, <3>1, <4>1
    <3>2. CASE k \in 1..n
      <4>1. k \in 0..n /\ k - 1 \in 0..n /\ k # 0
        BY <1>2, <3>2
      <4> QED BY <2>2, <2>3, <3>2, <4>1
    <3>3. CASE k = n + 1
      <4>1. k - 1 = n /\ n \in 0..n /\ k # 0
        BY <1>2, <3>3
      <4> QED BY <2>3, <3>3, <4>1 DEF last
    <3>4. k = 0 \/ k \in 1..n \/ k = n + 1
      BY <1>2
    <3> QED BY <3>1, <3>2, <3>3, <3>4
  <2>6. Is(f, n + 1)
    BY <2>4, <2>5
  <2> QED BY <2>6
<1>3. Solved(0)
  <2> DEFINE f == [k \in 0..0 |-> Decoding(<<>>, 0)]
  <2>1. \A k \in 0..0 : k = 0
    OBVIOUS
  <2>2. Is(f, 0)
    BY <2>1
  <2> QED BY <2>2
<1> HIDE DEF Solved
<1>4. Len(in) \in T
  <2>1. 0 \in T
    BY <1>1, <1>3
  <2>2. \A k \in 0..Len(in) : k \in T /\ k < Len(in) => k + 1 \in T
    BY <1>1, <1>2
  <2>3. Len(in) \in 0..Len(in)
    BY <1>1
  <2> HIDE DEF T
  <2> QED BY <1>1, <2>1, <2>2, <2>3, PositionInduction
<1> USE DEF Solved
<1> DEFINE F == CHOOSE f : Is(f, Len(in))
<1>5. Is(F, Len(in))
  BY <1>4
<1>6. url_decode(in) = F[Len(in)]
  BY DEF url_decode
<1> QED BY <1>5, <1>6

\* Its values, character by character.
LEMMA DecodingSteps ==
    ASSUME NEW in \in Path
    PROVE  \E f : /\ f[0] = Decoding(<<>>, 0)
                  /\ \A i \in 1..Len(in) : f[i] = DecodeAt(in, i, f[i - 1])
                  /\ url_decode(in) = f[Len(in)]
<1>1. PICK f : /\ f = [i \in 0..Len(in) |->
                          IF i = 0 THEN Decoding(<<>>, 0) ELSE DecodeAt(in, i, f[i - 1])]
               /\ url_decode(in) = f[Len(in)]
  BY DecodingDefined
<1>2. 0 \in 0..Len(in) /\ \A i \in 1..Len(in) : i \in 0..Len(in) /\ i # 0
  OBVIOUS
<1>3. f[0] = Decoding(<<>>, 0) /\ \A i \in 1..Len(in) : f[i] = DecodeAt(in, i, f[i - 1])
  BY <1>1, <1>2
<1> QED BY <1>1, <1>3

\* The fields of a decoding.
LEMMA DecodingParts ==
    \A out, skip :
        /\ Decoding(out, skip).out = out
        /\ ~Decoding(out, skip).bad
        /\ Decoding(out, skip).skip = skip
BY DEF Decoding

\* The steps of a decoding that goes well.
LEMMA DecodeAtIs ==
    \A in, i, out :
        /\ in[i] \notin {"%", "+"} =>
              DecodeAt(in, i, Decoding(out, 0)) = Decoding(Append(out, in[i]), 0)
        /\ in[i] = "+" =>
              DecodeAt(in, i, Decoding(out, 0)) = Decoding(Append(out, "SP"), 0)
        /\ in[i] = "%" /\ EscapeAt(in, i) # {} =>
              DecodeAt(in, i, Decoding(out, 0)) =
                  Decoding(Append(out, Byte(Only(EscapeAt(in, i)))), 2)
        /\ DecodeAt(in, i, Decoding(out, 2)) = Decoding(out, 1)
        /\ DecodeAt(in, i, Decoding(out, 1)) = Decoding(out, 0)
<1> TAKE in, i, out
<1>1. 2 > 0 /\ 1 > 0 /\ ~(0 > 0) /\ 2 - 1 = 1 /\ 1 - 1 = 0
  OBVIOUS
<1>2. \A n \in {0, 1, 2} :
         /\ Decoding(out, n).out = out
         /\ ~Decoding(out, n).bad
         /\ Decoding(out, n).skip = n
  BY DecodingParts
<1>4. ASSUME NEW n \in {1, 2}
      PROVE  DecodeAt(in, i, Decoding(out, n)) = Decoding(out, n - 1)
  <2>1. n > 0
    OBVIOUS
  <2> DEFINE d == Decoding(out, n)
  <2>2. ~d.bad /\ d.skip = n /\ d.out = out
    BY <1>2
  <2> HIDE DEF d
  <2>3. DecodeAt(in, i, d) = Decoding(out, n - 1)
    BY <2>1, <2>2 DEF DecodeAt
  <2> QED BY <2>3 DEF d
<1>5. DecodeAt(in, i, Decoding(out, 0)) =
         IF in[i] # "%"
         THEN Decoding(Append(out, IF in[i] = "+" THEN "SP" ELSE in[i]), 0)
         ELSE IF EscapeAt(in, i) = {} THEN Undecodable(out)
         ELSE Decoding(Append(out, Byte(Only(EscapeAt(in, i)))), 2)
  <2> DEFINE d == Decoding(out, 0)
  <2>2. ~d.bad /\ ~(d.skip > 0) /\ d.out = out
    BY <1>1, <1>2
  <2> HIDE DEF d
  <2>3. DecodeAt(in, i, d) =
         IF in[i] # "%"
         THEN Decoding(Append(out, IF in[i] = "+" THEN "SP" ELSE in[i]), 0)
         ELSE IF EscapeAt(in, i) = {} THEN Undecodable(out)
         ELSE Decoding(Append(out, Byte(Only(EscapeAt(in, i)))), 2)
    BY <2>2 DEF DecodeAt
  <2> QED BY <2>3 DEF d
<1> QED BY <1>1, <1>4, <1>5

LEMMA DecodeAtType ==
    ASSUME NEW in \in Path, NEW i \in 1..Len(in), NEW d \in Result
    PROVE  DecodeAt(in, i, d) \in Result
<1>1. in[i] \in Decoded /\ "SP" \in Decoded /\ d.out \in Path /\ d.skip \in {0, 1, 2}
  <2>1. "SP" \in DOMAIN Code
    BY CodeIs
  <2>2. in[i] \in Decoded
    BY DEF Path
  <2> QED BY <2>1, <2>2 DEF Decoded, Result
<1>2. \A c \in Decoded : Append(d.out, c) \in Path
  <2> DEFINE out == d.out
  <2>1. out \in Seq(Decoded)
    BY <1>1 DEF Path
  <2> HIDE DEF out
  <2>2. \A c \in Decoded : Append(out, c) \in Seq(Decoded)
    BY <2>1
  <2> QED BY <2>2 DEF Path, out
<1>3. \A out \in Path, skip \in {0, 1, 2} : Decoding(out, skip) \in Result /\ Undecodable(out) \in Result
  BY DEF Decoding, Undecodable, Result
<1>4. CASE d.bad \/ d.skip > 0
  <2>1. d.skip > 0 => d.skip - 1 \in {0, 1, 2}
    <3>1. \A n \in {0, 1, 2} : n > 0 => n - 1 \in {0, 1, 2}
      OBVIOUS
    <3> QED BY <1>1, <3>1
  <2> QED BY <1>1, <1>3, <1>4, <2>1 DEF DecodeAt
<1>5. CASE ~d.bad /\ ~(d.skip > 0) /\ in[i] # "%"
  <2> DEFINE c == IF in[i] = "+" THEN "SP" ELSE in[i]
  <2>1. c \in Decoded
    BY <1>1
  <2>2. DecodeAt(in, i, d) = Decoding(Append(d.out, c), 0)
    BY <1>5 DEF DecodeAt
  <2> QED BY <1>2, <1>3, <2>1, <2>2
<1>6. CASE ~d.bad /\ ~(d.skip > 0) /\ in[i] = "%"
  <2> DEFINE c == Byte(Only(EscapeAt(in, i)))
  <2>1. c \in Decoded
    BY ByteType
  <2>2. DecodeAt(in, i, d) \in {Undecodable(d.out), Decoding(Append(d.out, c), 2)}
    BY <1>6 DEF DecodeAt
  <2> HIDE DEF c
  <2> QED BY <1>1, <1>2, <1>3, <2>1, <2>2
<1> QED BY <1>4, <1>5, <1>6

\* What is decoded is a text, from the first character on.
LEMMA DecodingType ==
    ASSUME NEW in \in Path, NEW f, f[0] = Decoding(<<>>, 0),
           \A i \in 1..Len(in) : f[i] = DecodeAt(in, i, f[i - 1])
    PROVE  \A i \in 0..Len(in) : f[i] \in Result
<1> DEFINE T == {i \in 0..Len(in) : f[i] \in Result}
<1>1. 0 \in T
  <2>1. <<>> \in Path
    BY DEF Path
  <2>2. Decoding(<<>>, 0) \in Result
    BY <2>1 DEF Decoding, Result
  <2>3. 0 \in 0..Len(in)
    OBVIOUS
  <2> QED BY <2>2, <2>3
<1>2. ASSUME NEW k \in 0..Len(in), k \in T, k < Len(in)
      PROVE  k + 1 \in T
  <2>1. k + 1 \in 1..Len(in) /\ (k + 1) - 1 = k
    BY <1>2
  <2> QED BY <1>2, <2>1, DecodeAtType
<1>3. Len(in) \in Nat
  OBVIOUS
<1> HIDE DEF T
<1>4. 0..Len(in) \subseteq T
  BY <1>1, <1>2, <1>3, PositionInduction
<1> QED BY <1>4 DEF T

\* A text is decoded as it would be without what follows, unless it ends
\* within an escape.
LEMMA DecodePrefix ==
    ASSUME NEW s \in Path, NEW e \in Path, NEW i \in 1..Len(s), NEW d \in Result,
           ~DecodeAt(s, i, d).bad
    PROVE  ~d.bad /\ DecodeAt(s \o e, i, d) = DecodeAt(s, i, d)
<1>1. s \in Seq(Decoded) /\ e \in Seq(Decoded) /\ d.bad \in BOOLEAN
  BY DEF Path, Result
<1>2. ~d.bad
  BY <1>1 DEF DecodeAt
<1>3. Len(s \o e) = Len(s) + Len(e) /\ \A k \in 1..Len(s) : (s \o e)[k] = s[k]
  BY <1>1
<1>4. CASE EscapeAt(s, i) = {}
  BY <1>2, <1>3, <1>4 DEF DecodeAt, Undecodable
<1>5. CASE EscapeAt(s, i) # {}
  <2>1. i + 2 <= Len(s)
    BY <1>5 DEF EscapeAt
  <2>2. i + 1 \in 1..Len(s) /\ i + 2 \in 1..Len(s) /\ i + 2 <= Len(s \o e)
    BY <1>1, <1>3, <2>1
  <2>3. EscapeAt(s \o e, i) = EscapeAt(s, i)
    BY <1>3, <2>1, <2>2 DEF EscapeAt
  <2>4. (s \o e)[i] = s[i]
    BY <1>3
  <2> DEFINE all == s \o e
  <2>5. EscapeAt(all, i) = EscapeAt(s, i) /\ all[i] = s[i]
    BY <2>3, <2>4
  <2> HIDE DEF all
  <2>6. DecodeAt(all, i, d) = DecodeAt(s, i, d)
    BY <2>5 DEF DecodeAt
  <2> QED BY <1>2, <2>6 DEF all
<1> QED BY <1>2, <1>4, <1>5

\* And as it would be without what comes before.
LEMMA DecodeSuffix ==
    ASSUME NEW s \in Path, NEW e \in Path, NEW j \in 1..Len(e), NEW d
    PROVE  DecodeAt(s \o e, Len(s) + j, d) = DecodeAt(e, j, d)
<1>1. s \in Seq(Decoded) /\ e \in Seq(Decoded) /\ Len(s) \in Nat /\ Len(e) \in Nat
  BY DEF Path
<1>2. Len(s \o e) = Len(s) + Len(e) /\ \A k \in 1..Len(e) : (s \o e)[Len(s) + k] = e[k]
  BY <1>1
<1>3. EscapeAt(s \o e, Len(s) + j) = EscapeAt(e, j)
  <2>1. (Len(s) + j) + 2 <= Len(s \o e) <=> j + 2 <= Len(e)
    BY <1>1, <1>2
  <2>2. ASSUME j + 2 <= Len(e)
        PROVE  (s \o e)[(Len(s) + j) + 1] = e[j + 1] /\ (s \o e)[(Len(s) + j) + 2] = e[j + 2]
    <3>1. j + 1 \in 1..Len(e) /\ j + 2 \in 1..Len(e)
      BY <1>1, <2>2
    <3>2. (Len(s) + j) + 1 = Len(s) + (j + 1) /\ (Len(s) + j) + 2 = Len(s) + (j + 2)
      BY <1>1
    <3> QED BY <1>2, <3>1, <3>2
  <2> QED BY <2>1, <2>2 DEF EscapeAt
<1>4. (s \o e)[Len(s) + j] = e[j]
  BY <1>2
<1> DEFINE all == s \o e
           k == Len(s) + j
<1>5. EscapeAt(all, k) = EscapeAt(e, j) /\ all[k] = e[j]
  BY <1>3, <1>4
<1> HIDE DEF all, k
<1>6. DecodeAt(all, k, d) = DecodeAt(e, j, d)
  BY <1>5 DEF DecodeAt
<1> QED BY <1>6 DEF all, k

\* What is appended to a text that decodes well is decoded from its result on.
LEMMA DecodingAppended ==
    ASSUME NEW s \in Path, NEW e \in Path, NEW o \in Path,
           url_decode(s) = Decoding(o, 0)
    PROVE  \E g : /\ g[0] = Decoding(o, 0)
                  /\ \A j \in 1..Len(e) : g[j] = DecodeAt(e, j, g[j - 1])
                  /\ url_decode(s \o e) = g[Len(e)]
<1>1. /\ s \o e \in Path /\ Len(s \o e) = Len(s) + Len(e)
      /\ Len(s) \in Nat /\ Len(e) \in Nat
  BY DEF Path
<1>2. PICK f : /\ f[0] = Decoding(<<>>, 0)
               /\ \A i \in 1..Len(s) : f[i] = DecodeAt(s, i, f[i - 1])
               /\ url_decode(s) = f[Len(s)]
  BY DecodingSteps
<1>3. PICK h : /\ h[0] = Decoding(<<>>, 0)
               /\ \A i \in 1..Len(s \o e) : h[i] = DecodeAt(s \o e, i, h[i - 1])
               /\ url_decode(s \o e) = h[Len(s \o e)]
  BY <1>1, DecodingSteps
<1>4. \A i \in 0..Len(s) : f[i] \in Result
  BY <1>2, DecodingType
<1> DEFINE T == {i \in 0..Len(s) : ~f[i].bad => h[i] = f[i]}
<1>5. 0 \in T
  <2>1. 0 \in 0..Len(s)
    BY <1>1
  <2> HIDE DEF Decoding
  <2> QED BY <1>2, <1>3, <2>1
<1>6. ASSUME NEW k \in 0..Len(s), k \in T, k < Len(s)
      PROVE  k + 1 \in T
  <2>1. k + 1 \in 1..Len(s) /\ k + 1 \in 1..Len(s \o e) /\ (k + 1) - 1 = k /\ k + 1 \in 0..Len(s)
    BY <1>1, <1>6
  <2>2. f[k + 1] = DecodeAt(s, k + 1, f[k]) /\ h[k + 1] = DecodeAt(s \o e, k + 1, h[k])
    BY <1>2, <1>3, <2>1
  <2>3. ASSUME ~f[k + 1].bad
        PROVE  h[k + 1] = f[k + 1]
    <3>1. ~f[k].bad /\ DecodeAt(s \o e, k + 1, f[k]) = DecodeAt(s, k + 1, f[k])
      <4>1. f[k] \in Result /\ ~DecodeAt(s, k + 1, f[k]).bad
        BY <1>4, <2>2, <2>3
      <4> HIDE DEF T
      <4> QED BY <2>1, <4>1, DecodePrefix
    <3> QED BY <1>6, <2>2, <3>1
  <2> QED BY <2>1, <2>3
<1>7. Len(s) \in T
  <2>1. Len(s) \in 0..Len(s)
    BY <1>1
  <2> HIDE DEF T
  <2> QED BY <1>1, <1>5, <1>6, <2>1, PositionInduction
<1>8. h[Len(s)] = Decoding(o, 0)
  <2>1. ~f[Len(s)].bad
    BY <1>2, DecodingParts
  <2>2. h[Len(s)] = f[Len(s)]
    BY <1>7, <2>1
  <2> QED BY <1>2, <2>2
<1> DEFINE g == [j \in 0..Len(e) |-> h[Len(s) + j]]
<1>9. g[0] = Decoding(o, 0) /\ g[Len(e)] = h[Len(s \o e)]
  <2>1. 0 \in 0..Len(e) /\ Len(e) \in 0..Len(e) /\ Len(s) + 0 = Len(s)
    BY <1>1
  <2> HIDE DEF Decoding
  <2> QED BY <1>1, <1>8, <2>1
<1>10. ASSUME NEW j \in 1..Len(e)
       PROVE  g[j] = DecodeAt(e, j, g[j - 1])
  <2>1. /\ j \in 0..Len(e) /\ j - 1 \in 0..Len(e)
        /\ Len(s) + j \in 1..Len(s \o e) /\ (Len(s) + j) - 1 = Len(s) + (j - 1)
    BY <1>1
  <2>2. g[j] = h[Len(s) + j] /\ g[j - 1] = h[Len(s) + (j - 1)]
    BY <2>1
  <2> HIDE DEF g
  <2>3. g[j] = DecodeAt(s \o e, Len(s) + j, g[j - 1])
    BY <1>3, <2>1, <2>2
  <2> QED BY <2>3, DecodeSuffix
<1> HIDE DEF g
<1> QED BY <1>3, <1>9, <1>10

-----------------------------------------------------------------------------
(* What a browser sends *)

\* What stands for itself is decoded to itself.
LEMMA PlainDecoded ==
    ASSUME NEW s \in Path, NEW o \in Path, url_decode(s) = Decoding(o, 0),
           NEW p \in Seq(Character \ {"%", "+"})
    PROVE  p \in Path /\ url_decode(s \o p) = Decoding(o \o p, 0)
<1>1. p \in Path
  BY DEF Path, Decoded
<1>2. PICK g : /\ g[0] = Decoding(o, 0)
               /\ \A j \in 1..Len(p) : g[j] = DecodeAt(p, j, g[j - 1])
               /\ url_decode(s \o p) = g[Len(p)]
  BY <1>1, DecodingAppended
<1>3. /\ Len(p) \in Nat /\ Len(o) \in Nat /\ p \in Seq(Decoded) /\ o \in Seq(Decoded)
      /\ \A j \in 1..Len(p) : p[j] # "%" /\ p[j] # "+" /\ p[j] \in Decoded
  BY <1>1 DEF Path
<1> DEFINE Told(out, j) ==
              /\ out \in Seq(Decoded) /\ Len(out) = Len(o) + j
              /\ \A i \in 1..(Len(o) + j) : out[i] = (o \o p)[i]
           T == {j \in 0..Len(p) : \E out : g[j] = Decoding(out, 0) /\ Told(out, j)}
<1>4. 0 \in T
  <2>1. Told(o, 0)
    BY <1>3
  <2>2. 0 \in 0..Len(p)
    BY <1>3
  <2> HIDE DEF Decoding
  <2> QED BY <1>2, <2>1, <2>2
<1>5. ASSUME NEW j \in 0..Len(p), j \in T, j < Len(p)
      PROVE  j + 1 \in T
  <2>1. PICK out : g[j] = Decoding(out, 0) /\ Told(out, j)
    BY <1>5
  <2>2. j + 1 \in 1..Len(p) /\ (j + 1) - 1 = j /\ j + 1 \in 0..Len(p) /\ j \in Nat
    BY <1>3, <1>5
  <2>3. g[j + 1] = DecodeAt(p, j + 1, Decoding(out, 0))
    BY <1>2, <2>1, <2>2
  <2>4. g[j + 1] = Decoding(Append(out, p[j + 1]), 0)
    BY <1>3, <2>2, <2>3, DecodeAtIs
  <2>5. Told(Append(out, p[j + 1]), j + 1)
    <3>1. (o \o p)[Len(o) + (j + 1)] = p[j + 1]
      BY <1>3, <2>2
    <3>2. p[j + 1] \in Decoded
      BY <1>3, <2>2
    <3> DEFINE c == p[j + 1]
               all == o \o p
    <3>3. /\ all[Len(o) + (j + 1)] = c /\ c \in Decoded
          /\ out \in Seq(Decoded) /\ Len(out) = Len(o) + j
          /\ \A i \in 1..(Len(o) + j) : out[i] = all[i]
      BY <2>1, <3>1, <3>2
    <3> HIDE DEF c, all
    <3>4. /\ Append(out, c) \in Seq(Decoded) /\ Len(Append(out, c)) = Len(o) + (j + 1)
          /\ \A i \in 1..(Len(o) + (j + 1)) : Append(out, c)[i] = all[i]
      <4> DEFINE m == Len(o) + j
      <4>1. m \in Nat /\ Len(o) + (j + 1) = m + 1
        BY <1>3, <2>2
      <4>2. Len(out) = m /\ (\A i \in 1..m : out[i] = all[i]) /\ all[m + 1] = c
        BY <3>3, <4>1
      <4> HIDE DEF m
      <4>3. /\ Append(out, c) \in Seq(Decoded) /\ Len(Append(out, c)) = m + 1
            /\ Append(out, c)[m + 1] = c /\ \A i \in 1..m : Append(out, c)[i] = out[i]
        BY <3>3, <4>2, AppendProperties
      <4>4. \A i \in 1..(m + 1) : i \in 1..m \/ i = m + 1
        BY <4>1
      <4> QED BY <4>1, <4>2, <4>3, <4>4
    <3> QED BY <3>4 DEF c, all
  <2> HIDE DEF Told, Decoding
  <2> QED BY <2>2, <2>4, <2>5
<1>6. Len(p) \in T
  <2>1. Len(p) \in 0..Len(p)
    BY <1>3
  <2> HIDE DEF T
  <2> QED BY <1>3, <1>4, <1>5, <2>1, PositionInduction
<1>7. PICK out : g[Len(p)] = Decoding(out, 0) /\ Told(out, Len(p))
  BY <1>6
<1>8. out = o \o p
  <2>1. o \o p \in Seq(Decoded) /\ Len(o \o p) = Len(o) + Len(p)
    BY <1>3
  <2> QED BY <1>7, <2>1, SeqEqual
<1> QED BY <1>1, <1>2, <1>7, <1>8

\* An escape is decoded to its character.
LEMMA EscapeDecoded ==
    ASSUME NEW s \in Path, NEW o \in Path, url_decode(s) = Decoding(o, 0),
           NEW c \in DOMAIN Code, NEW escape \in Escapes(c)
    PROVE  /\ escape \in Path /\ Len(escape) = 3
           /\ url_decode(s \o escape) = Decoding(o \o <<c>>, 0)
<1>1. PICK d \in DOMAIN HexDigit, u \in DOMAIN HexDigit :
         escape = <<"%", d, u>> /\ 16 * HexDigit[d] + HexDigit[u] = Code[c]
  BY EscapeIs
<1> DEFINE e == <<"%", d, u>>
<1>2. e \in Path /\ Len(e) = 3 /\ e[1] = "%" /\ e[2] = d /\ e[3] = u
  BY CodeIs DEF Path, Decoded
<1> HIDE DEF e
<1>3. PICK g : /\ g[0] = Decoding(o, 0)
               /\ \A j \in 1..Len(e) : g[j] = DecodeAt(e, j, g[j - 1])
               /\ url_decode(s \o e) = g[Len(e)]
  BY <1>2, DecodingAppended
<1>4. /\ g[1] = DecodeAt(e, 1, Decoding(o, 0))
      /\ g[2] = DecodeAt(e, 2, g[1]) /\ g[3] = DecodeAt(e, 3, g[2])
  <2>1. /\ 1 \in 1..3 /\ 2 \in 1..3 /\ 3 \in 1..3
        /\ 1 - 1 = 0 /\ 2 - 1 = 1 /\ 3 - 1 = 2
    OBVIOUS
  <2> HIDE DEF Decoding
  <2> QED BY <1>2, <1>3, <2>1
<1>5. EscapeAt(e, 1) = {Code[c]}
  BY <1>1, <1>2 DEF EscapeAt, ReadHex
<1>6. Byte(Only({Code[c]})) = c
  BY ByteIs DEF Only
<1>7. g[1] = Decoding(Append(o, c), 2)
  <2>1. EscapeAt(e, 1) # {}
    BY <1>5
  <2> QED BY <1>2, <1>4, <1>5, <1>6, <2>1, DecodeAtIs
<1>8. g[2] = Decoding(Append(o, c), 1)
  BY <1>4, <1>7, DecodeAtIs
<1>9. g[3] = Decoding(Append(o, c), 0)
  BY <1>4, <1>8, DecodeAtIs
<1>10. Append(o, c) = o \o <<c>>
  BY CodeIs, AppendIsConcat DEF Path, Decoded
<1> QED BY <1>1, <1>2, <1>3, <1>9, <1>10 DEF e

\* A plus is decoded to a space.
LEMMA PlusDecoded ==
    ASSUME NEW s \in Path, NEW o \in Path, url_decode(s) = Decoding(o, 0)
    PROVE  <<"+">> \in Path /\ url_decode(s \o <<"+">>) = Decoding(o \o <<"SP">>, 0)
<1> DEFINE e == <<"+">>
<1>1. e \in Path /\ Len(e) = 1 /\ e[1] = "+"
  BY CodeIs DEF Path, Decoded
<1> HIDE DEF e
<1>2. PICK g : /\ g[0] = Decoding(o, 0)
               /\ \A j \in 1..Len(e) : g[j] = DecodeAt(e, j, g[j - 1])
               /\ url_decode(s \o e) = g[Len(e)]
  BY <1>1, DecodingAppended
<1>3. g[1] = DecodeAt(e, 1, Decoding(o, 0))
  <2>1. 1 \in 1..1 /\ 1 - 1 = 0
    OBVIOUS
  <2> HIDE DEF Decoding
  <2> QED BY <1>1, <1>2, <2>1
<1>4. g[1] = Decoding(Append(o, "SP"), 0)
  BY <1>1, <1>3, DecodeAtIs
<1>5. Append(o, "SP") = o \o <<"SP">>
  BY CodeIs, AppendIsConcat DEF Path, Decoded
<1> QED BY <1>1, <1>2, <1>4, <1>5 DEF e

-----------------------------------------------------------------------------
(* Ends and dots of a path *)

\* A prefix and a suffix, element by element.
LEMMA PrefixIs ==
    ASSUME NEW s \in Path, NEW t \in Path
    PROVE  IsPrefix(s, t) <=> Len(s) <= Len(t) /\ \A k \in 1..Len(s) : s[k] = t[k]
<1>1. s \in Seq(Decoded) /\ t \in Seq(Decoded) /\ Len(s) \in Nat /\ Len(t) \in Nat
  BY DEF Path
<1>2. SubSeq(s, 1, Len(s)) = s
  BY <1>1
<1>3. ASSUME Len(s) <= Len(t)
      PROVE  /\ SubSeq(t, 1, Len(s)) \in Seq(Decoded) /\ Len(SubSeq(t, 1, Len(s))) = Len(s)
             /\ \A k \in 1..Len(s) : SubSeq(t, 1, Len(s))[k] = t[k]
  BY <1>1, <1>3
<1>4. ASSUME Len(s) <= Len(t), \A k \in 1..Len(s) : s[k] = t[k]
      PROVE  SubSeq(t, 1, Len(s)) = s
  BY <1>1, <1>3, <1>4, SeqEqual
<1> QED BY <1>2, <1>3, <1>4 DEF IsPrefix

LEMMA SuffixIs ==
    ASSUME NEW s \in Path, NEW t \in Path
    PROVE  IsSuffix(s, t) <=> /\ Len(s) <= Len(t)
                              /\ \A k \in 1..Len(s) : s[k] = t[(Len(t) - Len(s)) + k]
<1>1. s \in Seq(Decoded) /\ t \in Seq(Decoded) /\ Len(s) \in Nat /\ Len(t) \in Nat
  BY DEF Path
<1>2. ASSUME NEW r \in Path
      PROVE  /\ Reverse(r) \in Path /\ Len(Reverse(r)) = Len(r)
             /\ \A k \in 1..Len(r) : Reverse(r)[k] = r[(Len(r) - k) + 1]
  <2>1. Len(r) \in Nat /\ \A k \in 1..Len(r) : (Len(r) - k) + 1 \in 1..Len(r)
    BY <1>2 DEF Path
  <2>2. \A k \in 1..Len(r) : r[k] \in Decoded
    BY <1>2 DEF Path
  <2> QED BY <2>1, <2>2 DEF Reverse, Path
<1>3. IsSuffix(s, t) <=> /\ Len(s) <= Len(t)
                         /\ \A k \in 1..Len(s) : Reverse(s)[k] = Reverse(t)[k]
  BY <1>2, PrefixIs DEF IsSuffix
<1>4. ASSUME Len(s) <= Len(t)
      PROVE  (\A k \in 1..Len(s) : Reverse(s)[k] = Reverse(t)[k]) <=>
                 \A k \in 1..Len(s) : s[k] = t[(Len(t) - Len(s)) + k]
  <2>1. \A k \in 1..Len(s) : Reverse(s)[k] = s[(Len(s) - k) + 1] /\ Reverse(t)[k] = t[(Len(t) - k) + 1]
    BY <1>1, <1>2, <1>4
  <2>2. \A k \in 1..Len(s) :
           /\ (Len(s) - k) + 1 \in 1..Len(s) /\ (Len(s) - ((Len(s) - k) + 1)) + 1 = k
           /\ (Len(t) - ((Len(s) - k) + 1)) + 1 = (Len(t) - Len(s)) + k
           /\ (Len(t) - Len(s)) + ((Len(s) - k) + 1) = (Len(t) - k) + 1
    BY <1>1
  <2>3. ASSUME \A k \in 1..Len(s) : Reverse(s)[k] = Reverse(t)[k], NEW k \in 1..Len(s)
        PROVE  s[k] = t[(Len(t) - Len(s)) + k]
    <3> DEFINE m == (Len(s) - k) + 1
    <3>1. m \in 1..Len(s) /\ (Len(s) - m) + 1 = k /\ (Len(t) - m) + 1 = (Len(t) - Len(s)) + k
      BY <2>2
    <3> HIDE DEF m
    <3> QED BY <2>1, <2>3, <3>1
  <2>4. ASSUME \A k \in 1..Len(s) : s[k] = t[(Len(t) - Len(s)) + k], NEW k \in 1..Len(s)
        PROVE  Reverse(s)[k] = Reverse(t)[k]
    <3> DEFINE m == (Len(s) - k) + 1
    <3>1. m \in 1..Len(s) /\ (Len(t) - Len(s)) + m = (Len(t) - k) + 1
      BY <2>2
    <3>2. s[m] = t[(Len(t) - Len(s)) + m]
      BY <2>4, <3>1
    <3>3. Reverse(s)[k] = s[m]
      BY <2>1
    <3> HIDE DEF m
    <3> QED BY <2>1, <3>1, <3>2, <3>3
  <2> QED BY <2>3, <2>4
<1> QED BY <1>3, <1>4

\* Two dots in a row, which the handler refuses.
TwoDots(path) == \E i \in 1..(Len(path) - 1) : path[i] = "." /\ path[i + 1] = "."

LEMMA DotsAre ==
    <<".", ".">> \in Path /\ Len(<<".", ".">>) = 2
    /\ <<".", ".">>[1] = "." /\ <<".", ".">>[2] = "."
BY CodeIs DEF Path, Decoded

LEMMA HasDots ==
    ASSUME NEW path \in Path
    PROVE  Has(path, <<".", ".">>) <=> TwoDots(path)
<1>1. path \in Seq(Decoded) /\ Len(path) \in Nat /\ DOMAIN path = 1..Len(path)
  BY DEF Path
<1>2. ASSUME NEW i \in 1..Len(path)
      PROVE  IsPrefix(<<".", ".">>, SubSeq(path, i, Len(path))) <=>
                 i < Len(path) /\ path[i] = "." /\ path[i + 1] = "."
  <2> DEFINE rest == SubSeq(path, i, Len(path))
             dots == <<".", ".">>
  <2>1. /\ rest \in Path /\ Len(rest) = (Len(path) - i) + 1 /\ rest[1] = path[i]
        /\ i < Len(path) => rest[2] = path[i + 1]
    <3>1. /\ rest \in Seq(Decoded) /\ Len(rest) = (Len(path) - i) + 1
          /\ \A k \in 1..Len(rest) : rest[k] = path[(i + k) - 1]
      BY <1>1, <1>2
    <3> HIDE DEF rest
    <3>2. 1 \in 1..Len(rest) /\ (i + 1) - 1 = i /\ (i + 2) - 1 = i + 1
          /\ (i < Len(path) => 2 \in 1..Len(rest))
      BY <1>1, <1>2, <3>1
    <3> QED BY <3>1, <3>2 DEF Path
  <2>2. dots \in Path /\ Len(dots) = 2 /\ dots[1] = "." /\ dots[2] = "."
    BY DotsAre
  <2> HIDE DEF rest, dots
  <2>3. IsPrefix(dots, rest) <=> 2 <= Len(rest) /\ \A k \in 1..2 : dots[k] = rest[k]
    <3>1. IsPrefix(dots, rest) <=> Len(dots) <= Len(rest) /\ \A k \in 1..Len(dots) : dots[k] = rest[k]
      <4> HIDE DEF Path
      <4> QED BY <2>1, <2>2, PrefixIs
    <3> QED BY <2>2, <3>1
  <2>4. 2 <= Len(rest) <=> i < Len(path)
    BY <1>1, <1>2, <2>1
  <2>5. (\A k \in 1..2 : dots[k] = rest[k]) <=> rest[1] = "." /\ rest[2] = "."
    BY <2>2
  <2> QED BY <2>1, <2>3, <2>4, <2>5 DEF rest, dots
<1>3. \A i : i \in 1..(Len(path) - 1) <=> i \in 1..Len(path) /\ i < Len(path)
  BY <1>1
<1> QED BY <1>1, <1>2, <1>3 DEF Has, TwoDots

\* The name added to the path of a directory.
index == <<"i", "n", "d", "e", "x", ".", "h", "t", "m", "l">>

LEMMA IndexIs ==
    /\ index \in Path /\ Len(index) = 10
    /\ \A k \in 1..9 : ~(index[k] = "." /\ index[k + 1] = ".")
    /\ index[1] # "."
BY CodeIs DEF index, Path, Decoded, Letters

\* The path of a file, element by element.
LEMMA NamedIs ==
    ASSUME NEW path \in Path, path # <<>>
    PROVE  /\ Named(path) \in Path
           /\ Len(path) <= Len(Named(path))
           /\ \A k \in 1..Len(path) : Named(path)[k] = path[k]
           /\ Last(path) # "/" => Named(path) = path
           /\ Last(path) = "/" => /\ path[Len(path)] = "/"
                                  /\ Len(Named(path)) = Len(path) + Len(index)
                                  /\ \A k \in 1..Len(index) : Named(path)[Len(path) + k] = index[k]
<1>1. Named(path) = IF Last(path) = "/" THEN path \o index ELSE path
  BY DEF Named, index
<1>2. path \in Seq(Decoded) /\ index \in Seq(Decoded) /\ Len(path) \in Nat /\ Len(index) \in Nat
  BY IndexIs DEF Path
<1>3. /\ path \o index \in Seq(Decoded) /\ Len(path \o index) = Len(path) + Len(index)
      /\ \A k \in 1..Len(path) : (path \o index)[k] = path[k]
      /\ \A k \in 1..Len(index) : (path \o index)[Len(path) + k] = index[k]
  BY <1>2
<1>4. Len(path) <= Len(path) + Len(index)
  BY <1>2
<1> QED BY <1>1, <1>2, <1>3, <1>4 DEF Last, Path

\* The name added to a path that ends in a slash brings no two dots.
LEMMA NamedDots ==
    ASSUME NEW path \in Path, path # <<>>, ~TwoDots(path)
    PROVE  ~TwoDots(Named(path))
<1>1. CASE Last(path) # "/"
  BY <1>1, NamedIs
<1>2. CASE Last(path) = "/"
  <2> SUFFICES ASSUME NEW i \in 1..(Len(Named(path)) - 1),
                      Named(path)[i] = "." /\ Named(path)[i + 1] = "."
               PROVE  FALSE
    BY DEF TwoDots
  <2> DEFINE n == Len(path)
             name == Named(path)
  <2>1. /\ n \in Nat /\ n # 0 /\ Len(name) = n + 10 /\ path[n] = "/"
        /\ \A k \in 1..n : name[k] = path[k]
        /\ \A k \in 1..10 : name[n + k] = index[k]
    <3>1. n \in Nat /\ n # 0
      BY DEF Path
    <3>2. Len(index) = 10
      BY IndexIs
    <3>3. /\ path[Len(path)] = "/" /\ Len(Named(path)) = Len(path) + Len(index)
          /\ \A k \in 1..Len(path) : Named(path)[k] = path[k]
          /\ \A k \in 1..Len(index) : Named(path)[Len(path) + k] = index[k]
      BY <1>2, NamedIs
    <3> QED BY <3>1, <3>2, <3>3
  <2>2. i \in 1..(n + 9) /\ name[i] = "." /\ name[i + 1] = "."
    BY <2>1
  <2>3. ~\E k \in 1..(n - 1) : path[k] = "." /\ path[k + 1] = "."
    BY DEF TwoDots
  <2> HIDE DEF n, name
  <2>4. CASE i < n
    <3>1. i \in 1..(n - 1) /\ i \in 1..n /\ i + 1 \in 1..n
      BY <2>1, <2>2, <2>4
    <3> QED BY <2>1, <2>2, <2>3, <3>1
  <2>5. CASE i = n
    <3>1. n \in 1..n
      BY <2>1
    <3> QED BY <2>1, <2>2, <2>5, <3>1
  <2>6. CASE i > n
    <3> DEFINE k == i - n
    <3>1. k \in 1..9 /\ k \in 1..10 /\ k + 1 \in 1..10 /\ i = n + k /\ i + 1 = n + (k + 1)
      <4>1. \A j \in Nat : \A h \in 1..(j + 9) : h > j =>
               /\ h - j \in 1..9 /\ h - j \in 1..10 /\ (h - j) + 1 \in 1..10
               /\ h = j + (h - j) /\ h + 1 = j + ((h - j) + 1)
        OBVIOUS
      <4> QED BY <2>1, <2>2, <2>6, <4>1
    <3> HIDE DEF k
    <3> QED BY <2>1, <2>2, <3>1, IndexIs
  <2> QED BY <2>1, <2>2, <2>4, <2>5, <2>6
<1> QED BY <1>1, <1>2

\* A component ".." is two dots.
LEMMA ComponentDots ==
    ASSUME NEW path \in Path, <<".", ".">> \in Components(path)
    PROVE  TwoDots(path)
<1>1. path \in Seq(Decoded) /\ Len(path) \in Nat /\ DOMAIN path = 1..Len(path)
  BY DEF Path
<1> DEFINE ends == {i \in DOMAIN path : path[i] = "/"} \cup {0, Len(path) + 1}
           dots == <<".", ".">>
<1>2. PICK p \in ends \X ends : p[1] < p[2] /\ dots = SubSeq(path, p[1] + 1, p[2] - 1)
  BY DEF Components
<1> DEFINE a == p[1]
           b == p[2]
<1>3. a \in 0..(Len(path) + 1) /\ b \in 0..(Len(path) + 1) /\ a < b
      /\ dots = SubSeq(path, a + 1, b - 1)
  <2>1. a \in ends /\ b \in ends
    OBVIOUS
  <2>2. ends \subseteq 0..(Len(path) + 1)
    BY <1>1
  <2> HIDE DEF ends
  <2> QED BY <1>2, <2>1, <2>2
<1> HIDE DEF a, b
<1>4. /\ Len(SubSeq(path, a + 1, b - 1)) = (b - a) - 1
      /\ \A k \in 1..((b - a) - 1) : SubSeq(path, a + 1, b - 1)[k] = path[a + k]
  <2>1. a + 1 \in 1..(Len(path) + 1) /\ b - 1 \in 0..Len(path) /\ b - 1 >= (a + 1) - 1
    BY <1>1, <1>3
  <2>2. Len(SubSeq(path, a + 1, b - 1)) = ((b - 1) - (a + 1)) + 1
        /\ \A k \in 1..(((b - 1) - (a + 1)) + 1) : SubSeq(path, a + 1, b - 1)[k] = path[((a + 1) + k) - 1]
    BY <1>1, <1>3, <2>1
  <2>3. ((b - 1) - (a + 1)) + 1 = (b - a) - 1 /\ \A k \in Int : ((a + 1) + k) - 1 = a + k
    BY <1>3
  <2> DEFINE h == (b - a) - 1
             part == SubSeq(path, a + 1, b - 1)
  <2>4. Len(part) = h /\ \A k \in 1..h : part[k] = path[((a + 1) + k) - 1]
    BY <2>2, <2>3
  <2> HIDE DEF h, part
  <2>5. \A k \in 1..h : part[k] = path[a + k]
    <3> TAKE k \in 1..h
    <3>1. ((a + 1) + k) - 1 = a + k
      BY <2>3
    <3> QED BY <2>4, <3>1
  <2> QED BY <2>4, <2>5 DEF h, part
<1>5. Len(dots) = 2 /\ dots[1] = "." /\ dots[2] = "."
  BY DotsAre
<1> HIDE DEF dots
<1>6. (b - a) - 1 = 2 /\ path[a + 1] = "." /\ path[a + 2] = "."
  <2>1. (b - a) - 1 = 2
    BY <1>3, <1>4, <1>5
  <2>2. 1 \in 1..2 /\ 2 \in 1..2
    OBVIOUS
  <2> QED BY <1>3, <1>4, <1>5, <2>1, <2>2
<1>7. a + 1 \in 1..(Len(path) - 1) /\ (a + 1) + 1 = a + 2
  BY <1>1, <1>3, <1>6
<1> QED BY <1>6, <1>7 DEF TwoDots

-----------------------------------------------------------------------------
(* The type of a file *)

\* The end of a path that names a GIF.
EndsGif(path) ==
    /\ Len(path) >= 4
    /\ path[Len(path) - 3] = "." /\ path[Len(path) - 2] = "g"
    /\ path[Len(path) - 1] = "i" /\ path[Len(path)] = "f"

dotgif == <<".", "g", "i", "f">>

LEMMA DotgifIs ==
    /\ dotgif \in Path /\ Len(dotgif) = 4
    /\ dotgif[1] = "." /\ dotgif[2] = "g" /\ dotgif[3] = "i" /\ dotgif[4] = "f"
BY CodeIs DEF dotgif, Path, Decoded, Letters

LEMMA GifSuffix ==
    ASSUME NEW path \in Path
    PROVE  IsSuffix(dotgif, path) <=> EndsGif(path)
<1>1. IsSuffix(dotgif, path) <=> /\ 4 <= Len(path)
                                 /\ \A k \in 1..4 : dotgif[k] = path[(Len(path) - 4) + k]
  <2>1. IsSuffix(dotgif, path) <=>
            /\ Len(dotgif) <= Len(path)
            /\ \A k \in 1..Len(dotgif) : dotgif[k] = path[(Len(path) - Len(dotgif)) + k]
    BY DotgifIs, SuffixIs
  <2>2. Len(dotgif) = 4
    BY DotgifIs
  <2> QED BY <2>1, <2>2
<1> DEFINE n == Len(path)
<1>2. n \in Nat
  BY DEF Path
<1> HIDE DEF n
<1>3. /\ (n - 4) + 1 = n - 3 /\ (n - 4) + 2 = n - 2 /\ (n - 4) + 3 = n - 1 /\ (n - 4) + 4 = n
      /\ (4 <= n <=> n >= 4)
  BY <1>2
<1>4. (\A k \in 1..4 : dotgif[k] = path[(n - 4) + k]) <=>
          /\ dotgif[1] = path[(n - 4) + 1] /\ dotgif[2] = path[(n - 4) + 2]
          /\ dotgif[3] = path[(n - 4) + 3] /\ dotgif[4] = path[(n - 4) + 4]
  <2>1. \A k \in 1..4 : k = 1 \/ k = 2 \/ k = 3 \/ k = 4
    OBVIOUS
  <2>2. 1 \in 1..4 /\ 2 \in 1..4 /\ 3 \in 1..4 /\ 4 \in 1..4
    OBVIOUS
  <2> QED BY <2>1, <2>2
<1>5. (\A k \in 1..4 : dotgif[k] = path[(n - 4) + k]) <=>
          /\ path[n - 3] = "." /\ path[n - 2] = "g" /\ path[n - 1] = "i" /\ path[n] = "f"
  BY <1>3, <1>4, DotgifIs
<1> QED BY <1>1, <1>3, <1>5 DEF n, EndsGif

\* The dot whose rest is the extension.
LastDot(path, i) ==
    /\ i \in DOMAIN path /\ path[i] = "."
    /\ \A k \in DOMAIN path : k > i => path[k] \notin {".", "/"}

LEMMA ExtensionIs ==
    ASSUME NEW path \in Path
    PROVE  /\ (\A i : ~LastDot(path, i)) => extension(path) = {}
           /\ \A i : LastDot(path, i) => extension(path) = {SubSeq(path, i + 1, Len(path))}
<1>1. DOMAIN path = 1..Len(path) /\ Len(path) \in Nat
  BY DEF Path
<1> DEFINE found == {i \in {i \in DOMAIN path : path[i] = "."} :
                        \A k \in DOMAIN path : k > i => path[k] \notin {".", "/"}}
           Rest(i) == SubSeq(path, i + 1, Len(path))
<1>2. \A i : i \in found <=> LastDot(path, i)
  BY DEF LastDot
<1>3. \A i, j : LastDot(path, i) /\ LastDot(path, j) => i = j
  <2> SUFFICES ASSUME NEW i \in 1..Len(path), NEW j \in 1..Len(path),
                      LastDot(path, i), LastDot(path, j), i # j
               PROVE  FALSE
    BY <1>1 DEF LastDot
  <2>1. i > j \/ j > i
    BY <1>1
  <2> QED BY <1>1, <2>1 DEF LastDot
<1>4. extension(path) = {Rest(i) : i \in found}
  BY DEF extension
<1> HIDE DEF found, Rest
<1>5. (\A i : ~LastDot(path, i)) => extension(path) = {}
  BY <1>2, <1>4
<1>6. ASSUME NEW i, LastDot(path, i)
      PROVE  extension(path) = {Rest(i)}
  <2>1. found = {i}
    BY <1>2, <1>3, <1>6
  <2> QED BY <1>4, <2>1
<1> QED BY <1>5, <1>6 DEF Rest

LEMMA OnlyIs == \A x : Only({x}) = x
BY DEF Only

gif == <<"g", "i", "f">>

LEMMA TypeGif == \A ext : extension_to_type(ext) = "image/gif" <=> ext = gif
BY DEF extension_to_type, gif

\* The type in FileReply.
FileType(path) ==
    IF extension(path) = {} THEN "text/plain" ELSE extension_to_type(Only(extension(path)))

\* A file is a GIF when its path ends so.
LEMMA FileTypeIs ==
    ASSUME NEW path \in Path
    PROVE  FileType(path) = "image/gif" <=> EndsGif(path)
<1>1. DOMAIN path = 1..Len(path) /\ Len(path) \in Nat /\ path \in Seq(Decoded)
  BY DEF Path
<1>2. ASSUME NEW i \in 1..Len(path)
      PROVE  SubSeq(path, i + 1, Len(path)) = gif <=>
                 /\ Len(path) >= 4 /\ i = Len(path) - 3
                 /\ path[i + 1] = "g" /\ path[i + 2] = "i" /\ path[i + 3] = "f"
  <2> DEFINE rest == SubSeq(path, i + 1, Len(path))
             n == Len(path)
  <2>1. /\ rest \in Seq(Decoded) /\ Len(rest) = n - i
        /\ \A k \in 1..(n - i) : rest[k] = path[((i + 1) + k) - 1]
    <3>1. i + 1 \in 1..(n + 1) /\ n \in 0..n /\ n >= (i + 1) - 1 /\ (n - (i + 1)) + 1 = n - i
      BY <1>1, <1>2
    <3> DEFINE a == i + 1
               part == SubSeq(path, a, n)
               h == (n - a) + 1
    <3>2. part \in Seq(Decoded) /\ Len(part) = h /\ \A k \in 1..h : part[k] = path[(a + k) - 1]
      <4>1. a \in 1..(n + 1) /\ n \in 0..n /\ n >= a - 1
        BY <3>1
      <4> HIDE DEF a
      <4> QED BY <1>1, <4>1
    <3>3. h = n - i
      BY <3>1
    <3> HIDE DEF h
    <3> QED BY <3>2, <3>3
  <2>2. n \in Nat /\ i \in 1..n
    BY <1>1, <1>2
  <2>3. Len(gif) = 3 /\ gif[1] = "g" /\ gif[2] = "i" /\ gif[3] = "f" /\ gif \in Seq(Decoded)
    BY DEF gif, Letters, Decoded
  <2> HIDE DEF rest, n
  <2>4. n - i = 3 <=> n >= 4 /\ i = n - 3
    BY <2>2
  <2>5. ASSUME n - i = 3
        PROVE  rest = gif <=> path[i + 1] = "g" /\ path[i + 2] = "i" /\ path[i + 3] = "f"
    <3>1. /\ 1 \in 1..3 /\ 2 \in 1..3 /\ 3 \in 1..3
          /\ ((i + 1) + 1) - 1 = i + 1 /\ ((i + 1) + 2) - 1 = i + 2 /\ ((i + 1) + 3) - 1 = i + 3
      BY <2>2
    <3>2. rest[1] = path[i + 1] /\ rest[2] = path[i + 2] /\ rest[3] = path[i + 3]
      BY <2>1, <2>5, <3>1
    <3>3. rest[1] = "g" /\ rest[2] = "i" /\ rest[3] = "f" => rest = gif
      <4>1. \A k \in 1..3 : k = 1 \/ k = 2 \/ k = 3
        OBVIOUS
      <4>2. Len(rest) = 3 /\ Len(gif) = 3
        BY <2>1, <2>3, <2>5
      <4>3. rest[1] = "g" /\ rest[2] = "i" /\ rest[3] = "f" => \A k \in 1..3 : rest[k] = gif[k]
        BY <2>3, <4>1
      <4> HIDE DEF gif
      <4> QED BY <2>1, <2>3, <4>2, <4>3, SeqEqual
    <3> QED BY <2>3, <3>2, <3>3
  <2>6. rest = gif => n - i = 3
    BY <2>1, <2>3
  <2> QED BY <2>4, <2>5, <2>6 DEF rest, n
<1>3. ASSUME FileType(path) = "image/gif"
      PROVE  EndsGif(path)
  <2>1. extension(path) # {}
    BY <1>3 DEF FileType
  <2>2. PICK i : LastDot(path, i)
    BY <2>1, ExtensionIs
  <2>3. extension_to_type(SubSeq(path, i + 1, Len(path))) = "image/gif"
    BY <1>3, <2>1, <2>2, ExtensionIs, OnlyIs DEF FileType
  <2>4. SubSeq(path, i + 1, Len(path)) = gif
    BY <2>3, TypeGif
  <2>5. i \in 1..Len(path) /\ path[i] = "."
    BY <1>1, <2>2 DEF LastDot
  <2>6. /\ Len(path) >= 4 /\ i = Len(path) - 3
        /\ path[i + 1] = "g" /\ path[i + 2] = "i" /\ path[i + 3] = "f"
    BY <1>2, <2>4, <2>5
  <2> DEFINE n == Len(path)
  <2>7. (n - 3) + 1 = n - 2 /\ (n - 3) + 2 = n - 1 /\ (n - 3) + 3 = n
    BY <1>1
  <2> QED BY <2>5, <2>6, <2>7 DEF EndsGif
<1>4. ASSUME EndsGif(path)
      PROVE  FileType(path) = "image/gif"
  <2> DEFINE n == Len(path)
             i == n - 3
  <2>1. n \in Nat /\ n >= 4 /\ path[n - 3] = "." /\ path[n - 2] = "g" /\ path[n - 1] = "i" /\ path[n] = "f"
    BY <1>1, <1>4 DEF EndsGif
  <2>2. i \in 1..n /\ i + 1 = n - 2 /\ i + 2 = n - 1 /\ i + 3 = n
        /\ \A k \in 1..n : k > i => k = n - 2 \/ k = n - 1 \/ k = n
    BY <2>1
  <2>3. LastDot(path, i)
    BY <1>1, <2>1, <2>2 DEF LastDot
  <2>4. SubSeq(path, i + 1, Len(path)) = gif
    BY <1>2, <2>1, <2>2
  <2>5. extension(path) = {gif}
    BY <2>3, <2>4, ExtensionIs
  <2> QED BY <2>5, OnlyIs, TypeGif DEF FileType
<1> QED BY <1>3, <1>4

\* The end of a path is the end of its last component.
LEMMA GifName ==
    ASSUME NEW path \in Path
    PROVE  EndsGif(path) <=>
               \E name \in Components(path) : IsSuffix(name, path) /\ IsSuffix(dotgif, name)
<1>1. path \in Seq(Decoded) /\ DOMAIN path = 1..Len(path) /\ Len(path) \in Nat
  BY DEF Path
<1> DEFINE n == Len(path)
           ends == {i \in DOMAIN path : path[i] = "/"} \cup {0, n + 1}
           Between(p) == SubSeq(path, p[1] + 1, p[2] - 1)
           Next2(p) == p[1] < p[2] /\ \A k \in ends : ~(p[1] < k /\ k < p[2])
<1>2. Components(path) = {Between(p) : p \in {q \in ends \X ends : Next2(q)}}
  BY DEF Components
<1>3. ends \subseteq 0..(n + 1) /\ 0 \in ends /\ n + 1 \in ends
      /\ \A i \in ends : i \in 1..n => path[i] = "/"
  BY <1>1
<1>4. ASSUME NEW a \in 0..(n + 1), NEW b \in 0..(n + 1), a < b
      PROVE  /\ SubSeq(path, a + 1, b - 1) \in Path /\ Len(SubSeq(path, a + 1, b - 1)) = (b - a) - 1
             /\ \A k \in 1..((b - a) - 1) : SubSeq(path, a + 1, b - 1)[k] = path[((a + 1) + k) - 1]
  <2>1. a + 1 \in 1..(n + 1) /\ b - 1 \in 0..n /\ b - 1 >= (a + 1) - 1
        /\ ((b - 1) - (a + 1)) + 1 = (b - a) - 1
    BY <1>1, <1>4
  <2> QED BY <1>1, <2>1 DEF Path
<1> HIDE DEF ends
<1>5. ASSUME EndsGif(path)
      PROVE  \E name \in Components(path) : IsSuffix(name, path) /\ IsSuffix(dotgif, name)
  <2> DEFINE T == {m \in 1..(n + 1) : (n + 1) - m \in ends}
  <2>1. n + 1 \in T
    BY <1>1, <1>3
  <2>2. PICK m \in T : \A k \in T : k >= m
    <3>1. T \subseteq Nat /\ T # {}
      BY <2>1
    <3> HIDE DEF T
    <3> QED BY <3>1, LeastNatural
  <2> DEFINE a == (n + 1) - m
  <2>3. m \in 1..(n + 1) /\ a \in ends /\ a \in 0..n /\ a < n + 1
    BY <1>1
  <2>4. ASSUME NEW k \in ends PROVE ~(a < k /\ k < n + 1)
    <3> SUFFICES ASSUME a < k, k < n + 1 PROVE FALSE
      OBVIOUS
    <3>1. k \in 0..(n + 1)
      BY <1>3
    <3>2. (n + 1) - k \in 1..(n + 1) /\ (n + 1) - ((n + 1) - k) = k
      BY <1>1, <3>1
    <3>3. (n + 1) - k \in T
      BY <3>2
    <3>4. (n + 1) - k >= m
      BY <2>2, <3>3
    <3> QED BY <1>1, <2>3, <3>1, <3>4
  <2> HIDE DEF a, T
  <2> DEFINE p == <<a, n + 1>>
             name == SubSeq(path, a + 1, n)
  <2>5. p \in ends \X ends /\ Next2(p) /\ Between(p) = name
    <3>1. p[1] = a /\ p[2] = n + 1 /\ (n + 1) - 1 = n
      BY <1>1
    <3>2. p \in ends \X ends
      BY <1>3, <2>3
    <3> QED BY <2>3, <2>4, <3>1, <3>2
  <2>6. name \in Components(path)
    BY <1>2, <2>5
  <2>7. name \in Path /\ Len(name) = n - a /\ \A k \in 1..(n - a) : name[k] = path[a + k]
    <3>1. n + 1 \in 0..(n + 1) /\ a \in 0..(n + 1) /\ (n + 1) - 1 = n /\ ((n + 1) - a) - 1 = n - a
          /\ \A k \in 1..(n - a) : ((a + 1) + k) - 1 = a + k
      BY <1>1, <2>3
    <3> DEFINE b == n + 1
               part == SubSeq(path, a + 1, b - 1)
    <3>2. /\ part \in Path /\ Len(part) = (b - a) - 1
          /\ \A k \in 1..((b - a) - 1) : part[k] = path[((a + 1) + k) - 1]
      BY <1>4, <2>3, <3>1
    <3>3. b - 1 = n /\ (b - a) - 1 = n - a
      BY <3>1
    <3>4. name = part
      BY <3>3
    <3> HIDE DEF b, part, name
    <3>5. \A k \in 1..(n - a) : name[k] = path[((a + 1) + k) - 1]
      BY <3>2, <3>3, <3>4
    <3>6. \A k \in 1..(n - a) : name[k] = path[a + k]
      <4> TAKE k \in 1..(n - a)
      <4>1. ((a + 1) + k) - 1 = a + k
        BY <3>1
      <4> QED BY <3>5, <4>1
    <3> QED BY <3>2, <3>3, <3>4, <3>6
  <2>8. n >= 4 /\ a <= n - 4
    <3>1. /\ n >= 4 /\ path[n - 3] = "." /\ path[n - 2] = "g" /\ path[n - 1] = "i" /\ path[n] = "f"
      BY <1>5 DEF EndsGif
    <3>2. a # n - 3 /\ a # n - 2 /\ a # n - 1 /\ a # n
      <4>1. a \in 1..n => path[a] = "/"
        BY <1>3, <2>3
      <4>2. n - 3 \in 1..n /\ n - 2 \in 1..n /\ n - 1 \in 1..n /\ n \in 1..n
        BY <1>1, <3>1
      <4> QED BY <3>1, <4>1, <4>2
    <3>3. \A i \in Nat : \A j \in 0..i : j # i - 3 /\ j # i - 2 /\ j # i - 1 /\ j # i => j <= i - 4
      OBVIOUS
    <3> QED BY <1>1, <2>3, <3>1, <3>2, <3>3
  <2> HIDE DEF name
  <2>9. IsSuffix(name, path)
    <3>1. n - a <= n /\ n - (n - a) = a
      BY <1>1, <2>3
    <3> QED BY <2>7, <3>1, SuffixIs
  <2>10. EndsGif(name)
    <3> DEFINE h == n - a
    <3>1. h \in Nat /\ h >= 4 /\ a + (h - 3) = n - 3 /\ a + (h - 2) = n - 2 /\ a + (h - 1) = n - 1
          /\ a + h = n /\ h - 3 \in 1..h /\ h - 2 \in 1..h /\ h - 1 \in 1..h /\ h \in 1..h
      BY <1>1, <2>3, <2>8
    <3>2. Len(name) = h /\ \A k \in 1..h : name[k] = path[a + k]
      BY <2>7
    <3> HIDE DEF h
    <3>3. name[h - 3] = path[n - 3] /\ name[h - 2] = path[n - 2] /\ name[h - 1] = path[n - 1]
          /\ name[h] = path[n]
      BY <3>1, <3>2
    <3> QED BY <1>5, <3>1, <3>2, <3>3 DEF EndsGif
  <2> QED BY <2>6, <2>7, <2>9, <2>10, GifSuffix
<1>6. ASSUME NEW name \in Components(path), IsSuffix(name, path), IsSuffix(dotgif, name)
      PROVE  EndsGif(path)
  <2>1. name \in Path
    <3>1. PICK p \in ends \X ends : Next2(p) /\ name = Between(p)
      BY <1>2
    <3> DEFINE a == p[1]
               b == p[2]
    <3>2. a \in 0..(n + 1) /\ b \in 0..(n + 1) /\ a < b /\ name = SubSeq(path, a + 1, b - 1)
      BY <1>3, <3>1
    <3> HIDE DEF a, b
    <3> QED BY <1>4, <3>2
  <2>2. EndsGif(name)
    BY <1>6, <2>1, GifSuffix
  <2> DEFINE h == Len(name)
  <2>3. h \in Nat /\ h <= n /\ \A k \in 1..h : name[k] = path[(n - h) + k]
    BY <1>6, <2>1, SuffixIs DEF Path
  <2>4. h >= 4 /\ name[h - 3] = "." /\ name[h - 2] = "g" /\ name[h - 1] = "i" /\ name[h] = "f"
    BY <2>2 DEF EndsGif
  <2>5. /\ h - 3 \in 1..h /\ h - 2 \in 1..h /\ h - 1 \in 1..h /\ h \in 1..h
        /\ (n - h) + (h - 3) = n - 3 /\ (n - h) + (h - 2) = n - 2
        /\ (n - h) + (h - 1) = n - 1 /\ (n - h) + h = n /\ n >= 4
    <3>1. \A i, j \in Nat : j <= i /\ j >= 4 =>
             /\ j - 3 \in 1..j /\ j - 2 \in 1..j /\ j - 1 \in 1..j /\ j \in 1..j
             /\ (i - j) + (j - 3) = i - 3 /\ (i - j) + (j - 2) = i - 2
             /\ (i - j) + (j - 1) = i - 1 /\ (i - j) + j = i /\ i >= 4
      OBVIOUS
    <3>2. h \in Nat /\ n \in Nat /\ h <= n /\ h >= 4
      BY <1>1, <2>3, <2>4
    <3> HIDE DEF h, n
    <3> QED BY <3>1, <3>2
  <2> HIDE DEF h
  <2>6. path[n - 3] = name[h - 3] /\ path[n - 2] = name[h - 2] /\ path[n - 1] = name[h - 1] /\ path[n] = name[h]
    BY <2>3, <2>5
  <2> QED BY <2>4, <2>5, <2>6 DEF EndsGif
<1> QED BY <1>5, <1>6

-----------------------------------------------------------------------------
(* The request and its reply *)

\* What has been sent, as far as it is an encoding, decodes to what is meant;
\* and a reply is one to the request.
HandlerInv ==
    /\ meant \in Path /\ uri \in Path
    /\ ~broken => url_decode(uri) = Decoding(meant, 0) /\ (uri # <<>> => meant # <<>>)
    /\ reply # NoReply => uri # <<>> /\ reply \in Replies(uri)

LEMMA DecodedType ==
    ASSUME NEW in \in Path
    PROVE  url_decode(in) \in Result
<1>1. PICK f : /\ f[0] = Decoding(<<>>, 0)
               /\ \A i \in 1..Len(in) : f[i] = DecodeAt(in, i, f[i - 1])
               /\ url_decode(in) = f[Len(in)]
  BY DecodingSteps
<1>2. Len(in) \in 0..Len(in)
  BY DEF Path
<1> QED BY <1>1, <1>2, DecodingType

LEMMA EmptyDecoded == url_decode(<<>>) = Decoding(<<>>, 0)
<1>1. <<>> \in Path /\ Len(<<>>) = 0
  BY DEF Path
<1> QED BY <1>1, DecodingSteps

LEMMA Concatenated ==
    ASSUME NEW s \in Path, NEW t \in Path
    PROVE  s \o t \in Path /\ (s \o t = <<>> <=> s = <<>> /\ t = <<>>)
BY DEF Path

\* Sending a piece that decodes to itself keeps the invariant.
LEMMA HandlerInvSent ==
    ASSUME HandlerInv, NEW piece \in Path, NEW encoded \in Path, Send(piece, encoded),
           encoded # <<>> => piece # <<>>,
           ~broken => url_decode(uri \o encoded) = Decoding(meant \o piece, 0)
    PROVE  HandlerInv'
<1>1. meant' = meant \o piece /\ uri' = uri \o encoded /\ broken' = broken /\ reply' = NoReply
  BY DEF Send
<1>2. meant' \in Path /\ uri' \in Path
  BY <1>1, Concatenated DEF HandlerInv
<1>3. uri' # <<>> /\ ~broken => meant' # <<>>
  BY <1>1, Concatenated DEF HandlerInv
<1>4. ~broken' => url_decode(uri') = Decoding(meant', 0)
  BY <1>1
<1> QED BY <1>1, <1>2, <1>3, <1>4 DEF HandlerInv

LEMMA HandlerInvInit == HandlerInit => HandlerInv
<1>1. <<>> \in Path
  BY DEF Path
<1> QED BY <1>1, EmptyDecoded DEF HandlerInit, HandlerInv

LEMMA HandlerInvNext == HandlerInv /\ [HandlerNext]_handlerVars => HandlerInv'
<1> SUFFICES ASSUME HandlerInv, [HandlerNext]_handlerVars PROVE HandlerInv'
  OBVIOUS
<1>1. meant \in Path /\ uri \in Path /\ (~broken => url_decode(uri) = Decoding(meant, 0))
  BY DEF HandlerInv
<1>2. CASE SendPlain
  <2>1. PICK p \in Plain : Send(p, p)
    BY <1>2 DEF SendPlain
  <2>2. p \in Seq(Character \ {"%", "+"})
    BY ConstantsAssumption DEF ConstantsSuit
  <2>3. p \in Path
    BY <2>2 DEF Path, Decoded
  <2>4. ~broken => url_decode(uri \o p) = Decoding(meant \o p, 0)
    BY <1>1, <2>2, PlainDecoded
  <2> QED BY <2>1, <2>3, <2>4, HandlerInvSent
<1>3. CASE SendEscaped
  <2>0. PICK c \in Escaped : \E e \in Escapes(c) : Send(<<c>>, e)
    BY <1>3 DEF SendEscaped
  <2>1. PICK e \in Escapes(c) : Send(<<c>>, e)
    BY <2>0
  <2>2. c \in DOMAIN Code
    BY ConstantsAssumption DEF ConstantsSuit
  <2>3. <<c>> \in Path /\ <<c>> # <<>>
    BY <2>2 DEF Path, Decoded
  <2>4. e \in Path
    <3>1. PICK d \in DOMAIN HexDigit, u \in DOMAIN HexDigit : e = <<"%", d, u>>
      BY <2>2, EscapeIs
    <3> QED BY <3>1, CodeIs DEF Path, Decoded
  <2>5. ~broken => url_decode(uri \o e) = Decoding(meant \o <<c>>, 0)
    BY <1>1, <2>1, <2>2, EscapeDecoded
  <2> HIDE DEF HandlerInv
  <2> QED BY <2>1, <2>3, <2>4, <2>5, HandlerInvSent
<1>4. CASE SendPlus
  <2>1. Send(<<"SP">>, <<"+">>)
    BY <1>4 DEF SendPlus
  <2>2. <<"SP">> \in Path /\ <<"+">> \in Path /\ <<"SP">> # <<>>
    BY CodeIs DEF Path, Decoded
  <2>3. ~broken => url_decode(uri \o <<"+">>) = Decoding(meant \o <<"SP">>, 0)
    BY <1>1, PlusDecoded
  <2> QED BY <2>1, <2>2, <2>3, HandlerInvSent
<1>5. CASE SendBroken
  <2>1. PICK b \in Broken : uri' = uri \o b
    BY <1>5 DEF SendBroken
  <2>2. b \in Path
    BY ConstantsAssumption DEF ConstantsSuit, Path, Decoded
  <2>3. uri' \in Path
    BY <1>1, <2>1, <2>2, Concatenated
  <2> QED BY <1>1, <1>5, <2>3 DEF SendBroken, HandlerInv
<1>6. CASE handle_request
  BY <1>6 DEF handle_request, HandlerInv
<1>7. CASE UNCHANGED handlerVars
  BY <1>7 DEF handlerVars, HandlerInv
<1> QED BY <1>2, <1>3, <1>4, <1>5, <1>6, <1>7 DEF HandlerNext

LEMMA HandlerInvHolds == HandlerSpec => []HandlerInv
BY HandlerInvInit, HandlerInvNext, PTL DEF HandlerSpec

LEMMA ReplyFields ==
    /\ NoReply.from = "nobody" /\ NoReply.status = 0
    /\ \A n : Stock(n).from = "stock" /\ Stock(n).status = n
    /\ \A path : /\ DataReply(path).from = "data" /\ DataReply(path).path = path
                 /\ DataReply(path).status = 200
    /\ \A path : /\ FileReply(path).from = "file" /\ FileReply(path).path = path
                 /\ FileReply(path).status = 200 /\ FileReply(path).type = FileType(path)
BY DEF NoReply, Stock, DataReply, FileReply, FileType

\* What a reply says of the request.
LEMMA RepliesAre ==
    ASSUME NEW in \in Path, NEW r \in Replies(in)
    PROVE  LET d == url_decode(in)
           IN  /\ r.from = "file" =>
                      r = FileReply(Named(d.out)) /\ ~d.bad /\ Acceptable(in, d.out)
               /\ r.from = "data" => r.path = d.out /\ ~d.bad
               /\ r.status = 400 => d.bad \/ ~Acceptable(in, d.out) \/ isRDBcall(d.out)
<1> DEFINE d == url_decode(in)
<1> HIDE DEF d
<1>1. CASE d.bad \/ ~Acceptable(in, d.out)
  <2>1. r = Stock(400)
    BY <1>1 DEF Replies, d
  <2> QED BY <1>1, <2>1, ReplyFields DEF d
<1>2. CASE ~d.bad /\ Acceptable(in, d.out) /\ isRDBcall(d.out)
  <2>1. r = Stock(400) \/ r = DataReply(d.out)
    BY <1>2 DEF Replies, d
  <2> QED BY <1>2, <2>1, ReplyFields DEF d
<1>3. CASE ~d.bad /\ Acceptable(in, d.out) /\ ~isRDBcall(d.out)
  <2>1. r = Stock(404) \/ r = FileReply(Named(d.out))
    BY <1>3 DEF Replies, d
  <2> QED BY <1>3, <2>1, ReplyFields DEF d
<1> QED BY <1>1, <1>2, <1>3

\* A file is named after what was decoded.
LEMMA FileNamed ==
    ASSUME HandlerInv, reply.from = "file"
    PROVE  LET out == url_decode(uri).out
           IN  /\ out \in Path /\ out # <<>> /\ Acceptable(uri, out) /\ ~url_decode(uri).bad
               /\ reply.path = Named(out) /\ reply.type = FileType(Named(out))
<1>1. reply # NoReply
  BY ReplyFields
<1>2. uri \in Path /\ reply \in Replies(uri)
  BY <1>1 DEF HandlerInv
<1>3. reply = FileReply(Named(url_decode(uri).out)) /\ ~url_decode(uri).bad
      /\ Acceptable(uri, url_decode(uri).out)
  BY <1>2, RepliesAre
<1>4. url_decode(uri).out \in Path
  BY <1>2, DecodedType DEF Result
<1>5. url_decode(uri).out # <<>>
  BY <1>3 DEF Acceptable
<1> QED BY <1>3, <1>4, <1>5, ReplyFields

\* The properties, from the invariant.
LEMMA MeantIsServed == HandlerInv => ServesWhatWasMeant
<1> SUFFICES ASSUME HandlerInv, Served, ~broken
             PROVE  IF reply.from = "data" \/ Last(meant) # "/" THEN reply.path = meant
                    ELSE IsPrefix(meant, reply.path)
  BY DEF ServesWhatWasMeant
<1>1. reply # NoReply
  BY ReplyFields DEF Served
<1>2. meant \in Path /\ url_decode(uri).out = meant
  BY DecodingParts DEF HandlerInv
<1>3. CASE reply.from = "data"
  BY <1>1, <1>2, <1>3, RepliesAre DEF HandlerInv
<1>4. CASE reply.from = "file"
  <2>1. meant # <<>> /\ reply.path = Named(meant)
    BY <1>2, <1>4, FileNamed
  <2>2. Last(meant) # "/" => reply.path = meant
    BY <1>2, <2>1, NamedIs
  <2>3. IsPrefix(meant, reply.path)
    BY <1>2, <2>1, NamedIs, PrefixIs
  <2> QED BY <1>4, <2>2, <2>3
<1> QED BY <1>3, <1>4 DEF Served

LEMMA PathIsRefused == HandlerInv => RefusedForItsPath
<1> SUFFICES ASSUME HandlerInv, reply.status = 400, ~broken
             PROVE  \/ Head(meant) # "/"
                    \/ IsPrefix(rdb, meant)
                    \/ \E i \in 1..(Len(meant) - 1) : meant[i] = "." /\ meant[i + 1] = "."
  BY DEF RefusedForItsPath
<1>1. reply # NoReply
  BY ReplyFields
<1>2. uri \in Path /\ meant \in Path /\ meant # <<>> /\ reply \in Replies(uri)
  BY <1>1 DEF HandlerInv
<1>3. url_decode(uri).out = meant /\ ~url_decode(uri).bad
  BY DecodingParts DEF HandlerInv
<1>4. ~Acceptable(uri, meant) \/ isRDBcall(meant)
  BY <1>2, <1>3, RepliesAre
<1>5. ~Acceptable(uri, meant) => Head(meant) # "/" \/ TwoDots(meant)
  BY <1>2, HasDots DEF Acceptable
<1> QED BY <1>4, <1>5 DEF isRDBcall, TwoDots

LEMMA RootIsKept == HandlerInv => StaysBelowRoot
<1> SUFFICES ASSUME HandlerInv, reply.from = "file"
             PROVE  Head(reply.path) = "/" /\ <<".", ".">> \notin Components(reply.path)
  BY DEF StaysBelowRoot
<1> DEFINE out == url_decode(uri).out
<1>1. out \in Path /\ out # <<>> /\ Acceptable(uri, out) /\ reply.path = Named(out)
  BY FileNamed
<1> HIDE DEF out
<1>2. Head(out) = "/" /\ ~TwoDots(out)
  BY <1>1, HasDots DEF Acceptable
<1>3. Named(out) \in Path /\ ~TwoDots(Named(out)) /\ Named(out)[1] = out[1] /\ Named(out) # <<>>
  <2>1. Len(out) \in Nat /\ 1 \in 1..Len(out)
    BY <1>1 DEF Path
  <2>2. Named(out) \in Path /\ Len(out) <= Len(Named(out)) /\ Named(out)[1] = out[1]
    BY <1>1, <2>1, NamedIs
  <2>3. Named(out) # <<>>
    BY <2>1, <2>2
  <2> QED BY <1>1, <1>2, <2>2, <2>3, NamedDots
<1>4. Head(Named(out)) = "/"
  BY <1>1, <1>2, <1>3 DEF Path
<1> QED BY <1>1, <1>3, <1>4, ComponentDots

LEMMA TypeIsTheNames == HandlerInv => TypeGoesWithName
<1> SUFFICES ASSUME HandlerInv, reply.from = "file"
             PROVE  reply.type = "image/gif" <=> \E name \in Components(reply.path) :
                        IsSuffix(name, reply.path) /\ IsSuffix(dotgif, name)
  BY DEF TypeGoesWithName, dotgif
<1> DEFINE path == Named(url_decode(uri).out)
<1>1. path \in Path /\ reply.path = path /\ reply.type = FileType(path)
  BY FileNamed, NamedIs
<1> HIDE DEF path
<1> QED BY <1>1, FileTypeIs, GifName

\* The path that is served is the one that was sent, for paths of any length
\* and any way to send them plain or escaped (request_handler.cpp).
THEOREM ServedAsMeant == HandlerSpec => []ServesWhatWasMeant
BY HandlerInvHolds, MeantIsServed, PTL

\* Bad Request is answered to a proper encoding only for what it encodes: a
\* path that is not absolute, that has two dots or that is a command.
THEOREM RefusedForPath == HandlerSpec => []RefusedForItsPath
BY HandlerInvHolds, PathIsRefused, PTL

\* No file is looked for above the document root, whatever was sent.
THEOREM BelowRoot == HandlerSpec => []StaysBelowRoot
BY HandlerInvHolds, RootIsKept, PTL

\* The type of a file is told by the end of its own name.
THEOREM TypeOfItsName == HandlerSpec => []TypeGoesWithName
BY HandlerInvHolds, TypeIsTheNames, PTL
=============================================================================
