-------------------------- MODULE ReminderService --------------------------
(***************************************************************************)
(* What the data server promises, without connections, handlers or an      *)
(* acceptor: every request is carried out at most once, at one moment      *)
(* between its call and its answer, against the table as all requests      *)
(* before it left it; the answer a caller gets is the one worked out at    *)
(* that moment.  A server that ends forgets the table; one that starts     *)
(* finds the table as it was last committed.                               *)
(***************************************************************************)
EXTENDS Request

CONSTANTS
    Callers,
    Calls,          \* the requests they make
    FieldNames,     \* the fields of the table
    InitTables      \* the rows a first start finds

VARIABLES
    up,
    entries,        \* the table, <<>> while no server runs
    stored,         \* the rows the next start finds
    call,           \* the request of each caller not carried out yet
    reply           \* the answer of each caller not received yet

vars == <<up, entries, stored, call, reply>>

Init ==
    /\ up = FALSE
    /\ entries = <<>>
    /\ stored \in InitTables
    /\ call = [c \in Callers |-> <<>>]
    /\ reply = [c \in Callers |-> <<>>]

Call(c, request) ==
    /\ call[c] = <<>> /\ reply[c] = <<>>
    /\ call' = [call EXCEPT ![c] = request]
    /\ UNCHANGED <<up, entries, stored, reply>>

Execute(c) ==
    /\ up /\ call[c] # <<>>
    /\ \E o \in Outcomes(FieldNames, entries, Params(call[c])) :
          /\ entries' = o.entries
          /\ stored' = IF o.commit THEN Reread(entries) ELSE stored
          /\ reply' = [reply EXCEPT ![c] = o.lines]
    /\ call' = [call EXCEPT ![c] = <<>>]
    /\ UNCHANGED up

Return(c) ==
    /\ reply[c] # <<>>
    /\ reply' = [reply EXCEPT ![c] = <<>>]
    /\ UNCHANGED <<up, entries, stored, call>>

\* Connections are lost before their requests are carried out.
Lose ==
    /\ \E lost \in SUBSET Callers :
          call' = [c \in Callers |-> IF c \in lost THEN <<>> ELSE call[c]]
    /\ UNCHANGED <<up, entries, stored, reply>>

Start ==
    /\ ~up /\ up' = TRUE
    /\ entries' = stored
    /\ UNCHANGED <<stored, call, reply>>

\* The answers on their way still arrive, those not sent yet do not.
End ==
    /\ up /\ up' = FALSE
    /\ entries' = <<>>
    /\ call' = [c \in Callers |-> <<>>]
    /\ \E cut \in SUBSET Callers :
          reply' = [c \in Callers |-> IF c \in cut THEN <<>> ELSE reply[c]]
    /\ UNCHANGED stored

Next ==
    \/ \E c \in Callers :
          \/ \E request \in Calls : Call(c, request)
          \/ Execute(c)
          \/ Return(c)
    \/ Lose
    \/ Start
    \/ End

Spec == Init /\ [][Next]_vars
=============================================================================
