# Verification of ReminderSuite

ReminderSuite keeps a table of reminders in a data server and shows it to
browsers through a small web server. This directory holds TLA+ modules
translated from its source, TLC configurations that check them on small
instances, and proofs, checked by TLAPS, that hold for every instance.

## 1. The system

    browser --HTTP--> HttpWrapper (server, connection_manager, connection,
                      request_parser, request_handler, rdb_handler)
                          | ClientLib: DataClient::executeCmd, one TCP connection per command
                          v
                      Server (Server, Session::parseRequest)
                          | DPInterface: virtual calls, library found by dlopen
                          v
                      DataProvider: DBTextFile (file of lines) or DBSQLite

| Component | State | Operations | What makes it correct |
|---|---|---|---|
| `Entry` (entry.cpp) | the values of a row | parse a line, print, get and set a value | what is printed parses back |
| `DBTextFile`, `fileHandler` | `fields_`, `entries_`, the file | fields, get, set (2), erase, read, save | a save is read back; a cut save damages only its end; no row is hidden or cut by a call that does not say so |
| `Session::parseRequest` | – | get, set, delete, fields, commit | the answer says what was done |
| `Server`, `Session` | acceptor, socket_, signal set; per session request_, response_ | accept, read, write, stop on SIGTERM | requests are atomic, answers belong to their requests, nobody is forgotten, the stop ends run() |
| `DataClient` | socket | executeCmd | returns the answer, or false |
| `server`, `connection`, `connection_manager` | acceptor, connections_, per connection socket, parser, reply | accept, read, write, stop on a signal | the manager owns the live connections; stop closes all of them |
| `request_parser` | state_, the request | consume, parse | accepts the requests of its grammar, whatever the segments |
| `request_handler` | – | url_decode, handle_request | never leaves the document root, one reply |
| `rdb_handler` | reply_ | parse: one or two commands, the join of rows and field names | rows are those of one moment, each value under the name at its position |
| `DBSQLite` | in-memory and file database, `fields_`, `fieldsReady_` (a shared_future), `dbRC_` | as DBTextFile, and a thread that finds out the fields | what an answer says of what was stored, however the threads interleave; one open handle; no two rows of a name |
| `Server::setLibraryPath`, `loadFunction`, `main` (2) | options, the library, the provider | options from command line and file, fork, load, create, destroy, close | the given options win in the documented order; nobody calls a provider whose library is closed |

Components interact by virtual calls (Session to provider), by TCP (browser
to web server to data server) and by asio callbacks. Each server runs all its
handlers on one thread; what interleaves are the handlers, because a session
or connection is idle between them, and operations that have completed wait,
with their results fixed, while other handlers run. Two places leave that
frame: `executeCmd` blocks the thread of the web server, and `DBSQLite::read`
starts a thread. The only thing that persists is the file.

The hard behaviours (PROJECT.json lists each with its line):
`save()` truncates before it writes; an accept or read that completed before
a stop is handled after it; a handler may throw out of `run()`; rows may lack
columns and `getValue` checks no index; a rename makes two rows share a name;
requests and answers are assumed to arrive in one segment; a result is read
twice from a variable another thread writes; values become part of a
statement with the quotes they hold; names and values are joined by position.

## 2. Modules

| Module | Models | Notes |
|---|---|---|
| `Entry` | entry.cpp | a text is the sequence of its colon-free pieces, so that colons, empty values and the splitting rule of `sregex_token_iterator` (no empty last piece) are exact |
| `TextTable` | lookups and updates of `entries_` | shared by the next two |
| `DBTextFile` | DBTextFile.cpp, filehandler.cpp | one action per call; `save()` is a loop of steps (open and truncate, a value, a line end, close) between which the process dies or the device fills up |
| `Request` | `Session::parseRequest` on the text-file provider | the outcomes of one request: new table, whether the file is written, the lines of the response |
| `ReminderService` | – | abstract: each request takes effect at one moment between call and answer; a stop forgets what was not committed |
| `DataServer` | server.cpp, session.cpp, and clients that do what `executeCmd` does | one action per handler, plus the kernel and the clients |
| `HttpServer` | server.cpp, connection.cpp, connection_manager.cpp | one action per handler; what a read brings is a kind of chunk |
| `RequestGrammar` | – | reference: what a request is and what it says, by lines and not by states; a line is given by the positions where it begins and ends |
| `RequestParser` | request_parser.cpp | one action per group of states, tables for the states that await one character |
| `DBSQLite` | DBSQLite.cpp | `set` and `save` in steps, between which `getFields` runs on its own thread; SQLite and its mutex are external |
| `RdbHandler` | rdb_handler.cpp, library.cpp | one browser request as one or two calls on `ReminderService`, which other clients use and which restarts; `Received` is any beginning of an answer |
| `RequestHandler` | request_handler.cpp, and as far as it decides the reply mime_types.cpp and reply.cpp | `url_decode` character by character, with all 22 hexadecimal digits; `handle_request` is one step |
| `Startup` | both main.cpp, the constructor and destructor of `Server`, `setLibraryPath`, `loadFunction` | one action per stage of a start and an end, each of which may fail |
| `Request_proofs` | – | lemmas the next proofs share: induction over positions, printing and parsing, lookups and updates, what a request may answer |
| `DBTextFile_proofs`, `DataServer_proofs`, `RdbHandler_proofs`, `DBSQLite_proofs`, `HttpServer_proofs`, `Startup_proofs` | – | theorems about the module they are named after |
| `RequestReading` | – | what each state of the parser stands for: the inductive invariant of its proofs |
| `HttpRequest_proofs` | – | theorems about `RequestParser` and `RequestHandler` |

`DataServer` uses `Request`, which uses `TextTable` and `Entry`; `DBTextFile`
uses the same `TextTable`. `commit` is one step in `DataServer` (nothing else
runs meanwhile, and `Reread` is what a later start finds); its inside, with
crashes in it, is `DBTextFile`. In `DataServer`, a process killed inside
`save()` is therefore left out; in `DBTextFile` it is the point.

State to code: `acceptOp` is the one outstanding `async_accept` with the result
its handler will get; `signal` the `async_wait`; in `DataServer`, `server[c]`
is the place of a connection (listen queue, `socket_`, a session that reads or
writes), `response[c]` is `response_`; in `HttpServer`, `op[c]` is the single
operation whose handler keeps the connection object alive, `managed` is
`connections_`, `open` the open sockets. Closing a socket turns an operation
in progress into an aborted one and leaves a completed one as it is.

`RdbHandler` is composed with the abstract `ReminderService`, not with
`DataServer`: `ServiceSpec` shows that the one may stand for the other. `pc` is
the place in `rdb_handler::parse`, `fields` is `_fields`, `page` the reply, and
`seen` and `times` are history (the table when the command was carried out, and
how often it was).

In `DBSQLite`, `loader` is the place of `getFields`, `loaded` the number of names
it has pushed to `fields_`, `dbRC` is `dbRC_`, `db` the address in `db_` and `live`
the addresses that are open: after `read()` they differ, since it closes a
database and keeps the pointer. A call of `sqlite3_exec`, `prepare` or `step`
holds the mutex of the in-memory database; everything the code does between two
of them, or between one of them and its test of `dbRC_`, is a step of its own.
The test of line 179 reads `dbRC_` twice, so it is two steps (`StepCheck`,
`StepCheckDone`). The statements are prepared by `sqlite3_prepare`, so that a
refused row is seen as `SQLITE_ERROR`.

No call doubles the quotes of the values it puts into a statement. `Literal`
is what SQL reads for a value between quotes: the value, with its doubled
quotes as one, or `Broken` when a quote ends the literal early. With a broken
literal the statement is another one. What such a statement finds, what it
returns and which rows it leaves is open (`Strayed`: any rows of the values that
are there or in `Strange`), in a `set` (`CountedOther`, `Step`) as in a `get`
(`GetOther`); only the columns stay as they are. The properties that say what was
stored speak of literals; `TypeOK` and the rest hold with any statement.

In `RdbHandler` a row node of the join is a function from the paths of `ptree::put`
to values: `Keys` splits a name at its dots, a later value at a path replaces an
earlier one, and `write_json` throws for a node that has a value and nodes below it
(`Unwritable`, `JoinEnds`).

In `Startup`, `cmd`, `vm` and `vals` are `argv`, `config_vars` and the variables
that `notify` fills. The kernel's backlog is the `client` that connects between
`listen` and `async_accept`.

Undefined behaviour is a choice among what it may do. A `get` of a column the row
lacks returns something or kills the process (`Garbage`, `ReadHandlerEnds`,
`GetPastEnd`); the join of a line that is read as more values than there are names labels a value with
anything or ends the web server (`PastEnd_`, `JoinEnds`); an update by DBSQLite
with fewer values than names stores anything or ends the process
(`FirstValues`, `Stop`); the ports of the web server hold anything before they
are set (`Rubbish`).

## 3. Runs

| Run | Module, configuration | Question | Bounds |
|---|---|---|---|
| `text_file` | MCDBTextFile | what is read back after saves, crashes and full disks; which calls hide or shorten rows | 2 fields, 2 rows, 3 initial files, rows of at most 3 values |
| `data_server` | MCDataServer | every command, stops and crashes between handlers, against `ReminderService` | 1 connection (reconnecting), 13 requests, 2 per connection |
| `data_server_stop` | MCDataServerStop | two interleaved clients, failing accepts, SIGTERM; liveness | 2 connections, 4 requests, 1 per connection |
| `doc_failed_set`, `doc_failed_commit` | MCDataServer… | two answers that say the opposite of what was done (section 6) | as `data_server` |
| `http_server` | MCHttpServer | ownership of connections, the stop, is everybody served | 2 connections, requests of at most 2 chunks |
| `request_parser` | MCRequestParser | language and content; no late or early rejection | texts of at most 25 characters (22 for `RejectsAtOnce`), one character kept beyond the least a request needs |
| `sqlite` | MCDBSQLite | what the answers of the SQLite provider are worth when its calls race with its thread | 2 columns, at most 2 rows, 2 initial files and one without a table, 3 values (one doubles its quote, one breaks its literal), 3 arguments, 3 addresses (symmetric) |
| `rdb_handler` | MCRdbHandler | what a browser is shown, how often a command is carried out, is there an answer | 8 paths, 3 fields (one below another), 1 other client with 3 requests: a row wider than the names, a value with a colon, a delete |
| `request_handler` | MCRequestHandler | which path is decoded and refused, and who answers it | paths of at most 5 pieces, each one of 5 plain, 5 escaped, a plus or 4 broken ones |
| `startup` | MCStartup | options, order of loading and unloading, early clients | 16 command lines, 4 files (2 of them the shipped ones) |
| `doc_needs_ports` | MCStartupPorts | a start without ports is refused (section 6) | as `startup` |

Why they are enough. Two rows and two fields give every relation of a name to
a row the lookups distinguish (first, second, none, both), and the values
include an empty one, one with a colon and one that renames. Two connections
give each pair of handlers in both orders, with the acceptor and the signal
between them. Twenty-two characters reach every state of the parser, 24 a
folded line with a value, 25 a second header. For SQLite two columns are the
least of which a part can be known, two rows the least of which two can share a
name, and three addresses let an allocation reuse an address that is still in
`db_` or avoid it while a third is forgotten. A doubled
quote comes in a name and behind it, a quote that breaks its literal in a name. In
the join the second name is a path above the third, the wide row is a line of
more values than names, and the colon shifts a value to the next name.
Five pieces hold `/`, two dots and a slash with an escape
anywhere among them, or `/rdb/get`. The bounds are constants in
guards: `MaxRows`, `MaxWidth`, `MaxRequests`, `MaxParts`, `MaxText`,
`MaxExtra`, `MaxDecided`, `MaxPieces`. Deadlock checking is off where the programs stop or, for the
parser, come to a result.

### What is shown

* `Durability`: values without a colon survive commit and restart exactly,
  empty ones included, until the next save begins. (Colons split a value in
  two: `set` of one field accepts them.)
* `TornSaveIsPrefix`: a save cut anywhere reads back as a prefix, only the
  last row damaged, and the names of the fields are whole once there is a row.
* `NoNewDuplicates`, `RowsStayWide`: which calls can make two rows share a
  name or leave a row short; no other can.
* `ServiceSpec`: `DataServer` implements `ReminderService` under the mapping
  `call <- inbox`, `reply <- response_ while it is written, then what the
  client has not read`.
* `NoSessionAfterStop`, `StopIsComplete`: an accept that had completed before
  the stop does not start anything after it, and what handlers queued before the
  stop start on a closed socket does not wait for a browser.
* `TypeOK` of `HttpServer` also says that `socket_` holds at most one connection,
  that of `RdbHandler` that a get knows names before it asks for rows, that of
  `DBSQLite` that every row has a value for each column, whatever the quotes.
* `LiveIsManaged`, `AcceptIsOutstanding`: the comments of server.hpp (the
  manager "owns all live connections") and server.cpp:51-54 hold.
* `StopEnds`, `NobodyWaitsForever`: liveness, see below.
* `AcceptsRequests`, `RejectsAtOnce`, `SaysWhatWasSent`: the automaton is the
  grammar, decides at the first possible character, and folds headers.
* `FieldsAnswerWhole`: `fields()` of DBSQLite waits for the thread. It answers
  all fields; none if the thread's statement failed or a call wrote its result
  code over the thread's; some of them only if both happened.
* `FailedSetChangesNothing`, for values that are literals: `false` means that
  nothing was stored, with one exception, which the run reaches. The thread may
  write `dbRC_` after `sqlite3_step` and before the second of the two reads of
  line 179; then the row was stored and the answer is `false`. This property and
  the next except an update that read past the end of its values (`overrun`),
  which stores anything.
* `TrueSetStoresAll`, for values that are literals: `true` means that all was
  stored, as SQL reads it (`it''s` becomes `it's`), and that no other row was
  touched. A call that began before the thread was done may have stored the
  first values or none, but nothing else, and never part of a new row. A call
  that got no count takes its name for one that exists and stores nothing.
* `SaveAnswersTruly`, `NoHandleLeaks`: the answer of `save()` is what happened
  to the file, and at most one handle is open, in a race but for the code the
  thread writes between a result and its test: then the answer may be the wrong
  one of the two, and one handle may be forgotten, once.
* `NamesStayUnique`: no `set` of literals makes two rows share a name, in a
  race or out of it; the name that is looked up, the one that is stored and the
  rows that are updated are the same however many doubled quotes there are. A
  value that breaks its literal may, and so may a `get` of such a value.
* `JoinIsRight`: in a page of a get whose names came whole, rows are rows of one
  moment in their order, with nothing missing but at the end, although names and
  rows come by two calls and either answer may be cut. Each value stands under
  the name at its position, which is what the code promises and no more: the one
  value of a get of one field stands under the first name, whatever field it is of; a colon in a
  value makes two values of it and shifts those behind it; of values put at one
  path one is shown. Past the names is read only for a line of more values
  than names. A message in place of rows (`Answered` is false) and names that came cut are
  not spoken of.
* `CarriedOutOnce`, `PageComes`: a command is carried out at most once, and 200
  means that it was; 400 may also mean that only the answer was lost.
* `ServesWhatWasMeant`, `RefusedForItsPath`, `StaysBelowRoot`: decoding undoes
  encoding, and the checks are made on what was decoded. `TypeGoesWithName`: a
  dot in a directory's name gives no type.
* `ConfiguredAsAsked`: the command line wins over the file, the file over the
  defaults, although the file's name is itself an option. `ProviderHasItsCode`:
  the provider is destroyed before its library is closed, on every way but one.
  When `read()` fails (server.cpp:76-78) the constructor throws, `~Server` does not run
  and the library is closed under a provider nobody destroys; then the program
  has ended and no client is accepted who could have it called.
  `NobodyStaysInBacklog`: who connects during the start is served or let go.

### Fairness

`io_service` takes completed operations from a queue in order, so a handler
that is queued runs: weak fairness of handlers in `DataServer`. In `HttpServer`
every step is disabled while the thread blocks in `executeCmd`, again and
again, so the handlers there have strong fairness; that the call returns is
what `NobodyWaitsForever` of `DataServer` shows of its clients. Accepting has
strong fairness because `AcceptFails` can take its turn: descriptors run out
but do not stay exhausted. `StopEnds` of `HttpServer` assumes nothing of browsers;
`NobodyWaitsForever` there has their part as its premise (`BrowserFairness`: they
read replies and notice a closed connection). In `DataServer` clients go on with the call they are in, because
sessions are not told to stop: without it SIGTERM does not end the server.
In `RdbHandler` the web server goes on with its call (weak fairness; a connection
that fails is one of the ways on) and the data server carries out, or dies of,
what it was sent, as `DataServer` shows. In `Startup` a program goes on with its
start and its end, and a server that runs accepts.

## 4. Proofs

| Module | Theorem: property | For |
|---|---|---|
| `DBTextFile_proofs` | `TypeCorrect`: `TypeOK`; `Durable`: `Durability`; `TornSavePrefix`: `TornSaveIsPrefix`; `NamesStayUnique`: `NoNewDuplicates`; `WidthsStay`: `RowsStayWide`; `CommitIsOneStep`: whenever no save runs and the last one was not cut, `read()` makes `Reread` of the saved table of the file | all files, arguments, values and bounds |
| `DataServer_proofs` | `TypeCorrect`: `TypeOK`; `StopHolds`: `NoSessionAfterStop`; `ServiceKept`: `ServiceSpec`, the refinement of `ReminderService` | any number of clients, any requests and tables |
| `RdbHandler_proofs` | `TypeCorrect`: `TypeOK`; `OnceOnly`: `CarriedOutOnce`; `JoinedRight`: `JoinIsRight` | any paths, tables and other clients |
| `DBSQLite_proofs` | `TypeCorrect`: `TypeOK`; `FieldsWhole`: `FieldsAnswerWhole`; `FailedSet`: `FailedSetChangesNothing`; `TrueSet`: `TrueSetStoresAll`; `SaveTruly`: `SaveAnswersTruly`; `NoLeaks`: `NoHandleLeaks`; `NamesUnique`: `NamesStayUnique` | any columns, rows, values, addresses and interleavings of the two threads |
| `HttpRequest_proofs` | `TypeCorrect`: `TypeOK` of the parser, and with it that `headers.back()` is called with a header only; `AcceptsExactly`: `AcceptsRequests`; `DecidesAtOnce`: `RejectsAtOnce`; `RejectsForGood`: a text is rejected only when nothing that could follow makes a request of it, and more is asked for only when something does; `SaysItTruly`: `SaysWhatWasSent`; `ServedAsMeant`: `ServesWhatWasMeant`; `RefusedForPath`: `RefusedForItsPath`; `BelowRoot`: `StaysBelowRoot`; `TypeOfItsName`: `TypeGoesWithName` | texts and paths of any length, any way to encode them |
| `HttpServer_proofs` | `TypeCorrect`: `TypeOK`; `LiveManaged`: `LiveIsManaged`; `StopCompletes`: `StopIsComplete`; `AcceptOutstanding`: `AcceptIsOutstanding` | any set of connections |
| `Startup_proofs` | `TypeCorrect`: `TypeOK`; `RunsAsAsked`: `ConfiguredAsAsked`; `CodeOutlivesProvider`: `ProviderHasItsCode` | any command lines and files |

What is assumed of the constants is named where they are declared, and each
run evaluates it: that the files, requests and tables consist of texts and rows
(`ConstantsAssumption` of each module), that the empty text is one
(`EmptyAssumption`), that the names of the fields are free of colons
(`NamesAssumption`: they come from a line that was split at its colons), that
a browser sends plain only what stands for itself and escapes the characters
`Code` has a number for (`ConstantsSuit`), that the path of an empty name leads
nowhere (`KeysAssumption`), that the mark for a port that is not set
is no port (`NoPortAssumption`).

*Induction.* The recursive functions here, `url_decode` and the rows of an
answer, run over positions. `PositionInduction` says that a set that has the
first position and, with each, the next one, has all of them; it follows from
the least element of a set of numbers (`LeastNatural`), and that from the
library's theorem that the finite sets are well-founded under inclusion. The
property is a set, not an operator, and so the provers can use it.

*DBTextFile.* `Durability` speaks of the file when no save runs, so it says
nothing while one does. `IInv` adds `SaveInv`: inside `save()` the table is the
one the save was called with, the complete lines of the file are exactly the
printed rows before the cursor, and the line being written holds exactly the
values before it. At the close that makes `Durability` true; at a cut the
complete lines and a piece of the next one give the prefix
(`CutReadsPrefix`). The facts about printing and parsing are lemmas: for
colon-free rows, `Split` of the printed row is the row, and `Split` of a part
of it is no longer than it.

*The table.* Each call keeps names unique by a lemma of its own: a row is
replaced by one of the same name (`SplitName`: the name a row is looked up by is
the name it parses to), appended when its name is absent, or taken away, which
moves the rows after it (`ErasedRows`). Widths need an invariant, `KeepsWidth`,
because a row may be shortened by what a later start reads: the names of the
fields are free of colons, so the first line parses to exactly as many names as
were saved, and every other line to at least as many values as its row had,
since a colon in a value only makes its line longer.

*One step for a commit.* `DataServer` and `ReminderService` take a commit as
one step, to `Reread(entries)`; in the code it is a loop over lines and values.
`CommitInv` says what the loop has written (`PrintedSoFar`, for rows with colons
as well) and so `FileIsReread`: after the close the two are the same.

*DataServer.* For the refinement, `OneAtATime`: a connection carries one
thing at a time, the request, the answer being written or the answer not yet
read, so that the mapped `reply` is never ambiguous. Then each action is a step of the service
(the handler of a read that runs `parseRequest` is its `Execute`, and a stop its
`Restart`) or changes none of its variables. That `Execute` answers something is the lemma that
no outcome of a request has an empty response. Liveness of the service is not
part of `ServiceSpec`.

*RdbHandler.* `OneCommand` says that a command is under way, answered or over,
and `CountsIt` that the history counts the command and not the question for
the names; with them `CarriedOutOnce` is inductive. For the page,
`AnswerInv`: the answer on its way is the rows asked for, printed, as they
were when it was carried out, with or without the empty line. `Received` may be any beginning
of it, so the lemmas about the join are about beginnings of a printed table:
what a cut leaves are whole rows and a beginning of one more (`ReceivedRows`), the
values that are read of a printed row are those of `ReadBack`, colons included
(`ReadBackPieces`), and a node holds, at each path, the last of the values whose
position has it (`LabelledValues`). That the one value of a get of one field is
printed like a row of one value brings it under the same lemmas (`ValueBegins`).

*DBSQLite.* `IInv` says what the calls know at each place. `LoaderInv`: the
thread has found all names when it is done unless its statement failed, and
`fieldsReady_` says which unless a call it raced with wrote `dbRC_` (`early`).
`SetInv`: from the test of the counts to the step, the rows are as before, as
long as the values are literals (`RowsUntouched`), and the statement fits what was
found; after the step, `ResultSaysIt`: the row is stored or it is not, and `dbRC_`
says which until the thread writes it (`overtaken`). So the one exception of
`FailedSetChangesNothing` is the very step the invariant names. `SaveInv`: what the file holds
between the backup and the answer; `HandlesInv`: a handle is forgotten only when
the thread's failure falls between `sqlite3_open` and its test, which happens once.
`NamesUnique` holds in a race as well, because `alreadyExists` answers from the
count it was given and not from `dbRC_` (`FoundTruly`), and no other call runs
before the insert: a row is added only when its name, as SQL reads it, is absent.
`TypeCorrect` needs no premise on quotes: `StrayedType`.

*The parser.* `TypeOK` is not inductive because `header_value` is
entered from `space_before_header_value`, of which `TypeOK` says nothing; `IInv`
adds it. That the automaton is the grammar rests on what no property of the
run says, the meaning of each of its twenty states. `Decides` gives it: while the
parser wants more, `Reads(state, text)`, that is, all lines that have ended may
come before the empty one, and what has been read of the next is what that state
stands for (in `http_version_minor`, a whole request line; in `header_lws`,
nothing but white space after a header); what it accepts is a request, and what
it rejects is `Hopeless`: no text completes it. The flag the parser has for "a
header has been read", `headers.empty()`, is tied to the text there as well. Each
action has three lemmas: the character it takes leads from `Reads` of the old
state to `Reads` of the new one; any other makes the text hopeless, because a line
keeps what it has read however it goes on (`RejectsAtOnce` of the run tries one
family of rests, `Hopeless` speaks of all); and what was appended to `request_`
is what the grammar says of the part that has been read. That last one is `Keeps`: the method
and the uri are the parts up to the first two spaces, the headers are those of
the complete lines and what there is of the last, folded or not. `Headers` is a
recursive function of the position; that it stays as it is until the line feed of
the next line (`HeadersStay`) is proved by `PositionInduction`. For
`DecidesAtOnce` also one witness per state is needed: the end of the sample
request that completes it (`Leads`).

*The handler.* `HandlerInv`: as long as the browser has sent
encodings only, what has been sent decodes to what is meant. That it is kept is
`DecodingAppended` (what is appended is decoded from the result so far on, since no
escape is cut) with `PlainDecoded`, `EscapeDecoded` and `PlusDecoded`. `BelowRoot`
needs no such premise: it rests on the decoded path, of which
`HasDots`, `NamedDots` and `ComponentDots` say that a component `..` would be two dots
that were looked for. `GifName` is about the last component: the dot after which
nothing but the extension comes stands in it.

*HttpServer.* That no connection leaks rests on facts no single property
states: before the end the acceptor is open exactly as long as the signal is not
handled (`AcceptorFollowsSignal`), a connection object exists exactly as long
as an operation refers to it (`ObjectHasOp`), an operation completes as
aborted only after its connection was erased (`AbortedIsErased`), a read
that succeeded brought something (`ReadHasChunk`), and an operation that is in
progress is one of an open socket (`WaitsOnOpen`), from which the second half of
`StopIsComplete` follows. With them the invariant is
inductive, one lemma per group of actions.

*Startup.* `LoadingInv` says at which places of the constructor and the
destructor there may be a provider, that its library is open at those and
while `create` is looked up, and that after a `read()` that failed the program has
ended. `OptionsInv` says what the options are between the
sources: after the command line, those of the command line over the defaults,
which is why the file it names is the one that is read, and stored beneath it.

## 5. Only model-checked

* Liveness and the fairness it needs: `StopEnds`, `NobodyWaitsForever`,
  `PageComes`, `NobodyStaysInBacklog`. The prover does not do `ENABLED`.
* The properties that the runs of section 6 refute.

## 6. Disagreements found

1. `FailedSetChangesNothing` of `DataServer` (session.cpp:122-128): "Filed to set
   Entry: " is sent when `set(name, csv_values)` succeeded; the branches are
   swapped with respect to lines 131-137.
2. `FailedCommitStoresNothing` (DBTextFile.cpp:124): `save()` returns `false`
   after it has written the file, so every commit is reported as failed.
3. `NeedsItsPorts` (HttpWrapper main.cpp:63): the ports are compared with 0
   without ever having been set; the server may start on whatever they hold.

Seen while modelling; the models follow the code, and no run is about them:

* session.cpp:32-33 says that every response ends with an empty line; those
  without a newline of their own get only one (`Bare` in `Request`).
* DBSQLite.cpp:138-139: the count of the values is checked against the names
  found so far. While the thread runs, an update that names only some of the
  fields passes and returns true; with fewer values than names it reads past
  the end of them (`overrun`).
* DBSQLite.cpp:179 reads `dbRC_` twice while the thread may write it: a `set` that
  stored its row may answer `false` (`overtaken`).
* DBSQLite.cpp:99-107, 146-160 and 279-280 put names, values and fields into the
  statements as they are: `it''s` is stored as `it's`, and a value with a single
  quote in it runs another statement than was meant.
* rdb_handler.cpp:119: the value of `/rdb/get/a/type` is shown under the first
  name, a colon in a value shifts the labels of those behind it, and with a field
  whose name is another's followed by a dot `write_json` throws out of `run()`.
* server.cpp:76-78: when `read()` fails the provider is not destroyed, and its
  library is closed.
* request_handler.hpp:39-40 promises `false` for an invalid encoding; `%2g` and
  `%-2` are decoded to a byte (`ReadHex`).
* `reminder-dp.ini` sets `type = text` where libraries are found for `file` and
  `sqlite`, and `reminder-http.ini` sets `path`, which is no option of that
  program: neither program starts with the file it is shipped with. Both files
  are among those of `startup`.

## 7. Not modelled, and what is left

| Part | Why |
|---|---|
| sessions over a byte stream | a request in several segments is taken for several requests, two in one segment for one; nothing in the code or its client says what should happen, so there is no promise to check |
| a data server that accepts and never answers | `executeCmd` has no timeout: the web server blocks for good. No fairness of another program could be justified |
| two data servers on one file | SIGTERM frees the port while sessions go on, and a new server may start; the models follow one process at a time |
| what SQLite does inside, and what a failed `sqlite3_open` or step keeps allocated | external: a backup is atomic, an `exec` holds the mutex of its connection |
| statements a quote makes of a value that change the columns of the table | the columns are a constant here; the rows such a statement leaves are open |
| a text SQLite converts for the type of its column | the columns are taken to be text |
| the database file exchanged between two starts | `columns` belongs to the file, which only `save()` writes |
| NULLs that DBSQLite reads, its destructor while its thread runs | they end the process, which `Stop` may do at any step |
| file contents, `to_buffers`, JSON and other wording | formatting; a page is its status and its rows, each a function from paths to values |
| NUL in a path, a directory opened as a file | the name of a file is a sequence of characters here |
| `DPFactory/DBLibrary.cpp` | compiled by no Makefile |

Left to prove: nothing among the invariants; of what the runs show, only the liveness
of section 5 is not proved. Left to state: an abstract durable store that both providers
implement.
