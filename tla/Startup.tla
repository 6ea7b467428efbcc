------------------------------ MODULE Startup ------------------------------
(***************************************************************************)
(* How the two programs start: the options they read from the command line *)
(* and a file (Server/src/main.cpp, HttpWrapper/src/main.cpp), the data    *)
(* server's fork, and the constructors of the servers step by step, with   *)
(* the loading of the provider library (Server/src/server.cpp), while      *)
(* clients may already connect.  What a server does once it runs is in     *)
(* DataServer and HttpServer.                                              *)
(*                                                                         *)
(* The options of one source are a function from the names given to their  *)
(* values.                                                                 *)
(***************************************************************************)
EXTENDS Naturals

CONSTANTS
    CmdLines,       \* [program -> set of command lines]
    Files,          \* [file name -> options in it]: the files that exist
    Rubbish,        \* what an unsigned short may hold that nobody set
    NoPort          \* a text that is no port number

DefaultPort == 9000

ASSUME NoPortAssumption == NoPort # DefaultPort /\ NoPort \notin Rubbish

VARIABLES
    program,        \* "server", "http"
    cmd,            \* argv
    vm,             \* config_vars
    vals,           \* port, type and the other variables
    pc,             \* "start", "stored", "parsed", "fork", the steps of the
                    \*   constructor: "construct", "bound", "found", "open",
                    \*   "created"; "serving", "stopped", "destroyed", "exited"
    parent,         \* how the parent process ended: "none" before or without
    listening,      \* the acceptor is bound and listens
    armed,          \* an async_accept is outstanding
    library,        \* "none", "loaded", "closed"
    provider,       \* what dlLibrary points to: "none", "alive", "gone"
    data,           \* what its read() said: "none", "read", "failed"
    client          \* "none", "waiting" in the backlog, "served", "refused"

options == <<cmd, vm, vals>>
loading == <<library, provider, data>>
vars == <<program, cmd, vm, vals, pc, parent, listening, armed, library, provider,
          data, client>>
-----------------------------------------------------------------------------
(* boost::program_options *)

Known == [
    server |-> {"help", "port", "type", "path", "debug", "config"},
    http |-> {"help", "config", "port", "host", "root", "datahost", "dataport"}]

\* Mutant: a value of the wrong type is let through.
RefusedUnknown(source) == \E n \in DOMAIN source : n \notin Known[program]

\* The parser throws at an option it does not know and at a value that is not
\* of its type.
Refused(source) ==
    \/ \E n \in DOMAIN source : n \notin Known[program]
    \/ \E n \in DOMAIN source : source[n] = NoPort

\* Mutant: the last source wins.
StoreOver(map, source) ==
    [n \in DOMAIN map \cup DOMAIN source |-> IF n \in DOMAIN source THEN source[n] ELSE map[n]]

\* store: what is there stays.
Store(map, source) ==
    [n \in DOMAIN map \cup DOMAIN source |-> IF n \in DOMAIN map THEN map[n] ELSE source[n]]

\* notify: the variables of the options stored.
Notify(map) == [n \in DOMAIN vals |-> IF n \in DOMAIN map THEN map[n] ELSE vals[n]]

ConfigFile == IF program = "server" THEN "reminder-dp.ini" ELSE "reminder-http.ini"

\* The variables before; those of the web server's ports are not initialised.
InitVals ==
    IF program = "server" THEN
        [port : {DefaultPort}, type : {""}, path : {""}, config : {ConfigFile}, debug : {FALSE}]
    ELSE
        [port : Rubbish, dataport : Rubbish, host : {"localhost"}, root : {""}, datahost : {""},
         config : {ConfigFile}]

NotEnough ==
    IF program = "server" THEN vals.port = 0 \/ vals.type = "" \/ vals.path = ""
    ELSE \/ vals.port = 0 \/ vals.dataport = 0
         \/ vals.datahost = "" \/ vals.host = "" \/ vals.root = ""
-----------------------------------------------------------------------------
TypeOK ==
    /\ program \in {"server", "http"}
    /\ DOMAIN vm \subseteq Known[program]
    /\ vals.port # NoPort
    /\ pc \in {"start", "stored", "parsed", "fork", "construct", "bound", "found", "open",
               "created", "serving", "stopped", "destroyed", "exited"}
    /\ parent \in {"none", "success", "failure"}
    /\ listening \in BOOLEAN /\ armed \in BOOLEAN
    /\ library \in {"none", "loaded", "closed"}
    /\ provider \in {"none", "alive", "gone"}
    /\ data \in {"none", "read", "failed"}
    /\ client \in {"none", "waiting", "served", "refused"}

Init ==
    /\ program \in {"server", "http"}
    /\ cmd \in CmdLines[program]
    /\ vm = <<>> /\ vals \in InitVals
    /\ pc = "start" /\ parent = "none"
    /\ listening = FALSE /\ armed = FALSE
    /\ library = "none" /\ provider = "none" /\ data = "none"
    /\ client = "none"

Goto(step) == pc' = step
\* The process ends: return, exit or an exception nobody catches.
Exit == Goto("exited") /\ UNCHANGED <<program, options, parent, listening, armed, loading, client>>
-----------------------------------------------------------------------------
(* main *)

ParseCommandLine ==
    /\ pc = "start"
    /\ \/ Refused(cmd) /\ Exit
       \/ /\ ~Refused(cmd)
          /\ vm' = cmd /\ vals' = Notify(cmd)
          /\ Goto("stored")
          /\ UNCHANGED <<program, cmd, parent, listening, armed, loading, client>>

ParseFile ==
    /\ pc = "stored"
    /\ IF vals.config \notin DOMAIN Files
       THEN Goto("parsed") /\ UNCHANGED <<program, options, parent, listening, armed, loading, client>>
       ELSE \/ Refused(Files[vals.config]) /\ Exit
            \/ /\ ~Refused(Files[vals.config])
               /\ vm' = Store(vm, Files[vals.config])
               /\ vals' = Notify(vm')
               /\ Goto("parsed")
               /\ UNCHANGED <<program, cmd, parent, listening, armed, loading, client>>

Check ==
    /\ pc = "parsed"
    /\ \/ ("help" \in DOMAIN vm \/ NotEnough) /\ Exit
       \/ /\ "help" \notin DOMAIN vm /\ ~NotEnough
          /\ Goto(IF program = "http" \/ vals.debug THEN "construct" ELSE "fork")
          /\ UNCHANGED <<program, options, parent, listening, armed, loading, client>>

\* The parent leaves with success before the child has started anything.
Fork ==
    /\ pc = "fork"
    /\ \/ parent' = "success" /\ Goto("construct")
       \/ parent' = "failure" /\ Goto("exited")
    /\ UNCHANGED <<program, options, listening, armed, loading, client>>
-----------------------------------------------------------------------------
(* The constructors *)

\* An exception in a constructor: the members built so far are destroyed, upDL
\* and with it the library among them, but ~Server does not run: the provider
\* stays as it is.
Unwind ==
    /\ listening' = FALSE /\ armed' = FALSE
    /\ client' = IF client = "waiting" THEN "refused" ELSE client
    /\ library' = IF library = "loaded" THEN "closed" ELSE library
    /\ Goto("exited")
    /\ UNCHANGED <<program, options, parent, provider>>

\* The web server starts to accept where it listens.
Listen ==
    /\ pc = "construct"
    /\ listening' = TRUE
    /\ armed' = (program = "http")
    /\ Goto(IF program = "http" THEN "serving" ELSE "bound")
    /\ UNCHANGED <<program, options, parent, loading, client>>

\* setLibraryPath.
LibraryType == {"file", "sqlite"}

FindLibrary ==
    /\ pc = "bound" /\ vals.type \in LibraryType
    /\ Goto("found")
    /\ UNCHANGED <<program, options, parent, listening, armed, loading, client>>

\* dlopen, and the symbols create and destroy.
OpenLibrary ==
    /\ pc = "found"
    /\ library' = "loaded"
    /\ Goto("open")
    /\ UNCHANGED <<program, options, parent, listening, armed, provider, data, client>>

Create ==
    /\ pc = "open"
    /\ provider' = "alive"
    /\ Goto("created")
    /\ UNCHANGED <<program, options, parent, listening, armed, library, data, client>>

\* Mutant: the constructor does not start to accept.
ReadDataUnarmed ==
    /\ pc = "created"
    /\ data' = "read"
    /\ Goto("serving")
    /\ UNCHANGED <<program, options, parent, listening, armed, library, provider, client>>

\* read(), then do_await_stop and do_accept.
ReadData ==
    /\ pc = "created"
    /\ data' = "read"
    /\ armed' = TRUE
    /\ Goto("serving")
    /\ UNCHANGED <<program, options, parent, listening, library, provider, client>>

\* The provider is there and its data is not.
ReadFails ==
    /\ pc = "created"
    /\ data' = "failed"
    /\ Unwind

\* The port is taken, no library is found or opens, a symbol is missing,
\* create returns no provider.
ConstructFails ==
    /\ pc \in {"construct", "bound", "found", "open"}
    /\ Unwind
    /\ UNCHANGED data
-----------------------------------------------------------------------------
(* The end of a server *)

Stop ==
    /\ pc = "serving"
    /\ listening' = FALSE /\ armed' = FALSE
    /\ client' = IF client = "waiting" THEN "refused" ELSE client
    /\ Goto("stopped")
    /\ UNCHANGED <<program, options, parent, loading>>

\* Mutant: the library is closed first.
DestroyLate ==
    /\ pc = "stopped" /\ Goto("destroyed")
    /\ library' = IF library = "loaded" THEN "closed" ELSE library
    /\ UNCHANGED <<program, options, parent, listening, armed, provider, data, client>>

\* ~Server: destroy, then the members, upDL among them.
Destroy ==
    /\ pc = "stopped" /\ Goto("destroyed")
    /\ provider' = IF provider = "alive" THEN "gone" ELSE provider
    /\ UNCHANGED <<program, options, parent, listening, armed, library, data, client>>

CloseLibrary ==
    /\ pc = "destroyed" /\ Goto("exited")
    /\ library' = IF library = "loaded" THEN "closed" ELSE library
    /\ UNCHANGED <<program, options, parent, listening, armed, provider, data, client>>
-----------------------------------------------------------------------------
(* A client *)

Connect ==
    /\ listening /\ client = "none"
    /\ client' = "waiting"
    /\ UNCHANGED <<program, options, pc, parent, listening, armed, loading>>

Accept ==
    /\ pc = "serving" /\ armed /\ client = "waiting"
    /\ client' = "served"
    /\ UNCHANGED <<program, options, pc, parent, listening, armed, loading>>

Go ==
    \/ ParseCommandLine
    \/ ParseFile
    \/ Check
    \/ Fork
    \/ Listen
    \/ FindLibrary
    \/ OpenLibrary
    \/ Create
    \/ ReadData
    \/ ReadFails
    \/ ConstructFails
    \/ Destroy
    \/ CloseLibrary

Next ==
    \/ Go
    \/ Stop
    \/ Connect
    \/ Accept

Spec == Init /\ [][Next]_vars

\* A program goes on with its start and its end; a server that runs accepts.
FairSpec == Spec /\ WF_vars(Go) /\ WF_vars(Accept)
-----------------------------------------------------------------------------
Serving == pc = "serving"

\* The options of the file that was asked for.
File ==
    LET name == IF "config" \in DOMAIN cmd THEN cmd["config"] ELSE ConfigFile
    IN  IF name \in DOMAIN Files THEN Files[name] ELSE <<>>

\* A server runs with what the command line gives, else with what the file
\* it names gives, else with the defaults, whatever was stored first.
ConfiguredAsAsked ==
    Serving => \A n \in DOMAIN vals :
        IF n \in DOMAIN cmd THEN vals[n] = cmd[n]
        ELSE IF n \in DOMAIN File THEN vals[n] = File[n]
        ELSE \E defaults \in InitVals : vals[n] = defaults[n]

\* The provider is destroyed before its library is closed, and the library
\* closed before the program ends, on every way but one: when read() fails,
\* ~Server does not run, the library is closed under a provider nobody
\* destroys.  Then the program has ended, and nothing accepts a client who
\* could have it called.
ProviderHasItsCode ==
    /\ provider = "alive" /\ library # "loaded" =>
           data = "failed" /\ pc = "exited" /\ ~listening /\ ~armed
    /\ pc = "exited" => library # "loaded" /\ (provider = "alive" => data = "failed")

\* A client that connects while the constructor is still loading the provider
\* is served, or let go when the start fails.
NobodyStaysInBacklog == client = "waiting" ~> client # "waiting"

\* "Not enough parameters to start reminder http server": it does not start
\* without its ports.
NeedsItsPorts ==
    Serving => \A n \in {"port", "dataport"} \cap DOMAIN vals : n \in DOMAIN cmd \cup DOMAIN File
=============================================================================
