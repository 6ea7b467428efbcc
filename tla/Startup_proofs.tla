--------------------------- MODULE Startup_proofs ---------------------------
(***************************************************************************)
(* What holds of the two programs for all command lines and files.         *)
(***************************************************************************)
EXTENDS Startup, TLAPS

USE DEF options, loading

-----------------------------------------------------------------------------
(* The provider and its library *)

\* There is a provider between create and destroy, or for good when read()
\* failed; the library is open from before create until after destroy, or
\* until the constructor throws, and nothing accepts once the program ends.
LoadingInv ==
    /\ provider = "alive" =>
           \/ library = "loaded" /\ pc \in {"created", "serving", "stopped"}
           \/ data = "failed" /\ pc = "exited" /\ library # "loaded" /\ ~listening /\ ~armed
    /\ library = "loaded" => pc \in {"open", "created", "serving", "stopped", "destroyed"}
    /\ pc \in {"open", "created"} => library = "loaded"

LEMMA InitLoading == Init => LoadingInv
BY DEF Init, LoadingInv

\* The steps of main and of the options touch neither.
LEMMA ConfigureLoading ==
    ASSUME LoadingInv, ParseCommandLine \/ ParseFile \/ Check \/ Fork \/ Listen \/ FindLibrary
    PROVE  LoadingInv'
BY DEF LoadingInv, ParseCommandLine, ParseFile, Check, Fork, Listen, FindLibrary, Exit, Goto

\* The constructor loads, creates and reads; when it throws, the library goes
\* and the provider stays, so it must have been none before read().
LEMMA ConstructLoading ==
    ASSUME LoadingInv, OpenLibrary \/ Create \/ ReadData \/ ReadFails \/ ConstructFails
    PROVE  LoadingInv'
<1>1. CASE OpenLibrary
  BY <1>1 DEF OpenLibrary, LoadingInv, Goto
<1>2. CASE Create
  BY <1>2 DEF Create, LoadingInv, Goto
<1>3. CASE ReadData
  BY <1>3 DEF ReadData, LoadingInv, Goto
<1>4. CASE ReadFails
  BY <1>4 DEF ReadFails, Unwind, LoadingInv, Goto
<1>5. CASE ConstructFails
  <2>1. provider # "alive"
    BY <1>5 DEF ConstructFails, LoadingInv
  <2> QED BY <1>5, <2>1 DEF ConstructFails, Unwind, LoadingInv, Goto
<1> QED BY <1>1, <1>2, <1>3, <1>4, <1>5

\* The destructor destroys before it closes.
LEMMA EndLoading ==
    ASSUME LoadingInv, Stop \/ Destroy \/ CloseLibrary
    PROVE  LoadingInv'
BY DEF LoadingInv, Stop, Destroy, CloseLibrary, Goto

\* A client does not connect to a program that has ended, and is not accepted.
LEMMA ClientLoading ==
    ASSUME LoadingInv, Connect \/ Accept \/ UNCHANGED vars
    PROVE  LoadingInv'
BY DEF LoadingInv, Connect, Accept, vars

LEMMA NextLoading == LoadingInv /\ [Next]_vars => LoadingInv'
<1> SUFFICES ASSUME LoadingInv, [Next]_vars PROVE LoadingInv'
  OBVIOUS
<1>1. CASE Go
  BY <1>1, ConfigureLoading, ConstructLoading, EndLoading DEF Go
<1>2. CASE Stop
  BY <1>2, EndLoading
<1>3. CASE Connect \/ Accept \/ UNCHANGED vars
  BY <1>3, ClientLoading
<1> QED BY <1>1, <1>2, <1>3 DEF Next

\* For all command lines and files: the provider is destroyed before its
\* library is closed, and the library closed before the program ends, on
\* every way but that of a read() that failed; there the provider is left
\* without its code in a program that has ended and accepts nobody.
THEOREM CodeOutlivesProvider == Spec => []ProviderHasItsCode
<1>1. LoadingInv => ProviderHasItsCode
  BY DEF LoadingInv, ProviderHasItsCode
<1> QED BY InitLoading, NextLoading, <1>1, PTL DEF Spec

-----------------------------------------------------------------------------
(* The types *)

\* The defaults are a port number each, and have a port and a file's name.
LEMMA DefaultsType ==
    ASSUME NEW d \in InitVals
    PROVE  {"port", "config"} \subseteq DOMAIN d /\ d.port # NoPort /\ d.config = ConfigFile
<1>1. CASE program = "server"
  <2>1. d \in [port : {DefaultPort}, type : {""}, path : {""}, config : {ConfigFile}, debug : {FALSE}]
    BY <1>1 DEF InitVals
  <2> QED BY <2>1, NoPortAssumption
<1>2. CASE program # "server"
  <2>1. d \in [port : Rubbish, dataport : Rubbish, host : {"localhost"}, root : {""},
               datahost : {""}, config : {ConfigFile}]
    BY <1>2 DEF InitVals
  <2> QED BY <2>1, NoPortAssumption
<1> QED BY <1>1, <1>2

\* With the types: the options stored have a value of their type each.
TypeInv ==
    /\ TypeOK
    /\ "port" \in DOMAIN vals
    /\ \A n \in DOMAIN vm : vm[n] # NoPort

LEMMA InitType == Init => TypeInv
<1> SUFFICES ASSUME Init PROVE TypeInv
  OBVIOUS
<1>1. vals \in InitVals /\ DOMAIN vm = {}
  BY DEF Init
<1>2. "port" \in DOMAIN vals /\ vals.port # NoPort
  BY <1>1, DefaultsType
<1> QED BY <1>1, <1>2 DEF Init, TypeInv, TypeOK

\* A variable is set to a value of its type.
LEMMA NotifyType ==
    ASSUME TypeInv, NEW map, \A n \in DOMAIN map : map[n] # NoPort
    PROVE  "port" \in DOMAIN Notify(map) /\ Notify(map)["port"] # NoPort
BY DEF TypeInv, TypeOK, Notify

\* What is not refused has options that are known and values of their types.
LEMMA NotRefused ==
    ASSUME NEW source, ~Refused(source)
    PROVE  DOMAIN source \subseteq Known[program] /\ \A n \in DOMAIN source : source[n] # NoPort
BY DEF Refused

LEMMA ConfigureType ==
    ASSUME TypeInv, ParseCommandLine \/ ParseFile \/ Check \/ Fork
    PROVE  TypeInv'
<1>1. CASE Exit
  BY <1>1 DEF Exit, Goto, TypeInv, TypeOK
<1>2. CASE ParseCommandLine
  <2>1. CASE ~Refused(cmd) /\ vm' = cmd /\ vals' = Notify(cmd) /\ Goto("stored")
             /\ UNCHANGED <<program, cmd, parent, listening, armed, loading, client>>
    BY <2>1, NotRefused, NotifyType DEF TypeInv, TypeOK, Goto
  <2> QED BY <1>1, <1>2, <2>1 DEF ParseCommandLine
<1>3. CASE ParseFile
  <2> DEFINE source == Files[vals.config]
             new == Store(vm, source)
  <2>1. CASE Goto("parsed") /\ UNCHANGED <<program, options, parent, listening, armed, loading, client>>
    BY <2>1 DEF Goto, TypeInv, TypeOK
  <2>2. CASE ~Refused(source) /\ vm' = new /\ vals' = Notify(vm') /\ Goto("parsed")
             /\ UNCHANGED <<program, cmd, parent, listening, armed, loading, client>>
    <3>1. DOMAIN source \subseteq Known[program] /\ \A n \in DOMAIN source : source[n] # NoPort
      BY <2>2, NotRefused
    <3> HIDE DEF source
    <3>2. DOMAIN new \subseteq Known[program] /\ \A n \in DOMAIN new : new[n] # NoPort
      BY <3>1 DEF Store, TypeInv, TypeOK
    <3> HIDE DEF new
    <3>3. "port" \in DOMAIN Notify(new) /\ Notify(new)["port"] # NoPort
      BY <3>2, NotifyType
    <3>4. vals' = Notify(new)
      <4>1. ASSUME vm' = new PROVE Notify(vm') = Notify(new)
        BY <4>1
      <4> QED BY <2>2, <4>1
    <3> QED BY <2>2, <3>2, <3>3, <3>4 DEF TypeInv, TypeOK, Goto
  <2> QED BY <1>1, <1>3, <2>1, <2>2 DEF ParseFile
<1>4. CASE Check
  BY <1>1, <1>4 DEF Check, Goto, TypeInv, TypeOK
<1>5. CASE Fork
  BY <1>5 DEF Fork, Goto, TypeInv, TypeOK
<1> QED BY <1>2, <1>3, <1>4, <1>5

LEMMA RunType ==
    ASSUME TypeInv, Listen \/ FindLibrary \/ OpenLibrary \/ Create \/ ReadData \/ ReadFails
                    \/ ConstructFails \/ Destroy \/ CloseLibrary \/ Stop \/ Connect \/ Accept
    PROVE  TypeInv'
<1>1. UNCHANGED <<program, vm, vals>>
  BY DEF Listen, FindLibrary, OpenLibrary, Create, ReadData, ReadFails, ConstructFails, Unwind, Destroy,
         CloseLibrary, Stop, Connect, Accept
<1>2. /\ pc' \in {"bound", "found", "open", "created", "serving", "stopped", "destroyed", "exited", pc}
      /\ parent' = parent
      /\ listening' \in BOOLEAN /\ armed' \in BOOLEAN
      /\ library' \in {"none", "loaded", "closed"}
      /\ provider' \in {"none", "alive", "gone"}
      /\ data' \in {"none", "read", "failed"}
      /\ client' \in {"none", "waiting", "served", "refused"}
  BY DEF Listen, FindLibrary, OpenLibrary, Create, ReadData, ReadFails, ConstructFails, Unwind, Destroy,
         CloseLibrary, Stop, Connect, Accept, Goto, TypeInv, TypeOK
<1> QED BY <1>1, <1>2 DEF TypeInv, TypeOK

LEMMA NextType == TypeInv /\ [Next]_vars => TypeInv'
<1> SUFFICES ASSUME TypeInv, [Next]_vars PROVE TypeInv'
  OBVIOUS
<1>1. CASE UNCHANGED vars
  BY <1>1 DEF vars, TypeInv, TypeOK
<1> QED BY <1>1, ConfigureType, RunType DEF Next, Go

\* The two programs keep their types: in particular no port holds a text that
\* is no number, whichever source it came from.
THEOREM TypeCorrect == Spec => []TypeOK
<1>1. TypeInv => TypeOK
  BY DEF TypeInv
<1> QED BY InitType, NextType, <1>1, PTL DEF Spec

-----------------------------------------------------------------------------
(* The options *)

\* A variable is what the command line gives it, else the default.
FromCmd(d) == [n \in DOMAIN d |-> IF n \in DOMAIN cmd THEN cmd[n] ELSE d[n]]

\* What each variable must be once both sources are read.
Asked ==
    \A n \in DOMAIN vals :
        IF n \in DOMAIN cmd THEN vals[n] = cmd[n]
        ELSE IF n \in DOMAIN File THEN vals[n] = File[n]
        ELSE \E defaults \in InitVals : vals[n] = defaults[n]

\* Between the sources the variables are those of the command line over the
\* defaults, and the options stored are the command line; that is what makes
\* the file it names the one that is read, and stored beneath it.
OptionsInv ==
    /\ pc = "start" => vals \in InitVals
    /\ pc = "stored" => vm = cmd /\ \E d \in InitVals : vals = FromCmd(d)
    /\ pc \notin {"start", "stored", "exited"} => Asked

LEMMA InitOptions == Init => OptionsInv
BY DEF Init, OptionsInv

\* The command line: stored over nothing.
LEMMA CommandLineOptions ==
    ASSUME OptionsInv, ParseCommandLine
    PROVE  OptionsInv'
<1>1. CASE Exit
  BY <1>1 DEF Exit, Goto, OptionsInv
<1>2. CASE vm' = cmd /\ vals' = Notify(cmd) /\ pc' = "stored" /\ UNCHANGED <<program, cmd>>
  <2>1. vals \in InitVals
    BY DEF ParseCommandLine, OptionsInv
  <2>2. Notify(cmd) = FromCmd(vals)
    BY DEF Notify, FromCmd
  <2>3. InitVals' = InitVals
    BY <1>2 DEF InitVals, ConfigFile
  <2>4. FromCmd(vals) = [n \in DOMAIN vals |-> IF n \in DOMAIN cmd' THEN cmd'[n] ELSE vals[n]]
    BY <1>2 DEF FromCmd
  <2> QED BY <1>2, <2>1, <2>2, <2>3, <2>4 DEF OptionsInv, FromCmd
<1> QED BY <1>1, <1>2 DEF ParseCommandLine, Goto

\* The file the variables name after the command line is the one asked for.
LEMMA FileAsked ==
    ASSUME NEW d \in InitVals, vals = FromCmd(d)
    PROVE  File = IF vals.config \in DOMAIN Files THEN Files[vals.config] ELSE <<>>
<1>1. "config" \in DOMAIN d /\ d.config = ConfigFile
  BY DefaultsType
<1>2. vals["config"] = IF "config" \in DOMAIN cmd THEN cmd["config"] ELSE ConfigFile
  BY <1>1 DEF FromCmd
<1> QED BY <1>2 DEF File

\* A variable no source names keeps its default.
LEMMA FileOptions ==
    ASSUME OptionsInv, ParseFile
    PROVE  OptionsInv'
<1>1. vm = cmd /\ pc = "stored"
  BY DEF ParseFile, OptionsInv
<1>2. PICK d \in InitVals : vals = FromCmd(d)
  BY <1>1 DEF OptionsInv
<1>3. File = IF vals.config \in DOMAIN Files THEN Files[vals.config] ELSE <<>>
  BY <1>2, FileAsked
<1>4. DOMAIN vals = DOMAIN d
      /\ \A n \in DOMAIN vals : vals[n] = IF n \in DOMAIN cmd THEN cmd[n] ELSE d[n]
  BY <1>2 DEF FromCmd
<1>5. ASSUME UNCHANGED <<program, cmd>> PROVE InitVals' = InitVals /\ File' = File
  BY <1>5 DEF InitVals, ConfigFile, File
<1>6. CASE Exit
  BY <1>6 DEF Exit, Goto, OptionsInv
<1>7. CASE /\ vals.config \notin DOMAIN Files
           /\ pc' = "parsed" /\ UNCHANGED <<program, cmd, vals>>
  <2>1. DOMAIN File = {}
    BY <1>3, <1>7
  <2>2. Asked
    BY <1>4, <2>1 DEF Asked
  <2>3. Asked'
    BY <1>5, <1>7, <2>2 DEF Asked
  <2> QED BY <1>7, <2>3 DEF OptionsInv
<1>8. CASE /\ vals.config \in DOMAIN Files
           /\ vm' = Store(vm, Files[vals.config]) /\ vals' = Notify(vm')
           /\ pc' = "parsed" /\ UNCHANGED <<program, cmd>>
  <2>1. vm' = Store(cmd, File)
    BY <1>1, <1>3, <1>8
  <2>2. DOMAIN vm' = DOMAIN cmd \cup DOMAIN File
        /\ \A n \in DOMAIN vm' : vm'[n] = IF n \in DOMAIN cmd THEN cmd[n] ELSE File[n]
    BY <2>1 DEF Store
  <2>3. DOMAIN vals' = DOMAIN vals
        /\ \A n \in DOMAIN vals : vals'[n] = IF n \in DOMAIN vm' THEN vm'[n] ELSE vals[n]
    BY <1>8 DEF Notify
  <2>4. ASSUME NEW n \in DOMAIN vals
        PROVE  IF n \in DOMAIN cmd THEN vals'[n] = cmd[n]
               ELSE IF n \in DOMAIN File THEN vals'[n] = File[n]
               ELSE vals'[n] = d[n]
    BY <1>4, <2>2, <2>3
  <2>5. Asked'
    BY <1>5, <1>8, <2>3, <2>4 DEF Asked
  <2> QED BY <1>8, <2>5 DEF OptionsInv
<1> QED BY <1>6, <1>7, <1>8 DEF ParseFile, Goto

\* No later step sets an option.
LEMMA RunOptions ==
    ASSUME OptionsInv, pc \notin {"start", "stored"}, UNCHANGED <<program, cmd, vals>>,
           pc' \notin {"start", "stored"}, pc = "exited" => pc' = "exited"
    PROVE  OptionsInv'
<1>1. InitVals' = InitVals /\ File' = File
  BY DEF InitVals, ConfigFile, File
<1>2. Asked => Asked'
  BY <1>1 DEF Asked
<1> QED BY <1>2 DEF OptionsInv

LEMMA NextOptions == OptionsInv /\ [Next]_vars => OptionsInv'
<1> SUFFICES ASSUME OptionsInv, [Next]_vars PROVE OptionsInv'
  OBVIOUS
<1>1. CASE Check \/ Fork \/ Listen \/ FindLibrary \/ OpenLibrary \/ Create \/ ReadData
           \/ ReadFails \/ ConstructFails \/ Destroy \/ CloseLibrary \/ Stop
  <2>1. /\ pc \notin {"start", "stored", "exited"} /\ pc' \notin {"start", "stored"}
        /\ UNCHANGED <<program, cmd, vals>>
    BY <1>1 DEF Check, Fork, Listen, FindLibrary, OpenLibrary, Create, ReadData, ReadFails,
                ConstructFails, Unwind, Destroy, CloseLibrary, Stop, Exit, Goto
  <2> QED BY <2>1, RunOptions
<1>2. CASE Connect \/ Accept \/ UNCHANGED vars
  <2>1. UNCHANGED <<program, cmd, vm, vals, pc>>
    BY <1>2 DEF Connect, Accept, vars
  <2>2. InitVals' = InitVals /\ File' = File
    BY <2>1 DEF InitVals, ConfigFile, File
  <2>3. \A d : FromCmd(d)' = FromCmd(d)
    BY <2>1 DEF FromCmd
  <2>4. Asked => Asked'
    BY <2>1, <2>2 DEF Asked
  <2>5. ASSUME NEW d \in InitVals, vals = FromCmd(d)
        PROVE  vals' = [n \in DOMAIN d |-> IF n \in DOMAIN cmd' THEN cmd'[n] ELSE d[n]]
    BY <2>1, <2>5 DEF FromCmd
  <2> QED BY <2>1, <2>2, <2>4, <2>5 DEF OptionsInv, FromCmd
<1> QED BY <1>1, <1>2, CommandLineOptions, FileOptions DEF Next, Go

\* A server runs with what it was asked for, whatever options there are, in
\* whatever order the two sources name them.
THEOREM RunsAsAsked == Spec => []ConfiguredAsAsked
<1>1. OptionsInv => ConfiguredAsAsked
  BY DEF OptionsInv, ConfiguredAsAsked, Serving, Asked
<1> QED BY InitOptions, NextOptions, <1>1, PTL DEF Spec
=============================================================================
