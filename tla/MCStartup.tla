----------------------------- MODULE MCStartup -----------------------------
(***************************************************************************)
(* Command lines that give all, some or nothing, name another file, ask    *)
(* for help or have an option or a value that is refused, over the files   *)
(* of the repository and two of a user.                                    *)
(***************************************************************************)
EXTENDS Startup, TLC

MCRubbish == {0, 4711}

MCFiles ==
    "reminder-dp.ini" :> [port |-> 9999, type |-> "text", path |-> "/text.rdb"] @@
    "reminder-http.ini" :> [port |-> 9001, host |-> "localhost", path |-> "./"] @@
    "my-dp.ini" :> [port |-> 9100, type |-> "sqlite", path |-> "/my.db", config |-> "none"] @@
    "my-http.ini" :> [port |-> 8000, host |-> "any", datahost |-> "h", dataport |-> 9100, root |-> "/www"]

MCCmdLines == [
    server |-> {
        <<>>,
        [config |-> "my-dp.ini"],
        [config |-> "my-dp.ini", port |-> 9200],
        [config |-> "none"],
        [config |-> "none", type |-> "file", path |-> "/a"],
        [config |-> "none", type |-> "file", path |-> "/a", debug |-> TRUE, port |-> 9300],
        [type |-> "sqlite", debug |-> TRUE],
        [config |-> "my-dp.ini", help |-> TRUE],
        [config |-> "my-dp.ini", port |-> NoPort],
        [config |-> "my-dp.ini", port |-> 0]},
    http |-> {
        <<>>,
        [config |-> "my-http.ini"],
        [config |-> "my-http.ini", port |-> 8001],
        [config |-> "none", datahost |-> "h", root |-> "/w"],
        [config |-> "none", datahost |-> "h", root |-> "/w", port |-> 80, dataport |-> 9000],
        [config |-> "none", path |-> "/w"]}]
=============================================================================
