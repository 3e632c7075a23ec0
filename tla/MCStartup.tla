------------------------------- MODULE MCStartup -------------------------------
(* Config files for XYEntrypoint's startup, over the command lines and     *)
(* texts of MCConfigLoad.                                                  *)
EXTENDS MCConfigLoad, Startup

\* Tokens: (tcp.bind, (exec, (log.level, (task.num-threads,
\* (events.max-events-at-once, 0, 4 and the strings below.
OBind == Open(<<"tcp", "bind">>)
OExec == Open(<<"exec">>)
OLog == Open(<<"log", "level">>)
OThreads == Open(<<"task", "num-threads">>)
OEvents == Open(<<"events", "max-events-at-once">>)
N0 == IntTok(0)
N4 == IntTok(4)
SLocal == StrTok(<<"127.0.0.1", ":", "9920">>)
SAny == StrTok(<<"0.0.0.0", ":", "9921">>)
SLong == StrTok(<<"fe80::1234:5678:9abc:def0", ":", "9920">>)
SNoPort == StrTok(<<"127.0.0.1">>)
SInit == StrTok(<<"init.slang">>)
SVerbose == StrTok(<<"verbose">>)
SLoud == StrTok(<<"loud">>)
SAuto == StrTok(<<"auto">>)

MCBytes == ("0.0.0.0" :> 7) @@ ("127.0.0.1" :> 9) @@ ("fe80::1234:5678:9abc:def0" :> 25)

Served(d) == [argv |-> <<AConfig, ACfg>>, fs |-> Files(d)]

\* `exec` with the default bind address: the config the repository's
\* scripts start the server with.
ExecStarts == {Served(<<>>), Served(<<OExec, SInit, C>>)}

\* Each check of XYEntrypoint, passed and refused: one and two bind
\* addresses, a long (IPv6) one, an exec list, and each refused value.
ServedStarts == ExecStarts \cup {
    Served(<<OBind, SLocal, SAny, C>>),
    Served(<<OBind, SLong, C, OExec, SInit, C>>),
    Served(<<OBind, N1, C>>),
    Served(<<OBind, SNoPort, C>>),
    Served(<<OExec, N1, C>>),
    Served(<<OLog, SVerbose, C, OThreads, SAuto, C>>),
    Served(<<OLog, SLoud, C>>),
    Served(<<OLog, N1, C>>),
    Served(<<OThreads, N4, C>>),
    Served(<<OThreads, SInit, C>>),
    Served(<<OEvents, N0, C>>)}

MCStartStarts == MCStarts \cup ServedStarts
====
