\* --config ./cfg with no file (the default bind address alone) and with
\* (exec "init.slang").
CONSTANTS
    Starts <- ExecStarts
    DefaultPath <- MCDefaultPath
    ArgsPath <- MCArgsPath
    Bytes <- MCBytes
SPECIFICATION StartSpec
CHECK_DEADLOCK FALSE
INVARIANT
    EntryArgsLive
