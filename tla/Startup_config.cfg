\* Every config text of up to five lexer calls, longer hand-written ones,
\* LoadConfig's argument and default-file paths, and each check XYEntrypoint
\* makes of the loaded config.
CONSTANTS
    Starts <- MCStartStarts
    DefaultPath <- MCDefaultPath
    ArgsPath <- MCArgsPath
    Bytes <- MCBytes
SPECIFICATION StartSpec
\* XYEntrypoint ends: it returns -1, or every entry point has started.
CHECK_DEADLOCK FALSE
INVARIANTS
    LoadIsTreeMeaning
