\* Four starts, each loading a configuration other than the one its
\* command line and files give: an absolute --config path, the default
\* file alone, a bare word on the command line, and a one-value override
\* of a list.
CONSTANTS
    Starts <- EffectiveStarts
    DefaultPath <- MCDefaultPath
    ArgsPath <- MCArgsPath
SPECIFICATION Spec
CHECK_DEADLOCK FALSE
INVARIANT
    EffectiveConfig
