\* Codex, and an OpenCode server of the older kind, whose deltas mean all that
\* those of a newer one do.  Two turns of two parts; a stream may be opened anew.
SPECIFICATION FairSpec
CONSTANTS
    Kinds = {"legacy", "codex"}
    MaxTurns = 2
    MaxItems = 2
    MaxStreams = 2
    MaxWire = 2
INVARIANTS NothingTwice  
PROPERTIES BusyEnds
CHECK_DEADLOCK FALSE
