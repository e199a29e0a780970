\* A session there is and one that is created, two requests at a time.
SPECIFICATION PanelSpec
CONSTANTS
    Old = {a}
    New = {b}
    NoSession = NoSession
    MaxLog = 3
    MaxReqs = 2
    MaxQueue = 2
    MaxActs = 2
INVARIANTS  CardsBelong
CHECK_DEADLOCK FALSE
