\* Three callers, requests that fail, processes that exit, a wake or a boot in
\* between; pgrep tells the truth.
SPECIFICATION FairSpec
CONSTANTS
    c1 = c1
    c2 = c2
    c3 = c3
    Caller = {c1, c2, c3}
    Env = {"fault", "exit", "cold"}
    Pgrep = {"works"}
    MaxWakes = 1
    Boot = Boot
    NoCaller = NoCaller
 
PROPERTIES KeepsPromise CallersReturn
CHECK_DEADLOCK FALSE
