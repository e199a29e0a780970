\* An OpenCode and a Codex session, in three environments: what is in flight
\* settles before archive and teardown; prompts fail; anything happens.
SPECIFICATION FairSpec
CONSTANTS
    s1 = s1
    s2 = s2
    b1 = b1
    b2 = b2
    t1 = t1
    t2 = t2
    NoBridge = NoBridge
    NoSession = NoSession
    Session = {s1, s2}
    Codex = {s2}
    Bridge = {b1, b2}
    Task = {t1, t2}
    Envs = {{"start", "reconnect", "exit"}, {"post"},
            {"start", "reconnect", "post", "exit", "early"}}
INVARIANTS OneListener 
PROPERTIES ArchivedStays TasksEnd
