\* The two loops of one poll, a wake in between; nothing fails.
SPECIFICATION Spec
CONSTANTS
    v1 = v1
    v2 = v2
    t1 = t1
    t2 = t2
    t3 = t3
    VM = {v1, v2}
    Task = {t1, t2}
    Serves <- ServesIdle
    Env = {}
    MaxRestarts = 0
    NoVM = NoVM
INVARIANT AsleepHasImage
