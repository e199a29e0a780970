\* One VM, one snapshotter at a time, failing calls, one restart.
SPECIFICATION FairSpec
CONSTANTS
    v1 = v1
    v2 = v2
    t1 = t1
    t2 = t2
    t3 = t3
    VM = {v1}
    Task = {t1, t2, t3}
    Serves <- ServesOrderly
    Env = {"fault"}
    MaxRestarts = 1
    NoVM = NoVM
INVARIANT Settled
PROPERTIES SleepsAsPromised BootEnds HoldsEnd
