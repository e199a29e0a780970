\* One VM, three handlers of any kind, every outside event, one restart.
SPECIFICATION Spec
CONSTANTS
    v1 = v1
    v2 = v2
    t1 = t1
    t2 = t2
    t3 = t3
    VM = {v1}
    Task = {t1, t2, t3}
    Serves <- ServesAll
    Env = {"fault", "halt", "relief"}
    MaxRestarts = 1
    NoVM = NoVM
SYMMETRY TaskSymmetry
INVARIANTS BootExclusive CreationUndisturbed
