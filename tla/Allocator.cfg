\* Three requests of any kind, two offsets, one address; a clone may take
\* longer than the reservation lasts.
SPECIFICATION AllocSpec
CONSTANTS
    r1 = r1
    r2 = r2
    r3 = r3
    r4 = r4
    Request = {r1, r2, r3}
    Serves <- ServesAll
    Offsets = 2
    Pool = 1
    TTL = 2
    MaxTime = 4
    MaxRestarts = 1
SYMMETRY RequestSymmetry
INVARIANTS ReservedAlone RowsRespectReservations
CHECK_DEADLOCK FALSE
