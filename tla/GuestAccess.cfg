\* An SSH connection and a terminal over four snapshots; two users, and a key that
\* both may register and a terminal offers.
SPECIFICATION FairBoth
CONSTANTS
    Clients = {c1}
    Tabs = {t1}
    MaxSnaps = 4
    MaxFails = 2
    Users = {u1, u2}
    Keys = {k1}
    Offered = k1
INVARIANTS SleepersWarned  KeysDelivered
PROPERTIES RequestsEnd 
CHECK_DEADLOCK FALSE
