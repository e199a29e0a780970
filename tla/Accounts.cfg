\* Two users and three VMs; the plan has memory for one of them and disk for
\* two, so that every check refuses somewhere.
SPECIFICATION Spec
CONSTANTS
    Users = {u1, u2}
    VMs = {v1, v2, v3}
    Nobody = Nobody
    Mem <- One
    Disk <- One
    MaxRam = 1
    MaxDisk = 2
    Lesser = {"editor"}
SYMMETRY Alike
INVARIANTS  OwnerKnown AccessNeedsRow
