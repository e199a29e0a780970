\* Two VMs and two slots, so that one may follow the other on its ports.
SPECIFICATION Spec
CONSTANTS
    VMs = {v1, v2}
    NoVM = NoVM
    Slots = {s1, s2}
SYMMETRY Symmetric
INVARIANTS FirewallCurrent WakeOnConnect ProxiesGo
