SPECIFICATION FairSpec
CONSTANTS
    Emails = {e1, e2}
    Ids = {a}
    LinkEmail = e1
    None = None
    MaxFlows = 2
    Names = {n1}
    Bad = Bad
    MaxPolls = 3
    MaxUpsets = 2
    VMs = {v1}
    MaxLoads = 3
    Items = {i1, i2}
    Dirs = {root, sub}
    Root = root
    MaxTerm = 2
    MaxReqs = 2
INVARIANTS OwnFlow OneAccount RoutesAgree PanelAgrees TabsSound SpinnersEnd
PROPERTIES DetailFollows 
CHECK_DEADLOCK FALSE
