CONSTANTS
    k1 = k1 x1 = x1
    Prompt = {}
    Compact = {k1}
    Steer = {}
    StateProbe = {}
    HistoryProbe = {}
    Spont = {x1}
    NoCmd = NoCmd
    Retirer = Retirer
    QueueCap = 1
    Workloads = {{k1, x1}}
SPECIFICATION Spec
INVARIANT SettlementReleases
