CONSTANTS
    p1 = p1 k1 = k1 g1 = g1 h1 = h1 x1 = x1
    Prompt = {p1}
    Compact = {k1}
    Steer = {}
    StateProbe = {g1}
    HistoryProbe = {h1}
    Spont = {x1}
    NoCmd = NoCmd
    Retirer = Retirer
    QueueCap = 1
    Workloads = {{p1, g1, h1}, {p1, x1}, {k1}}
SPECIFICATION FairSpec
PROPERTIES IntentSettles EveryCallReturns
