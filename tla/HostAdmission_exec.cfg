CONSTANTS
    p1 = p1 k1 = k1 s1 = s1 g1 = g1 h1 = h1 x1 = x1
    Prompt = {p1}
    Compact = {k1}
    Steer = {s1}
    StateProbe = {g1}
    HistoryProbe = {h1}
    Spont = {x1}
    NoCmd = NoCmd
    Retirer = Retirer
    QueueCap = 1
    Workloads = {{p1, k1, x1}, {p1, s1, g1, h1}}
SPECIFICATION Spec
INVARIANTS TypeOK ExecutionCovered NotifiedCovered RetiredQuiet ReleasedUnlessMisbound
PROPERTY OnlyOwnFrameSettles
