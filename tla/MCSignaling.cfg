SPECIFICATION Spec
CONSTANTS
    Tasks = {t1, t2}
    Peers = {p1, p2}
    SessionIds = {s1, s2}
    AgentKeys = {k1, k2}
    Absent = Absent
SYMMETRY Symmetry
INVARIANTS
    KeyFollowsStatus
    SessionLeadsToAgent
    InitiatedSessionStays
