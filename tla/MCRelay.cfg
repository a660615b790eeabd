SPECIFICATION RelaySpec
CONSTANTS
    Sessions = {s1, s2}
    Endpoints = {e1, e2, e3}
    None = None
    RelayTasks = {t1, t2}
    Sizes = {0, 3}
    MaxPackets = 2
SYMMETRY MCSymmetry
INVARIANTS
    RoutedToPartner
    CountersFollowRoutes
