SPECIFICATION FairSpec
CONSTANTS
    Hosts = {h1}
    LocalHost = h1
    Desks = {d1}
    NoTarget = NoTarget
    MaxReconnectAttempts = 2
    MaxHistory = 1
PROPERTIES
    KeepsReconnecting
