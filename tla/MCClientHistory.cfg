SPECIFICATION HistorySpec
CONSTANTS
    Hosts = {h1, h2}
    LocalHost = h1
    Desks = {d1}
    NoTarget = NoTarget
    MaxReconnectAttempts = 2
    MaxHistory = 2
INVARIANTS
    TypeOK
    ShownConnectedIsLive
    UserStopDisarms
    LiveSessionHasFullBudget
    ClockRunsWithSession
PROPERTIES
    NoDialAfterUserStop
    StopTakesEffect
    HistorySurvives
