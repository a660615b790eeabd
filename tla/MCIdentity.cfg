SPECIFICATION FairSpec
CONSTANTS
    Tasks = {t1, t2, t3}
    DeviceIds = {d1, d2}
    Tokens = {k1, k2}
    Absent = Absent
INVARIANTS
    TokenLeadsToItsDevice
    ResponseIsUsable
PROPERTIES
    WaitingTaskFinishes
