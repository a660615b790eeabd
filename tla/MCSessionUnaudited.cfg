SPECIFICATION Spec
CONSTANTS
    Tasks = {t1, t2}
    DeviceIds = {d1}
    Tokens = {k1}
    SessionIds = {s1}
    Unknown = Unknown
    Absent = Absent
    Bytes <- MCBytes
    MaxEvents = 2
INVARIANTS
    EverySessionIsAudited
