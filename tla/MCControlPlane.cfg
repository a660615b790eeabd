SPECIFICATION FairSpec
CONSTANTS
    Tasks = {t1, t2, t3}
    DeviceIds = {d1, d2}
    Tokens = {k1, k2}
    SessionIds = {s1, s2}
    Unknown = Unknown
    Absent = Absent
    Bytes <- MCBytes
    MaxEvents = 3
INVARIANTS
    TypeOK
    TargetCanAuthenticate
    AnsweredIsAudited
    RegistrationComesFirst
PROPERTIES
    RequestIsAnswered
