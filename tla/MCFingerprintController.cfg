SPECIFICATION Spec
CONSTANTS
    Users = {alice, bob}
    NoCredential = none
    Exceptions = {"int", "TTransportException"}
    UnlockDuration = 4
    SettleTime = 2
    PollPeriod = 1
    MaxLate = 1
    MaxSkew = 2
INVARIANTS
    TypeOK
    StrikeOpenOnlyForGrant
    LockMirrorsPin
    HoldBounded
    OpenDoorRelocked
    TerminatedLocked
PROPERTIES
    OneVerdict
    HoldEnds
