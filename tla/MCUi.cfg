SPECIFICATION Spec
CONSTANTS
    Callers = {"door", "other"}
    AlarmTexts = {"Close door now"}
    Types = {"info", "success", "error"}
    QueueBound = 3
INVARIANTS
    TypeOK
    IdleShowsAlarm
    NoTornAlarm
PROPERTIES
    AlarmSounds
    AlarmStops
