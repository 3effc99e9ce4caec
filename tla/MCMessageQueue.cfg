SPECIFICATION Spec
CONSTANTS
    Producers = {door, fingerprint}
    Consumers = {ui, ui2}
    Messages = {m1, m2}
    Nothing = nothing
    Bound = 3
INVARIANTS
    TypeOK
    NoLostWakeUp
PROPERTY ImplementsFifo
