SPECIFICATION Spec
CONSTANTS
    MaxOpenTime = 4
    Period = 1
    MaxLate = 1
    MaxSkew = 1
    Cap = 15
INVARIANT ReportsASession
