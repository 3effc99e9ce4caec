SPECIFICATION Spec
CONSTANTS
    GPIOA = GPIOA
    GPIOB = GPIOB
    strike = strike
    enable = enable
    data = data
    ui = ui
    fingerprint = fingerprint
    Banks <- MCBanks
    Pins <- MCPins
    Threads <- MCThreads
    LockThread = fingerprint
    LockBank = GPIOA
    LockPins <- MCLockPins
    DisplayPins <- MCDisplayPins
    Address = 32
    Handle = 4
INVARIANT InitializedIsLow
