SPECIFICATION DisplaySpec
CONSTANTS
    GPIOA = GPIOA
    GPIOB = GPIOB
    ui = ui
    fingerprint = fingerprint
    Banks <- MCBanks
    Pins <- MCPins
    Threads <- MCThreads
    LockThread = fingerprint
    LockBank = GPIOA
    LockPins <- MCLockPins
    DisplayPins <- MCDisplayPins
    Address = 32
    Handle = 4
    UiThread = ui
    ColorBank = GPIOB
    Characters <- MCCharacters
    Commands <- MCCommands
    Colors <- MCColors
INVARIANTS
    DisplayTypeOK
    SettledPinsHold
    SettledLockObeyed
    SoleBankExact
    BootResyncs
    BytesArrive
