SPECIFICATION KeySpec
CONSTANTS
    home = home
    other = other
    Cw = TRUE
    Split = TRUE
    Freq = {home, other}
    TxFreq = {home, other}
    Tunable = {home, other}
    Home = home
    Debounce = 1
    Lockout = 1
    LoFaults = 0
    KeyRace = FALSE
    RemotePtt = FALSE
    CwBreak = 2
    LongPresses = TRUE
INVARIANTS UserDisableIsSilent ReceiveDialKept PowerIsTemporary SomethingEndsIt
PROPERTY KeyedTransmissionEnds
