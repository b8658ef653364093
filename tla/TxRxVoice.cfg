SPECIFICATION FairSpec
CONSTANTS
    home = home
    rxonly = rxonly
    Cw = FALSE
    Split = FALSE
    Freq = {home, rxonly}
    TxFreq = {home}
    Tunable = {home, rxonly}
    Home = home
    Debounce = 0
    Lockout = 0
    LoFaults = 1
    KeyRace = FALSE
    RemotePtt = TRUE
INVARIANTS TuneMeansTransmit TransmitsInBand
PROPERTIES TransmissionEnds LoFollows
