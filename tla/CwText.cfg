SPECIFICATION Spec
CONSTANTS
    Room = 2
    Morse <- MCMorse
    Macros <- MCMacros
    ElementTime <- MCElementTime
    Pause = 1
    Space = 4
    Settings <- MCSettings
    MaxCode = 2
    Refusals = TRUE
INVARIANTS SentAsWritten
PROPERTIES SqueezeAlternates TextIsSent KeyedTransmissionEnds
