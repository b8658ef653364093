SPECIFICATION Spec
CONSTANTS
    Room = 3
    Macros <- MCMacros
    Letters = {"A"}
    CharBits = 2
    OnesBits = 2
    Preamble = 3
    Rounds = 2
    MaxInputs = 3
    Refusals = TRUE
PROPERTY StopEnds
