SPECIFICATION ModesSpec
CONSTANTS
    Room = 3
    Macros <- MCMacros
    Letters = {"A"}
    CharBits = 2
    OnesBits = 1
    Preamble = 3
    Rounds = 2
    MaxInputs = 3
    Refusals = TRUE
    AudioSize = 4
    IqSize = 4
    DemodSize = 6
    Frame = 2
    Nin = {2, 3}
    Few = 1
    MaxPut = 5
INVARIANTS ConsumerSet EachSampleOnce
PROPERTIES RecordingKept EotReturns StopEndsIfEmpty
