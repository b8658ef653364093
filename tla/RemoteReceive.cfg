SPECIFICATION ReceiveSpec
CONSTANTS
    Cmd <- MCCmd
    Other <- MCOther
    Noise <- MCNoise
    NoCmd = NoCmd
    SIZE = 2
    MaxLen = 6
INVARIANT OnlySentActedOn
PROPERTIES DecodedAsBuilt GarbledDropped ImplementsDropOldest GetsThrough
