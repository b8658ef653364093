SPECIFICATION Spec
CONSTANTS
    Size = 4
    CmdLen = 2
    MaxPacket = 2
    BlockLen = 3
    NBlocks = 2
    Timeout = 2
    AckWait = 1
    RecvWait = 2
    MaxLoop = 1
INVARIANT OnlyWholeCommands
PROPERTIES ExpiresOnlyStale CloneEnds LineReleaseEndsPtt
