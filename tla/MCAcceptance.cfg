SPECIFICATION Spec
CONSTANTS
    MaxDown = 2
    Dirs = {"write"}
    Period = 2
    OfflineMax = 1
    ByteValues = 4
    FieldLen = 4
    MaxOvf = 2
    Codes <- MCCodes
    Power <- MCPower
    MaxFrames = 2
    MaxMore = 1
    MaxDamage = 1
    Slack = 1
INVARIANTS
    TypeOK
    PressTakenOnce
    IdleErrorsTold
    CodesInOrder
PROPERTIES
    StageKeyEnds
    UnplugNoticed
    FrameAnswered
CHECK_DEADLOCK FALSE
