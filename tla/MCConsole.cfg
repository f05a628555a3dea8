SPECIFICATION Spec
CONSTANTS
    Decls <- MCDecls
    MaxParm = 2
    WordSize = 256
    Char <- MCChar
    CR = CR
    LF = LF
    Nul = Nul
    RecLen = 12
    Lines <- MCLines
    Means <- MCMeans
    Quick <- MCQuick
    InitArr = 2
    ScanArr = 1
    MaxArr = 3
    MaxAsked = 2
    MaxLines = 3
INVARIANTS
    TypeOK
    TextUntouched
    LinesRun
    AsTyped
    RuntimeNear
PROPERTIES
    Answered
    ReceptionOpens
