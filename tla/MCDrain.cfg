SPECIFICATION Spec
CONSTANTS
    resumes = resumes
    writes = writes
    plain = plain
    Members <- All
    Agents <- All
    Resumable <- One
    Patterned <- Judged
    Now = FALSE
    Wait = 4
    NudgeWait = 2
    Settle = 2
    UnreadyCap = 3
    MaxDelay = 2
INVARIANT EndsInTime
PROPERTIES
    MarkedForAReason
    RestIsReal
    KeepsPromise
VIEW WithoutPast
