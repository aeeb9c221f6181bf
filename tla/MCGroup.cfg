SPECIFICATION Spec
CONSTANTS
    Computers = {a, b, c}
    Joins = {j1}
    MaxCodes = 2
    MaxVersion = 3
    MaxAsks = 2
SYMMETRY Alike
INVARIANTS
    CodesAreForOne
    MembersWereInvited
    NotesAreTrue
PROPERTIES
    KeepsRosters
    GroupIsKept
CHECK_DEADLOCK FALSE
