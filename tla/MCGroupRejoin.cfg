SPECIFICATION Spec
CONSTANTS
    Computers = {a, b, c}
    Joins = {j1}
    MaxCodes = 3
    MaxVersion = 3
    MaxAsks = 1
SYMMETRY Alike
INVARIANT RosterIsTaken
CHECK_DEADLOCK FALSE
