SPECIFICATION Spec
CONSTANTS
    left = left
    right = right
    Members <- Both
    Agents <- Both
    ById <- Both
    Continues <- Both
    Place <- OnePlace
    MaxDrains = 2
INVARIANTS
    ToldAreRemembered
    CancelledNeverRestarts
PROPERTY DriversMindTheirRun
VIEW WithoutLastRound
SYMMETRY Alike
CHECK_DEADLOCK FALSE
