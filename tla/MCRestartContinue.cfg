SPECIFICATION Spec
CONSTANTS
    left = left
    right = right
    Members <- Both
    Agents <- Both
    ById <- Both
    Continues <- Both
    Place <- OnePlace
    MaxDrains = 2
INVARIANT ContinuedAreTold
VIEW WithoutLastRound
SYMMETRY Alike
CHECK_DEADLOCK FALSE
