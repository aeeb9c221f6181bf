SPECIFICATION Spec
CONSTANTS
    left = left
    right = right
    Members <- Both
    Agents <- Both
    ById <- Both
    Continues <- Both
    Place <- OnePlace
    MaxDrains = 1
PROPERTY SparedAreResumed
SYMMETRY Alike
CHECK_DEADLOCK FALSE
