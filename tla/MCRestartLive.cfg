SPECIFICATION FairSpec
CONSTANTS
    left = left
    right = right
    Members <- One
    Agents <- One
    ById <- One
    Continues <- One
    Place <- OnePlace
    MaxDrains = 2
PROPERTIES
    UnfollowedDrainEnds
    FinishingEnds
CHECK_DEADLOCK FALSE
