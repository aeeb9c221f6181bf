SPECIFICATION Spec
CONSTANTS
    None = None
    old = old
    new = new
    s1 = s1
    s2 = s2
    Chats = {old, new}
    Sessions = {s1, s2}
    Texts <- Some
    Paired <- Owners
    MapCap = 1
    MaxBridges = 2
    MaxUpdates = 2
    MaxPushes = 1
SYMMETRY Alike
INVARIANT HearsInItsTime
PROPERTY KeepsPromise
CHECK_DEADLOCK FALSE
