SPECIFICATION FairSpec
CONSTANTS
    s1 = s1
    s2 = s2
    Sessions <- Two
    Stagings <- OneOrBoth
    Screens = {"blank", "text", "big"}
    Blank = "blank"
    TooBig = {"big"}
    Titles = {"t"}
    MaxRooms = 1
    MaxEvents = 4
PROPERTY EveryScreenArrives
