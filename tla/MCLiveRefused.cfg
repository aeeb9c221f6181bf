SPECIFICATION FairSpec
CONSTANTS
    s1 = s1
    s2 = s2
    Sessions <- Two
    Stagings <- JustOne
    Screens = {"blank"}
    Blank = "blank"
    TooBig = {}
    Titles = {"t"}
    MaxRooms = 1
    MaxEvents = 5
PROPERTY RefusalIsShown
