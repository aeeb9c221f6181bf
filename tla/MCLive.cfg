SPECIFICATION FairSpec
CONSTANTS
    s1 = s1
    s2 = s2
    Sessions <- Two
    Stagings <- OneOrBoth
    Screens = {"blank", "text", "big"}
    Blank = "blank"
    TooBig = {"big"}
    Titles = {"t"}
    MaxRooms = 2
    MaxEvents = 4
INVARIANTS
    ReadyIsTrue
    NoRoomIsLeftOpen
    ListedIsHeard
PROPERTIES
    ScreensArrive
    WishIsFollowed
