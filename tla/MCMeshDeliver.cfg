SPECIFICATION FairSpec
CONSTANTS
    Sessions = {1, 2}
    Agents = {1, 2}
    Me = Me
    other = other
    a1 = a1
    a2 = a2
    own = own
    Peers <- Computers
    Messages <- Two
    Sender <- From
    Address <- To
    QueueCap = 1
    Clients = {c}
    Link = Link
    Ticker = Ticker
INVARIANTS
    OneAtATime
    TypeOK
    ReceiptIsTrue
    HeldIsNotTyped
    RemovedIsForgotten
PROPERTIES
    KeepsMail
    QueueIsEmptied
