SPECIFICATION Spec
CONSTANTS
    Sessions = {1, 2}
    Agents = {1, 2}
    Me = Me
    other = other
    a1 = a1
    a2 = a2
    own = own
    Peers <- Computers
    Messages <- Three
    Sender <- FromAll
    Address <- ToEach
    QueueCap = 2
    Clients = {c}
    Link = Link
    Ticker = Ticker
INVARIANT QueuedIsKept
