SPECIFICATION Spec
CONSTANTS
    None = None
    a = a
    b = b
    l1 = l1
    l2 = l2
    x = x
    y = y
    Computers <- Two
    Accounts = {x, y}
    Letters <- Both
    From <- FromA
    To <- ToB
    Number <- Same
    Inbox = 1
    MaxBoxes = 2
    MaxPolls <- OnlyB
    MaxLogins = 1
    MaxRestarts = 0
INVARIANTS
    WaitersAreListed
    MailStaysInAccount
PROPERTY KeepsPromise
SYMMETRY Alike
