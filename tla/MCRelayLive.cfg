SPECIFICATION FairSpec
CONSTANTS
    None = None
    a = a
    b = b
    l1 = l1
    l2 = l2
    x = x
    y = y
    Computers <- Two
    Accounts = {x, y}
    Letters <- One
    From <- FromA
    To <- ToB
    Number <- Same
    Inbox = 1
    MaxBoxes = 2
    MaxPolls <- TwoOfB
    MaxLogins = 1
    MaxRestarts = 1
PROPERTIES
    MailIsFetched
    LinkComesBack
    EverySenderIsTold
