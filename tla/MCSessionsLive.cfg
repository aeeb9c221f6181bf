SPECIFICATION FairSpec
CONSTANTS
    c1 = c1
    c2 = c2
    Clients <- OneClient
    MaxId = 1
    Inherited <- OneRecord
    Patterned = {1}
    ById = {1}
    Ticker = Ticker
    Restorer = Restorer
    Watcher = Watcher
    Drainer = Drainer
    Nobody = Nobody
PROPERTY DeathReachesTheList
