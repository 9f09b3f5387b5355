SPECIFICATION FairSpec
CONSTANTS
    NoToken = NoToken
    Tokens = {t1, t2}
    Handlers = {h1, h2}
    TTL = 1
    ReviewTimeout = 1
INVARIANTS
    TypeOK
    EntriesAuthenticated
PROPERTIES
    StalenessBounded
    ExpiredEntriesGo
    EveryTokenDecided
