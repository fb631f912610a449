SPECIFICATION FairSpec
CONSTANTS
    team = team
    gamecard = gamecard
    first = first
    second = second
    NoConnection = NoConnection
    Subscribers = {team, gamecard}
    Connections = {first, second}
    Clients <- ClientsOf
    MaxMessages = 2
INVARIANT NoMessageMissed
INVARIANT SentStaysCached
INVARIANT OnceEach
PROPERTY RequestEnds
CHECK_DEADLOCK FALSE
