SPECIFICATION FairSpec
CONSTANTS
    Daemons = {"d1", "d2"}
    Nothing = "nothing"
    PlainFile = "file"
    Clients = {"c1", "c2"}
    MaxRequests <- OneCaller
    Watched = {"c1", "d1"}
INVARIANTS TypeOK OpenIsHeld
PROPERTIES NoTakeover AskIsAnswered ClosedIsRemoved
CHECK_DEADLOCK FALSE
