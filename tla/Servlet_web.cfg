SPECIFICATION FairSpec
CONSTANTS
    Workers = {w1, w2}
    Clients = {c1, c2}
    Prompt = {c1}
    Ids = {s1, s2}
    None = None
    MaxForward = 1
    MaxStarts = 2
    Handlers = {"plain", "touch", "invalidate", "forward", "throw"}
    Careless = FALSE
INVARIANT SessionsSound
PROPERTIES BindsValid RequestsEnd StopWaitsOnlyForClients
CHECK_DEADLOCK FALSE
