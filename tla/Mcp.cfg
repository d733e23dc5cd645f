\* One client over each kind of transport, other clients of the server; or
\* a language server of two calls.
SPECIFICATION ClientsSpec
CONSTANTS
    t1 = t1  t2 = t2  s1 = s1  s2 = s2
    Kinds = {"stdio", "sse", "http"}
    Tenants = {t1, t2}
    Me = t1
    Sids = {s1, s2}
    MaxSessions = 2
    MaxSessionsPerTenant = 1
    MaxCalls = 2
    MaxItems = 2
    MaxPages = 2
    MaxNoise = 1
    MaxOutsiders = 1
    MaxFaults = 2
    MaxReconnects = 2
    MaxReads = 1
    MaxEvents = 3
    MaxPeerEvents = 3
    None = None
    Requests = {"a", "b"}
    Operations <- MCOperations
    Sessions = {1, 2}
    MaxMessages = 1
    MaxTalk = 2
    NoPath = ""
    Bad = Bad
    Nothing = Nothing
SYMMETRY Symmetry
CHECK_DEADLOCK FALSE
INVARIANTS OutcomeHonest CatalogPinned SessionsSound  
