\* Requests that share a credential, and streams of each protocol.
SPECIFICATION Spec
CONSTANTS
    None = None
    Requests = {p, q, r}
    Configs <- MCConfigs
    Attempts = 5
    MaxTokens = 3
    MaxEvents = 5
SYMMETRY Symmetry
CHECK_DEADLOCK FALSE
INVARIANTS  PostsSound 
