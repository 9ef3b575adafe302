\* A base_url with a colon in its path.
CONSTANTS
    PlainCalls = {p1}
    StreamCalls = {s1}
    Providers <- Gateways
    None = None
SPECIFICATION AssemblySpec
INVARIANTS
    BaseUrlIsJoined
SYMMETRY Symmetry
CHECK_DEADLOCK FALSE
