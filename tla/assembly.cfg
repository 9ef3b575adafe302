\* Three providers, changed at any time, and three calls in flight.
CONSTANTS
    PlainCalls = {p1, p2}
    StreamCalls = {s1}
    Providers <- MCProviders
    None = None
SPECIFICATION AssemblySpec
INVARIANTS
    BaseUrlIsJoined
    UndisturbedIsOfOneProvider
    ProxyIsAuthenticated
SYMMETRY Symmetry
CHECK_DEADLOCK FALSE
