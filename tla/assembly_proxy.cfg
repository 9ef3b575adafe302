\* An http provider behind a proxy that wants credentials.
CONSTANTS
    PlainCalls = {p1}
    StreamCalls = {s1}
    Providers <- MCProviders
    None = None
SPECIFICATION AssemblySpec
INVARIANTS
    ProxyAuthenticationIsSent
SYMMETRY Symmetry
CHECK_DEADLOCK FALSE
