CONSTANTS
    k1 = k1
    k2 = k2
    s1 = s1
    s2 = s2
    a1 = a1
    c1 = c1
    None = None
    PublicKeys = {k1, k2}
    PrivateKeys = {s1, s2}
    Addrs = {a1}
    Chains = {c1}
    Matching <- MCMatching
SPECIFICATION Spec
CHECK_DEADLOCK FALSE
INVARIANT TypeOK
INVARIANT BuiltConfigCoherent
