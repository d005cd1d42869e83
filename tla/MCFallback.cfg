\* A credential stored while the keyring does not answer.
SPECIFICATION VaultSpec
CONSTANTS
    w1 = w1
    w2 = w2
    gw = gw
    n1 = n1
    n2 = n2
    s1 = s1
    s2 = s2
    Writer <- WriterDef
    Gateway = gw
    Name <- NameDef
    Secret <- SecretDef
    Backends <- BackendsDef
    MaxOps = 4
    None = None
    Empty = Empty
    Torn = Torn
SYMMETRY Symmetry
INVARIANT FallbackReliable
\* The number of operations is bounded.
CHECK_DEADLOCK FALSE
