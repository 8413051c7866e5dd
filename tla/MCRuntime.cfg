SPECIFICATION Spec
CONSTANTS
    p = p
    q = q
    r = r
    f = f
    g = g
    c = c
    d = d
    NULL = NULL
    Addresses = {p, q, r}
    Callbacks = {f, g}
    Clients = {c, d}
    MaxTls = 2
    MaxAtexit = 2
    MaxFls = 1
INVARIANTS HeapListSound CallsKept FlsPrivate
PROPERTY CallsEnd
