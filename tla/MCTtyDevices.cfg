SPECIFICATION Spec
CONSTANTS
    t1 = t1
    t2 = t2
    t3 = t3
    a = a
    b = b
    c = c
    NULL = NULL
    Threads = {t1, t2, t3}
    Cells = {a, b, c}
    MaxCount = 4
SYMMETRY Symmetry
INVARIANTS IdsTellApart DevicesListed
