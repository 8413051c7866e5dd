SPECIFICATION Spec
CONSTANTS
    f = f
    g = g
    p = p
    q = q
    y = y
    n = n
    left = left
    right = right
    Names = {f, g}
    Chunks = {p, q}
    MaxChunks = 2
    MaxPages = 2
    Letters = {y, n}
    ShiftKeys = {left, right}
    MaxLine = 3
INVARIANTS ScreenShowsLine CopyFaithful KeyboardOwned
PROPERTIES ShiftSticksUnseen FilesKept HandlesReturned CommandsEnd
