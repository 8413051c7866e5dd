SPECIFICATION Spec
CONSTANTS
    MaxFds = 2
    Handles = {h1, h2, h3}
    Objects = {o1, o2, o3}
    Files = {f1}
    OpenFlags <- MCOpenFlags
    Counts = {1, 2}
    Distances <- MCDistances
    LongMax = 2
    MaxSize = 4
    Null = Null
SYMMETRY Symmetric
CHECK_DEADLOCK FALSE
INVARIANTS HandlesInTable
PROPERTIES ErrorsChangeNothing ImplementsDescriptors
