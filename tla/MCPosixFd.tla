----------------------------- MODULE MCPosixFd ------------------------------
EXTENDS PosixFd, TLC

F(m, c, t, a) == [mode |-> m, create |-> c, trunc |-> t, append |-> a]

\* A reader that appends, a writer that creates, one that empties the file.
MCOpenFlags == {F("O_RDONLY", FALSE, FALSE, TRUE), F("O_RDWR", TRUE, FALSE, FALSE),
                F("O_WRONLY", FALSE, TRUE, TRUE)}
MCDistances == {-1, 2}
Symmetric == Permutations(Handles) \cup Permutations(Objects)
=============================================================================
