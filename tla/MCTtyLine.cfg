CONSTANTS
    InSize = 2
    OutSize = 2
    MaxRead = 2
    Keys = {"x", "cr", "erase", "kill", "eof"}
    Prints = {"nl"}
    Termios <- MCTermios
    Texts <- MCTexts
SPECIFICATION LineSpec
INVARIANTS
    LineTypeOK
    EraseDebris
PROPERTIES
    QueueUnlessErased
