CONSTANTS
    Size = 3
    Word = 12
    Chars = {a, b}
    Producers = {keyboard}
    Consumers = {reader}
    Flushers = {reader}
    Nothing = Nothing
SPECIFICATION Spec
PROPERTY ImplementsQueue
