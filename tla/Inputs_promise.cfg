SPECIFICATION AlgorithmsSpec
CONSTANTS
    I32Max = 2
    MAX_LEN = 2
    Calls <- SubstringCalls
INVARIANTS PromiseKept
