SPECIFICATION Spec
CONSTANTS
    MaxPriority = 2
    MaxTries = 3
    Legacy = {FALSE}
    Faults = {}
INVARIANTS SuffixNamesSlot
