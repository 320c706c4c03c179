SPECIFICATION Spec
CONSTANTS
    MaxPriority = 2
    MaxTries = 3
    Legacy = {FALSE, TRUE}
    Faults = {"read", "write", "region", "verify", "post"}
INVARIANTS TypeOK BootsHighest OkayMeansActive CopyCurrent AttemptsBounded
PROPERTIES GoodSlotsStay
