SPECIFICATION Spec
CONSTANTS
    SizeOf <- MCSizes
    Reconnects = TRUE
    Garbage = {3, 14}
    MaxHups = 1
INVARIANTS OnlyWholeMessages
