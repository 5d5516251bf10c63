SPECIFICATION LiveSpec
CONSTANTS
    Fds = {7, 8}
    Units = 2
    SockCap = 2
    MaxReqs = 3
    SizeOf <- MCSizes
    Garbage = {3, 14}
    MaxHups = 1
INVARIANTS PolledIsCurrent OnlyWholeMessages NothingSkipped
PROPERTIES RequestsSpec QueueEmpties AllProcessed
