SPECIFICATION Spec
CONSTANTS
    c1 = c1
    c2 = c2
    c3 = c3
    Nobody = Nobody
    Clients <- MCClients
    Fds <- MCFds
    Units = 2
    MaxPolls = 5
    Backlog = 1
    SockCap = 2
    PollRoom = 1
    MaxMsgs = 2
    MaxRestarts = 1
INVARIANTS TableNeverOverrun
