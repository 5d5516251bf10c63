SPECIFICATION LiveSpec
CONSTANTS
    c1 = c1
    c2 = c2
    c3 = c3
    Nobody = Nobody
    Clients <- LiveClients
    Fds <- MCFds
    Units = 1
    MaxPolls = 5
    Backlog = 1
    SockCap = 1
    PollRoom = 1
    MaxMsgs = 2
    MaxRestarts = 1
PROPERTIES FastClientServed ClosedIsDropped
