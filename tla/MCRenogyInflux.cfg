SPECIFICATION LiveSpec
CONSTANTS
    Units = 2
    SockCap = 2
    BufCap = 3
    Secs = 2
    Sleep = 2
PROPERTIES ReadsPaced OkMeansStored TermExits
