SPECIFICATION EitherSpec
CONSTANTS
    MaxNoise = 3
    MaxPolls = 3
INVARIANTS Test1OnlyIntact DoneMeansExecuted X10ExecutesOnce
PROPERTIES Test1Ends X10Ends
