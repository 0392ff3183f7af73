CONSTANTS
    s1 = s1  s2 = s2
    Sessions <- MCSessions
    MaxRounds = 2
SPECIFICATION FairSpec
PROPERTY KillsComplete
