CONSTANTS
    s1 = s1  s2 = s2
    Sessions <- MCSessions
    MaxRounds = 2
SYMMETRY MCSymmetry
SPECIFICATION Spec
INVARIANTS KillsMatchState ExpiryAbortsOnlyOverdue
