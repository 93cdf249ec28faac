SPECIFICATION Spec
CONSTANTS
    i1 = i1
    i2 = i2
    Null = Null
    ID <- MCID
    Task <- MCFarTask
    tickDuration <- MCTickDuration
    Size = 2
    Levels = 2
    MaxTime = 8
PROPERTY AddedTaskExists
