CONSTANTS
    Source <- MCSource
    Star = Star
    Quest = Quest
    Comma = Comma
    Slash = Slash
    Dash = Dash
    Last = Last
    Near = Near
    Other = Other
    Refused = Refused
    Free = {2, 3, 5}
    Zone <- MCZone
    Start <- MCStart
    HoursPerDay = 4
    MinutesPerHour = 2
    SecondsPerMinute = 2
    MaxIterations = 25
    Years = 5
    None = None
SPECIFICATION Spec
INVARIANTS
    TypeOK
    ParserIsSound
    FieldsAreRead
    NextIsEarliest
    RunsOnAllowedDay
    EastIsLater
CHECK_DEADLOCK FALSE
