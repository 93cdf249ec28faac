CONSTANTS
    HoursPerDay = 4
    MinutesPerHour = 6
    SecondsPerMinute = 6
    Star = Star
    Quest = Quest
    Comma = Comma
    Slash = Slash
    Dash = Dash
    Last = Last
    Near = Near
    Other = Other
    Refused = Refused
    Interval <- MCInterval
    Weekday = {0, 5}
    Time <- MCTime
    Location = {local, other}
    MaxTasks = 1
SPECIFICATION Spec
SYMMETRY LocationSymmetry
INVARIANTS
    ScheduleIsAsAsked
    NewBuilderWorks
    SameIDSameLocalTimes
