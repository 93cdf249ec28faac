CONSTANTS
    HoursPerDay = 4
    MinutesPerHour = 6
    SecondsPerMinute = 6
    Star = Star
    Quest = Quest
    Comma = Comma
    Slash = Slash
    Dash = Dash
    Last = Last
    Near = Near
    Other = Other
    Refused = Refused
    x = x
    y = y
    f = f
    Loader = {l1, l2}
    ID = {x, y}
    Name = {f}
    Fn = {plain, withContext, unfit}
    Wrappable = {plain, withContext}
    Location = {local}
    Local = local
    Expr <- MCExpr
    Unsatisfiable <- MCUnsatisfiable
    Config <- MCConfig
    None = None
SPECIFICATION Spec
INVARIANTS
    PrefixIsLoaded
    ReloadNeedsRemoval
SYMMETRY Symmetry
