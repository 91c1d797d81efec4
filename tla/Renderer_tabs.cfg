SPECIFICATION Spec
CONSTANTS
    Sessions = {human, bot}
    Bots = {bot}
    Requests = {r1, r2}
    Widgets = {w1}
    Tokens = {t1, t2}
    NoToken = NoToken
    Titles = {a}
    Names = {f}
    NoPage = NoPage
    NoMessage = NoMessage
    NoEntry = NoEntry
    NoPayload = NoPayload
    NoId = NoId
    MaxAge = 1
    Horizon = 1
SYMMETRY Symmetry
INVARIANT TypeOK
INVARIANT ThankedMeansStoredOnce
INVARIANT FormFitsWidget
CHECK_DEADLOCK FALSE
