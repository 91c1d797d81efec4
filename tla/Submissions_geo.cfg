SPECIFICATION Spec
CONSTANTS
    Requests = {r1}
    Widgets = {w1}
    Tokens = {t1}
    NoToken = NoToken
    NoPayload = NoPayload
    NoId = NoId
    WebhookUrl = FALSE
    GeoLive = TRUE
    NarrowColumns = TRUE
    FailingSteps = {}
INVARIANT StoredWithOrWithoutGeo
CHECK_DEADLOCK FALSE
