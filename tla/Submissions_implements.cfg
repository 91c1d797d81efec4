SPECIFICATION Spec
CONSTANTS
    Requests = {r1, r2}
    Widgets = {w1, w2}
    Tokens = {t1}
    NoToken = NoToken
    NoPayload = NoPayload
    NoId = NoId
    WebhookUrl = FALSE
    GeoLive = TRUE
    NarrowColumns = TRUE
    FailingSteps = {"insert", "refresh", "reconcile", "enqueue", "jobs", "reread"}
PROPERTY ImplementsLeadCapture
PROPERTY StoredLeadIsAcknowledged
CHECK_DEADLOCK FALSE
