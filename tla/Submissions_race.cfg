SPECIFICATION Spec
CONSTANTS
    Requests = {r1, r2, r3}
    Widgets = {w1}
    Tokens = {t1}
    NoToken = NoToken
    NoPayload = NoPayload
    NoId = NoId
    WebhookUrl = TRUE
    GeoLive = FALSE
    NarrowColumns = FALSE
    FailingSteps = {"enqueue", "jobs"}
SYMMETRY Symmetry
INVARIANT TypeOK
INVARIANT TokenStoredOnce
INVARIANT AnswersAgree
INVARIANT JobsFollowCommit
INVARIANT ServerErrorMeansDeleted
INVARIANT QueueNeverFailsLead
CHECK_DEADLOCK FALSE
