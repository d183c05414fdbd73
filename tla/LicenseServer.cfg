\* One subscription, two webhook requests at once, up to two changes of plan, one
\* command of the operator, one failure.
SPECIFICATION ServerSpec
CONSTANTS
    Sub = {"s1"}
    Tier = {"pro", "power"}
    Webhook = {v, w}
    MaxChanges = 2
    MaxIssued = 2
    MaxCommands = 1
    MaxFailures = 1
    LastDay = 0
SYMMETRY AnyWebhook
INVARIANTS
    TypeOK
    LicenseFollowsSubscription
    DeletionHitsShownKey
CHECK_DEADLOCK FALSE
