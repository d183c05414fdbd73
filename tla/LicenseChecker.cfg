\* The operator's licenses only: what Stripe does to them is LicenseServer's run.
SPECIFICATION Spec
CONSTANTS
    Sub = {}
    Tier = {"pro", "odd"}
    Unknown = {"odd"}
    Webhook = {}
    MaxChanges = 0
    MaxIssued = 2
    MaxCommands = 2
    MaxFailures = 1
    LastDay = 3
    Page = {p, q}
    EnvKey = {0}
    MaxRequests = 2
    Life = 2
    Grace = 1
SYMMETRY AnyPage
INVARIANTS
    CheckerTypeOK
    RestartKeepsTier
PROPERTIES
    Entitled
CHECK_DEADLOCK FALSE
