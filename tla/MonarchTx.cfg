\* The background syncer and the settings page's batches, with one change of the
\* token and two failures of any kind. A process without a token only waits:
\* deadlock is not an error.
SPECIFICATION FairSpec
CONSTANTS
    Tx = {1, 2}
    Worthless = {}
    MaxJobs = 1
    MaxChanges = 1
    MaxFailures = 2
INVARIANTS
    TypeOK
    SyncedOnce
PROPERTIES
    DisconnectStopsLoop
    AllSynced
CHECK_DEADLOCK FALSE
