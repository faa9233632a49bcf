SPECIFICATION Spec
CONSTANTS
    Jobs = {j1}
    Cancels = {c1}
    MaxKills = 1
    Nobody = Nobody
    None = None
    Error = Error
CHECK_DEADLOCK FALSE
INVARIANT KilledJobsAreReconciled
