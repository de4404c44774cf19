SPECIFICATION Spec
CONSTANTS
    Work = {change}
    change = change
    MaxAttempts = 1
    MaxChanges = 1
    MaxStops = 1
    None = None
INVARIANTS RejectedIsUnsent
CHECK_DEADLOCK FALSE
