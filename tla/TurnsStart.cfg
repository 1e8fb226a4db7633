SPECIFICATION Spec
CONSTANTS
    Inputs = {u1}
    Mails = {}
    Triggers = {}
    Notes = {i1}
    MaxTurns = 2
    None = None
INVARIANTS
    InstallFindsNoTask
CHECK_DEADLOCK FALSE
