SPECIFICATION Spec
CONSTANTS
    Inputs = {u1}
    Mails = {}
    Triggers = {}
    Notes = {i1}
    MaxTurns = 2
    None = None
INVARIANTS
    TypeOK
    EachItemOnce
    ReportedOnce
    OneTurnAtATime
CHECK_DEADLOCK FALSE
