SPECIFICATION FairSpec
CONSTANTS
    Inputs = {u1}
    Mails = {m1}
    Triggers = {m1}
    Notes = {}
    MaxTurns = 2
    None = None
PROPERTIES
    GoesIdle
CHECK_DEADLOCK FALSE
