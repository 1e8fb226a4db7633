SPECIFICATION Spec
CONSTANTS
  N = 3
  Numbers = {0, 1, 2, 3, 4}
  MaxTasks = 2
  MaxMembers = 2
  Answers <- MCAnswers
  Audits <- MCAudits
  Callers = {"pipeline", "evaluation"}
CHECK_DEADLOCK FALSE
INVARIANTS PartitionOfAtoms FirstClaimWins AuditIsLoud GuardKeepsSegments
