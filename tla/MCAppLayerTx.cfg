SPECIFICATION Spec
CONSTANTS
  Loggers = {early, cond}
  LogProgress <- MCLogProgress
  Conditional = {cond}
  RuleSets <- MCRuleSets
  MaxTx = 2
  Budget = 3
CHECK_DEADLOCK FALSE
INVARIANTS
  LoggedOnce TrackersCover NoUpdateLost LoggedAtEnd
PROPERTY FreedWhenDone
