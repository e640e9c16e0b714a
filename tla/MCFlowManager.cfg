SPECIFICATION FairSpec
CONSTANTS
  w1 = w1
  w2 = w2
  Setups <- MCSetups
  OverPasses = 2
  MaxDeclared = 3
INVARIANT OwnSection
INVARIANT EmergencyHeard
INVARIANT EnteredCounted
PROPERTY EveryRowScanned
PROPERTY EmergencyNotCutShort
PROPERTY EmergencyEnds
