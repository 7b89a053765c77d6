SPECIFICATION FairSpec
CONSTANTS
  Jobs = {j1, j2}
  Claim = {c1}
  Decision = decision
  MaxActs = 4
  NONE = NONE
INVARIANTS ReadyIsLatestEdit AutomaticRestartsBounded
PROPERTIES PublishesOnlyWanted BatchSettles
