SPECIFICATION Spec
CONSTANTS
  u1 = u1
  u2 = u2
  VUs = {u1, u2}
  MAX_ACCESS_USES = 5
  MAX_REFRESH_USES = 3
  MAX_SESSION_USES = 5
  MAX_ACTIVE_MFA_CHALLENGES = 2
  AccessUses = {1, 5}
  RefreshUses = {1}
  SessionUses = {2}
  MaxIterations = 3
  MaxLost = 1
  MaxRestarts = 1
CHECK_DEADLOCK FALSE
SYMMETRY Symmetry
INVARIANTS TypeOK ChecksHold OneHolder
PROPERTY SpentStaysSpent
