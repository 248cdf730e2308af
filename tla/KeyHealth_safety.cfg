SPECIFICATION FairSpec
CONSTANTS
  r1 = r1
  r2 = r2
  worker = worker
  admin = admin
  Caller = {r1, r2}
  Prober = {worker, admin}
  TransientThreshold = 2
  TransientWindow = 1
  CooldownSecs <- MCCooldownSecs
  RecentSuccess = 1
  RepeatWindow = 1
  FirstAuthCooldown = 1
  Backoff = 1
  MaxBackoff = 2
  MaxTransientBackoff = 1
  MaxTrouble = 5
INVARIANTS
  TypeOK
  OneClaim
  GateMatchesReason
PROPERTIES
  ParkingNotWeakened
  ImplementsKeyGate
  GatedKeyReleased
