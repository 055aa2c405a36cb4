SPECIFICATION FairSpec
CONSTANTS
  ann = ann
  bob = bob
  cat = cat
  Users = {ann, bob, cat}
  Tier <- Tiers
  Doomed <- Unschedulable
  MaxAttempts = 4
  MaxPaired = 2
  Stale = {bob}
PROPERTIES BotsAreForLeftovers WaitersMeet NobodyLeftWaiting
