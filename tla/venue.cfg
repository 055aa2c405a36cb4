SPECIFICATION FairSpec
CONSTANTS
  Users = {ann, bob}
  Capacity = 1
  Matches = {m1}
  NoMatch = none
  InitialVr = {bob}
  Changing = {ann, bob}
INVARIANTS TypeOK SeatsCounted FullMeansFull LockAccounted
PROPERTY PendingEnds
