\* Three calls of seven kinds among three users, all interleavings and failures.
SPECIFICATION FairSpec
CONSTANTS
  ann = ann
  bob = bob
  cy = cy
  r1 = r1
  r2 = r2
  r3 = r3
  Requests = {r1, r2, r3}
  Users = {ann, bob, cy}
  Before <- MCBefore
  Offered <- MCOffered
INVARIANTS CountsMatchFollows DeadlocksAreRings
PROPERTIES OneStepEach EveryCallEnds
