\* Three requests at a time on a route with two limiters.
SPECIFICATION Spec
CONSTANTS
  r1 = r1
  r2 = r2
  r3 = r3
  Requests = {r1, r2, r3}
  Limits <- TwoLimits
  Window = 2
  Top = 7
INVARIANTS LimitKept LimitDivided LockoutOnlyByLeak
PROPERTIES WindowReopens
