\* Two calls in flight, two sessions, listed one by one, one broken connection.
SPECIFICATION Spec
CONSTANTS
  h1 = h1  h2 = h2  s1 = s1  s2 = s2
  Handlers = {h1, h2}
  Sessions = {s1, s2}
  Absent = Absent
  Lifetime = 1
  BatchSize = 1
  MaxTime = 2
  MaxFaults = 1
SYMMETRY Symmetry
INVARIANTS TypeOK ActivityIsKept EndedStaysEnded AbandonedExpires ListingIsFair
