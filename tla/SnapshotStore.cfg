\* A store with a cap and a TTL: create, put, branch, expiry and aliasing.
SPECIFICATION Spec
CONSTANTS
  Refs = {r1, r2, r3, r4, r5}
  Values = {v1, v2}
  Initial = v1
  MaxSnapshots = 2
  Unbounded = Unbounded
  TTL = 1
  Forever = Forever
  NoId = NoId
  IdBound = 4
  ClockBound = 3
  HeldBound = 1
SYMMETRY RefSymmetry
CONSTRAINT FewHeld
INVARIANTS CurrentIdRetained NoAliasing PutReturnsStoredId
PROPERTIES SnapshotsImmutable EvictsOldestFirst
CHECK_DEADLOCK FALSE
