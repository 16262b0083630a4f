SPECIFICATION Spec
CONSTANTS
  Keys = {a1, a2}
  Burst = 7
  Cost = 3
  Rate = 2
  SweepEvery = 4
  NoBucket = NoBucket
  NoReply = NoReply
  MaxTime = 11
SYMMETRY Clients
INVARIANTS
  AdmittedBounded
PROPERTIES
  BucketSpec
