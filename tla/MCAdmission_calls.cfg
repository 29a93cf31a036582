SPECIFICATION AdmissionSpec
CONSTANTS
  Situations <- MCSituations
  Reencoded = "bytes2"
  Arrivals = {a1, a2}
  MaxTime = 3
  DefaultSkew = 5
  DefaultBuyer = "buyer"
  DefaultSeat = "seat"
SYMMETRY ArrivalSymmetry
INVARIANTS
  AdmissionTypeOK
  GenuineCallsAdmitted
  AdmittedCallsAreSigned
  DuplicatesAreBounded
  ReadinessIsHonest
  PublishedEndpointsServed
CHECK_DEADLOCK FALSE
