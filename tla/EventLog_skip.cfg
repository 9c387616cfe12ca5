SPECIFICATION Spec
CONSTANTS
    i1 = i1  i2 = i2  u1 = u1  a1 = a1  a2 = a2  p1 = p1
    Anonymous = Anonymous
    Ingests <- TwoIngests  UserOf <- TwoOfOneUser  Users <- OneUser  Admins <- NoAdmin  Pages <- OnePage
    Batch = 1  Replay = 1
INVARIANTS NothingSkipped
CHECK_DEADLOCK FALSE
