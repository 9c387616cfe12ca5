SPECIFICATION FairSpec
CONSTANTS
    i1 = i1  i2 = i2  u1 = u1  a1 = a1  a2 = a2  p1 = p1
    Anonymous = Anonymous
    Ingests <- TwoIngests  UserOf <- TwoOfOneUser  Users <- OneUser  Admins <- TwoAdmins  Pages <- OnePage
    Batch = 1  Replay = 2
INVARIANTS TypeOK EventsConserved
PROPERTIES OptOutWindow SentInOrder LiveDelivery
CHECK_DEADLOCK FALSE
