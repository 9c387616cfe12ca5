SPECIFICATION ApiSpec
CONSTANTS
    o1 = o1  o2 = o2  v1 = v1  v2 = v2  q1 = q1  q2 = q2
    None = None  Failed = Failed
    Orgs <- TwoOrgs  Views <- TwoViews  Requests <- TwoRequests
    TTL = 2  Slow = 1  MaxSize = 2
    i1 = i1  i2 = i2  e1 = e1  r1 = r1  r2 = r2  r3 = r3
    Own = Own  NoAccount = NoAccount  NoInvite = NoInvite  NoEmail = NoEmail
    Invites <- TwoInvites  Emails <- OneEmail  TeamRequests <- ThreeRequests
SYMMETRY Alike
INVARIANTS OwnDataOnly StalenessBounded SyncShows InvitesHonest
PROPERTIES CancelHolds
