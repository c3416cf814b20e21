\* Spec 5: one repository snapshot per request. Refuted by a refresh between a bidder and the scorer.
CONSTANTS
    t1 = t1  t2 = t2  b1 = b1  b2 = b2  s1 = s1  u0 = u0  o1 = o1  o2 = o2  o3 = o3
    Threads <- MCThreads
    BidderUris = {b1, b2}
    ScorerUris = {s1}
    RemoteUris = {b2, s1}
    FlakyUris = {b2}
    UnknownUri = u0
    Auctions <- MCAuctions
    InvokeErrors = {"INTERNAL"}
    MaxVersion = 2
    MaxGen = 3
    BidOf <- MCBidOf
    ScoreOf <- MCScoreOf
    Unavailable = Unavailable
    NoFn = NoFn
    NoBid = NoBid
    NoResponse = NoResponse
SPECIFICATION Spec
SYMMETRY MCSymmetry
INVARIANT SingleSnapshotPerRequest
