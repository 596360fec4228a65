SPECIFICATION ThreadsSpec
CONSTANTS
    k1 = k1  code1 = code1  code2 = code2  nonce1 = nonce1
    sid1 = sid1  sid2 = sid2  thread1 = thread1  thread2 = thread2
    NoKey = NoKey
    NoBinding = NoBinding
    NoCall = NoCall
    Keys <- MCKeys
    StrongKeys <- MCKeys
    Nonces <- MCNonces
    BlankNonces = {}
    Times <- MCTimes
    Datetimes <- MCDatetimes
    SessionIds <- MCSessionIds
    Refs <- MCRefs
    IssueRequests <- MCRequests
    SessionTTLs <- MCTTLs
    ForeignSignatures <- MCForeign
    Codes <- MCCodes
    MaxClaims = 1
    Threads = {thread1, thread2}
SYMMETRY Symmetry
INVARIANTS ThreadsTypeOK NoGrantAfterReturn UsesAccounted SessionAuthorized
PROPERTY BindingImmutable
