SPECIFICATION AuthSpec
CONSTANTS
    k1 = k1  code1 = code1  code2 = code2  nonce1 = nonce1  sid1 = sid1
    NoKey = NoKey
    NoBinding = NoBinding
    NoMenu = NoMenu
    NoTime = NoTime
    Nothing = Nothing
    Keys <- MCKeys
    StrongKeys <- MCKeys
    Nonces <- MCNonces
    BlankNonces = {}
    Times <- MCTimes
    Datetimes <- MCDatetimes
    SessionIds <- MCSessionIds
    Refs <- MCRefs
    IssueRequests <- MCRequests
    SessionTTLs = {1}
    ForeignSignatures = {}
    Codes <- MCCodes
    MaxClaims = 1
    TokenIds = {"t1", ""}
    SubjectKinds = {"device"}
    Manifests <- MCManifests
    KeyDocument <- MCKeyDocument
    MaxTokens = 2
    MaxPlans = 2
INVARIANTS AuthTypeOK ImageAuthorized BridgeAccepted
