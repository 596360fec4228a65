SPECIFICATION Spec
CONSTANTS
    k1 = k1  k2 = k2  weak = weak
    code1 = code1  code2 = code2
    nonce1 = nonce1  nonce2 = nonce2  blank = blank
    sid1 = sid1  sid2 = sid2
    NoKey = NoKey
    NoBinding = NoBinding
    Keys <- MCKeys
    StrongKeys <- MCStrongKeys
    Nonces <- MCNonces
    BlankNonces <- MCBlank
    Times <- MCTimes
    Datetimes <- MCDatetimes
    Codes <- MCCodes
    SessionIds <- MCSessionIds
    Refs <- MCRefs
    IssueRequests <- MCRequests
    SessionTTLs <- MCTTLs
    ForeignSignatures <- MCForeign
    MaxClaims = 2
SYMMETRY Symmetry
INVARIANTS TypeOK SingleUse SessionAuthorized SessionPossession OwnerCanRedeem
PROPERTIES BindingImmutable ImplementsOneTimeCode
