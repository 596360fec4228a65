SPECIFICATION Spec
CONSTANTS
    NoTime = NoTime
    Times <- MCTimes
    Keys <- MCKeys
    RootDocuments <- MCRootDocuments
    Contents <- MCContents
    RootMaterials <- MCRootMaterials
    Junk <- MCJunk
    MaxSigned = 3
INVARIANTS TypeOK TrustIsOneBundle TrustVouched
