SPECIFICATION Spec
CONSTANTS
    None = None
    Pending = Pending
    Failed = Failed
    Symbols <- MCSymbols
    Metadata <- MCMetadata
INVARIANTS TypeOK VersionsDistinguished
CHECK_DEADLOCK FALSE
