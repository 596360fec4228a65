SPECIFICATION HistorySpec
CONSTANTS
    Plans <- MCPlans
    PlanArtifacts <- MCPlanArtifacts
    Maps <- MCMaps
    Refs <- MCRefs
    Contents <- MCContents
    Caches <- MCCaches
    Within <- MCWithin
    NoCommand = NoCommand
    NoPlan = NoPlan
    Absent = Absent
    Truncated = Truncated
    Garbled = Garbled
    NoImage = NoImage
    Procs = {p1, p2}
    Invocations <- ConcurrentInvocations
    MaxRuns = 4
INVARIANTS CacheContentAddressed LoadedNeverSubstituted LoadedFromOneFetch RecordIsOneFetch
PROPERTIES LoadsApartVerified ProofsApartFirst ImplementsHandoff
CHECK_DEADLOCK FALSE
