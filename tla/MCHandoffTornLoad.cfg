SPECIFICATION Spec
CONSTANTS
    Plans <- MCPlans
    PlanArtifacts <- MCPlanArtifacts
    Maps <- MCMaps
    Refs <- MCRefs
    Contents <- MCContents
    Caches <- MCCaches
    Within <- MCWithin
    NoCommand = NoCommand
    NoPlan = NoPlan
    Absent = Absent
    Truncated = Truncated
    Garbled = Garbled
    NoImage = NoImage
    Procs = {p1, p2}
    Invocations <- ConcurrentInvocations
    MaxRuns = 3
INVARIANT LoadedVerified
CHECK_DEADLOCK FALSE
