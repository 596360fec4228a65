SPECIFICATION Spec
CONSTANTS
    Plans <- MCPlans
    PlanArtifacts <- MCPlanArtifacts
    Maps <- MCMaps
    Refs <- MCRefs
    Contents <- MCContents
    Caches <- MCCaches
    Within <- MCWithin
    NoCommand = NoCommand
    NoPlan = NoPlan
    Absent = Absent
    Truncated = Truncated
    Garbled = Garbled
    NoImage = NoImage
    Procs = {p1}
    Invocations <- SequentialInvocations
    MaxRuns = 4
INVARIANT ExecHasItsLoadProof
CHECK_DEADLOCK FALSE
