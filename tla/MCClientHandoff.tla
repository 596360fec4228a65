--------------------------- MODULE MCClientHandoff ---------------------------
(***************************************************************************)
(* Two plans that share their initrd and root file system, so that fetches *)
(* of different plans write the same cache files, a third plan with a key  *)
(* that is not supported, maps with one fault each, and the command lines  *)
(* an operator can give.                                                   *)
(***************************************************************************)
EXTENDS ClientHandoff

MCPlans    == {"planA", "planB", "planX"}
MCContents == {"kernelA", "kernelB", "initrd", "rootfs"}
MCRefs     == {"refKA", "refKB", "refI", "refR"}
MCCaches   == {"cache1", "cache2"}
\* The second directory is inside the first.
MCWithin   == {<<"cache1", "cache1">>, <<"cache2", "cache2">>, <<"cache1", "cache2">>}

MCPlanArtifacts ==
    [plan \in MCPlans |->
        CASE plan = "planA" -> <<<<"initrd_ref", "refI">>, <<"kernel_ref", "refKA">>,
                                 <<"rootfs_ref", "refR">>>>
          [] plan = "planB" -> <<<<"initrd_ref", "refI">>, <<"kernel_ref", "refKB">>,
                                 <<"rootfs_ref", "refR">>>>
          [] plan = "planX" -> <<<<"initrd_ref", "refI">>, <<"other_ref", "refKA">>>>]

Describe(kind, content) ==
    [kind |-> kind, sha256 |-> Digest(content), size_ok |-> TRUE]

GoodMap == [r \in {"refKA", "refKB", "refI", "refR"} |->
               CASE r = "refKA" -> Describe("kernel", "kernelA")
                 [] r = "refKB" -> Describe("kernel", "kernelB")
                 [] r = "refI"  -> Describe("initrd", "initrd")
                 [] r = "refR"  -> Describe("rootfs", "rootfs")]
\* Maps whose kernel entry names a wrong size, or a wrong kind, or is missing.
ShortMap     == [GoodMap EXCEPT !["refKA"].size_ok = FALSE]
WrongKindMap == [GoodMap EXCEPT !["refKA"].kind = "rootfs"]
PartialMap   == [r \in {"refI", "refR"} |-> GoodMap[r]]
MCMaps == {GoodMap, ShortMap, WrongKindMap, PartialMap}

Fetch(plan, dir) ==
    [cmd |-> "fetch", plan |-> plan, map |-> GoodMap, cache |-> dir,
     adapter |-> "linux-kexec", load_only |-> FALSE, exec_now |-> FALSE,
     mutation_ack |-> FALSE, reboot_ack |-> FALSE, dry_run |-> FALSE,
     root |-> TRUE]
Load(plan) ==
    [Fetch(plan, "cache1") EXCEPT !.cmd = "execute", !.load_only = TRUE,
                                  !.mutation_ack = TRUE]
Exec(plan) ==
    [Load(plan) EXCEPT !.load_only = FALSE, !.exec_now = TRUE,
                       !.reboot_ack = TRUE]

Fetches == {Fetch("planA", "cache1"), Fetch("planB", "cache1"),
            Fetch("planA", "cache2"), Fetch("planX", "cache1"),
            [Fetch("planA", "cache1") EXCEPT !.map = ShortMap],
            [Fetch("planA", "cache1") EXCEPT !.map = WrongKindMap],
            [Fetch("planA", "cache1") EXCEPT !.map = PartialMap]}
Loads   == {Load("planA"), Load("planB"),
            [Load("planA") EXCEPT !.cache = "cache2"],
            [Load("planA") EXCEPT !.dry_run = TRUE],
            [Load("planA") EXCEPT !.dry_run = TRUE, !.root = FALSE],
            [Load("planA") EXCEPT !.adapter = "apple-silicon-m2", !.dry_run = TRUE],
            [Load("planB") EXCEPT !.adapter = "apple-silicon-m2", !.dry_run = TRUE]}
Execs   == {Exec("planA"), Exec("planB"), [Exec("planA") EXCEPT !.dry_run = TRUE]}
\* Command lines that must be refused.
Refused == {[Load("planA") EXCEPT !.mutation_ack = FALSE],
            [Load("planA") EXCEPT !.root = FALSE],
            [Load("planA") EXCEPT !.load_only = FALSE],
            [Load("planA") EXCEPT !.exec_now = TRUE],
            [Load("planA") EXCEPT !.adapter = "other"],
            [Load("planA") EXCEPT !.adapter = "apple-silicon-m2"],
            [Exec("planA") EXCEPT !.adapter = "apple-silicon-m2", !.dry_run = TRUE],
            [Exec("planA") EXCEPT !.reboot_ack = FALSE],
            [Exec("planA") EXCEPT !.mutation_ack = FALSE],
            [Exec("planA") EXCEPT !.root = FALSE]}

SequentialInvocations == Fetches \cup Loads \cup Execs \cup Refused
ConcurrentInvocations == {Fetch("planA", "cache1"), Fetch("planB", "cache1"),
                          Load("planA"), Exec("planA")}
=============================================================================
