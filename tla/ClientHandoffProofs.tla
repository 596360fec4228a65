------------------------- MODULE ClientHandoffProofs -------------------------
(***************************************************************************)
(* Proofs about ClientHandoff, for any number of client processes, plans,  *)
(* artifacts and runs.                                                     *)
(***************************************************************************)
EXTENDS ClientHandoffHistory, TLAPS

\* A process that runs was started with a command line, and what it has queued
\* leads to one of five labels.
Started ==
    \A p \in Procs :
       /\ pc[p] \in Running => argv[p] \in Invocations
       /\ out[p].next \in {"done", "refused", "m2-entry", "kexec-load", "kexec-exec"}

\* A fetch is within its plan, and what it is about to write into the cache has
\* passed the checks of fetch_artifacts.
FetchChecked ==
    \A p \in Procs :
       /\ pc[p] \in {"fetch", "cache-write"} =>
             Len(cached[p]) <= Len(PlanArtifacts[argv[p].plan])
       /\ pc[p] = "cache-write" =>
             /\ ~Finished(p)
             /\ bytes[p] \in Contents
             /\ Acceptable(p, bytes[p])

\* The two entries that verify_cached_kernel_initrd returns.
PickedTwo(p) ==
    /\ Len(picked[p]) = 2
    /\ picked[p][1] \in Entries /\ picked[p][2] \in Entries
    /\ InCache(picked[p][1], picked[p][2], argv[p].cache)

\* From the check of the paths on, there are two entries, and a file that was
\* verified is still there in some state.
PickedPresent ==
    \A p \in Procs :
       /\ pc[p] \in {"kernel", "initrd"} \/ Heading(p, "kexec-load") => PickedTwo(p)
       /\ pc[p] = "initrd" \/ Heading(p, "kexec-load") =>
             cache[PathOf(picked[p][1])] # Absent
       /\ Heading(p, "kexec-load") => cache[PathOf(picked[p][2])] # Absent

\* Whoever is on the way to kexec has passed the gates.
Gated ==
    \A p \in Procs :
       /\ pc[p] \in {"record", "kernel", "initrd", "pre-exec-check"}
          \/ Heading(p, "kexec-load") \/ Heading(p, "kexec-exec") =>
             Permitted(argv[p]) /\ argv[p].adapter = "linux-kexec"
       /\ pc[p] = "pre-exec-check" => ~argv[p].load_only
       /\ Heading(p, "kexec-load") => argv[p].load_only /\ ~argv[p].dry_run
       /\ Heading(p, "kexec-exec") => ~argv[p].load_only /\ ~argv[p].dry_run

IInv ==
    /\ TypeOK
    /\ Started
    /\ FetchChecked
    /\ CacheContentAddressed
    /\ PickedPresent
    /\ LoadedNeverSubstituted
    /\ Gated
-----------------------------------------------------------------------------
\* A cache entry names a cache file, whose name ends with the entry's digest.
LEMMA PathTyped ==
    ASSUME NEW e \in Entries
    PROVE  PathOf(e) \in Paths /\ PathOf(e)[3] = e.sha256
BY DEF Entries, Paths, PathOf

\* A command line of the instance is one of the program.
LEMMA InvocationTyped ==
    ASSUME NEW a \in Invocations
    PROVE  /\ a.plan \in Plans /\ a.map \in Maps /\ a.cache \in Caches
           /\ a.load_only \in BOOLEAN /\ a.exec_now \in BOOLEAN
           /\ a.dry_run \in BOOLEAN
BY InvocationsAssumption DEF CommandLines

\* What fetch_artifacts is about to push is an entry, under the digest of the
\* bytes it checked.
LEMMA EntryTyped ==
    ASSUME TypeOK, NEW p \in Procs, argv[p] \in Invocations,
           Len(cached[p]) <= Len(PlanArtifacts[argv[p].plan]),
           ~Finished(p), NEW read \in Contents, Acceptable(p, read)
    PROVE  /\ EntryOf(p) \in Entries
           /\ EntryOf(p).sha256 = Digest(read)
<1>1. argv[p].plan \in Plans /\ argv[p].map \in Maps /\ argv[p].cache \in Caches
  BY InvocationTyped
<1>2. Len(cached[p]) \in Nat
  BY DEF TypeOK
<1>3. PlanArtifacts[argv[p].plan] \in Seq(STRING \X Refs)
  BY <1>1, PlansAssumption
<1>4. Len(cached[p]) + 1 \in 1 .. Len(PlanArtifacts[argv[p].plan])
  BY <1>2, <1>3 DEF Finished
<1>5. Current(p) \in STRING \X Refs
  BY <1>3, <1>4 DEF Current
<1>6. Current(p)[2] \in Refs
  BY <1>5
<1>7. DescriptorOf(p) \in Descriptors
  BY <1>1, MapsAssumption DEF Acceptable, DescriptorOf
<1>8. DescriptorOf(p).kind \in Kinds /\ DescriptorOf(p).sha256 \in Digests
  BY <1>7 DEF Descriptors
<1>9. EntryOf(p) \in Entries
  BY <1>1, <1>6, <1>8 DEF EntryOf, Entries
<1>10. EntryOf(p).sha256 = Digest(read)
  BY DEF EntryOf, Acceptable
<1> QED
  BY <1>9, <1>10

\* The refusal record and the empty queue are well-typed.
LEMMA RefusalTyped == RefusalRecord \in Records /\ NoOut \in Outs
<1>1. RefusalRecord \in Records
  BY DEF RefusalRecord, Records
<1>2. Refusal \in EvidenceFiles /\ "refused" \in Ended
  BY DEF EvidenceFiles, Ended
<1> QED
  BY <1>1, <1>2 DEF NoOut, Outs

\* What a process has queued is a record for an evidence file.
LEMMA QueuedTyped ==
    ASSUME TypeOK, NEW p \in Procs
    PROVE  /\ out[p].file \in EvidenceFiles
           /\ out[p].record \in Records
           /\ out[p].next \in Ended \cup Running
BY DEF TypeOK, Outs

\* A process that ends and touches nothing.
LEMMA EndProcess ==
    ASSUME IInv, NEW p \in Procs, NEW label \in Ended, Goto(p, label),
           UNCHANGED <<argv, bytes, cached, picked, out, cache, evidence, loaded, booted, runs>>
    PROVE  IInv'
<1>1. TypeOK'
  BY DEF IInv, TypeOK, Goto, Ended, Running
<1>2. Started'
  BY DEF IInv, TypeOK, Started, Goto, Ended, Running
<1>3. FetchChecked'
  BY DEF IInv, TypeOK, FetchChecked, Goto, Finished, Acceptable, Current,
         DescriptorOf, Ended
<1>4. CacheContentAddressed' /\ LoadedNeverSubstituted'
  BY DEF IInv, CacheContentAddressed, LoadedNeverSubstituted
<1>5. PickedPresent'
  BY DEF IInv, TypeOK, PickedPresent, Heading, PickedTwo, PathOf, Goto, Ended
<1>6. Gated'
  BY DEF IInv, TypeOK, Gated, Heading, Goto, Ended
<1> QED
  BY <1>1, <1>2, <1>3, <1>4, <1>5, <1>6 DEF IInv

\* The errors that end a process outside of fs::write.
LEMMA ErrorsIInv ==
    ASSUME IInv, NEW p \in Procs, InputError(p) \/ KexecError(p)
    PROVE  IInv'
BY EndProcess DEF InputError, KexecError, Ended

\* Truncating an evidence file.
LEMMA OpenEvidenceIInv ==
    ASSUME IInv, NEW p \in Procs, OpenEvidence(p)
    PROVE  IInv'
<1>1. TypeOK'
  BY QueuedTyped DEF IInv, TypeOK, OpenEvidence, Goto, Running, Unreadable
<1>2. Started'
  BY DEF IInv, TypeOK, Started, OpenEvidence, Goto, Ended, Running
<1>3. FetchChecked'
  BY DEF IInv, TypeOK, FetchChecked, OpenEvidence, Goto, Finished, Acceptable, Current,
         DescriptorOf
<1>4. CacheContentAddressed' /\ LoadedNeverSubstituted'
  BY DEF IInv, CacheContentAddressed, LoadedNeverSubstituted, OpenEvidence
<1>5. PickedPresent'
  BY DEF IInv, TypeOK, PickedPresent, Heading, PickedTwo, PathOf, OpenEvidence, Goto
<1>6. Gated'
  BY DEF IInv, TypeOK, Gated, Heading, OpenEvidence, Goto
<1> QED
  BY <1>1, <1>2, <1>3, <1>4, <1>5, <1>6 DEF IInv

\* Writing the queued record.
LEMMA WriteEvidenceIInv ==
    ASSUME IInv, NEW p \in Procs, WriteEvidence(p)
    PROVE  IInv'
<1>a. Truncated \in Unreadable /\ Garbled \in Unreadable
  BY DEF Unreadable
<1>b. evidence' \in [EvidenceFiles -> Records \cup Unreadable]
  BY <1>a, QueuedTyped DEF IInv, TypeOK, WriteEvidence
<1>c. out' \in [Procs -> Outs]
  BY RefusalTyped DEF IInv, TypeOK, WriteEvidence
<1>1. TypeOK'
  BY <1>b, <1>c, QueuedTyped DEF IInv, TypeOK, WriteEvidence, Goto
<1>2. Started'
  BY DEF IInv, TypeOK, Started, WriteEvidence, Goto, NoOut, Ended, Running
<1>3. FetchChecked'
  BY DEF IInv, TypeOK, FetchChecked, WriteEvidence, Goto, NoOut, Finished, Acceptable, Current,
         DescriptorOf, Started
<1>4. CacheContentAddressed' /\ LoadedNeverSubstituted'
  BY DEF IInv, CacheContentAddressed, LoadedNeverSubstituted, WriteEvidence
<1>5. PickedPresent'
  BY DEF IInv, TypeOK, PickedPresent, Heading, PickedTwo, PathOf, WriteEvidence, Goto, NoOut, Started
<1>6. Gated'
  BY DEF IInv, TypeOK, Gated, Heading, WriteEvidence, Goto, NoOut, Started
<1> QED
  BY <1>1, <1>2, <1>3, <1>4, <1>5, <1>6 DEF IInv

\* Failing to write the queued record.
LEMMA SinkErrorIInv ==
    ASSUME IInv, NEW p \in Procs, SinkError(p)
    PROVE  IInv'
<1>a. Truncated \in Unreadable /\ Garbled \in Unreadable
  BY DEF Unreadable
<1>b. evidence' \in [EvidenceFiles -> Records \cup Unreadable]
  BY <1>a, QueuedTyped DEF IInv, TypeOK, SinkError
<1>c. out' \in [Procs -> Outs]
  BY RefusalTyped DEF IInv, TypeOK, SinkError
<1>1. TypeOK'
  BY <1>b, <1>c, QueuedTyped DEF IInv, TypeOK, SinkError, Goto, AfterSinkError, Ended
<1>2. Started'
  BY DEF IInv, TypeOK, Started, SinkError, AfterSinkError, Goto, NoOut, Ended, Running
<1>3. FetchChecked'
  BY DEF IInv, TypeOK, FetchChecked, SinkError, AfterSinkError, Goto, NoOut, Finished, Acceptable, Current,
         DescriptorOf
<1>4. CacheContentAddressed' /\ LoadedNeverSubstituted'
  BY DEF IInv, CacheContentAddressed, LoadedNeverSubstituted, SinkError
<1>5. PickedPresent'
  BY DEF IInv, TypeOK, PickedPresent, Heading, PickedTwo, PathOf, SinkError, AfterSinkError, Goto, NoOut
<1>6. Gated'
  BY DEF IInv, TypeOK, Gated, Heading, SinkError, AfterSinkError, Goto, NoOut
<1> QED
  BY <1>1, <1>2, <1>3, <1>4, <1>5, <1>6 DEF IInv

\* Being killed.
LEMMA KillIInv ==
    ASSUME IInv, NEW p \in Procs, Kill(p)
    PROVE  IInv'
<1>a. Truncated \in Unreadable /\ Garbled \in Unreadable
  BY DEF Unreadable
<1>b. evidence' \in [EvidenceFiles -> Records \cup Unreadable]
  BY <1>a, QueuedTyped DEF IInv, TypeOK, Kill
<1>c. out' \in [Procs -> Outs]
  BY RefusalTyped DEF IInv, TypeOK, Kill
<1>1. TypeOK'
  BY <1>b, <1>c, QueuedTyped DEF IInv, TypeOK, Kill, Goto, Ended
<1>2. Started'
  BY DEF IInv, TypeOK, Started, Kill, Goto, NoOut, Ended, Running
<1>3. FetchChecked'
  BY DEF IInv, TypeOK, FetchChecked, Kill, Goto, NoOut, Finished, Acceptable, Current,
         DescriptorOf
<1>4. CacheContentAddressed' /\ LoadedNeverSubstituted'
  BY DEF IInv, CacheContentAddressed, LoadedNeverSubstituted, Kill
<1>5. PickedPresent'
  BY DEF IInv, TypeOK, PickedPresent, Heading, PickedTwo, PathOf, Kill, Goto, NoOut
<1>6. Gated'
  BY DEF IInv, TypeOK, Gated, Heading, Kill, Goto, NoOut
<1> QED
  BY <1>1, <1>2, <1>3, <1>4, <1>5, <1>6 DEF IInv

\* A write into the cache that fails.
LEMMA CacheErrorIInv ==
    ASSUME IInv, NEW p \in Procs, CacheError(p)
    PROVE  IInv'
<1>1. TypeOK'
  BY DEF IInv, TypeOK, CacheError, Goto, Ended, Running
<1>2. Started'
  BY DEF IInv, TypeOK, Started, CacheError, Goto, Ended, Running
<1>3. FetchChecked'
  BY DEF IInv, TypeOK, FetchChecked, CacheError, Goto, Finished, Acceptable, Current,
         DescriptorOf
<1>4. CacheContentAddressed' /\ LoadedNeverSubstituted'
  BY DEF IInv, CacheContentAddressed, LoadedNeverSubstituted, CacheError
<1>5. PickedPresent'
  BY DEF IInv, TypeOK, PickedPresent, Heading, PickedTwo, PathOf, CacheError, Goto
<1>6. Gated'
  BY DEF IInv, TypeOK, Gated, Heading, CacheError, Goto
<1> QED
  BY <1>1, <1>2, <1>3, <1>4, <1>5, <1>6 DEF IInv

\* Queueing a record keeps the queues and labels well-typed.
LEMMA EmitTyped ==
    ASSUME TypeOK, NEW p \in Procs, NEW file \in EvidenceFiles,
           NEW record \in Records, NEW next \in Ended \cup Running,
           Emit(p, file, record, next)
    PROVE  out' \in [Procs -> Outs] /\ pc' \in [Procs -> Ended \cup Running]
<1>1. [file |-> file, next |-> next, record |-> record] \in Outs
  BY DEF Outs
<1>2. "open" \in Running
  BY DEF Running
<1> QED
  BY <1>1, <1>2 DEF TypeOK, Emit, Goto

\* A record that names a plan and no artifacts.
LEMMA PlanRecordTyped ==
    ASSUME NEW plan \in Plans, NEW dry \in BOOLEAN, NEW list \in Seq(Entries)
    PROVE  [plan |-> plan, dry_run |-> dry, artifacts |-> list] \in Records
BY DEF Records

\* The first record of the M2 adapter.
LEMMA M2AdapterPlanIInv ==
    ASSUME IInv, NEW p \in Procs, M2AdapterPlan(p)
    PROVE  IInv'
<1>1. TypeOK'
  <2>1. argv[p] \in Invocations
    BY DEF IInv, Started, M2AdapterPlan, Running
  <2>2. argv[p].plan \in Plans /\ argv[p].dry_run \in BOOLEAN
    BY <2>1, InvocationTyped
  <2>3. M2Record(p) \in Records
    BY <2>2 DEF M2Record, Records
  <2>4. AdapterPlan \in EvidenceFiles /\ "m2-entry" \in Ended \cup Running
    BY DEF EvidenceFiles, Ended, Running
  <2>5. out' \in [Procs -> Outs] /\ pc' \in [Procs -> Ended \cup Running]
    BY <2>3, <2>4, EmitTyped DEF IInv, M2AdapterPlan
  <2> QED
    BY <2>5 DEF IInv, TypeOK, M2AdapterPlan
<1>2. Started'
  BY DEF IInv, TypeOK, Started, M2AdapterPlan, Emit, Goto, Ended, Running
<1>3. FetchChecked'
  BY DEF IInv, TypeOK, FetchChecked, M2AdapterPlan, Emit, Goto, Finished, Acceptable, Current,
         DescriptorOf
<1>4. CacheContentAddressed' /\ LoadedNeverSubstituted'
  BY DEF IInv, CacheContentAddressed, LoadedNeverSubstituted, M2AdapterPlan
<1>5. PickedPresent'
  BY DEF IInv, TypeOK, PickedPresent, Heading, PickedTwo, PathOf, M2AdapterPlan, Emit, Goto
<1>6. Gated'
  BY DEF IInv, TypeOK, Gated, Heading, M2AdapterPlan, Emit, Goto
<1> QED
  BY <1>1, <1>2, <1>3, <1>4, <1>5, <1>6 DEF IInv

\* The second record of the M2 adapter.
LEMMA M2BootEntryIInv ==
    ASSUME IInv, NEW p \in Procs, M2BootEntry(p)
    PROVE  IInv'
<1>1. TypeOK'
  <2>1. argv[p] \in Invocations
    BY DEF IInv, Started, M2BootEntry, Running
  <2>2. argv[p].plan \in Plans /\ argv[p].dry_run \in BOOLEAN
    BY <2>1, InvocationTyped
  <2>3. M2Record(p) \in Records
    BY <2>2 DEF M2Record, Records
  <2>4. BootEntry \in EvidenceFiles /\ "done" \in Ended \cup Running
    BY DEF EvidenceFiles, Ended, Running
  <2>5. out' \in [Procs -> Outs] /\ pc' \in [Procs -> Ended \cup Running]
    BY <2>3, <2>4, EmitTyped DEF IInv, M2BootEntry
  <2> QED
    BY <2>5 DEF IInv, TypeOK, M2BootEntry
<1>2. Started'
  BY DEF IInv, TypeOK, Started, M2BootEntry, Emit, Goto, Ended, Running
<1>3. FetchChecked'
  BY DEF IInv, TypeOK, FetchChecked, M2BootEntry, Emit, Goto, Finished, Acceptable, Current,
         DescriptorOf
<1>4. CacheContentAddressed' /\ LoadedNeverSubstituted'
  BY DEF IInv, CacheContentAddressed, LoadedNeverSubstituted, M2BootEntry
<1>5. PickedPresent'
  BY DEF IInv, TypeOK, PickedPresent, Heading, PickedTwo, PathOf, M2BootEntry, Emit, Goto
<1>6. Gated'
  BY DEF IInv, TypeOK, Gated, Heading, M2BootEntry, Emit, Goto
<1> QED
  BY <1>1, <1>2, <1>3, <1>4, <1>5, <1>6 DEF IInv

\* The end of a fetch.
LEMMA FetchFinishIInv ==
    ASSUME IInv, NEW p \in Procs, FetchFinish(p)
    PROVE  IInv'
<1>1. TypeOK'
  <2>1. argv[p] \in Invocations
    BY DEF IInv, Started, FetchFinish, Running
  <2>2. argv[p].plan \in Plans /\ argv[p].dry_run \in BOOLEAN
    BY <2>1, InvocationTyped
  <2>3. [plan |-> argv[p].plan, dry_run |-> FALSE, artifacts |-> cached[p]] \in Records
    BY <2>2, PlanRecordTyped DEF IInv, TypeOK
  <2>4. CacheRecord \in EvidenceFiles /\ "done" \in Ended \cup Running
    BY DEF EvidenceFiles, Ended, Running
  <2>5. out' \in [Procs -> Outs] /\ pc' \in [Procs -> Ended \cup Running]
    BY <2>3, <2>4, EmitTyped DEF IInv, FetchFinish
  <2>6. cached' \in [Procs -> Seq(Entries)]
    BY DEF IInv, TypeOK, FetchFinish
  <2> QED
    BY <2>5, <2>6 DEF IInv, TypeOK, FetchFinish, Goto
<1>2. Started'
  BY DEF IInv, TypeOK, Started, FetchFinish, Emit, Goto, Ended, Running
<1>3. FetchChecked'
  BY DEF IInv, TypeOK, FetchChecked, FetchFinish, Emit, Goto, Finished, Acceptable, Current,
         DescriptorOf
<1>4. CacheContentAddressed' /\ LoadedNeverSubstituted'
  BY DEF IInv, CacheContentAddressed, LoadedNeverSubstituted, FetchFinish
<1>5. PickedPresent'
  BY DEF IInv, TypeOK, PickedPresent, Heading, PickedTwo, PathOf, FetchFinish, Emit, Goto
<1>6. Gated'
  BY DEF IInv, TypeOK, Gated, Heading, FetchFinish, Emit, Goto
<1> QED
  BY <1>1, <1>2, <1>3, <1>4, <1>5, <1>6 DEF IInv

\* Opening a cache file: the bytes have been checked.
LEMMA FetchArtifactIInv ==
    ASSUME IInv, NEW p \in Procs, NEW read \in Contents, FetchArtifact(p, read)
    PROVE  IInv'
<1>a. argv[p] \in Invocations /\ ~Finished(p) /\ Acceptable(p, read)
        /\ Len(cached[p]) <= Len(PlanArtifacts[argv[p].plan])
  BY DEF IInv, Started, FetchChecked, FetchArtifact, Running
<1>b. EntryOf(p) \in Entries
  BY <1>a, EntryTyped DEF IInv
<1>c. PathOf(EntryOf(p)) \in Paths
  BY <1>b, PathTyped
<1>d. cache' = [cache EXCEPT ![PathOf(EntryOf(p))] = Truncated]
  BY DEF FetchArtifact
<1>1. TypeOK'
  BY <1>c, <1>d DEF IInv, TypeOK, FetchArtifact, Goto, Running
<1>2. Started'
  BY DEF IInv, TypeOK, Started, FetchArtifact, Goto, Ended, Running
<1>3. FetchChecked'
  BY DEF IInv, TypeOK, FetchChecked, FetchArtifact, Goto, Finished, Acceptable, Current,
         DescriptorOf
<1>4. CacheContentAddressed' /\ LoadedNeverSubstituted'
  <2>1. Truncated \notin Contents
    BY MarksAssumption DEF Unreadable
  <2>2. CacheContentAddressed'
    BY <1>c, <1>d, <2>1 DEF IInv, TypeOK, CacheContentAddressed
  <2> QED
    BY <2>2 DEF IInv, LoadedNeverSubstituted, FetchArtifact
<1>5. PickedPresent'
  <2>1. \A path \in Paths : cache[path] # Absent => cache'[path] # Absent
    BY <1>c, <1>d, MarksAssumption DEF IInv, TypeOK
  <2> QED
    BY <2>1, PathTyped DEF IInv, TypeOK, PickedPresent, Heading, PickedTwo,
                           FetchArtifact, Goto
<1>6. Gated'
  BY DEF IInv, TypeOK, Gated, Heading, FetchArtifact, Goto
<1> QED
  BY <1>1, <1>2, <1>3, <1>4, <1>5, <1>6 DEF IInv

\* Writing the checked bytes into the cache file.
LEMMA CacheArtifactIInv ==
    ASSUME IInv, NEW p \in Procs, CacheArtifact(p)
    PROVE  IInv'
<1>a. argv[p] \in Invocations /\ ~Finished(p) /\ bytes[p] \in Contents
        /\ Acceptable(p, bytes[p])
        /\ Len(cached[p]) <= Len(PlanArtifacts[argv[p].plan])
  BY DEF IInv, Started, FetchChecked, CacheArtifact, Running
<1>b. EntryOf(p) \in Entries /\ EntryOf(p).sha256 = Digest(bytes[p])
  BY <1>a, EntryTyped DEF IInv
<1>c. PathOf(EntryOf(p)) \in Paths /\ PathOf(EntryOf(p))[3] = Digest(bytes[p])
  BY <1>b, PathTyped
<1>d. cache' = [cache EXCEPT ![PathOf(EntryOf(p))] = bytes[p]]
  BY DEF CacheArtifact
<1>e. cached' = [cached EXCEPT ![p] = Append(cached[p], EntryOf(p))]
  BY DEF CacheArtifact
<1>1. TypeOK'
  <2>1. Append(cached[p], EntryOf(p)) \in Seq(Entries)
    BY <1>b DEF IInv, TypeOK
  <2>2. cached' \in [Procs -> Seq(Entries)]
    BY <1>e, <2>1 DEF IInv, TypeOK
  <2>3. cache' \in [Paths -> Contents \cup {Absent, Truncated}]
    BY <1>a, <1>c, <1>d DEF IInv, TypeOK
  <2> QED
    BY <2>2, <2>3 DEF IInv, TypeOK, CacheArtifact, Goto, Running
<1>2. Started'
  BY DEF IInv, TypeOK, Started, CacheArtifact, Goto, Ended, Running
<1>3. FetchChecked'
  <2>1. Len(cached'[p]) = Len(cached[p]) + 1 /\ Len(cached[p]) \in Nat
    BY <1>b, <1>e DEF IInv, TypeOK
  <2>2. PlanArtifacts[argv[p].plan] \in Seq(STRING \X Refs)
    BY <1>a, InvocationTyped, PlansAssumption
  <2>3. Len(cached'[p]) <= Len(PlanArtifacts[argv[p].plan])
    BY <1>a, <2>1, <2>2 DEF Finished
  <2> QED
    BY <2>3, <1>e DEF IInv, TypeOK, FetchChecked, CacheArtifact, Goto, Finished,
                      Acceptable, Current, DescriptorOf
<1>4. CacheContentAddressed' /\ LoadedNeverSubstituted'
  <2>1. CacheContentAddressed'
    BY <1>c, <1>d DEF IInv, TypeOK, CacheContentAddressed
  <2> QED
    BY <2>1 DEF IInv, LoadedNeverSubstituted, CacheArtifact
<1>5. PickedPresent'
  <2>1. Absent \notin Contents
    BY MarksAssumption DEF Unreadable
  <2>2. \A path \in Paths : cache[path] # Absent => cache'[path] # Absent
    BY <1>a, <1>c, <1>d, <2>1 DEF IInv, TypeOK
  <2> QED
    BY <2>2, PathTyped DEF IInv, TypeOK, PickedPresent, Heading, PickedTwo,
                           CacheArtifact, Goto
<1>6. Gated'
  BY DEF IInv, TypeOK, Gated, Heading, CacheArtifact, Goto
<1> QED
  BY <1>1, <1>2, <1>3, <1>4, <1>5, <1>6 DEF IInv

\* Starting a command line.
LEMMA StartIInv ==
    ASSUME IInv, NEW p \in Procs, NEW a \in Invocations, Start(p, a)
    PROVE  IInv'
<1>1. TypeOK'
  <2>1. "open" \in Running /\ "fetch" \in Running /\ "record" \in Running
        /\ "m2" \in Running /\ Refusal \in EvidenceFiles /\ "refused" \in Ended
    BY DEF Running, Ended, EvidenceFiles
  <2>2. pc' \in [Procs -> Ended \cup Running]
    BY <2>1 DEF IInv, TypeOK, Start, Emit, Goto
  <2>3. [file |-> Refusal, next |-> "refused", record |-> RefusalRecord] \in Outs
    BY <2>1, RefusalTyped DEF Outs
  <2>4. out' \in [Procs -> Outs]
    BY <2>3 DEF IInv, TypeOK, Start, Emit
  <2>5. cached' \in [Procs -> Seq(Entries)] /\ picked' \in [Procs -> Seq(Entries)]
    BY DEF IInv, TypeOK, Start
  <2>6. argv' \in [Procs -> Invocations \cup {NoCommand}] /\ runs' \in Nat
    BY DEF IInv, TypeOK, Start
  <2> QED
    BY <2>2, <2>4, <2>5, <2>6 DEF IInv, TypeOK, Start
<1>2. Started'
  BY DEF IInv, TypeOK, Started, Start, Emit, Goto, Ended, Running
<1>3. FetchChecked'
  <2>1. PlanArtifacts[a.plan] \in Seq(STRING \X Refs)
    BY InvocationTyped, PlansAssumption
  <2>2. cached'[p] = <<>> /\ argv'[p] = a
    BY DEF IInv, TypeOK, Start
  <2>3. Len(cached'[p]) <= Len(PlanArtifacts[argv'[p].plan])
    BY <2>1, <2>2
  <2>4. pc'[p] # "cache-write"
    BY DEF IInv, TypeOK, Start, Emit, Goto
  <2>5. \A q \in Procs : q # p => /\ pc'[q] = pc[q] /\ argv'[q] = argv[q]
                                  /\ cached'[q] = cached[q] /\ bytes'[q] = bytes[q]
    BY DEF IInv, TypeOK, Start, Emit, Goto
  <2> SUFFICES ASSUME NEW q \in Procs
               PROVE  /\ pc'[q] \in {"fetch", "cache-write"} =>
                            Len(cached'[q]) <= Len(PlanArtifacts[argv'[q].plan])
                      /\ pc'[q] = "cache-write" =>
                            /\ ~Finished(q)'
                            /\ bytes'[q] \in Contents
                            /\ Acceptable(q, bytes[q])'
    BY DEF FetchChecked
  <2>6. CASE q = p
    BY <2>3, <2>4, <2>6
  <2>7. CASE q # p
    <3>1. pc'[q] = pc[q] /\ argv'[q] = argv[q] /\ cached'[q] = cached[q] /\ bytes'[q] = bytes[q]
      BY <2>5, <2>7
    <3>2. Current(q)' = Current(q) /\ DescriptorOf(q)' = DescriptorOf(q)
      BY <3>1 DEF Current, DescriptorOf
    <3>3. Finished(q)' = Finished(q)
      BY <3>1 DEF Finished
    <3>4. Acceptable(q, bytes[q])' = Acceptable(q, bytes[q])
      BY <3>1, <3>2 DEF Acceptable
    <3>5. /\ pc[q] \in {"fetch", "cache-write"} =>
                Len(cached[q]) <= Len(PlanArtifacts[argv[q].plan])
          /\ pc[q] = "cache-write" =>
                ~Finished(q) /\ bytes[q] \in Contents /\ Acceptable(q, bytes[q])
      BY DEF IInv, FetchChecked
    <3> QED
      BY <3>1, <3>3, <3>4, <3>5
  <2> QED
    BY <2>6, <2>7
<1>4. CacheContentAddressed' /\ LoadedNeverSubstituted'
  BY DEF IInv, CacheContentAddressed, LoadedNeverSubstituted, Start
<1>5. PickedPresent'
  BY DEF IInv, TypeOK, PickedPresent, Heading, PickedTwo, PathOf, Start, Emit, Goto
<1>6. Gated'
  BY DEF IInv, TypeOK, Gated, Heading, Start, Emit, Goto
<1> QED
  BY <1>1, <1>2, <1>3, <1>4, <1>5, <1>6 DEF IInv

\* verify_cached_kernel_initrd hashes the kernel.
LEMMA VerifyKernelIInv ==
    ASSUME IInv, NEW p \in Procs, VerifyKernel(p)
    PROVE  IInv'
<1>1. TypeOK'
  BY DEF IInv, TypeOK, VerifyKernel, Goto, Ended, Running
<1>2. Started'
  BY DEF IInv, TypeOK, Started, VerifyKernel, Goto, Ended, Running
<1>3. FetchChecked'
  BY DEF IInv, TypeOK, FetchChecked, VerifyKernel, Goto, Finished, Acceptable, Current,
         DescriptorOf
<1>4. CacheContentAddressed' /\ LoadedNeverSubstituted'
  BY DEF IInv, CacheContentAddressed, LoadedNeverSubstituted, VerifyKernel
<1>5. PickedPresent'
  BY MarksAssumption DEF IInv, TypeOK, PickedPresent, Heading, PickedTwo, PathOf, VerifyKernel, Goto,
         Intact, Unreadable
<1>6. Gated'
  BY DEF IInv, TypeOK, Gated, Heading, VerifyKernel, Goto
<1> QED
  BY <1>1, <1>2, <1>3, <1>4, <1>5, <1>6 DEF IInv

\* ... and the initrd; a load queues its proof.
LEMMA VerifyInitrdIInv ==
    ASSUME IInv, NEW p \in Procs, VerifyInitrd(p)
    PROVE  IInv'
<1>1. TypeOK'
  <2>1. argv[p] \in Invocations
    BY DEF IInv, Started, VerifyInitrd, Running
  <2>2. argv[p].plan \in Plans /\ argv[p].dry_run \in BOOLEAN
    BY <2>1, InvocationTyped
  <2>3. PreExecProof(p) \in Records
    BY <2>2, PlanRecordTyped DEF IInv, TypeOK, PreExecProof
  <2>4. PreExec \in EvidenceFiles
    BY DEF EvidenceFiles
  <2>5. {"done", "kexec-load", "hash-mismatch", "pre-exec-check", "open"}
           \subseteq Ended \cup Running
    BY DEF Ended, Running
  <2>6. [file |-> PreExec, record |-> PreExecProof(p),
         next |-> IF argv[p].dry_run THEN "done" ELSE "kexec-load"] \in Outs
    BY <2>3, <2>4, <2>5 DEF Outs
  <2>7. out' \in [Procs -> Outs]
    BY <2>6 DEF IInv, TypeOK, VerifyInitrd, Emit
  <2>8. pc' \in [Procs -> Ended \cup Running]
    BY <2>5 DEF IInv, TypeOK, VerifyInitrd, Emit, Goto
  <2> QED
    BY <2>7, <2>8 DEF IInv, TypeOK, VerifyInitrd
<1>2. Started'
  BY DEF IInv, TypeOK, Started, VerifyInitrd, Emit, Goto, Ended, Running
<1>3. FetchChecked'
  BY DEF IInv, TypeOK, FetchChecked, VerifyInitrd, Emit, Goto, Finished, Acceptable, Current,
         DescriptorOf
<1>4. CacheContentAddressed' /\ LoadedNeverSubstituted'
  BY DEF IInv, CacheContentAddressed, LoadedNeverSubstituted, VerifyInitrd
<1>5. PickedPresent'
  <2>1. UNCHANGED <<argv, picked, cache>> /\ pc[p] = "initrd"
    BY DEF VerifyInitrd
  <2>2. \A q \in Procs : q # p => pc'[q] = pc[q] /\ out'[q] = out[q]
    BY DEF IInv, TypeOK, VerifyInitrd, Emit, Goto
  <2>3. PickedTwo(p) /\ cache[PathOf(picked[p][1])] # Absent
    BY <2>1 DEF IInv, PickedPresent
  <2>4. Absent \notin Contents
    BY MarksAssumption DEF Unreadable
  <2>5. Heading(p, "kexec-load")' => cache[PathOf(picked[p][2])] # Absent
    BY <2>4 DEF IInv, TypeOK, VerifyInitrd, Emit, Goto, Heading, Intact
  <2>6. pc'[p] \notin {"kernel", "initrd"}
    BY DEF IInv, TypeOK, VerifyInitrd, Emit, Goto
  <2>7. PickedTwo(p)' /\ (PathOf(picked[p][1]))' = PathOf(picked[p][1])
        /\ (PathOf(picked[p][2]))' = PathOf(picked[p][2])
    BY <2>1, <2>3 DEF PickedTwo, PathOf
  <2> QED
    BY <2>1, <2>2, <2>3, <2>5, <2>6, <2>7 DEF IInv, PickedPresent, Heading, PickedTwo,
                                              PathOf
<1>6. Gated'
  BY DEF IInv, TypeOK, Gated, Heading, VerifyInitrd, Emit, Goto
<1> QED
  BY <1>1, <1>2, <1>3, <1>4, <1>5, <1>6 DEF IInv

\* The exec command looks for the proof of a load.
LEMMA CheckPreExecIInv ==
    ASSUME IInv, NEW p \in Procs, CheckPreExec(p)
    PROVE  IInv'
<1> DEFINE proof == [plan |-> argv[p].plan, dry_run |-> argv[p].dry_run,
                     artifacts |-> <<>>]
           next  == IF argv[p].dry_run THEN "done" ELSE "kexec-exec"
<1>a. UNCHANGED <<argv, bytes, cached, picked, cache, evidence, loaded, booted, runs>>
      /\ pc[p] = "pre-exec-check"
  BY DEF CheckPreExec
<1>b. Emit(p, Refusal, RefusalRecord, "refused") \/ Emit(p, ExecProof, proof, next)
  BY DEF CheckPreExec
<1>c. proof \in Records
  <2>1. argv[p] \in Invocations
    BY <1>a DEF IInv, Started, Running
  <2>2. argv[p].plan \in Plans /\ argv[p].dry_run \in BOOLEAN
    BY <2>1, InvocationTyped
  <2> QED
    BY <2>2 DEF Records
<1>d. Refusal \in EvidenceFiles /\ ExecProof \in EvidenceFiles
      /\ "refused" \in Ended \cup Running /\ next \in Ended \cup Running
  BY DEF EvidenceFiles, Ended, Running
<1>e. out' \in [Procs -> Outs] /\ pc' \in [Procs -> Ended \cup Running]
  BY <1>b, <1>c, <1>d, EmitTyped, RefusalTyped DEF IInv
<1>f. pc'[p] = "open" /\ (out'[p].next = "refused" \/ out'[p].next = next)
  BY <1>b DEF IInv, TypeOK, Emit, Goto
<1>g. \A q \in Procs : q # p => pc'[q] = pc[q] /\ out'[q] = out[q]
  BY <1>b DEF IInv, TypeOK, Emit, Goto
<1>1. TypeOK'
  BY <1>a, <1>e DEF IInv, TypeOK
<1>2. Started'
  BY <1>a, <1>f, <1>g DEF IInv, Started, Running
<1>3. FetchChecked'
  BY <1>a, <1>f, <1>g DEF IInv, FetchChecked, Finished, Acceptable, Current, DescriptorOf
<1>4. CacheContentAddressed' /\ LoadedNeverSubstituted'
  BY <1>a DEF IInv, CacheContentAddressed, LoadedNeverSubstituted
<1>5. PickedPresent'
  BY <1>a, <1>f, <1>g DEF IInv, PickedPresent, Heading, PickedTwo, PathOf
<1>6. Gated'
  BY <1>a, <1>f, <1>g DEF IInv, Gated, Heading
<1> QED
  BY <1>1, <1>2, <1>3, <1>4, <1>5, <1>6 DEF IInv

\* Reading the cache record: the two entries lie in the cache directory.
LEMMA ReadRecordIInv ==
    ASSUME IInv, NEW p \in Procs, ReadRecord(p)
    PROVE  IInv'
<1> DEFINE record == evidence[CacheRecord]
<1>1. CASE pc' = [pc EXCEPT ![p] = "no-cache-evidence"] /\ UNCHANGED picked
  <2>1. Goto(p, "no-cache-evidence") /\ "no-cache-evidence" \in Ended
    BY <1>1 DEF Goto, Ended
  <2>2. UNCHANGED <<argv, bytes, cached, picked, out, cache, evidence, loaded, booted, runs>>
    BY <1>1 DEF ReadRecord
  <2> QED
    BY <2>1, <2>2, EndProcess
<1>2. CASE pc' = [pc EXCEPT ![p] = "outside-cache"] /\ UNCHANGED picked
  <2>1. Goto(p, "outside-cache") /\ "outside-cache" \in Ended
    BY <1>2 DEF Goto, Ended
  <2>2. UNCHANGED <<argv, bytes, cached, picked, out, cache, evidence, loaded, booted, runs>>
    BY <1>2 DEF ReadRecord
  <2> QED
    BY <2>1, <2>2, EndProcess
<1>3. ASSUME Usable(record), NEW k \in DOMAIN record.artifacts,
             NEW i \in DOMAIN record.artifacts,
             InCache(record.artifacts[k], record.artifacts[i], argv[p].cache),
             pc' = [pc EXCEPT ![p] = "kernel"],
             picked' = [picked EXCEPT ![p] = <<record.artifacts[k], record.artifacts[i]>>]
      PROVE  IInv'
  <2>1. record \in Records
    BY <1>3 DEF IInv, TypeOK, Usable, EvidenceFiles
  <2>2. record.artifacts \in Seq(Entries)
    BY <2>1 DEF Records
  <2>3. record.artifacts[k] \in Entries /\ record.artifacts[i] \in Entries
    BY <1>3, <2>2
  <2> DEFINE pair == <<record.artifacts[k], record.artifacts[i]>>
  <2>4. pair \in Seq(Entries) /\ Len(pair) = 2
    BY <2>3
  <2>5. UNCHANGED <<argv, bytes, cached, out, cache, evidence, loaded, booted, runs>>
        /\ pc[p] = "record"
    BY DEF ReadRecord
  <2>6. picked'[p] = pair /\ picked' \in [Procs -> Seq(Entries)]
    BY <1>3, <2>4 DEF IInv, TypeOK
  <2>7. TypeOK'
    BY <1>3, <2>5, <2>6 DEF IInv, TypeOK, Running
  <2>8. Started' /\ FetchChecked'
    BY <1>3, <2>5 DEF IInv, TypeOK, Started, FetchChecked, Running, Finished,
                      Acceptable, Current, DescriptorOf
  <2>9. CacheContentAddressed' /\ LoadedNeverSubstituted'
    BY <2>5 DEF IInv, CacheContentAddressed, LoadedNeverSubstituted
  <2>10. PickedTwo(p)'
    BY <1>3, <2>3, <2>5, <2>6 DEF PickedTwo, InCache
  <2>11. \A q \in Procs : q # p => pc'[q] = pc[q] /\ picked'[q] = picked[q]
    BY <1>3 DEF IInv, TypeOK
  <2>12. pc'[p] = "kernel"
    BY <1>3 DEF IInv, TypeOK
  <2>13. PickedPresent'
    BY <2>5, <2>10, <2>11, <2>12 DEF IInv, PickedPresent, Heading, PickedTwo, PathOf
  <2>14. Gated'
    BY <2>5, <2>11, <2>12 DEF IInv, Gated, Heading
  <2> QED
    BY <2>7, <2>8, <2>9, <2>13, <2>14 DEF IInv
<1> QED
  BY <1>1, <1>2, <1>3 DEF ReadRecord, Goto

\* What kexec takes is an image.
LEMMA LoadedTyped ==
    ASSUME IInv, NEW p \in Procs, KexecLoad(p)
    PROVE  loaded' \in Images
<1> DEFINE kernel == picked[p][1]
           initrd == picked[p][2]
<1>1. pc[p] = "kexec-load"
  BY DEF KexecLoad
<1>2. kernel \in Entries /\ initrd \in Entries
  BY <1>1 DEF IInv, PickedPresent, Heading, PickedTwo
<1>3. argv[p].plan \in Plans
  BY <1>1, InvocationTyped DEF IInv, Started, Running
<1>4. cache[PathOf(kernel)] \in Contents \cup {Absent, Truncated}
      /\ cache[PathOf(initrd)] \in Contents \cup {Absent, Truncated}
  BY <1>2, PathTyped DEF IInv, TypeOK
<1>5. picked[p] \in Seq(Entries)
  BY DEF IInv, TypeOK
<1> QED
  BY <1>3, <1>4, <1>5 DEF KexecLoad, Images

LEMMA BootedTyped ==
    ASSUME IInv, NEW p \in Procs, KexecExec(p)
    PROVE  booted' \in [image : Images, plan : Plans]
<1>1. pc[p] = "kexec-exec"
  BY DEF KexecExec
<1> QED
  BY <1>1, InvocationTyped DEF IInv, TypeOK, Started, Running, KexecExec

\* kexec --load takes the verified files, or what a concurrent write left of them.
LEMMA KexecLoadIInv ==
    ASSUME IInv, NEW p \in Procs, KexecLoad(p)
    PROVE  IInv'
<1> DEFINE kernel == picked[p][1]
           initrd == picked[p][2]
<1>a. UNCHANGED <<argv, bytes, cached, picked, out, cache, evidence, booted, runs>>
      /\ pc[p] = "kexec-load" /\ pc' = [pc EXCEPT ![p] = "done"]
  BY DEF KexecLoad, Goto
<1>b. kernel \in Entries /\ initrd \in Entries
  BY <1>a DEF IInv, PickedPresent, Heading, PickedTwo
<1>c. cache[PathOf(kernel)] # Absent /\ cache[PathOf(initrd)] # Absent
  BY <1>a DEF IInv, PickedPresent, Heading
<1>d. /\ PathOf(kernel) \in Paths /\ PathOf(kernel)[3] = kernel.sha256
      /\ PathOf(initrd) \in Paths /\ PathOf(initrd)[3] = initrd.sha256
  BY <1>b, PathTyped
<1>e. /\ loaded'.kernel = cache[PathOf(kernel)] /\ loaded'.initrd = cache[PathOf(initrd)]
      /\ loaded'.entries = picked[p]
  BY DEF KexecLoad
<1>f. loaded' \in Images
  BY LoadedTyped
<1>1. TypeOK'
  BY <1>a, <1>f DEF IInv, TypeOK, Ended
<1>2. Started' /\ FetchChecked'
  BY <1>a DEF IInv, TypeOK, Started, Running, FetchChecked, Finished, Acceptable,
              Current, DescriptorOf
<1>3. CacheContentAddressed'
  BY <1>a DEF IInv, CacheContentAddressed
<1>4. LoadedNeverSubstituted'
  BY <1>c, <1>d, <1>e DEF IInv, TypeOK, CacheContentAddressed, LoadedNeverSubstituted
<1>5. PickedPresent'
  BY <1>a DEF IInv, TypeOK, PickedPresent, Heading, PickedTwo, PathOf
<1>6. Gated'
  BY <1>a DEF IInv, TypeOK, Gated, Heading
<1> QED
  BY <1>1, <1>2, <1>3, <1>4, <1>5, <1>6 DEF IInv

\* kexec --exec ends every process.
LEMMA KexecExecIInv ==
    ASSUME IInv, NEW p \in Procs, KexecExec(p)
    PROVE  IInv'
<1>a. UNCHANGED <<argv, cached, picked, cache, evidence, runs>> /\ pc[p] = "kexec-exec"
      /\ pc' = [q \in Procs |-> "idle"] /\ out' = [q \in Procs |-> NoOut]
      /\ bytes' = [q \in Procs |-> Absent] /\ loaded' = NoImage
  BY DEF KexecExec
<1>b. booted' \in [image : Images, plan : Plans]
  BY BootedTyped
<1>1. TypeOK'
  BY <1>a, <1>b, RefusalTyped DEF IInv, TypeOK, Ended
<1>2. Started'
  BY <1>a DEF Started, Running, NoOut
<1>3. FetchChecked'
  BY <1>a DEF FetchChecked
<1>4. CacheContentAddressed' /\ LoadedNeverSubstituted'
  BY <1>a DEF IInv, CacheContentAddressed, LoadedNeverSubstituted
<1>5. PickedPresent'
  BY <1>a DEF PickedPresent, Heading
<1>6. Gated'
  BY <1>a DEF Gated, Heading
<1> QED
  BY <1>1, <1>2, <1>3, <1>4, <1>5, <1>6 DEF IInv

\* Before the first command, nothing is cached, recorded or loaded.
LEMMA InitIInv == Init => IInv
<1> SUFFICES ASSUME Init PROVE IInv
  OBVIOUS
<1>1. TypeOK
  BY RefusalTyped DEF Init, TypeOK, Ended, Unreadable
<1>2. Started /\ FetchChecked /\ PickedPresent /\ Gated
  BY DEF Init, Started, FetchChecked, PickedPresent, Gated, Heading, Running, NoOut
<1>3. CacheContentAddressed
  BY MarksAssumption DEF Init, CacheContentAddressed, Unreadable
<1>4. LoadedNeverSubstituted
  BY DEF Init, LoadedNeverSubstituted
<1> QED
  BY <1>1, <1>2, <1>3, <1>4 DEF IInv
-----------------------------------------------------------------------------
(***************************************************************************)
(* The inductive invariant holds in every reachable state.                 *)
(***************************************************************************)
LEMMA Invariance == Spec => []IInv
<1>1. ASSUME IInv, [Next]_vars PROVE IInv'
  <2>1. ASSUME NEW p \in Procs, NEW a \in Invocations, Start(p, a) PROVE IInv'
    BY <1>1, <2>1, StartIInv
  <2>2. ASSUME NEW p \in Procs, Step(p) PROVE IInv'
    <3>1. CASE InputError(p) \/ KexecError(p)
      BY <1>1, <3>1, ErrorsIInv
    <3>2. CASE \E read \in Contents : FetchArtifact(p, read)
      BY <1>1, <3>2, FetchArtifactIInv
    <3>3. CASE CacheArtifact(p)
      BY <1>1, <3>3, CacheArtifactIInv
    <3>4. CASE CacheError(p)
      BY <1>1, <3>4, CacheErrorIInv
    <3>5. CASE FetchFinish(p)
      BY <1>1, <3>5, FetchFinishIInv
    <3>6. CASE OpenEvidence(p)
      BY <1>1, <3>6, OpenEvidenceIInv
    <3>7. CASE WriteEvidence(p)
      BY <1>1, <3>7, WriteEvidenceIInv
    <3>8. CASE SinkError(p)
      BY <1>1, <3>8, SinkErrorIInv
    <3>9. CASE ReadRecord(p)
      BY <1>1, <3>9, ReadRecordIInv
    <3>10. CASE VerifyKernel(p)
      BY <1>1, <3>10, VerifyKernelIInv
    <3>11. CASE VerifyInitrd(p)
      BY <1>1, <3>11, VerifyInitrdIInv
    <3>12. CASE CheckPreExec(p)
      BY <1>1, <3>12, CheckPreExecIInv
    <3>13. CASE KexecLoad(p)
      BY <1>1, <3>13, KexecLoadIInv
    <3>14. CASE KexecExec(p)
      BY <1>1, <3>14, KexecExecIInv
    <3>15. CASE M2AdapterPlan(p)
      BY <1>1, <3>15, M2AdapterPlanIInv
    <3>16. CASE M2BootEntry(p)
      BY <1>1, <3>16, M2BootEntryIInv
    <3> QED
      BY <2>2, <3>1, <3>2, <3>3, <3>4, <3>5, <3>6, <3>7, <3>8, <3>9, <3>10, <3>11,
         <3>12, <3>13, <3>14, <3>15, <3>16 DEF Step
  <2>3. ASSUME NEW p \in Procs, Kill(p) PROVE IInv'
    BY <1>1, <2>3, KillIInv
  <2>4. CASE UNCHANGED vars
    <3>1. TypeOK'
      BY <1>1, <2>4 DEF IInv, TypeOK, vars
    <3>2. Started' /\ FetchChecked' /\ PickedPresent' /\ Gated'
      BY <1>1, <2>4 DEF IInv, Started, FetchChecked, PickedPresent, Gated, Heading,
                        PickedTwo, PathOf, Finished, Acceptable, Current,
                        DescriptorOf, vars
    <3>3. CacheContentAddressed' /\ LoadedNeverSubstituted'
      BY <1>1, <2>4 DEF IInv, CacheContentAddressed, LoadedNeverSubstituted, vars
    <3> QED
      BY <3>1, <3>2, <3>3 DEF IInv
  <2> QED
    BY <1>1, <2>1, <2>2, <2>3, <2>4 DEF Next
<1> QED
  BY <1>1, InitIInv, PTL DEF Spec

(***************************************************************************)
(* The state of clients, cache, evidence directory and host keeps its      *)
(* type, for any number of processes and whatever dies (main.rs:526-834).  *)
(***************************************************************************)
THEOREM TypeCorrect == Spec => []TypeOK
<1>1. IInv => TypeOK
  BY DEF IInv
<1> QED
  BY <1>1, Invariance, PTL

(***************************************************************************)
(* No race, kill or error ever puts other bytes under a digest in the      *)
(* cache (main.rs:543-554).                                                *)
(***************************************************************************)
THEOREM CacheIsContentAddressed == Spec => []CacheContentAddressed
<1>1. IInv => CacheContentAddressed
  BY DEF IInv
<1> QED
  BY <1>1, Invariance, PTL

(***************************************************************************)
(* Whatever runs beside a load, kexec gets the bytes the client verified,  *)
(* or a torn file: never other bytes (main.rs:607-613, 666-672).           *)
(***************************************************************************)
THEOREM LoadsAreNeverSubstituted == Spec => []LoadedNeverSubstituted
<1>1. IInv => LoadedNeverSubstituted
  BY DEF IInv
<1> QED
  BY <1>1, Invariance, PTL

(***************************************************************************)
(* Only a command line that passed every gate changes the kernel's image   *)
(* or reboots the host (main.rs:604-606, 617-631, 680-686, 804-829).       *)
(***************************************************************************)
THEOREM MutationsAreGated == Spec => HostMutationGated
<1> DEFINE Step1 ==
      /\ loaded' # loaded /\ loaded' # NoImage =>
            \E p \in Procs :
               /\ pc[p] = "kexec-load"
               /\ argv[p].adapter = "linux-kexec"
               /\ argv[p].load_only /\ ~argv[p].exec_now
               /\ argv[p].mutation_ack /\ argv[p].root /\ ~argv[p].dry_run
               /\ InCache(loaded'.entries[1], loaded'.entries[2], argv[p].cache)
      /\ booted' # booted =>
            \E p \in Procs :
               /\ pc[p] = "kexec-exec"
               /\ argv[p].adapter = "linux-kexec"
               /\ argv[p].exec_now /\ ~argv[p].load_only
               /\ argv[p].mutation_ack /\ argv[p].reboot_ack
               /\ argv[p].root /\ ~argv[p].dry_run
<1>1. ASSUME IInv, [Next]_vars PROVE [Step1]_vars
  <2>1. ASSUME NEW p \in Procs, KexecLoad(p) PROVE Step1
    <3>1. pc[p] = "kexec-load" /\ booted' = booted /\ loaded'.entries = picked[p]
      BY <2>1 DEF KexecLoad
    <3>2. Permitted(argv[p]) /\ argv[p].adapter = "linux-kexec"
          /\ argv[p].load_only /\ ~argv[p].dry_run /\ PickedTwo(p)
      BY <1>1, <3>1 DEF IInv, Gated, PickedPresent, Heading
    <3>3. argv[p].load_only \in BOOLEAN /\ argv[p].exec_now \in BOOLEAN
      BY <1>1, <3>1, InvocationTyped DEF IInv, Started, Running
    <3>4. argv[p].mutation_ack /\ argv[p].root
      BY <3>2 DEF Permitted, RootOrDryRun
    <3>5. ~argv[p].exec_now
      BY <3>2, <3>3 DEF Permitted, Supported
    <3> QED
      BY <3>1, <3>2, <3>4, <3>5 DEF PickedTwo
  <2>2. ASSUME NEW p \in Procs, KexecExec(p) PROVE Step1
    <3>1. pc[p] = "kexec-exec" /\ loaded' = NoImage
      BY <2>2 DEF KexecExec
    <3>2. Permitted(argv[p]) /\ argv[p].adapter = "linux-kexec"
          /\ ~argv[p].load_only /\ ~argv[p].dry_run
      BY <1>1, <3>1 DEF IInv, Gated, Heading
    <3>3. argv[p].load_only \in BOOLEAN /\ argv[p].exec_now \in BOOLEAN
      BY <1>1, <3>1, InvocationTyped DEF IInv, Started, Running
    <3>4. argv[p].exec_now
      BY <3>2, <3>3 DEF Permitted, Supported
    <3>5. argv[p].mutation_ack /\ argv[p].reboot_ack /\ argv[p].root
      BY <3>2, <3>4 DEF Permitted, RootOrDryRun
    <3> QED
      BY <3>1, <3>2, <3>4, <3>5
  <2>3. ASSUME loaded' = loaded, booted' = booted PROVE Step1
    BY <2>3
  <2>4. ASSUME NEW p \in Procs, Step(p), ~KexecLoad(p), ~KexecExec(p)
        PROVE  loaded' = loaded /\ booted' = booted
    BY <2>4 DEF Step, InputError, FetchArtifact, CacheArtifact, CacheError, FetchFinish,
                OpenEvidence, WriteEvidence, SinkError, ReadRecord, VerifyKernel,
                VerifyInitrd, CheckPreExec, KexecError, M2AdapterPlan, M2BootEntry
  <2>5. ASSUME NEW p \in Procs, NEW a \in Invocations, Start(p, a)
        PROVE  loaded' = loaded /\ booted' = booted
    BY <2>5 DEF Start
  <2>6. ASSUME NEW p \in Procs, Kill(p) PROVE loaded' = loaded /\ booted' = booted
    BY <2>6 DEF Kill
  <2>7. CASE UNCHANGED vars
    BY <2>7
  <2>8. CASE Next
    BY <2>8, <2>1, <2>2, <2>3, <2>4, <2>5, <2>6 DEF Next
  <2> QED
    BY <1>1, <2>7, <2>8
<1> QED
  BY <1>1, Invariance, PTL DEF Spec, HostMutationGated
-----------------------------------------------------------------------------
(***************************************************************************)
(* The rest proves that cache records and loaded images come from one      *)
(* fetch.  The inductive invariant follows the entries on their way: into  *)
(* the list of a running fetch, into the record it queues, onto the disk,  *)
(* into the pair a load picks, and into the image.                         *)
(***************************************************************************)
\* A list of entries begins as a fetch of the plan into the directory does.
FetchedFor(list, plan, dir) ==
    \A i \in DOMAIN list :
       /\ PlanArtifacts[plan][i][1] \in DOMAIN KindOfKey
       /\ list[i].ref = PlanArtifacts[plan][i][2]
       /\ list[i].kind = KindOfKey[PlanArtifacts[plan][i][1]]
       /\ list[i].cache = dir

\* A record of one whole fetch.
WholeFetch(record) ==
    /\ record \in Records
    /\ record.plan \in Plans
    /\ Len(record.artifacts) = Len(PlanArtifacts[record.plan])
    /\ \E dir \in Caches : FetchedFor(record.artifacts, record.plan, dir)

\* A kernel and an initrd of one fetch.
OneFetch(kernel, initrd) ==
    /\ kernel.cache = initrd.cache
    /\ \E plan \in Plans : /\ CachedFor(kernel, plan, "kernel_ref")
                           /\ CachedFor(initrd, plan, "initrd_ref")

CachedSoFar ==
    \A p \in Procs : pc[p] \in {"fetch", "cache-write"} =>
                        FetchedFor(cached[p], argv[p].plan, argv[p].cache)

QueuedWhole ==
    \A p \in Procs : out[p].file = CacheRecord => WholeFetch(out[p].record)

RecordWhole ==
    evidence[CacheRecord] \notin Unreadable => WholeFetch(evidence[CacheRecord])

Picking(p) == pc[p] \in {"kernel", "initrd"} \/ Heading(p, "kexec-load")
PickedTogether ==
    \A p \in Procs : Picking(p) => OneFetch(picked[p][1], picked[p][2])

FInv ==
    /\ CachedSoFar
    /\ QueuedWhole
    /\ RecordWhole
    /\ PickedTogether
    /\ LoadedFromOneFetch

-----------------------------------------------------------------------------
(***************************************************************************)
(* A step of one process leaves the others alone, or stops them all.       *)
(***************************************************************************)
LEMMA OthersKept ==
    ASSUME IInv, NEW p \in Procs, NEW q \in Procs, q # p,
           Step(p) \/ Kill(p) \/ \E a \in Invocations : Start(p, a)
    PROVE  /\ argv'[q] = argv[q] /\ cached'[q] = cached[q]
           /\ picked'[q] = picked[q]
           /\ \/ pc'[q] = pc[q] /\ out'[q] = out[q]
              \/ pc'[q] = "idle" /\ out'[q] = NoOut
<1>1. CASE KexecExec(p)
  BY <1>1 DEF KexecExec
<1>2. CASE InputError(p) \/ (\E read \in Contents : FetchArtifact(p, read))
           \/ CacheArtifact(p) \/ CacheError(p) \/ FetchFinish(p)
  BY <1>2 DEF IInv, TypeOK, InputError, FetchArtifact, CacheArtifact,
              CacheError, FetchFinish, Emit, Goto
<1>3. CASE OpenEvidence(p) \/ WriteEvidence(p) \/ SinkError(p) \/ Kill(p)
  BY <1>3 DEF IInv, TypeOK, OpenEvidence, WriteEvidence, SinkError, Kill, Goto
<1>4. CASE ReadRecord(p) \/ VerifyKernel(p) \/ VerifyInitrd(p)
           \/ CheckPreExec(p) \/ KexecLoad(p) \/ KexecError(p)
           \/ M2AdapterPlan(p) \/ M2BootEntry(p)
  BY <1>4 DEF IInv, TypeOK, ReadRecord, VerifyKernel, VerifyInitrd,
              CheckPreExec, KexecLoad, KexecError, M2AdapterPlan, M2BootEntry,
              Emit, Goto
<1>5. CASE \E a \in Invocations : Start(p, a)
  BY <1>5 DEF IInv, TypeOK, Start, Emit, Goto
<1> QED
  BY <1>1, <1>2, <1>3, <1>4, <1>5 DEF Step

\* Each process is either still there with what it held, or stopped.
LEMMA StepOfOne ==
    ASSUME IInv, FInv, NEW p \in Procs,
           Step(p) \/ Kill(p) \/ \E a \in Invocations : Start(p, a),
           pc'[p] \in {"fetch", "cache-write"} =>
              FetchedFor(cached'[p], argv'[p].plan, argv'[p].cache),
           out'[p].file = CacheRecord => WholeFetch(out'[p].record),
           Picking(p)' => OneFetch(picked'[p][1], picked'[p][2])
    PROVE  CachedSoFar' /\ QueuedWhole' /\ PickedTogether'
<1>1. ASSUME NEW q \in Procs
      PROVE  /\ pc'[q] \in {"fetch", "cache-write"} =>
                   FetchedFor(cached'[q], argv'[q].plan, argv'[q].cache)
             /\ out'[q].file = CacheRecord => WholeFetch(out'[q].record)
             /\ Picking(q)' => OneFetch(picked'[q][1], picked'[q][2])
  <2>1. CASE q = p
    BY <2>1
  <2>2. CASE q # p
    <3>1. /\ argv'[q] = argv[q] /\ cached'[q] = cached[q]
          /\ picked'[q] = picked[q]
          /\ \/ pc'[q] = pc[q] /\ out'[q] = out[q]
             \/ pc'[q] = "idle" /\ out'[q] = NoOut
      BY <2>2, OthersKept
    <3>2. NoOut.file # CacheRecord
      BY DEF NoOut, Refusal, CacheRecord
    <3> QED
      BY <3>1, <3>2 DEF FInv, CachedSoFar, QueuedWhole, PickedTogether,
                        Picking, Heading
  <2> QED
    BY <2>1, <2>2
<1> QED
  BY <1>1 DEF CachedSoFar, QueuedWhole, PickedTogether, FetchedFor,
              WholeFetch, OneFetch, CachedFor

\* A step that touches neither the evidence directory nor the image.
LEMMA QuietRecords ==
    ASSUME FInv, UNCHANGED <<evidence, loaded>>
    PROVE  RecordWhole' /\ LoadedFromOneFetch'
BY DEF FInv, RecordWhole, WholeFetch, FetchedFor, LoadedFromOneFetch, CachedFor

-----------------------------------------------------------------------------
\* Starting a command: a fetch has cached nothing, an execute picked nothing.
LEMMA StartFInv ==
    ASSUME IInv, FInv, NEW p \in Procs, NEW a \in Invocations, Start(p, a)
    PROVE  FInv'
<1>1. UNCHANGED <<evidence, loaded>> /\ cached'[p] = <<>>
  BY DEF IInv, TypeOK, Start
<1>2. \/ pc'[p] \in {"fetch", "record", "m2"} /\ out' = out
      \/ pc'[p] = "open" /\ out'[p].file = Refusal /\ out'[p].next = "refused"
  BY DEF IInv, TypeOK, Start, Emit, Goto
<1>3. FetchedFor(cached'[p], argv'[p].plan, argv'[p].cache)
  BY <1>1 DEF FetchedFor
<1>4. out'[p].file = CacheRecord => WholeFetch(out'[p].record)
  BY <1>2 DEF FInv, QueuedWhole, Refusal, CacheRecord
<1>5. ~Picking(p)'
  BY <1>2 DEF Picking, Heading
<1> QED
  BY <1>1, <1>3, <1>4, <1>5, StepOfOne, QuietRecords DEF FInv

\* Steps that queue no cache record, pick nothing and leave the records alone.
LEMMA QuietFInv ==
    ASSUME IInv, FInv, NEW p \in Procs,
           \/ InputError(p) \/ CacheError(p) \/ KexecError(p)
           \/ VerifyKernel(p) \/ VerifyInitrd(p) \/ CheckPreExec(p)
           \/ M2AdapterPlan(p) \/ M2BootEntry(p)
           \/ \E read \in Contents : FetchArtifact(p, read)
    PROVE  FInv'
<1>1. /\ UNCHANGED <<argv, cached, picked, evidence, loaded>>
      /\ \/ out' = out
         \/ pc'[p] = "open" /\ out'[p].file \in EvidenceFiles \ {CacheRecord}
  BY DEF IInv, TypeOK, InputError, CacheError, KexecError, VerifyKernel,
         VerifyInitrd, CheckPreExec, M2AdapterPlan, M2BootEntry, FetchArtifact,
         Emit, Goto, EvidenceFiles, CacheRecord, PreExec, ExecProof,
         AdapterPlan, BootEntry, Refusal
<1>2. pc'[p] \in {"fetch", "cache-write"} => pc[p] \in {"fetch", "cache-write"}
  BY DEF IInv, TypeOK, InputError, CacheError, KexecError, VerifyKernel,
         VerifyInitrd, CheckPreExec, M2AdapterPlan, M2BootEntry, FetchArtifact,
         Emit, Goto
<1>3. Picking(p)' => Picking(p)
  BY DEF IInv, TypeOK, InputError, CacheError, KexecError, VerifyKernel,
         VerifyInitrd, CheckPreExec, M2AdapterPlan, M2BootEntry, FetchArtifact,
         Emit, Goto, Picking, Heading
<1>4. out'[p].file = CacheRecord => WholeFetch(out'[p].record)
  BY <1>1 DEF FInv, QueuedWhole
<1>5. Picking(p)' => OneFetch(picked'[p][1], picked'[p][2])
  BY <1>1, <1>3 DEF FInv, PickedTogether
<1>6. pc'[p] \in {"fetch", "cache-write"} =>
         FetchedFor(cached'[p], argv'[p].plan, argv'[p].cache)
  BY <1>1, <1>2 DEF FInv, CachedSoFar
<1>7. Step(p)
  BY DEF Step
<1> QED
  BY <1>1, <1>4, <1>5, <1>6, <1>7, StepOfOne, QuietRecords DEF FInv

\* The entry that is pushed is the plan's next one.
LEMMA CacheArtifactFInv ==
    ASSUME IInv, FInv, NEW p \in Procs, CacheArtifact(p)
    PROVE  FInv'
<1> DEFINE list == cached[p]
           new  == EntryOf(p)
           plan == argv[p].plan
           dir  == argv[p].cache
<1>1. /\ UNCHANGED <<argv, picked, out, evidence, loaded>>
      /\ pc[p] = "cache-write" /\ pc'[p] = "fetch"
      /\ cached'[p] = Append(list, new)
  BY DEF IInv, TypeOK, CacheArtifact, Goto
<1>2. Acceptable(p, bytes[p]) /\ FetchedFor(list, plan, dir)
  BY <1>1 DEF IInv, FetchChecked, FInv, CachedSoFar
<1>3. list \in Seq(Entries)
  BY DEF IInv, TypeOK
<1>4. /\ Current(p)[1] \in DOMAIN KindOfKey
      /\ new.ref = Current(p)[2]
      /\ new.kind = KindOfKey[Current(p)[1]]
      /\ new.cache = dir
  BY <1>2 DEF Acceptable, EntryOf
<1>5. Current(p) = PlanArtifacts[plan][Len(list) + 1]
  BY DEF Current
<1> HIDE DEF list, new, plan, dir
<1>6. FetchedFor(Append(list, new), plan, dir)
  BY <1>2, <1>3, <1>4, <1>5 DEF FetchedFor
<1>7. ~Picking(p)'
  BY <1>1 DEF Picking, Heading
<1>8. out'[p].file = CacheRecord => WholeFetch(out'[p].record)
  BY <1>1 DEF FInv, QueuedWhole
<1>9. FetchedFor(cached'[p], argv'[p].plan, argv'[p].cache)
  BY <1>1, <1>6 DEF plan, dir
<1>10. Step(p)
  BY DEF Step
<1> QED
  BY <1>1, <1>7, <1>8, <1>9, <1>10, StepOfOne, QuietRecords DEF FInv

\* A fetch that is through queues a whole record.
LEMMA FetchFinishFInv ==
    ASSUME IInv, FInv, NEW p \in Procs, FetchFinish(p)
    PROVE  FInv'
<1> DEFINE record == [plan |-> argv[p].plan, dry_run |-> FALSE, artifacts |-> cached[p]]
<1>1. /\ UNCHANGED <<argv, picked, evidence, loaded>>
      /\ pc[p] = "fetch" /\ pc'[p] = "open" /\ Finished(p)
      /\ out'[p].record = record /\ out'[p].next = "done"
  BY DEF IInv, TypeOK, FetchFinish, Emit, Goto
<1>2. argv[p] \in Invocations
  BY <1>1 DEF IInv, Started, Running
<1>3. argv[p].plan \in Plans /\ argv[p].cache \in Caches
  BY <1>2, InvocationTyped
<1>4. record \in Records
  BY <1>3, PlanRecordTyped DEF IInv, TypeOK
<1>5. FetchedFor(cached[p], argv[p].plan, argv[p].cache)
  BY <1>1 DEF FInv, CachedSoFar
<1>6. WholeFetch(record)
  BY <1>1, <1>3, <1>4, <1>5 DEF WholeFetch, Finished
<1>7. WholeFetch(out'[p].record)
  BY <1>1, <1>6
<1>8. ~Picking(p)'
  BY <1>1 DEF Picking, Heading
<1>9. Step(p)
  BY DEF Step
<1> QED
  BY <1>1, <1>7, <1>8, <1>9, StepOfOne, QuietRecords DEF FInv

\* What comes into the cache record is what was queued, or cannot be read.
LEMMA EvidenceFInv ==
    ASSUME IInv, FInv, NEW p \in Procs,
           OpenEvidence(p) \/ WriteEvidence(p) \/ SinkError(p) \/ Kill(p)
    PROVE  FInv'
<1>1. UNCHANGED <<argv, cached, picked, loaded>>
  BY DEF OpenEvidence, WriteEvidence, SinkError, Kill
<1>2. Truncated \in Unreadable /\ Garbled \in Unreadable
  BY DEF Unreadable
<1>3. \/ evidence'[CacheRecord] = evidence[CacheRecord]
      \/ evidence'[CacheRecord] \in Unreadable
      \/ out[p].file = CacheRecord /\ evidence'[CacheRecord] = out[p].record
  <2> DEFINE file == out[p].file
  <2>1. CASE evidence' = evidence
    BY <2>1
  <2>2. \/ evidence' = evidence
        \/ \E v \in {out[p].record, Truncated, Garbled} :
              evidence' = [evidence EXCEPT ![file] = v]
    BY DEF OpenEvidence, WriteEvidence, SinkError, Kill
  <2>3. ASSUME NEW v \in {out[p].record, Truncated, Garbled},
               evidence' = [evidence EXCEPT ![file] = v]
        PROVE  \/ evidence'[CacheRecord] = evidence[CacheRecord]
               \/ file = CacheRecord /\ evidence'[CacheRecord] = v
    <3>1. CacheRecord \in DOMAIN evidence
      BY DEF IInv, TypeOK, EvidenceFiles
    <3> QED
      BY <2>3, <3>1
  <2> QED
    BY <1>2, <2>1, <2>2, <2>3
<1>4. RecordWhole'
  <2>1. evidence'[CacheRecord] \notin Unreadable => WholeFetch(evidence'[CacheRecord])
    BY <1>3 DEF FInv, RecordWhole, QueuedWhole
  <2> QED
    BY <2>1 DEF RecordWhole, WholeFetch, FetchedFor, Unreadable
<1>5. out'[p] = out[p] \/ out'[p] = NoOut
  BY DEF IInv, TypeOK, OpenEvidence, WriteEvidence, SinkError, Kill
<1>6. out'[p].file = CacheRecord => WholeFetch(out'[p].record)
  BY <1>5 DEF FInv, QueuedWhole, NoOut, Refusal, CacheRecord
<1>7. pc'[p] \notin {"fetch", "cache-write"}
  BY DEF IInv, TypeOK, Started, OpenEvidence, WriteEvidence, SinkError, Kill,
         Goto, AfterSinkError
<1>8. Picking(p)' => Picking(p)
  BY DEF IInv, TypeOK, Started, OpenEvidence, WriteEvidence, SinkError, Kill,
         Goto, AfterSinkError, Picking, Heading, NoOut
<1>9. Picking(p)' => OneFetch(picked'[p][1], picked'[p][2])
  BY <1>1, <1>8 DEF FInv, PickedTogether
<1>10. Step(p) \/ Kill(p)
  BY DEF Step
<1>11. CachedSoFar' /\ QueuedWhole' /\ PickedTogether'
  BY <1>6, <1>7, <1>9, <1>10, StepOfOne
<1>12. LoadedFromOneFetch'
  BY <1>1 DEF FInv, LoadedFromOneFetch, CachedFor
<1> QED
  BY <1>4, <1>11, <1>12 DEF FInv

-----------------------------------------------------------------------------
\* Among the entries of a fetch, the kind tells which key an entry was for.
LEMMA EntryOfKind ==
    ASSUME NEW record, WholeFetch(record), NEW i \in DOMAIN record.artifacts,
           NEW key \in {"kernel_ref", "initrd_ref"},
           record.artifacts[i].kind = KindOfKey[key]
    PROVE  CachedFor(record.artifacts[i], record.plan, key)
<1> DEFINE wanted == PlanArtifacts[record.plan]
           list   == record.artifacts
<1>1. PICK dir \in Caches : FetchedFor(list, record.plan, dir)
  BY DEF WholeFetch
<1>2. wanted \in Seq(STRING \X Refs) /\ list \in Seq(Entries) /\ Len(list) = Len(wanted)
  BY PlansAssumption DEF WholeFetch, Records
<1>3. i \in DOMAIN wanted
  BY <1>2
<1>4. wanted[i] \in STRING \X Refs
  BY <1>2, <1>3
<1>5. /\ wanted[i][1] \in DOMAIN KindOfKey
      /\ list[i].ref = wanted[i][2]
      /\ list[i].kind = KindOfKey[wanted[i][1]]
  BY <1>1 DEF FetchedFor
<1>6. wanted[i][1] = key
  BY <1>5 DEF KindOfKey
<1>7. wanted[i] = <<key, list[i].ref>>
  BY <1>4, <1>5, <1>6
<1> QED
  BY <1>3, <1>7 DEF CachedFor

\* The pair that is picked is of the record's fetch.
LEMMA ReadRecordFInv ==
    ASSUME IInv, FInv, NEW p \in Procs, ReadRecord(p)
    PROVE  FInv'
<1> DEFINE record == evidence[CacheRecord]
<1>1. /\ UNCHANGED <<argv, cached, out, evidence, loaded>>
      /\ pc[p] = "record"
  BY DEF ReadRecord
<1>2. \/ pc'[p] \in {"no-cache-evidence", "outside-cache"}
      \/ /\ pc'[p] = "kernel"
         /\ Usable(record)
         /\ \E k, i \in DOMAIN record.artifacts :
               /\ IsFirst(record, k, "kernel") /\ IsFirst(record, i, "initrd")
               /\ InCache(record.artifacts[k], record.artifacts[i], argv[p].cache)
               /\ picked'[p] = <<record.artifacts[k], record.artifacts[i]>>
  BY DEF IInv, TypeOK, ReadRecord, Goto
<1>3. Picking(p)' => OneFetch(picked'[p][1], picked'[p][2])
  <2>1. CASE pc'[p] \in {"no-cache-evidence", "outside-cache"}
    BY <2>1 DEF Picking, Heading
  <2>2. ASSUME Usable(record),
               NEW k \in DOMAIN record.artifacts, NEW i \in DOMAIN record.artifacts,
               IsFirst(record, k, "kernel"), IsFirst(record, i, "initrd"),
               InCache(record.artifacts[k], record.artifacts[i], argv[p].cache),
               picked'[p] = <<record.artifacts[k], record.artifacts[i]>>
        PROVE  OneFetch(picked'[p][1], picked'[p][2])
    <3>1. WholeFetch(record) /\ record.plan \in Plans
      BY <2>2 DEF FInv, RecordWhole, Usable, WholeFetch
    <3>2. /\ record.artifacts[k].kind = KindOfKey["kernel_ref"]
          /\ record.artifacts[i].kind = KindOfKey["initrd_ref"]
      BY <2>2 DEF IsFirst, KindOfKey
    <3>3. /\ CachedFor(record.artifacts[k], record.plan, "kernel_ref")
          /\ CachedFor(record.artifacts[i], record.plan, "initrd_ref")
      BY <3>1, <3>2, EntryOfKind
    <3>4. record.artifacts[k].cache = record.artifacts[i].cache
      BY <3>1 DEF WholeFetch, FetchedFor
    <3> QED
      BY <2>2, <3>1, <3>3, <3>4 DEF OneFetch
  <2> QED
    BY <1>2, <2>1, <2>2
<1>4. pc'[p] \notin {"fetch", "cache-write"}
  BY <1>2
<1>5. out'[p].file = CacheRecord => WholeFetch(out'[p].record)
  BY <1>1 DEF FInv, QueuedWhole
<1>6. Step(p)
  BY DEF Step
<1> QED
  BY <1>1, <1>3, <1>4, <1>5, <1>6, StepOfOne, QuietRecords DEF FInv

\* kexec takes the pair, or all processes end.
LEMMA KexecFInv ==
    ASSUME IInv, FInv, NEW p \in Procs, KexecLoad(p) \/ KexecExec(p)
    PROVE  FInv'
<1>1. UNCHANGED <<argv, cached, picked, evidence>>
  BY DEF KexecLoad, KexecExec
<1>2. RecordWhole'
  BY <1>1 DEF FInv, RecordWhole, WholeFetch, FetchedFor
<1>3. CASE KexecLoad(p)
  <2>1. /\ Picking(p) /\ pc'[p] = "done" /\ out' = out
        /\ loaded'.entries = picked[p]
    BY <1>3 DEF IInv, TypeOK, KexecLoad, Goto, Picking, Heading
  <2>2. OneFetch(loaded'.entries[1], loaded'.entries[2])
    BY <2>1 DEF FInv, PickedTogether
  <2>3. LoadedFromOneFetch'
    BY <2>2 DEF LoadedFromOneFetch, OneFetch, CachedFor
  <2>4. ~Picking(p)'
    BY <2>1 DEF Picking, Heading
  <2>5. out'[p].file = CacheRecord => WholeFetch(out'[p].record)
    BY <2>1 DEF FInv, QueuedWhole
  <2>6. CachedSoFar' /\ QueuedWhole' /\ PickedTogether'
    BY <1>3, <2>1, <2>4, <2>5, StepOfOne DEF Step
  <2> QED
    BY <1>2, <2>3, <2>6 DEF FInv
<1>4. CASE KexecExec(p)
  <2>1. /\ loaded' = NoImage
        /\ pc' = [q \in Procs |-> "idle"] /\ out' = [q \in Procs |-> NoOut]
    BY <1>4 DEF KexecExec
  <2>2. LoadedFromOneFetch'
    BY <2>1 DEF LoadedFromOneFetch
  <2>3. CachedSoFar' /\ QueuedWhole' /\ PickedTogether'
    BY <2>1 DEF CachedSoFar, QueuedWhole, PickedTogether, Picking, Heading,
                NoOut, Refusal, CacheRecord
  <2> QED
    BY <1>2, <2>2, <2>3 DEF FInv
<1> QED
  BY <1>3, <1>4

-----------------------------------------------------------------------------
\* Nothing is cached, queued, recorded, picked or loaded at first.
LEMMA InitFInv == Init => FInv
BY DEF Init, FInv, CachedSoFar, QueuedWhole, RecordWhole, PickedTogether,
       Picking, Heading, LoadedFromOneFetch, NoOut, Refusal, CacheRecord,
       EvidenceFiles, Unreadable

LEMMA FetchInvariance == Spec => []FInv
<1>1. IInv /\ FInv /\ [Next]_vars => FInv'
  <2> SUFFICES ASSUME IInv, FInv, [Next]_vars
               PROVE  FInv'
    OBVIOUS
  <2>1. ASSUME NEW p \in Procs, Step(p)
        PROVE  FInv'
    BY <2>1, QuietFInv, CacheArtifactFInv, FetchFinishFInv, EvidenceFInv,
       ReadRecordFInv, KexecFInv DEF Step
  <2>2. ASSUME NEW p \in Procs, NEW a \in Invocations, Start(p, a)
        PROVE  FInv'
    BY <2>2, StartFInv
  <2>3. ASSUME NEW p \in Procs, Kill(p)
        PROVE  FInv'
    BY <2>3, EvidenceFInv
  <2>4. CASE UNCHANGED vars
    <3>1. UNCHANGED <<evidence, loaded, argv, cached, picked, pc, out>>
      BY <2>4 DEF vars
    <3>2. CachedSoFar'
      BY <3>1 DEF FInv, CachedSoFar, FetchedFor
    <3>3. QueuedWhole'
      BY <3>1 DEF FInv, QueuedWhole, WholeFetch, FetchedFor
    <3>4. PickedTogether'
      BY <3>1 DEF FInv, PickedTogether, Picking, Heading, OneFetch, CachedFor
    <3> QED
      BY <3>1, <3>2, <3>3, <3>4, QuietRecords DEF FInv
  <2> QED
    BY <2>1, <2>2, <2>3, <2>4 DEF Next
<1> QED
  BY <1>1, InitFInv, Invariance, PTL DEF Spec

(***************************************************************************)
(* Whatever processes overlap, fail or are killed, a cache record that can *)
(* be read lists one whole fetch of the plan it names (main.rs:533-575).   *)
(***************************************************************************)
THEOREM RecordsAreOneFetch == Spec => []RecordIsOneFetch
<1>1. FInv => RecordIsOneFetch
  <2> SUFFICES ASSUME FInv, evidence[CacheRecord] \notin Unreadable
               PROVE  LET record == evidence[CacheRecord]
                          wanted == PlanArtifacts[record.plan]
                      IN  /\ Len(record.artifacts) = Len(wanted)
                          /\ \A i \in DOMAIN wanted :
                                /\ record.artifacts[i].ref = wanted[i][2]
                                /\ record.artifacts[i].kind = KindOfKey[wanted[i][1]]
                                /\ record.artifacts[i].cache = record.artifacts[1].cache
    BY DEF RecordIsOneFetch
  <2> DEFINE record == evidence[CacheRecord]
             wanted == PlanArtifacts[record.plan]
  <2>1. WholeFetch(record)
    BY DEF FInv, RecordWhole
  <2>2. /\ record.artifacts \in Seq(Entries) /\ wanted \in Seq(STRING \X Refs)
        /\ Len(record.artifacts) = Len(wanted)
    BY <2>1, PlansAssumption DEF WholeFetch, Records
  <2>3. PICK dir \in Caches : FetchedFor(record.artifacts, record.plan, dir)
    BY <2>1 DEF WholeFetch
  <2>4. \A i \in DOMAIN wanted : i \in DOMAIN record.artifacts /\ 1 \in DOMAIN record.artifacts
    BY <2>2
  <2> QED
    BY <2>2, <2>3, <2>4 DEF FetchedFor
<1> QED
  BY FetchInvariance, <1>1, PTL

(***************************************************************************)
(* However fetches replace the record meanwhile, kexec gets a kernel and   *)
(* an initrd of one fetch (main.rs:598-606).                               *)
(***************************************************************************)
THEOREM LoadsAreFromOneFetch == Spec => []LoadedFromOneFetch
<1>1. FInv => LoadedFromOneFetch
  BY DEF FInv
<1> QED
  BY FetchInvariance, <1>1, PTL

-----------------------------------------------------------------------------
(***************************************************************************)
(* The rest proves that the client implements Handoff.  The invariant says *)
(* that what a load picked was recorded at some time, although the record  *)
(* may have been replaced since.                                           *)
(***************************************************************************)
PickedFrom(p, plan) ==
    /\ CachedFor(picked[p][1], plan, "kernel_ref")
    /\ CachedFor(picked[p][2], plan, "initrd_ref")

HInv ==
    /\ Recorded \subseteq fetched
    /\ \A p \in Procs : Picking(p) => \E plan \in fetched : PickedFrom(p, plan)

\* A pair is picked from the record, and kept until it is loaded.
LEMMA PickingKept ==
    ASSUME IInv, NEW p \in Procs, ~ReadRecord(p), Picking(p)',
           Step(p) \/ Kill(p) \/ \E a \in Invocations : Start(p, a)
    PROVE  Picking(p) /\ picked'[p] = picked[p]
<1>1. ASSUME NEW a \in Invocations, Start(p, a)
      PROVE  FALSE
  <2>1. \/ pc'[p] \in {"fetch", "record", "m2"}
        \/ pc'[p] = "open" /\ out'[p].next = "refused"
    BY <1>1 DEF IInv, TypeOK, Start, Emit, Goto
  <2> QED
    BY <2>1 DEF Picking, Heading
<1>2. CASE OpenEvidence(p) \/ WriteEvidence(p) \/ SinkError(p) \/ Kill(p)
  BY <1>2 DEF IInv, TypeOK, Started, OpenEvidence, WriteEvidence, SinkError, Kill,
              Goto, AfterSinkError, Picking, Heading, NoOut
<1>3. CASE \/ InputError(p) \/ CacheError(p) \/ KexecError(p)
           \/ VerifyKernel(p) \/ VerifyInitrd(p) \/ CheckPreExec(p)
           \/ M2AdapterPlan(p) \/ M2BootEntry(p)
           \/ \E read \in Contents : FetchArtifact(p, read)
  BY <1>3 DEF IInv, TypeOK, InputError, CacheError, KexecError, VerifyKernel,
              VerifyInitrd, CheckPreExec, M2AdapterPlan, M2BootEntry, FetchArtifact,
              Emit, Goto, Picking, Heading
<1>4. CASE CacheArtifact(p) \/ FetchFinish(p)
  BY <1>4 DEF IInv, TypeOK, CacheArtifact, FetchFinish, Emit, Goto, Picking, Heading
<1>5. CASE KexecLoad(p) \/ KexecExec(p)
  BY <1>5 DEF IInv, TypeOK, KexecLoad, KexecExec, Goto, Picking, Heading
<1> QED
  BY <1>1, <1>2, <1>3, <1>4, <1>5 DEF Step

\* What ReadRecord picks is of the plan the record names.
LEMMA PickedFromRecorded ==
    ASSUME IInv, FInv, NEW p \in Procs, ReadRecord(p), Picking(p)'
    PROVE  \E plan \in Recorded : PickedFrom(p, plan)'
<1> DEFINE record == evidence[CacheRecord]
<1>1. pc'[p] \notin {"no-cache-evidence", "outside-cache"}
  BY DEF Picking, Heading
<1>2. /\ Usable(record)
      /\ \E k, i \in DOMAIN record.artifacts :
            /\ IsFirst(record, k, "kernel") /\ IsFirst(record, i, "initrd")
            /\ picked'[p] = <<record.artifacts[k], record.artifacts[i]>>
  BY <1>1 DEF IInv, TypeOK, ReadRecord, Goto
<1>3. PICK k \in DOMAIN record.artifacts, i \in DOMAIN record.artifacts :
         /\ IsFirst(record, k, "kernel") /\ IsFirst(record, i, "initrd")
         /\ picked'[p] = <<record.artifacts[k], record.artifacts[i]>>
  BY <1>2
<1>4. WholeFetch(record)
  BY <1>2 DEF FInv, RecordWhole, Usable
<1>5. /\ record.artifacts[k].kind = KindOfKey["kernel_ref"]
      /\ record.artifacts[i].kind = KindOfKey["initrd_ref"]
  BY <1>3 DEF IsFirst, KindOfKey
<1>6. /\ CachedFor(record.artifacts[k], record.plan, "kernel_ref")
      /\ CachedFor(record.artifacts[i], record.plan, "initrd_ref")
  BY <1>4, <1>5, EntryOfKind
<1>7. record.plan \in Recorded
  BY <1>2 DEF Recorded, Usable
<1> QED
  BY <1>3, <1>6, <1>7 DEF PickedFrom, CachedFor

\* The plans a step finds recorded stay fetched.
LEMMA HInvStep ==
    ASSUME IInv, FInv, HInv, [HistoryNext]_historyVars
    PROVE  HInv'
<1>1. fetched \subseteq fetched' /\ Recorded' \subseteq fetched'
  BY DEF HistoryNext, historyVars, vars, HInv, Recorded
<1>2. ASSUME NEW q \in Procs, Picking(q)'
      PROVE  \E plan \in fetched' : PickedFrom(q, plan)'
  <2>1. CASE Picking(q) /\ picked'[q] = picked[q]
    BY <1>1, <2>1 DEF HInv, PickedFrom, CachedFor
  <2>2. CASE UNCHANGED historyVars
    <3>1. Picking(q) /\ picked'[q] = picked[q]
      BY <1>2, <2>2 DEF historyVars, vars, Picking, Heading
    <3> QED
      BY <2>1, <3>1
  <2>3. ASSUME NEW p \in Procs,
               Step(p) \/ Kill(p) \/ \E a \in Invocations : Start(p, a)
        PROVE  \E plan \in fetched' : PickedFrom(q, plan)'
    <3>1. CASE q # p
      <4>1. /\ picked'[q] = picked[q]
            /\ \/ pc'[q] = pc[q] /\ out'[q] = out[q]
               \/ pc'[q] = "idle" /\ out'[q] = NoOut
        BY <2>3, <3>1, OthersKept
      <4>2. Picking(q)
        BY <1>2, <4>1 DEF Picking, Heading
      <4> QED
        BY <2>1, <4>1, <4>2
    <3>2. CASE q = p /\ ~ReadRecord(p)
      BY <1>2, <2>1, <2>3, <3>2, PickingKept
    <3>3. CASE q = p /\ ReadRecord(p)
      <4>1. \E plan \in Recorded : PickedFrom(q, plan)'
        BY <1>2, <3>3, PickedFromRecorded
      <4> QED
        BY <1>1, <4>1 DEF HInv
    <3> QED
      BY <3>1, <3>2, <3>3
  <2> QED
    BY <2>2, <2>3 DEF HistoryNext, Next
<1> QED
  BY <1>1, <1>2 DEF HInv

-----------------------------------------------------------------------------
\* The image in the kernel was loaded from refs of a plan.
LoadedRefs ==
    loaded # NoImage => <<loaded.entries[1].ref, loaded.entries[2].ref>> \in Refs \X Refs

LEMMA LoadedRefsTyped == FInv => LoadedRefs
<1> SUFFICES ASSUME FInv, loaded # NoImage
             PROVE  loaded.entries[1].ref \in Refs /\ loaded.entries[2].ref \in Refs
  BY DEF LoadedRefs
<1>1. PICK plan \in Plans : /\ CachedFor(loaded.entries[1], plan, "kernel_ref")
                            /\ CachedFor(loaded.entries[2], plan, "initrd_ref")
  BY DEF FInv, LoadedFromOneFetch
<1>2. \A i \in DOMAIN PlanArtifacts[plan] : PlanArtifacts[plan][i] \in STRING \X Refs
  BY PlansAssumption
<1>3. ASSUME NEW entry, NEW key, CachedFor(entry, plan, key)
      PROVE  entry.ref \in Refs
  <2>1. PICK i \in DOMAIN PlanArtifacts[plan] : PlanArtifacts[plan][i] = <<key, entry.ref>>
    BY <1>3 DEF CachedFor
  <2> QED
    BY <1>2, <2>1
<1> QED
  BY <1>1, <1>3

\* Where a step does not move the image, it completes a fetch, or nothing.
LEMMA QuietHandoff ==
    ASSUME HistoryNext, UNCHANGED <<loaded, booted>>
    PROVE  [Abstract!HandoffNext]_(Abstract!handoffVars)
<1>1. UNCHANGED <<FilesOf(loaded), BootedFiles>>
  BY DEF FilesOf, BootedFiles
<1>2. fetched' = fetched \/ \E plan \in fetched' : fetched' = fetched \cup {plan}
  BY DEF HistoryNext, Recorded
<1> QED
  BY <1>1, <1>2 DEF Abstract!HandoffNext, Abstract!Fetched, Abstract!handoffVars

\* A load takes the files of a plan that was fetched.
LEMMA LoadHandoff ==
    ASSUME IInv, HInv, HistoryNext, NEW p \in Procs, KexecLoad(p)
    PROVE  Abstract!HandoffNext
<1> DEFINE files == <<picked[p][1].ref, picked[p][2].ref>>
<1>1. /\ loaded'.entries = picked[p] /\ loaded' # NoImage
      /\ UNCHANGED <<evidence, booted>>
      /\ Picking(p)
  <2>1. /\ loaded'.entries = picked[p] /\ UNCHANGED <<evidence, booted>>
        /\ pc[p] = "kexec-load"
    BY DEF KexecLoad
  <2>2. loaded' # NoImage
    BY LoadedTyped, NoImageAssumption
  <2> QED
    BY <2>1, <2>2 DEF Picking, Heading
<1>2. PICK plan \in fetched : PickedFrom(p, plan)
  BY <1>1 DEF HInv
<1>3. PickedTwo(p)
  BY <1>1 DEF IInv, PickedPresent, Picking, Heading, KexecLoad
<1>4. files \in PlanFiles(plan)
  <2>1. picked[p][1].ref \in Refs /\ picked[p][2].ref \in Refs
    BY <1>3 DEF PickedTwo, Entries
  <2> QED
    BY <1>2, <2>1 DEF PickedFrom, CachedFor, PlanFiles, RefsOf
<1>5. FilesOf(loaded)' = files
  BY <1>1 DEF FilesOf
<1>6. fetched' = fetched
  BY <1>1 DEF HistoryNext, HInv, Recorded
<1>7. BootedFiles' = BootedFiles
  BY <1>1 DEF BootedFiles, FilesOf
<1>8. Abstract!Loaded(plan)
  BY <1>4, <1>5, <1>6, <1>7 DEF Abstract!Loaded
<1> QED
  BY <1>8 DEF Abstract!HandoffNext

\* An exec boots what is loaded.
LEMMA ExecHandoff ==
    ASSUME IInv, HInv, LoadedRefs, HistoryNext, NEW p \in Procs, KexecExec(p)
    PROVE  Abstract!HandoffNext
<1>1. /\ loaded # NoImage /\ loaded' = NoImage
      /\ booted'.image = loaded /\ UNCHANGED evidence
  BY DEF KexecExec
<1>2. booted' # NoImage
  BY BootedTyped, NoImageAssumption
<1>3. FilesOf(loaded) # NoImage
  BY <1>1, NoImageAssumption DEF LoadedRefs, FilesOf
<1>4. FilesOf(loaded)' = NoImage
  BY <1>1 DEF FilesOf
<1>5. BootedFiles' = FilesOf(loaded)
  BY <1>1, <1>2 DEF BootedFiles, FilesOf
<1>6. fetched' = fetched
  BY <1>1 DEF HistoryNext, HInv, Recorded
<1> QED
  BY <1>3, <1>4, <1>5, <1>6 DEF Abstract!HandoffNext, Abstract!Booted

LEMMA StepHandoff ==
    ASSUME IInv, FInv, HInv, [HistoryNext]_historyVars
    PROVE  [Abstract!HandoffNext]_(Abstract!handoffVars)
<1>1. CASE UNCHANGED historyVars
  BY <1>1 DEF historyVars, vars, Abstract!handoffVars, FilesOf, BootedFiles
<1>2. ASSUME HistoryNext, NEW p \in Procs, KexecLoad(p) \/ KexecExec(p)
      PROVE  Abstract!HandoffNext
  BY <1>2, LoadHandoff, ExecHandoff, LoadedRefsTyped
<1>3. ASSUME NEW p \in Procs, ~KexecLoad(p), ~KexecExec(p),
             Step(p) \/ Kill(p) \/ \E a \in Invocations : Start(p, a)
      PROVE  UNCHANGED <<loaded, booted>>
  BY <1>3 DEF Step, InputError, FetchArtifact, CacheArtifact, CacheError, FetchFinish,
              OpenEvidence, WriteEvidence, SinkError, ReadRecord, VerifyKernel,
              VerifyInitrd, CheckPreExec, KexecError, M2AdapterPlan, M2BootEntry,
              Start, Kill
<1>4. CASE HistoryNext
  <2>1. PICK p \in Procs : Step(p) \/ Kill(p) \/ \E a \in Invocations : Start(p, a)
    BY <1>4 DEF HistoryNext, Next
  <2>2. CASE KexecLoad(p) \/ KexecExec(p)
    BY <1>2, <1>4, <2>2
  <2>3. CASE ~KexecLoad(p) /\ ~KexecExec(p)
    BY <1>3, <1>4, <2>1, <2>3, QuietHandoff
  <2> QED
    BY <2>2, <2>3
<1> QED
  BY <1>1, <1>4

(***************************************************************************)
(* The client implements Handoff: whatever overlaps, fails or is killed,   *)
(* what the kernel holds and what is booted are the kernel and the initrd  *)
(* of one plan, recorded by a whole fetch of that plan at some time before *)
(* (main.rs:526-575, 598-615, 666-672, 716-722).                           *)
(***************************************************************************)
THEOREM ClientImplementsHandoff == HistorySpec => ImplementsHandoff
<1>1. HistoryInit => Init /\ HInv /\ Abstract!HandoffInit
  BY DEF HistoryInit, Init, HInv, Recorded, EvidenceFiles, Unreadable, CacheRecord,
         Picking, Heading, FilesOf, BootedFiles, Abstract!HandoffInit
<1>2. [HistoryNext]_historyVars => [Next]_vars
  BY DEF HistoryNext, historyVars
<1>3. HistorySpec => Spec
  BY <1>1, <1>2, PTL DEF HistorySpec, Spec
<1>4. IInv /\ FInv /\ HInv /\ [HistoryNext]_historyVars => HInv'
  BY HInvStep
<1>5. IInv /\ FInv /\ HInv /\ [HistoryNext]_historyVars
         => [Abstract!HandoffNext]_(Abstract!handoffVars)
  BY StepHandoff
<1> QED
  BY <1>1, <1>3, <1>4, <1>5, Invariance, FetchInvariance, PTL
     DEF HistorySpec, ImplementsHandoff, Abstract!HandoffSpec

=============================================================================
