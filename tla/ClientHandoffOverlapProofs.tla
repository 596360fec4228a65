---------------------- MODULE ClientHandoffOverlapProofs ----------------------
(***************************************************************************)
(* What the client promises only while no other process interferes: for    *)
(* each promise, which overlaps have to be kept apart, and the proof that  *)
(* keeping those apart is enough, for any number of processes, plans,      *)
(* artifacts and runs.  Kills and errors may still leave any file half     *)
(* written between two runs.                                               *)
(***************************************************************************)
EXTENDS ClientHandoffProofs

\* Process p writes a record on its way to a label.
Leading(p, label) == pc[p] \in {"open", "write"} /\ out[p].next = label

\* Two fetches that overlap have different cache directories.
Fetching(p) == pc[p] \in {"fetch", "cache-write"} \/ Writing(p, CacheRecord)
FetchesApart ==
    \A p, q \in Procs :
       p # q /\ Fetching(p) /\ Fetching(q) => argv[p].cache # argv[q].cache

\* One M2 adapter run at a time is between its two records.
Announcing(p) ==
    pc[p] = "m2-entry" \/ Writing(p, AdapterPlan) \/ Writing(p, BootEntry)
AnnouncementsApart ==
    \A p, q \in Procs : Announcing(p) /\ Announcing(q) => p = q

\* A step that belongs to one process.
Acts(p) == Step(p) \/ Kill(p) \/ \E a \in Invocations : Start(p, a)

\* Every step of the system belongs to one process.
LEMMA NextIsOnes == Next <=> \E p \in Procs : Acts(p)
BY DEF Next, Acts

-----------------------------------------------------------------------------
(***************************************************************************)
(* What one process can do to the files of another.                        *)
(***************************************************************************)

\* Only a fetch that opens a file of the same directory breaks a whole file:
\* a write that completes puts the bytes there that the name asks for.
LEMMA IntactKept ==
    ASSUME IInv, NEW p \in Procs, Acts(p), NEW e \in Entries, Intact(e),
           pc[p] = "fetch" => e.cache # argv[p].cache
    PROVE  Intact(e)'
<1> DEFINE new == EntryOf(p)
<1>1. PathOf(e) \in Paths /\ PathOf(e)[1] = e.cache /\ PathOf(e)[3] = e.sha256
  BY PathTyped DEF PathOf
<1>2. PathOf(new)[1] = argv[p].cache /\ PathOf(new)[3] = new.sha256
  BY DEF PathOf, EntryOf
<1>3. ASSUME NEW read \in Contents, FetchArtifact(p, read)
      PROVE  cache'[PathOf(e)] = cache[PathOf(e)]
  <2>1. PathOf(e) # PathOf(new)
    BY <1>1, <1>2, <1>3 DEF FetchArtifact
  <2> QED
    BY <1>1, <1>3, <2>1 DEF IInv, TypeOK, FetchArtifact
<1>4. ASSUME CacheArtifact(p)
      PROVE  /\ cache'[PathOf(e)] \in Contents
             /\ Digest(cache'[PathOf(e)]) = e.sha256
  <2>1. argv[p] \in Invocations
    BY <1>4 DEF IInv, Started, CacheArtifact, Running
  <2>2. bytes[p] \in Contents /\ new.sha256 = Digest(bytes[p])
    BY <1>4, <2>1, EntryTyped DEF IInv, FetchChecked, CacheArtifact
  <2>3. CASE PathOf(e) = PathOf(new)
    <3>1. e.sha256 = new.sha256
      BY <1>1, <1>2, <2>3
    <3>2. cache'[PathOf(e)] = bytes[p]
      BY <1>1, <1>4, <2>3 DEF IInv, TypeOK, CacheArtifact
    <3> QED
      BY <2>2, <3>1, <3>2
  <2>4. CASE PathOf(e) # PathOf(new)
    <3>1. cache'[PathOf(e)] = cache[PathOf(e)]
      BY <1>1, <1>4, <2>4 DEF IInv, TypeOK, CacheArtifact
    <3> QED
      BY <3>1 DEF Intact
  <2> QED
    BY <2>3, <2>4
<1>5. ASSUME ~CacheArtifact(p), ~(\E read \in Contents : FetchArtifact(p, read))
      PROVE  cache' = cache
  BY <1>5 DEF Acts, Step, InputError, CacheError, FetchFinish, OpenEvidence,
              WriteEvidence, SinkError, ReadRecord, VerifyKernel, VerifyInitrd,
              CheckPreExec, KexecLoad, KexecExec, KexecError, M2AdapterPlan,
              M2BootEntry, Kill, Start
<1> QED
  BY <1>3, <1>4, <1>5 DEF Intact, PathOf

\* Only the process that writes an evidence file changes it, and no process
\* deletes one.
LEMMA EvidenceKept ==
    ASSUME IInv, NEW p \in Procs, Acts(p), NEW file \in EvidenceFiles
    PROVE  /\ ~Writing(p, file) => evidence'[file] = evidence[file]
           /\ evidence[file] # Absent => evidence'[file] # Absent
<1>1. ASSUME OpenEvidence(p) \/ WriteEvidence(p) \/ SinkError(p) \/ Kill(p)
      PROVE  \/ evidence' = evidence
             \/ /\ pc[p] \in {"open", "write"}
                /\ \E v \in {out[p].record, Truncated, Garbled} :
                      evidence' = [evidence EXCEPT ![out[p].file] = v]
  BY <1>1 DEF OpenEvidence, WriteEvidence, SinkError, Kill
<1>2. ASSUME ~OpenEvidence(p), ~WriteEvidence(p), ~SinkError(p), ~Kill(p)
      PROVE  evidence' = evidence
  BY <1>2 DEF Acts, Step, InputError, FetchArtifact, CacheArtifact, CacheError,
              FetchFinish, ReadRecord, VerifyKernel, VerifyInitrd, CheckPreExec,
              KexecLoad, KexecExec, KexecError, M2AdapterPlan, M2BootEntry, Start
<1>3. out[p].record \in Records
  BY QueuedTyped DEF IInv
<1>4. \A v \in {out[p].record, Truncated, Garbled} : v # Absent
  BY <1>3, MarksAssumption DEF Unreadable
<1>5. ASSUME pc[p] \in {"open", "write"},
             NEW v \in {out[p].record, Truncated, Garbled},
             evidence' = [evidence EXCEPT ![out[p].file] = v]
      PROVE  /\ ~Writing(p, file) => evidence'[file] = evidence[file]
             /\ evidence[file] # Absent => evidence'[file] # Absent
  BY <1>4, <1>5 DEF IInv, TypeOK, Writing
<1> QED
  BY <1>1, <1>2, <1>5

\* A process that does not step is where it was, or is gone.
LEMMA OtherStays ==
    ASSUME IInv, NEW p \in Procs, Acts(p), NEW q \in Procs, q # p
    PROVE  /\ argv'[q] = argv[q] /\ cached'[q] = cached[q]
           /\ picked'[q] = picked[q]
           /\ \/ pc'[q] = pc[q] /\ out'[q] = out[q]
              \/ pc'[q] = "idle" /\ out'[q] = NoOut
BY OthersKept DEF Acts

-----------------------------------------------------------------------------
(***************************************************************************)
(* The files that were verified on the way to kexec --load are as verified *)
(* until kexec reads them.                                                 *)
(***************************************************************************)
VerifiedAt(p) ==
    /\ pc[p] = "initrd" => Intact(picked[p][1])
    /\ Heading(p, "kexec-load") => Intact(picked[p][1]) /\ Intact(picked[p][2])

VInv == LoadedVerified /\ \A p \in Procs : VerifiedAt(p)

\* Whoever is about to load has picked two entries.
LEMMA PickedThere ==
    ASSUME IInv, NEW p \in Procs, Loading(p), NEW i \in {1, 2}
    PROVE  picked[p][i] \in Entries /\ i \in DOMAIN picked[p]
<1>1. PickedTwo(p) /\ picked[p] \in Seq(Entries)
  BY DEF IInv, TypeOK, PickedPresent, Loading
<1> QED
  BY <1>1 DEF PickedTwo

\* What a process has verified, another one does not break.
LEMMA OthersVerified ==
    ASSUME IInv, LoadsApart, VInv, NEW p \in Procs, Acts(p),
           NEW q \in Procs, q # p
    PROVE  VerifiedAt(q)'
<1>1. CASE pc'[q] = "idle" /\ out'[q] = NoOut
  BY <1>1 DEF VerifiedAt, Heading
<1>2. CASE pc'[q] = pc[q] /\ out'[q] = out[q]
  <2>1. ASSUME Loading(q), NEW i \in {1, 2}, Intact(picked[q][i])
        PROVE  Intact(picked[q][i])'
    <3>1. picked[q][i] \in Entries /\ i \in DOMAIN picked[q]
      BY <2>1, PickedThere
    <3>2. pc[p] = "fetch" => picked[q][i].cache # argv[p].cache
      BY <2>1, <3>1 DEF LoadsApart
    <3>4. \A e \in Entries :
             Intact(e) /\ (pc[p] = "fetch" => e.cache # argv[p].cache) => Intact(e)'
      BY IntactKept
    <3>3. picked'[q] = picked[q]
      BY OtherStays
    <3> QED
      BY <2>1, <3>1, <3>2, <3>3, <3>4 DEF Intact, PathOf
  <2>2. VerifiedAt(q)
    BY DEF VInv
  <2> QED
    BY <1>2, <2>1, <2>2 DEF VerifiedAt, Heading, Loading
<1> QED
  BY <1>1, <1>2, OtherStays

\* On the way to kexec --load the process itself only reads the cache.
LEMMA OwnVerified ==
    ASSUME IInv, VInv, NEW p \in Procs, Acts(p)
    PROVE  VerifiedAt(p)'
<1>1. CASE VerifyKernel(p)
  BY <1>1 DEF IInv, TypeOK, VerifyKernel, Goto, VerifiedAt, Heading, Intact, PathOf
<1>2. CASE VerifyInitrd(p)
  <2>1. Intact(picked[p][1])
    BY <1>2 DEF VInv, VerifiedAt, VerifyInitrd
  <2> QED
    BY <1>2, <2>1 DEF IInv, TypeOK, VerifyInitrd, Emit, Goto, VerifiedAt,
                      Heading, Intact, PathOf
<1>3. CASE OpenEvidence(p)
  BY <1>3 DEF IInv, TypeOK, VInv, OpenEvidence, Goto, VerifiedAt, Heading, Intact, PathOf
<1>4. CASE WriteEvidence(p)
  BY <1>4 DEF IInv, TypeOK, Started, VInv, WriteEvidence, Goto, VerifiedAt,
              Heading, Intact, PathOf
<1>5. CASE \E a \in Invocations : Start(p, a)
  BY <1>5 DEF IInv, TypeOK, Start, Emit, Goto, VerifiedAt, Heading
<1>6. CASE \/ InputError(p) \/ CacheArtifact(p) \/ CacheError(p) \/ FetchFinish(p)
           \/ SinkError(p) \/ ReadRecord(p) \/ CheckPreExec(p) \/ KexecLoad(p)
           \/ KexecExec(p) \/ KexecError(p) \/ M2AdapterPlan(p) \/ M2BootEntry(p)
           \/ Kill(p) \/ \E read \in Contents : FetchArtifact(p, read)
  <2>1. \/ pc'[p] = "open" /\ out'[p].next # "kexec-load"
        \/ pc'[p] \notin {"initrd", "open", "write", "kexec-load"}
    BY <1>6 DEF IInv, TypeOK, InputError, CacheArtifact, CacheError, FetchFinish,
                SinkError, ReadRecord, CheckPreExec, KexecLoad, KexecExec,
                KexecError, M2AdapterPlan, M2BootEntry, Kill, FetchArtifact,
                Emit, Goto, AfterSinkError
  <2> QED
    BY <2>1 DEF VerifiedAt, Heading
<1> QED
  BY <1>1, <1>2, <1>3, <1>4, <1>5, <1>6 DEF Acts, Step

\* kexec --load takes the two verified files.
LEMMA LoadVerified ==
    ASSUME IInv, VInv, NEW p \in Procs, Acts(p)
    PROVE  LoadedVerified'
<1>1. CASE KexecLoad(p)
  <2>1. Intact(picked[p][1]) /\ Intact(picked[p][2])
    BY <1>1 DEF VInv, VerifiedAt, Heading, KexecLoad
  <2> QED
    BY <1>1, <2>1 DEF LoadedVerified, KexecLoad, Intact
<1>2. CASE ~KexecLoad(p)
  <2>1. loaded' = loaded \/ loaded' = NoImage
    BY <1>2 DEF Acts, Step, InputError, FetchArtifact, CacheArtifact, CacheError,
                FetchFinish, OpenEvidence, WriteEvidence, SinkError, ReadRecord,
                VerifyKernel, VerifyInitrd, CheckPreExec, KexecExec, KexecError,
                M2AdapterPlan, M2BootEntry, Kill, Start
  <2> QED
    BY <2>1 DEF VInv, LoadedVerified
<1> QED
  BY <1>1, <1>2

(***************************************************************************)
(* As long as nobody fetches into a cache directory that is being loaded   *)
(* from, what kexec --load takes into the kernel has the hashes of the     *)
(* cache record: the two reads of each path cannot disagree, whatever else *)
(* overlaps and whatever earlier runs left half written                    *)
(* (main.rs:607-613, 666-672).                                             *)
(***************************************************************************)
THEOREM LoadsAreVerified == Spec => LoadsApartVerified
<1>1. Init => VInv
  BY DEF Init, VInv, LoadedVerified, VerifiedAt, Heading
<1>2. IInv /\ LoadsApart /\ VInv /\ [Next]_vars => VInv'
  <2> SUFFICES ASSUME IInv, LoadsApart, VInv, [Next]_vars
               PROVE  VInv'
    OBVIOUS
  <2>1. ASSUME NEW p \in Procs, Acts(p)
        PROVE  VInv'
    BY <2>1, OthersVerified, OwnVerified, LoadVerified DEF VInv
  <2>2. CASE UNCHANGED vars
    BY <2>2 DEF vars, VInv, LoadedVerified, VerifiedAt, Heading, Intact, PathOf
  <2> QED
    BY <2>1, <2>2, NextIsOnes
<1>3. VInv => LoadedVerified
  BY DEF VInv
<1> QED
  BY <1>1, <1>2, <1>3, Invariance, PTL DEF Spec, LoadsApartVerified

-----------------------------------------------------------------------------
(***************************************************************************)
(* The artifacts a fetch has cached are whole, except at the path it       *)
(* rewrites, until its record of them is written.                          *)
(***************************************************************************)
CachedAt(p) ==
    /\ pc[p] = "fetch" => \A i \in DOMAIN cached[p] : Intact(cached[p][i])
    /\ pc[p] = "cache-write" =>
          \A i \in DOMAIN cached[p] : \/ Intact(cached[p][i])
                                      \/ PathOf(cached[p][i]) = PathOf(EntryOf(p))
    /\ Writing(p, CacheRecord) =>
          \A i \in DOMAIN out[p].record.artifacts :
             /\ out[p].record.artifacts[i].cache = argv[p].cache
             /\ Intact(out[p].record.artifacts[i])

CInv == \A p \in Procs : CachedAt(p)

\* The entries in a list are entries.
LEMMA ListedTyped ==
    ASSUME TypeOK, NEW p \in Procs
    PROVE  /\ \A i \in DOMAIN cached[p] : cached[p][i] \in Entries
           /\ \A i \in DOMAIN out[p].record.artifacts :
                 out[p].record.artifacts[i] \in Entries
<1>1. cached[p] \in Seq(Entries)
  BY DEF TypeOK
<1>2. out[p].record.artifacts \in Seq(Entries)
  BY QueuedTyped DEF Records
<1> QED
  BY <1>1, <1>2

\* What a fetch has cached, another one does not break.
LEMMA OthersCached ==
    ASSUME IInv, FInv, FetchesApart, CInv, NEW p \in Procs, Acts(p),
           NEW q \in Procs, q # p
    PROVE  CachedAt(q)'
<1>1. CASE pc'[q] = "idle" /\ out'[q] = NoOut
  BY <1>1 DEF CachedAt, Writing
<1>2. CASE pc'[q] = pc[q] /\ out'[q] = out[q]
  <2>1. argv'[q] = argv[q] /\ cached'[q] = cached[q] /\ EntryOf(q)' = EntryOf(q)
    BY OtherStays DEF EntryOf, Current, DescriptorOf
  <2>2. ASSUME Fetching(q), NEW e \in Entries, e.cache = argv[q].cache, Intact(e)
        PROVE  Intact(e)'
    BY <2>2, IntactKept DEF FetchesApart, Fetching
  <2>3. CASE pc[q] \in {"fetch", "cache-write"}
    <3>1. \A i \in DOMAIN cached[q] : /\ cached[q][i] \in Entries
                                      /\ cached[q][i].cache = argv[q].cache
      BY <2>3, ListedTyped DEF IInv, FInv, CachedSoFar, FetchedFor
    <3>2. \A i \in DOMAIN cached[q] : Intact(cached[q][i]) => Intact(cached[q][i])'
      BY <2>1, <2>2, <2>3, <3>1 DEF Fetching, Intact, PathOf
    <3> QED
      BY <1>2, <2>1, <2>3, <3>2 DEF CInv, CachedAt, Writing, PathOf
  <2>4. CASE Writing(q, CacheRecord)
    <3> DEFINE list == out[q].record.artifacts
    <3>1. \A i \in DOMAIN list :
             list[i] \in Entries /\ list[i].cache = argv[q].cache /\ Intact(list[i])
      BY <2>4, ListedTyped DEF IInv, CInv, CachedAt
    <3>2. \A i \in DOMAIN list : Intact(list[i])'
      BY <1>2, <2>2, <2>4, <3>1 DEF Fetching, Intact, PathOf
    <3> QED
      BY <1>2, <2>1, <2>4, <3>1, <3>2 DEF CachedAt, Writing
  <2>5. CASE ~(pc[q] \in {"fetch", "cache-write"}) /\ ~Writing(q, CacheRecord)
    BY <1>2, <2>5 DEF CachedAt, Writing
  <2> QED
    BY <2>3, <2>4, <2>5
<1> QED
  BY <1>1, <1>2, OtherStays

\* Truncating the file of one entry leaves the other paths alone.
LEMMA FetchArtifactCached ==
    ASSUME IInv, CInv, NEW p \in Procs, NEW read \in Contents, FetchArtifact(p, read)
    PROVE  CachedAt(p)'
<1>1. /\ UNCHANGED <<argv, cached>>
      /\ pc[p] = "fetch" /\ pc'[p] = "cache-write"
      /\ cache' = [cache EXCEPT ![PathOf(EntryOf(p))] = Truncated]
  BY DEF IInv, TypeOK, FetchArtifact, Goto
<1>2. EntryOf(p)' = EntryOf(p)
  BY <1>1 DEF EntryOf, Current, DescriptorOf
<1>3. ASSUME NEW i \in DOMAIN cached[p],
             PathOf(cached[p][i]) # PathOf(EntryOf(p))
      PROVE  Intact(cached[p][i])'
  <2>1. Intact(cached[p][i])
    BY <1>1 DEF CInv, CachedAt
  <2>2. cache'[PathOf(cached[p][i])] = cache[PathOf(cached[p][i])]
    BY <1>1, <1>3 DEF IInv, TypeOK
  <2> QED
    BY <1>1, <2>1, <2>2 DEF Intact, PathOf
<1> QED
  BY <1>1, <1>2, <1>3 DEF CachedAt, Writing, PathOf

\* The write makes the entry's file whole, and with it any other entry of the
\* same path.
LEMMA CacheArtifactCached ==
    ASSUME IInv, CInv, NEW p \in Procs, CacheArtifact(p)
    PROVE  CachedAt(p)'
<1> DEFINE new  == EntryOf(p)
           list == cached[p]
           Good(e) == /\ cache'[PathOf(e)] \in Contents
                      /\ Digest(cache'[PathOf(e)]) = e.sha256
<1>1. /\ pc[p] = "cache-write" /\ pc'[p] = "fetch"
      /\ cache' = [cache EXCEPT ![PathOf(new)] = bytes[p]]
      /\ cached'[p] = Append(list, new)
  BY DEF IInv, TypeOK, CacheArtifact, Goto
<1>2. argv[p] \in Invocations
  BY <1>1 DEF IInv, Started, Running
<1>3. new \in Entries /\ new.sha256 = Digest(bytes[p]) /\ bytes[p] \in Contents
  BY <1>1, <1>2, EntryTyped DEF IInv, FetchChecked
<1>4. list \in Seq(Entries)
  BY DEF IInv, TypeOK
<1>5. cache'[PathOf(new)] = bytes[p]
  BY <1>1, <1>3, PathTyped DEF IInv, TypeOK
<1>6. ASSUME NEW i \in DOMAIN list
      PROVE  Good(list[i])
  <2>1. CASE PathOf(list[i]) = PathOf(new)
    <3>1. list[i].sha256 = new.sha256
      BY <2>1 DEF PathOf
    <3> QED
      BY <1>3, <1>5, <2>1, <3>1
  <2>2. CASE PathOf(list[i]) # PathOf(new)
    <3>1. Intact(list[i])
      BY <1>1, <2>2 DEF CInv, CachedAt
    <3>2. cache'[PathOf(list[i])] = cache[PathOf(list[i])]
      BY <1>1, <2>2 DEF IInv, TypeOK
    <3> QED
      BY <3>1, <3>2 DEF Intact
  <2> QED
    BY <2>1, <2>2
<1>7. Good(new)
  BY <1>3, <1>5
<1> HIDE DEF list, new
<1>8. \A i \in DOMAIN cached'[p] : \/ cached'[p][i] = new
                                   \/ i \in DOMAIN list /\ cached'[p][i] = list[i]
  BY <1>1, <1>4
<1>9. \A i \in DOMAIN cached'[p] : Good(cached'[p][i])
  BY <1>6, <1>7, <1>8
<1> QED
  BY <1>1, <1>9 DEF CachedAt, Writing, Intact, PathOf

\* The other steps of a fetch, and those of other commands.
LEMMA OwnCached ==
    ASSUME IInv, FInv, CInv, NEW p \in Procs, Acts(p)
    PROVE  CachedAt(p)'
<1>1. CASE FetchFinish(p)
  <2>1. /\ UNCHANGED <<argv, cache>> /\ pc[p] = "fetch" /\ pc'[p] = "open"
        /\ out'[p].record.artifacts = cached[p]
    BY <1>1 DEF IInv, TypeOK, FetchFinish, Emit, Goto
  <2>2. \A i \in DOMAIN cached[p] : /\ cached[p][i].cache = argv[p].cache
                                    /\ Intact(cached[p][i])
    BY <2>1 DEF FInv, CachedSoFar, FetchedFor, CInv, CachedAt
  <2> QED
    BY <2>1, <2>2 DEF CachedAt, Writing, Intact
<1>2. CASE OpenEvidence(p)
  BY <1>2 DEF IInv, TypeOK, CInv, CachedAt, OpenEvidence, Goto, Writing, Intact
<1>3. CASE \E a \in Invocations : Start(p, a)
  <2>1. cached'[p] = <<>>
    BY <1>3 DEF IInv, TypeOK, Start
  <2>2. \/ pc'[p] \in {"fetch", "record", "m2"}
        \/ pc'[p] = "open" /\ out'[p].file = Refusal
    BY <1>3 DEF IInv, TypeOK, Start, Emit, Goto
  <2> QED
    BY <2>1, <2>2 DEF CachedAt, Writing, Refusal, CacheRecord
<1>4. CASE \/ InputError(p) \/ CacheError(p) \/ WriteEvidence(p) \/ SinkError(p)
           \/ ReadRecord(p) \/ VerifyKernel(p) \/ VerifyInitrd(p) \/ CheckPreExec(p)
           \/ KexecLoad(p) \/ KexecExec(p) \/ KexecError(p) \/ M2AdapterPlan(p)
           \/ M2BootEntry(p) \/ Kill(p)
  <2>1. \/ pc'[p] \notin {"fetch", "cache-write", "open", "write"}
        \/ pc'[p] = "open" /\ out'[p].file # CacheRecord
    BY <1>4 DEF IInv, TypeOK, Started, InputError, CacheError, WriteEvidence,
                SinkError, ReadRecord, VerifyKernel, VerifyInitrd, CheckPreExec,
                KexecLoad, KexecExec, KexecError, M2AdapterPlan, M2BootEntry,
                Kill, Emit, Goto, AfterSinkError, CacheRecord, PreExec,
                ExecProof, AdapterPlan, BootEntry, Refusal
  <2> QED
    BY <2>1 DEF CachedAt, Writing
<1> QED
  BY <1>1, <1>2, <1>3, <1>4, FetchArtifactCached, CacheArtifactCached DEF Acts, Step

(***************************************************************************)
(* As long as fetches that overlap use different cache directories, a      *)
(* fetch that ends well leaves every file of its record whole, also where  *)
(* an earlier one was killed in the middle (main.rs:543-575).              *)
(***************************************************************************)
THEOREM FetchesHealTheCache == Spec /\ []FetchesApart => FetchHealsCache
<1> DEFINE Healed ==
      \A p \in Procs :
         pc[p] = "write" /\ out[p].file = CacheRecord /\ pc'[p] = "done" =>
            \A i \in DOMAIN out[p].record.artifacts :
               Intact(out[p].record.artifacts[i])
<1>1. Init => CInv
  BY DEF Init, CInv, CachedAt, Writing
<1>2. IInv /\ FInv /\ FetchesApart /\ CInv /\ [Next]_vars => CInv'
  <2> SUFFICES ASSUME IInv, FInv, FetchesApart, CInv, [Next]_vars
               PROVE  CInv'
    OBVIOUS
  <2>1. ASSUME NEW p \in Procs, Acts(p)
        PROVE  CInv'
    BY <2>1, OthersCached, OwnCached DEF CInv
  <2>2. CASE UNCHANGED vars
    <3>1. UNCHANGED <<pc, argv, cached, out, cache>>
      BY <2>2 DEF vars
    <3>2. ASSUME NEW p \in Procs
          PROVE  CachedAt(p)'
      BY <3>1 DEF CInv, CachedAt, Writing, Intact, PathOf, EntryOf, Current,
                  DescriptorOf
    <3> QED
      BY <3>2 DEF CInv
  <2> QED
    BY <2>1, <2>2, NextIsOnes
<1>3. CInv => Healed
  BY DEF CInv, CachedAt, Writing
<1> QED
  BY <1>1, <1>2, <1>3, Invariance, FetchInvariance, PTL DEF Spec, FetchHealsCache

-----------------------------------------------------------------------------
(***************************************************************************)
(* The proofs are queued before kexec is called, and on disk when it is.   *)
(***************************************************************************)
\* What pre-exec-proof.json says before a kexec --load.
LoadProof(p) == [plan |-> argv[p].plan, dry_run |-> FALSE, artifacts |-> picked[p]]

ProofAt(p) ==
    /\ pc[p] = "write" /\ out[p].file \in {PreExec, ExecProof} =>
          evidence[out[p].file] = Truncated
    /\ Leading(p, "kexec-load") =>
          out[p].file = PreExec /\ out[p].record = LoadProof(p)
    /\ pc[p] = "kexec-load" => evidence[PreExec] = LoadProof(p)
    /\ Leading(p, "kexec-exec") =>
          out[p].file = ExecProof /\ out[p].record.plan = argv[p].plan
    /\ Heading(p, "kexec-exec") => evidence[PreExec] # Absent
    /\ pc[p] = "kexec-exec" => /\ evidence[ExecProof] \notin Unreadable
                               /\ evidence[ExecProof].plan = argv[p].plan

PInv == \A p \in Procs : ProofAt(p)

\* The proof a process relies on, another one does not touch.
LEMMA OthersProof ==
    ASSUME IInv, ProofsApart, PInv, NEW p \in Procs, Acts(p),
           NEW q \in Procs, q # p
    PROVE  ProofAt(q)'
<1>1. CASE pc'[q] = "idle" /\ out'[q] = NoOut
  BY <1>1 DEF ProofAt, Leading, Heading
<1>2. CASE pc'[q] = pc[q] /\ out'[q] = out[q]
  <2>1. argv'[q] = argv[q] /\ picked'[q] = picked[q]
    BY OtherStays
  <2>2. PreExec \in EvidenceFiles /\ ExecProof \in EvidenceFiles
    BY DEF EvidenceFiles
  <2>3. ASSUME NEW file \in {PreExec, ExecProof}, Using(q, file)
        PROVE  evidence'[file] = evidence[file]
    <3>1. ~Writing(p, file)
      BY <2>3 DEF ProofsApart, Using
    <3> QED
      BY <2>2, <2>3, <3>1, EvidenceKept
  <2>4. evidence[PreExec] # Absent => evidence'[PreExec] # Absent
    BY <2>2, EvidenceKept
  <2>5. ProofAt(q)
    BY DEF PInv
  <2>6. /\ pc[q] = "write" /\ out[q].file \in {PreExec, ExecProof} =>
              evidence'[out[q].file] = evidence[out[q].file]
        /\ pc[q] = "kexec-load" => evidence'[PreExec] = evidence[PreExec]
        /\ pc[q] = "kexec-exec" => evidence'[ExecProof] = evidence[ExecProof]
    BY <2>3 DEF Using, Writing
  <2> QED
    BY <1>2, <2>1, <2>4, <2>5, <2>6 DEF ProofAt, Leading, Heading, LoadProof
<1> QED
  BY <1>1, <1>2, OtherStays

\* Truncating the file of the queued record.
LEMMA OpenEvidenceProof ==
    ASSUME IInv, PInv, NEW p \in Procs, OpenEvidence(p)
    PROVE  ProofAt(p)'
<1>1. /\ UNCHANGED <<argv, picked, out>>
      /\ pc[p] = "open" /\ pc'[p] = "write"
      /\ evidence' = [evidence EXCEPT ![out[p].file] = Truncated]
  BY DEF IInv, TypeOK, OpenEvidence, Goto
<1>2. evidence'[out[p].file] = Truncated
  BY <1>1, QueuedTyped DEF IInv, TypeOK
<1>3. evidence[PreExec] # Absent => evidence'[PreExec] # Absent
  BY EvidenceKept DEF Acts, Step, EvidenceFiles
<1> QED
  BY <1>1, <1>2, <1>3 DEF PInv, ProofAt, Leading, Heading, LoadProof

\* Writing the queued proof, whole, and going on to what it announces.
LEMMA WriteEvidenceProof ==
    ASSUME IInv, PInv, NEW p \in Procs, WriteEvidence(p)
    PROVE  ProofAt(p)'
<1> DEFINE file == out[p].file
           mine == out[p].record
           next == out[p].next
<1>1. UNCHANGED <<argv, picked>> /\ pc[p] = "write" /\ pc'[p] = next
  BY DEF IInv, TypeOK, WriteEvidence, Goto
<1>2. next \in {"done", "refused", "m2-entry", "kexec-load", "kexec-exec"}
  BY DEF IInv, Started
<1>3. file \in {PreExec, ExecProof} => evidence' = [evidence EXCEPT ![file] = mine]
  BY DEF PInv, ProofAt, WriteEvidence
<1>4. file \in EvidenceFiles /\ mine \notin Unreadable
  BY QueuedTyped, MarksAssumption DEF IInv
<1>5. file \in {PreExec, ExecProof} => evidence'[file] = mine
  BY <1>3, <1>4 DEF IInv, TypeOK
<1> HIDE DEF file, mine, next
<1>6. CASE next = "kexec-load"
  <2>1. file = PreExec /\ mine = LoadProof(p)
    BY <1>1, <1>6 DEF PInv, ProofAt, Leading, file, mine, next
  <2> QED
    BY <1>1, <1>5, <1>6, <2>1 DEF ProofAt, Leading, Heading, LoadProof
<1>7. CASE next = "kexec-exec"
  <2>1. file = ExecProof /\ mine.plan = argv[p].plan /\ evidence[PreExec] # Absent
    BY <1>1, <1>7 DEF PInv, ProofAt, Leading, Heading, file, mine, next
  <2>2. evidence'[PreExec] # Absent
    BY <2>1, EvidenceKept DEF Acts, Step, EvidenceFiles
  <2> QED
    BY <1>1, <1>4, <1>5, <1>7, <2>1, <2>2 DEF ProofAt, Leading, Heading
<1>8. CASE next \in {"done", "refused", "m2-entry"}
  BY <1>1, <1>8 DEF ProofAt, Leading, Heading
<1> QED
  BY <1>2, <1>6, <1>7, <1>8

\* The proofs are queued by the checks that come before them.
LEMMA OwnProof ==
    ASSUME IInv, PInv, NEW p \in Procs, Acts(p)
    PROVE  ProofAt(p)'
<1>1. CASE VerifyInitrd(p)
  <2>1. /\ UNCHANGED <<argv, picked>>
        /\ \/ pc'[p] \in {"hash-mismatch", "pre-exec-check"}
           \/ /\ pc'[p] = "open" /\ out'[p].file = PreExec
              /\ out'[p].record = PreExecProof(p)
              /\ \/ out'[p].next = "done"
                 \/ out'[p].next = "kexec-load" /\ ~argv[p].dry_run
    BY <1>1 DEF IInv, TypeOK, VerifyInitrd, Emit, Goto
  <2>2. argv[p].dry_run \in BOOLEAN
    BY <1>1, InvocationTyped DEF IInv, Started, VerifyInitrd, Running
  <2>3. ~argv[p].dry_run => PreExecProof(p) = LoadProof(p)
    BY <2>2 DEF PreExecProof, LoadProof
  <2> QED
    BY <2>1, <2>3 DEF ProofAt, Leading, Heading, LoadProof
<1>2. CASE CheckPreExec(p)
  <2>1. /\ UNCHANGED <<argv, evidence>> /\ pc'[p] = "open"
        /\ \/ out'[p].next = "refused"
           \/ /\ out'[p].file = ExecProof /\ out'[p].record.plan = argv[p].plan
              /\ out'[p].next \in {"done", "kexec-exec"}
              /\ evidence[PreExec] # Absent
    BY <1>2 DEF IInv, TypeOK, CheckPreExec, Emit, Goto
  <2> QED
    BY <2>1 DEF ProofAt, Leading, Heading
<1>3. CASE \E a \in Invocations : Start(p, a)
  BY <1>3 DEF IInv, TypeOK, Start, Emit, Goto, ProofAt, Leading, Heading
<1>4. CASE \/ InputError(p) \/ CacheArtifact(p) \/ CacheError(p) \/ FetchFinish(p)
           \/ SinkError(p) \/ ReadRecord(p) \/ VerifyKernel(p) \/ KexecLoad(p)
           \/ KexecExec(p) \/ KexecError(p) \/ M2AdapterPlan(p) \/ M2BootEntry(p)
           \/ Kill(p) \/ \E read \in Contents : FetchArtifact(p, read)
  <2>1. \/ pc'[p] = "open" /\ out'[p].next \in {"done", "m2-entry"}
        \/ pc'[p] \notin {"open", "write", "kexec-load", "kexec-exec"}
    BY <1>4 DEF IInv, TypeOK, InputError, CacheArtifact, CacheError, FetchFinish,
                SinkError, ReadRecord, VerifyKernel, KexecLoad, KexecExec,
                KexecError, M2AdapterPlan, M2BootEntry, Kill, FetchArtifact,
                Emit, Goto, AfterSinkError
  <2> QED
    BY <2>1 DEF ProofAt, Leading, Heading
<1> QED
  BY <1>1, <1>2, <1>3, <1>4, OpenEvidenceProof, WriteEvidenceProof DEF Acts, Step

(***************************************************************************)
(* As long as nobody rewrites a proof between its writing and the kexec it *)
(* is for, the proof of what is about to happen is on disk, whole, when    *)
(* kexec is invoked (main.rs:659, 709).                                    *)
(***************************************************************************)
THEOREM EvidenceComesFirst == Spec => ProofsApartFirst
<1>1. Init => PInv
  BY DEF Init, PInv, ProofAt, Leading, Heading
<1>2. IInv /\ ProofsApart /\ PInv /\ [Next]_vars => PInv'
  <2> SUFFICES ASSUME IInv, ProofsApart, PInv, [Next]_vars
               PROVE  PInv'
    OBVIOUS
  <2>1. ASSUME NEW p \in Procs, Acts(p)
        PROVE  PInv'
    BY <2>1, OthersProof, OwnProof DEF PInv
  <2>2. CASE UNCHANGED vars
    BY <2>2 DEF vars, PInv, ProofAt, Leading, Heading, LoadProof
  <2> QED
    BY <2>1, <2>2, NextIsOnes
<1>3. PInv => EvidenceBeforeMutation
  BY DEF PInv, ProofAt, Heading, LoadProof, EvidenceBeforeMutation
<1> QED
  BY <1>1, <1>2, <1>3, Invariance, PTL DEF Spec, ProofsApartFirst

-----------------------------------------------------------------------------
(***************************************************************************)
(* The M2 adapter announces its boot entry before it queues it.            *)
(***************************************************************************)
\* The adapter plan of a plan is on disk, whole.
Announced(plan) ==
    evidence[AdapterPlan] \notin Unreadable /\ evidence[AdapterPlan].plan = plan

AnnouncedAt(p) ==
    /\ \A file \in {AdapterPlan, BootEntry} :
          pc[p] = "write" /\ out[p].file = file => evidence[file] = Truncated
    /\ Leading(p, "m2-entry") =>
          out[p].file = AdapterPlan /\ out[p].record.plan = argv[p].plan
    /\ pc[p] = "m2-entry" => Announced(argv[p].plan)
    /\ Writing(p, BootEntry) =>
          out[p].record.plan = argv[p].plan /\ Announced(argv[p].plan)

NInv == \A p \in Procs : AnnouncedAt(p)

\* What a process has announced, another one does not take back.
LEMMA OthersAnnounced ==
    ASSUME IInv, AnnouncementsApart, NInv, NEW p \in Procs, Acts(p),
           NEW q \in Procs, q # p
    PROVE  AnnouncedAt(q)'
<1>1. CASE pc'[q] = "idle" /\ out'[q] = NoOut
  BY <1>1 DEF AnnouncedAt, Leading, Writing
<1>2. CASE pc'[q] = pc[q] /\ out'[q] = out[q]
  <2>1. argv'[q] = argv[q]
    BY OtherStays
  <2>2. Announcing(q) => /\ evidence'[AdapterPlan] = evidence[AdapterPlan]
                         /\ evidence'[BootEntry] = evidence[BootEntry]
    <3>1. Announcing(q) => ~Writing(p, AdapterPlan) /\ ~Writing(p, BootEntry)
      BY DEF AnnouncementsApart, Announcing
    <3> QED
      BY <3>1, EvidenceKept DEF EvidenceFiles
  <2>3. AnnouncedAt(q)
    BY DEF NInv
  <2> QED
    BY <1>2, <2>1, <2>2, <2>3 DEF AnnouncedAt, Announcing, Leading, Writing, Announced
<1> QED
  BY <1>1, <1>2, OtherStays

\* Truncating the file of the queued record.
LEMMA OpenEvidenceAnnounced ==
    ASSUME IInv, NInv, NEW p \in Procs, OpenEvidence(p)
    PROVE  AnnouncedAt(p)'
<1>1. /\ UNCHANGED <<argv, out>>
      /\ pc[p] = "open" /\ pc'[p] = "write"
      /\ evidence' = [evidence EXCEPT ![out[p].file] = Truncated]
  BY DEF IInv, TypeOK, OpenEvidence, Goto
<1>2. AdapterPlan \in EvidenceFiles /\ AdapterPlan # BootEntry
  BY DEF EvidenceFiles, AdapterPlan, BootEntry
<1>3. /\ \A file \in {AdapterPlan, BootEntry} :
            out[p].file = file => evidence'[file] = Truncated
      /\ out[p].file # AdapterPlan => evidence'[AdapterPlan] = evidence[AdapterPlan]
  BY <1>1, <1>2 DEF IInv, TypeOK, EvidenceFiles
<1> QED
  BY <1>1, <1>2, <1>3 DEF NInv, AnnouncedAt, Leading, Writing, Announced

\* Writing the queued record: the adapter plan reaches the disk whole.
LEMMA WriteEvidenceAnnounced ==
    ASSUME IInv, NInv, NEW p \in Procs, WriteEvidence(p)
    PROVE  AnnouncedAt(p)'
<1> DEFINE mine == out[p].record
           next == out[p].next
<1>1. argv' = argv /\ pc[p] = "write" /\ pc'[p] = next
  BY DEF IInv, TypeOK, WriteEvidence, Goto
<1>2. next \in {"done", "refused", "m2-entry", "kexec-load", "kexec-exec"}
  BY DEF IInv, Started
<1>3. CASE next = "m2-entry"
  <2>1. out[p].file = AdapterPlan /\ mine.plan = argv[p].plan
    BY <1>1, <1>3 DEF NInv, AnnouncedAt, Leading
  <2>2. evidence' = [evidence EXCEPT ![AdapterPlan] = mine]
    BY <1>1, <2>1 DEF NInv, AnnouncedAt, WriteEvidence
  <2>3. evidence'[AdapterPlan] = mine /\ mine \notin Unreadable
    BY <2>2, QueuedTyped, MarksAssumption DEF IInv, TypeOK, EvidenceFiles
  <2> HIDE DEF mine, next
  <2> QED
    BY <1>1, <1>3, <2>1, <2>3 DEF AnnouncedAt, Leading, Writing, Announced
<1>4. CASE next # "m2-entry"
  BY <1>1, <1>2, <1>4 DEF AnnouncedAt, Leading, Writing
<1> QED
  BY <1>3, <1>4

\* The two records are queued one after the other.
LEMMA OwnAnnounced ==
    ASSUME IInv, NInv, NEW p \in Procs, Acts(p)
    PROVE  AnnouncedAt(p)'
<1>1. CASE M2AdapterPlan(p) \/ M2BootEntry(p)
  <2>1. /\ UNCHANGED <<argv, evidence>>
        /\ pc'[p] = "open" /\ out'[p].record.plan = argv[p].plan
        /\ \/ out'[p].file = AdapterPlan /\ out'[p].next = "m2-entry"
           \/ /\ out'[p].file = BootEntry /\ out'[p].next = "done"
              /\ pc[p] = "m2-entry"
    BY <1>1 DEF IInv, TypeOK, M2AdapterPlan, M2BootEntry, M2Record, Emit, Goto
  <2>2. pc[p] = "m2-entry" => Announced(argv[p].plan)
    BY DEF NInv, AnnouncedAt
  <2> QED
    BY <2>1, <2>2 DEF AnnouncedAt, Leading, Writing, Announced, AdapterPlan, BootEntry
<1>2. CASE \E a \in Invocations : Start(p, a)
  BY <1>2 DEF IInv, TypeOK, Start, Emit, Goto, AnnouncedAt, Leading, Writing,
              Refusal, BootEntry
<1>3. CASE \/ InputError(p) \/ CacheArtifact(p) \/ CacheError(p) \/ FetchFinish(p)
           \/ SinkError(p) \/ ReadRecord(p) \/ VerifyKernel(p) \/ VerifyInitrd(p)
           \/ CheckPreExec(p) \/ KexecLoad(p) \/ KexecExec(p) \/ KexecError(p)
           \/ Kill(p) \/ \E read \in Contents : FetchArtifact(p, read)
  <2>1. \/ /\ pc'[p] = "open" /\ out'[p].next # "m2-entry"
           /\ out'[p].file # BootEntry
        \/ pc'[p] \notin {"open", "write", "m2-entry"}
    BY <1>3 DEF IInv, TypeOK, InputError, CacheArtifact, CacheError, FetchFinish,
                SinkError, ReadRecord, VerifyKernel, VerifyInitrd, CheckPreExec,
                KexecLoad, KexecExec, KexecError, Kill, FetchArtifact, Emit,
                Goto, AfterSinkError, CacheRecord, PreExec, ExecProof, Refusal,
                BootEntry
  <2> QED
    BY <2>1 DEF AnnouncedAt, Leading, Writing
<1> QED
  BY <1>1, <1>2, <1>3, OpenEvidenceAnnounced, WriteEvidenceAnnounced DEF Acts, Step

\* The record that completes an M2 run is on disk, whole, beside its adapter plan.
LEMMA RunEndsAnnounced ==
    ASSUME IInv, NInv, NEW p \in Procs, Acts(p), Writing(p, BootEntry), pc'[p] = "done"
    PROVE  /\ evidence'[BootEntry] \notin Unreadable
           /\ evidence'[BootEntry].plan = argv[p].plan
           /\ EntryAnnounced'
<1>1. WriteEvidence(p)
  BY DEF IInv, TypeOK, Acts, Step, Writing, InputError, FetchArtifact, CacheArtifact,
         CacheError, FetchFinish, OpenEvidence, SinkError, ReadRecord, VerifyKernel,
         VerifyInitrd, CheckPreExec, KexecLoad, KexecExec, KexecError, M2AdapterPlan,
         M2BootEntry, Start, Kill, Goto, Emit, AfterSinkError, BootEntry, Refusal, Ended
<1>2. /\ AdapterPlan \in EvidenceFiles /\ BootEntry \in EvidenceFiles
      /\ AdapterPlan # BootEntry
  BY DEF EvidenceFiles, AdapterPlan, BootEntry
<1>3. /\ evidence[BootEntry] = Truncated
      /\ out[p].record.plan = argv[p].plan /\ Announced(argv[p].plan)
  BY <1>1 DEF NInv, AnnouncedAt, Writing, WriteEvidence
<1>4. evidence' = [evidence EXCEPT ![BootEntry] = out[p].record]
  BY <1>1, <1>3 DEF WriteEvidence, Writing
<1>5. /\ evidence'[BootEntry] = out[p].record
      /\ evidence'[AdapterPlan] = evidence[AdapterPlan]
  BY <1>2, <1>4 DEF IInv, TypeOK
<1>6. out[p].record \notin Unreadable
  BY QueuedTyped, MarksAssumption DEF IInv
<1> QED
  BY <1>3, <1>5, <1>6 DEF Announced, EntryAnnounced

\* Only while an adapter plan is written do the two files cease to agree.
LEMMA DisagreementIsAhead ==
    ASSUME IInv, NInv, NEW p \in Procs, Acts(p), EntryAnnounced, ~EntryAnnounced'
    PROVE  Writing(p, AdapterPlan)
<1>1. /\ AdapterPlan \in EvidenceFiles /\ BootEntry \in EvidenceFiles
      /\ AdapterPlan # BootEntry
  BY DEF EvidenceFiles, AdapterPlan, BootEntry
<1> SUFFICES ASSUME ~Writing(p, AdapterPlan)
             PROVE  FALSE
  OBVIOUS
<1>2. evidence'[AdapterPlan] = evidence[AdapterPlan]
  BY <1>1, EvidenceKept
<1>3. Writing(p, BootEntry)
  BY <1>1, <1>2, EvidenceKept DEF EntryAnnounced
<1>4. evidence'[BootEntry] \notin Unreadable
  BY DEF EntryAnnounced
<1>5. Truncated \in Unreadable /\ Garbled \in Unreadable
  BY DEF Unreadable
<1>6. evidence'[BootEntry] \in {evidence[BootEntry], out[p].record, Truncated, Garbled}
  <2>1. CASE OpenEvidence(p) \/ SinkError(p) \/ Kill(p) \/ WriteEvidence(p)
    BY <1>1, <1>3, <2>1 DEF IInv, TypeOK, Writing, OpenEvidence, SinkError, Kill,
                            WriteEvidence
  <2>2. CASE ~OpenEvidence(p) /\ ~SinkError(p) /\ ~Kill(p) /\ ~WriteEvidence(p)
    BY <2>2 DEF Acts, Step, InputError, FetchArtifact, CacheArtifact,
                CacheError, FetchFinish, ReadRecord, VerifyKernel,
                VerifyInitrd, CheckPreExec, KexecLoad, KexecExec,
                KexecError, M2AdapterPlan, M2BootEntry, Start
  <2> QED
    BY <2>1, <2>2
<1>7. CASE evidence'[BootEntry] = out[p].record
  <2>1. out[p].record.plan = argv[p].plan /\ Announced(argv[p].plan)
    BY <1>3 DEF NInv, AnnouncedAt
  <2> QED
    BY <1>2, <1>7, <2>1 DEF Announced, EntryAnnounced
<1>8. CASE evidence'[BootEntry] = evidence[BootEntry]
  BY <1>2, <1>8 DEF EntryAnnounced
<1> QED
  BY <1>4, <1>5, <1>6, <1>7, <1>8

(***************************************************************************)
(* As long as the M2 adapter runs take turns between their two records, a  *)
(* run that ends well leaves both, whole and of its plan, whatever broken- *)
(* off runs have left before, and no boot entry is ever ahead of its       *)
(* adapter plan (main.rs:734-775).                                         *)
(***************************************************************************)
THEOREM BootEntriesFollowPlans == Spec /\ []AnnouncementsApart => BootEntryFollowsPlan
<1> DEFINE Follows ==
              /\ \A p \in Procs :
                    Writing(p, BootEntry) /\ pc'[p] = "done" =>
                       /\ evidence'[BootEntry] \notin Unreadable
                       /\ evidence'[BootEntry].plan = argv[p].plan
                       /\ EntryAnnounced'
              /\ EntryAnnounced /\ ~EntryAnnounced' =>
                    \E p \in Procs : Writing(p, AdapterPlan)
<1>1. Init => NInv
  BY DEF Init, NInv, AnnouncedAt, Leading, Writing
<1>2. IInv /\ AnnouncementsApart /\ NInv /\ [Next]_vars => NInv'
  <2> SUFFICES ASSUME IInv, AnnouncementsApart, NInv, [Next]_vars
               PROVE  NInv'
    OBVIOUS
  <2>1. ASSUME NEW p \in Procs, Acts(p)
        PROVE  NInv'
    BY <2>1, OthersAnnounced, OwnAnnounced DEF NInv
  <2>2. CASE UNCHANGED vars
    BY <2>2 DEF vars, NInv, AnnouncedAt, Leading, Writing, Announced
  <2> QED
    BY <2>1, <2>2, NextIsOnes
<1>3. IInv /\ NInv /\ [Next]_vars => [Follows]_vars
  <2> SUFFICES ASSUME IInv, NInv, Next
               PROVE  Follows
    OBVIOUS
  <2>1. PICK p \in Procs : Acts(p)
    BY NextIsOnes
  <2>2. ASSUME NEW q \in Procs, Writing(q, BootEntry), pc'[q] = "done"
        PROVE  q = p
    BY <2>1, <2>2, OtherStays DEF Writing
  <2> QED
    BY <2>1, <2>2, RunEndsAnnounced, DisagreementIsAhead
<1> QED
  BY <1>1, <1>2, <1>3, Invariance, PTL DEF Spec, BootEntryFollowsPlan

-----------------------------------------------------------------------------
(***************************************************************************)
(* With at most one nlboot-client process nothing overlaps, so that all    *)
(* four promises hold without a condition.                                 *)
(***************************************************************************)
Alone == \A p, q \in Procs : p = q

LEMMA NothingOverlaps ==
    ASSUME Alone
    PROVE  LoadsApart /\ FetchesApart /\ ProofsApart /\ AnnouncementsApart
BY DEF Alone, LoadsApart, Loading, Heading, FetchesApart, ProofsApart,
       AnnouncementsApart

(***************************************************************************)
(* One process at a time: what kexec --load takes into the kernel has the  *)
(* hashes of the cache record (main.rs:607-613, 666-672).                  *)
(***************************************************************************)
THEOREM AloneLoadsAreVerified ==
    ASSUME Alone
    PROVE  Spec => []LoadedVerified
BY NothingOverlaps, LoadsAreVerified, PTL DEF LoadsApartVerified

(***************************************************************************)
(* One process at a time: the proof of what is about to happen is on disk, *)
(* whole, when kexec is invoked, whatever failed or was killed before      *)
(* (main.rs:659, 709).                                                     *)
(***************************************************************************)
THEOREM AloneEvidenceComesFirst ==
    ASSUME Alone
    PROVE  Spec => []EvidenceBeforeMutation
BY NothingOverlaps, EvidenceComesFirst, PTL DEF ProofsApartFirst

(***************************************************************************)
(* One process at a time: a fetch that ends well leaves its files whole,   *)
(* and boot entries follow their adapter plan (main.rs:543-575, 772-773).  *)
(***************************************************************************)
THEOREM AloneFilesAreInOrder ==
    ASSUME Alone
    PROVE  Spec => FetchHealsCache /\ BootEntryFollowsPlan
BY NothingOverlaps, FetchesHealTheCache, BootEntriesFollowPlans, PTL
=============================================================================
