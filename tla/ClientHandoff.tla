---------------------------- MODULE ClientHandoff ----------------------------
(***************************************************************************)
(* The fetch and execute commands of nlboot-client                         *)
(* (rust/nlboot-client/src/main.rs), running as processes that share one   *)
(* cache tree, one evidence directory and one host.                        *)
(*                                                                         *)
(* Every access to a shared file is a step of its own.  fs::write is two:  *)
(* it opens the file with truncation, then writes.  A process may be       *)
(* killed between any two steps.  kexec and the artifact sources are       *)
(* external: they may fail whenever they are called.                       *)
(***************************************************************************)
EXTENDS Naturals, Sequences

CONSTANTS
    Procs,        \* client processes that can be alive at a time
    Plans,        \* boot plan files
    PlanArtifacts,\* plan -> its <<key, ref>> pairs in BTreeMap order
    Maps,         \* artifact maps: functions from refs to descriptors
    Refs,         \* artifact refs
    Contents,     \* complete artifacts, as byte strings
    Caches,       \* cache directories
    Within,       \* <<outer, inner>>: the directory inner is outer or below it
    Invocations,  \* the command lines that are run
    NoCommand,    \* argv of a process that was never started
    NoPlan,       \* "plan" of a record that names none
    Absent,       \* no such file
    Truncated,    \* opened for writing, and not (wholly) written yet
    Garbled,      \* part of a record, or two records on top of each other
    NoImage,      \* nothing loaded with kexec, nothing booted
    MaxRuns       \* bound: command lines run in one behaviour

\* sha256_hex, as an injective constructor.
Digest(content) == <<"sha256", content>>
Digests == {Digest(c) : c \in Contents}

\* plan_key_to_artifact_kind; other keys are refused.
KindOfKey == [kernel_ref |-> "kernel", initrd_ref |-> "initrd",
              rootfs_ref |-> "rootfs"]
Kinds == {"kernel", "initrd", "rootfs"}

(***************************************************************************)
(* ArtifactDescriptor.  size_ok: size_bytes is absent, or the length of    *)
(* the bytes that sha256 names.  "source" is what the caller cannot see.   *)
(***************************************************************************)
Descriptors == [kind : Kinds, sha256 : Digests, size_ok : BOOLEAN]

\* CachedArtifactRecord; its cache_path is the directory, kind and digest.
Entries == [ref : Refs, kind : Kinds, sha256 : Digests, cache : Caches]
Paths   == Caches \X Kinds \X Digests

\* Mutant of PathOf: files are named after their kind alone.
PathOfKind(entry) ==
    <<entry.cache, entry.kind, Digest(CHOOSE c \in Contents : TRUE)>>

\* cache.join of the kind and the digest.
PathOf(entry) == <<entry.cache, entry.kind, entry.sha256>>

CommandLines ==
    [cmd : {"fetch", "execute"}, plan : Plans, map : Maps, cache : Caches,
     adapter : {"linux-kexec", "apple-silicon-m2", "other"},
     load_only : BOOLEAN, exec_now : BOOLEAN, mutation_ack : BOOLEAN,
     reboot_ack : BOOLEAN, dry_run : BOOLEAN, root : BOOLEAN]

(***************************************************************************)
(* The records written to the evidence directory.  artifacts: the cached   *)
(* artifacts of a cache record, the kernel and initrd of the kexec command *)
(* line in a pre-exec proof.                                               *)
(***************************************************************************)
CacheRecord == "artifact-cache-record.json"
PreExec     == "pre-exec-proof.json"
ExecProof   == "exec-proof.json"
AdapterPlan == "adapter-plan-record.json"
BootEntry   == "boot-entry-record.json"
Refusal     == "refusal-record.json"
EvidenceFiles ==
    {CacheRecord, PreExec, ExecProof, AdapterPlan, BootEntry, Refusal}
Records == [plan : Plans \cup {NoPlan}, dry_run : BOOLEAN,
            artifacts : Seq(Entries)]
Unreadable == {Absent, Truncated, Garbled}

ASSUME InvocationsAssumption == Invocations \subseteq CommandLines
ASSUME PlansAssumption ==
    PlanArtifacts \in [Plans -> Seq(STRING \X Refs)]
ASSUME MapsAssumption ==
    \A m \in Maps : /\ DOMAIN m \subseteq Refs
                    /\ \A r \in DOMAIN m : m[r] \in Descriptors
ASSUME WithinAssumption == \A dir \in Caches : <<dir, dir>> \in Within
ASSUME MarksAssumption ==
    /\ Unreadable \cap Contents = {}
    /\ Unreadable \cap Records = {}
    /\ Absent \notin {Truncated, Garbled}

VARIABLES
    pc,        \* where each process is, or how it ended
    argv,      \* its command line
    bytes,     \* fetch: what the source of the current artifact gave
    cached,    \* fetch: the entries pushed so far
    picked,    \* execute: <<kernel, initrd>> of the record it verified
    out,       \* the record being written, and where to go on afterwards
    cache,     \* the cache tree
    evidence,  \* the evidence directory
    loaded,    \* the image kexec --load left in the kernel
    booted,    \* the last image kexec --exec started, and for which plan
    runs       \* command lines started so far

vars == <<pc, argv, bytes, cached, picked, out, cache, evidence, loaded,
          booted, runs>>

\* How a process can have ended.
Ended == {"idle", "done", "failed", "refused", "no-cache-evidence",
          "outside-cache", "hash-mismatch"}
Running == {"fetch", "cache-write", "record", "kernel", "initrd",
            "pre-exec-check", "m2", "m2-entry", "open", "write",
            "kexec-load", "kexec-exec"}

RefusalRecord == [plan |-> NoPlan, dry_run |-> FALSE, artifacts |-> <<>>]
NoOut == [file |-> Refusal, next |-> "refused", record |-> RefusalRecord]
Outs  == [file : EvidenceFiles, next : Ended \cup Running, record : Records]

Init ==
    /\ pc = [p \in Procs |-> "idle"]
    /\ argv = [p \in Procs |-> NoCommand]
    /\ bytes = [p \in Procs |-> Absent]
    /\ cached = [p \in Procs |-> <<>>]
    /\ picked = [p \in Procs |-> <<>>]
    /\ out = [p \in Procs |-> NoOut]
    /\ cache = [path \in Paths |-> Absent]
    /\ evidence = [f \in EvidenceFiles |-> Absent]
    /\ loaded = NoImage
    /\ booted = NoImage
    /\ runs = 0
-----------------------------------------------------------------------------
Goto(p, label) == pc' = [pc EXCEPT ![p] = label]

\* Queue a record for the evidence directory; the process continues at next.
Emit(p, file, record, next) ==
    /\ out' = [out EXCEPT ![p] = [file |-> file, next |-> next, record |-> record]]
    /\ Goto(p, "open")

\* The adapter and the mode main dispatches on.
Supported(a) ==
    /\ a.adapter \in {"linux-kexec", "apple-silicon-m2"}
    /\ a.load_only # a.exec_now
    /\ a.adapter = "apple-silicon-m2" => a.load_only

\* require_root_or_dry_run
RootOrDryRun(a) == a.dry_run \/ a.root

\* Mutant of Permitted: --load-only needs no acknowledgement.
PermittedWithoutAck(a) ==
    /\ Supported(a)
    /\ a.exec_now => a.mutation_ack /\ a.reboot_ack
    /\ a.adapter = "linux-kexec" => RootOrDryRun(a)
    /\ a.adapter = "apple-silicon-m2" => a.dry_run

(***************************************************************************)
(* The checks main and the three commands make of an execute command line  *)
(* before they read a file; every one that fails writes a refusal.         *)
(***************************************************************************)
Permitted(a) ==
    /\ Supported(a)
    /\ a.mutation_ack
    /\ a.exec_now => a.reboot_ack
    /\ a.adapter = "linux-kexec" => RootOrDryRun(a)
    /\ a.adapter = "apple-silicon-m2" => a.dry_run

(***************************************************************************)
(* main: parse the command line, make the checks that need no file, and    *)
(* enter the command.                                                      *)
(***************************************************************************)
Start(p, a) ==
    /\ pc[p] \in Ended
    /\ runs < MaxRuns
    /\ runs' = runs + 1
    /\ argv' = [argv EXCEPT ![p] = a]
    /\ cached' = [cached EXCEPT ![p] = <<>>]
    /\ picked' = [picked EXCEPT ![p] = <<>>]
    /\ \/ a.cmd = "fetch" /\ Goto(p, "fetch") /\ UNCHANGED out
       \/ /\ a.cmd = "execute" /\ Permitted(a)
          /\ Goto(p, IF a.adapter = "linux-kexec" THEN "record" ELSE "m2")
          /\ UNCHANGED out
       \/ /\ a.cmd = "execute" /\ ~Permitted(a)
          /\ Emit(p, Refusal, RefusalRecord, "refused")
    /\ UNCHANGED <<bytes, cache, evidence, loaded, booted>>

(***************************************************************************)
(* load_plan, the artifact map, a source or a directory cannot be read, or *)
(* what a source returned does not match its descriptor: the error is      *)
(* returned with ?, and no refusal is written.                             *)
(***************************************************************************)
InputError(p) ==
    /\ pc[p] \in {"fetch", "record", "m2"}
    /\ Goto(p, "failed")
    /\ UNCHANGED <<argv, bytes, cached, picked, out, cache, evidence, loaded, booted, runs>>
-----------------------------------------------------------------------------
\* The artifact fetch_artifacts is at: the first that is not cached yet.
Current(p) == PlanArtifacts[argv[p].plan][Len(cached[p]) + 1]
DescriptorOf(p) == argv[p].map[Current(p)[2]]

\* Mutant of EntryOf: the plan's key is taken for the kind.
EntryOfByKey(p) ==
    [ref |-> Current(p)[2], kind |-> Current(p)[1],
     sha256 |-> DescriptorOf(p).sha256, cache |-> argv[p].cache]

\* The CachedArtifactRecord of the current artifact.
EntryOf(p) ==
    [ref |-> Current(p)[2], kind |-> DescriptorOf(p).kind,
     sha256 |-> DescriptorOf(p).sha256, cache |-> argv[p].cache]

\* Mutant of Acceptable: the hash of the bytes is not compared.
AcceptableUnhashed(p, read) ==
    LET key == Current(p)[1]
        ref == Current(p)[2]
    IN  /\ key \in DOMAIN KindOfKey
        /\ ref \in DOMAIN argv[p].map
        /\ DescriptorOf(p).kind = KindOfKey[key]
        /\ DescriptorOf(p).size_ok

\* The checks of fetch_artifacts on one artifact and the bytes its source gave.
Acceptable(p, read) ==
    LET key == Current(p)[1]
        ref == Current(p)[2]
    IN  /\ key \in DOMAIN KindOfKey
        /\ ref \in DOMAIN argv[p].map
        /\ DescriptorOf(p).kind = KindOfKey[key]
        /\ Digest(read) = DescriptorOf(p).sha256
        /\ DescriptorOf(p).size_ok

\* Mutant of Finished: the loop ends after the first artifact.
FinishedEarly(p) == Len(cached[p]) >= 1

\* The loop has gone through every artifact of the plan.
Finished(p) == Len(cached[p]) = Len(PlanArtifacts[argv[p].plan])

\* Mutant of FetchArtifact: a file that is in the cache already is kept.
FetchArtifactKeepExisting(p, read) ==
    /\ pc[p] = "fetch"
    /\ ~Finished(p)
    /\ Acceptable(p, read)
    /\ bytes' = [bytes EXCEPT ![p] =
                    IF cache[PathOf(EntryOf(p))] = Absent THEN read
                                                          ELSE cache[PathOf(EntryOf(p))]]
    /\ cache' = [cache EXCEPT ![PathOf(EntryOf(p))] =
                    IF @ = Absent THEN Truncated ELSE @]
    /\ Goto(p, "cache-write")
    /\ UNCHANGED <<argv, cached, picked, out, evidence, loaded, booted, runs>>

(***************************************************************************)
(* fetch_artifacts, one round of the loop up to the open(2) in fs::write.  *)
(***************************************************************************)
FetchArtifact(p, read) ==
    /\ pc[p] = "fetch"
    /\ ~Finished(p)
    /\ Acceptable(p, read)
    /\ bytes' = [bytes EXCEPT ![p] = read]
    /\ cache' = [cache EXCEPT ![PathOf(EntryOf(p))] = Truncated]
    /\ Goto(p, "cache-write")
    /\ UNCHANGED <<argv, cached, picked, out, evidence, loaded, booted, runs>>

\* The rest of fs::write, and cached.push.
CacheArtifact(p) ==
    /\ pc[p] = "cache-write"
    /\ cache' = [cache EXCEPT ![PathOf(EntryOf(p))] = bytes[p]]
    /\ bytes' = [bytes EXCEPT ![p] = Absent]
    /\ cached' = [cached EXCEPT ![p] = Append(@, EntryOf(p))]
    /\ Goto(p, "fetch")
    /\ UNCHANGED <<argv, picked, out, evidence, loaded, booted, runs>>

(***************************************************************************)
(* fs::write to the cache fails half way (a full disk).  The file stays    *)
(* incomplete, or whole if another process has written the same bytes.     *)
(***************************************************************************)
CacheError(p) ==
    /\ pc[p] = "cache-write"
    /\ bytes' = [bytes EXCEPT ![p] = Absent]
    /\ Goto(p, "failed")
    /\ UNCHANGED <<argv, cached, picked, out, cache, evidence, loaded, booted, runs>>

\* fetch_artifacts after the loop: everything cached moves into the record.
FetchFinish(p) ==
    /\ pc[p] = "fetch"
    /\ Finished(p)
    /\ Emit(p, CacheRecord, [plan |-> argv[p].plan, dry_run |-> FALSE,
                             artifacts |-> cached[p]], "done")
    /\ cached' = [cached EXCEPT ![p] = <<>>]
    /\ UNCHANGED <<argv, bytes, picked, cache, evidence, loaded, booted, runs>>
-----------------------------------------------------------------------------
(***************************************************************************)
(* write_json and write_refusal: create or truncate the file ...           *)
(***************************************************************************)
OpenEvidence(p) ==
    /\ pc[p] = "open"
    /\ evidence' = [evidence EXCEPT ![out[p].file] = Truncated]
    /\ Goto(p, "write")
    /\ UNCHANGED <<argv, bytes, cached, picked, out, cache, loaded, booted, runs>>

(***************************************************************************)
(* ... and write the record.  If another process wrote the file since it   *)
(* was truncated, the two records lie on top of each other, and the result *)
(* is this one only if it covers the other.                                *)
(***************************************************************************)
WriteEvidence(p) ==
    LET file == out[p].file
        mine == out[p].record
    IN  /\ pc[p] = "write"
        /\ evidence' \in {[evidence EXCEPT ![file] = v] :
                v \in IF evidence[file] = Truncated THEN {mine}
                                                   ELSE {mine, Garbled}}
        /\ Goto(p, out[p].next)
        /\ out' = [out EXCEPT ![p] = NoOut]
        /\ UNCHANGED <<argv, bytes, cached, picked, cache, loaded, booted, runs>>

\* Mutant of AfterSinkError: the error of write_json is ignored.
AfterSinkErrorIgnored(o) == o.next

\* write_json returns the error, write_refusal ignores it: both end the run.
AfterSinkError(o) == IF o.file = Refusal THEN "refused" ELSE "failed"

\* The evidence directory or file cannot be created or written.
SinkError(p) ==
    /\ pc[p] \in {"open", "write"}
    /\ evidence' \in {evidence} \cup
          IF pc[p] = "write" THEN {[evidence EXCEPT ![out[p].file] = Garbled]}
                             ELSE {}
    /\ Goto(p, AfterSinkError(out[p]))
    /\ out' = [out EXCEPT ![p] = NoOut]
    /\ UNCHANGED <<argv, bytes, cached, picked, cache, loaded, booted, runs>>
-----------------------------------------------------------------------------
\* Mutant of IsFirst: the kind is not compared.
IsFirstAnyKind(record, i, kind) == i = 1

\* artifact_record_by_kind finds the i-th entry of a record: the first of a kind.
IsFirst(record, i, kind) ==
    /\ record.artifacts[i].kind = kind
    /\ \A j \in 1 .. i - 1 : record.artifacts[j].kind # kind

\* The record can be read and names a kernel and an initrd.
Usable(record) ==
    /\ record \notin Unreadable
    /\ \A kind \in {"kernel", "initrd"} :
          \E i \in DOMAIN record.artifacts : record.artifacts[i].kind = kind

\* Path::starts_with, for both paths of a record: where the record says the
\* files are is the directory of the command line, or below it.
InCache(kernel, initrd, dir) ==
    <<dir, kernel.cache>> \in Within /\ <<dir, initrd.cache>> \in Within

(***************************************************************************)
(* load_cache_record and the path check of verify_cached_kernel_initrd.    *)
(***************************************************************************)
ReadRecord(p) ==
    LET record == evidence[CacheRecord]
    IN  /\ pc[p] = "record"
        /\ \/ /\ ~Usable(record)
             /\ Goto(p, "no-cache-evidence")
             /\ UNCHANGED picked
          \/ /\ Usable(record)
             /\ \E k, i \in DOMAIN record.artifacts :
                   LET kernel == record.artifacts[k]
                       initrd == record.artifacts[i]
                   IN  /\ IsFirst(record, k, "kernel")
                       /\ IsFirst(record, i, "initrd")
                       /\ \/ /\ ~InCache(kernel, initrd, argv[p].cache)
                            /\ Goto(p, "outside-cache")
                            /\ UNCHANGED picked
                         \/ /\ InCache(kernel, initrd, argv[p].cache)
                            /\ Goto(p, "kernel")
                            /\ picked' = [picked EXCEPT ![p] = <<kernel, initrd>>]
        /\ UNCHANGED <<argv, bytes, cached, out, cache, evidence, loaded, booted, runs>>

\* Mutant of Intact: any file at the path will do.
IntactIfPresent(entry) == cache[PathOf(entry)] # Absent

\* The cached file exists and has the hash the record names.
Intact(entry) ==
    /\ cache[PathOf(entry)] \in Contents
    /\ Digest(cache[PathOf(entry)]) = entry.sha256

PreExecProof(p) == [plan |-> argv[p].plan, dry_run |-> argv[p].dry_run,
                    artifacts |-> picked[p]]

(***************************************************************************)
(* verify_cached_kernel_initrd reads and hashes the kernel, then the       *)
(* initrd.  After that the load-only command emits its proof, and the      *)
(* exec command looks for the proof of an earlier load.                    *)
(***************************************************************************)
VerifyKernel(p) ==
    /\ pc[p] = "kernel"
    /\ Goto(p, IF Intact(picked[p][1]) THEN "initrd" ELSE "hash-mismatch")
    /\ UNCHANGED <<argv, bytes, cached, picked, out, cache, evidence, loaded, booted, runs>>

VerifyInitrd(p) ==
    /\ pc[p] = "initrd"
    /\ \/ /\ ~Intact(picked[p][2])
          /\ Goto(p, "hash-mismatch")
          /\ UNCHANGED out
       \/ /\ Intact(picked[p][2]) /\ argv[p].load_only
          /\ Emit(p, PreExec, PreExecProof(p),
                  IF argv[p].dry_run THEN "done" ELSE "kexec-load")
       \/ /\ Intact(picked[p][2]) /\ ~argv[p].load_only
          /\ Goto(p, "pre-exec-check")
          /\ UNCHANGED out
    /\ UNCHANGED <<argv, bytes, cached, picked, cache, evidence, loaded, booted, runs>>

(***************************************************************************)
(* execute_linux_kexec_exec: pre-exec-proof.json must exist.  What it says *)
(* is not read.                                                            *)
(***************************************************************************)
CheckPreExec(p) ==
    /\ pc[p] = "pre-exec-check"
    /\ \/ /\ evidence[PreExec] = Absent
          /\ Emit(p, Refusal, RefusalRecord, "refused")
       \/ /\ evidence[PreExec] # Absent
          /\ Emit(p, ExecProof, [plan |-> argv[p].plan,
                                 dry_run |-> argv[p].dry_run, artifacts |-> <<>>],
                  IF argv[p].dry_run THEN "done" ELSE "kexec-exec")
    /\ UNCHANGED <<argv, bytes, cached, picked, cache, evidence, loaded, booted, runs>>

(***************************************************************************)
(* kexec --load <kernel> --initrd <initrd>: reads the two paths again.  It *)
(* may reject what it finds.  plan and entries are history: for which plan *)
(* and which verified cache entries the image was loaded.                  *)
(***************************************************************************)
KexecLoad(p) ==
    /\ pc[p] = "kexec-load"
    /\ loaded' = [kernel |-> cache[PathOf(picked[p][1])],
                  initrd |-> cache[PathOf(picked[p][2])],
                  plan |-> argv[p].plan, entries |-> picked[p]]
    /\ Goto(p, "done")
    /\ UNCHANGED <<argv, bytes, cached, picked, out, cache, evidence, booted, runs>>

\* kexec --exec with an image loaded: the host, and every process, is gone.
KexecExec(p) ==
    /\ pc[p] = "kexec-exec"
    /\ loaded # NoImage
    /\ booted' = [image |-> loaded, plan |-> argv[p].plan]
    /\ loaded' = NoImage
    /\ pc' = [q \in Procs |-> "idle"]
    /\ bytes' = [q \in Procs |-> Absent]
    /\ out' = [q \in Procs |-> NoOut]
    /\ UNCHANGED <<argv, cached, picked, cache, evidence, runs>>

\* kexec cannot be invoked or returns an error.
KexecError(p) ==
    /\ pc[p] \in {"kexec-load", "kexec-exec"}
    /\ Goto(p, "failed")
    /\ UNCHANGED <<argv, bytes, cached, picked, out, cache, evidence, loaded, booted, runs>>

(***************************************************************************)
(* execute_m2_adapter_dry_run: two records, one after the other.           *)
(***************************************************************************)
M2Record(p) == [plan |-> argv[p].plan, dry_run |-> TRUE, artifacts |-> <<>>]

M2AdapterPlan(p) ==
    /\ pc[p] = "m2"
    /\ Emit(p, AdapterPlan, M2Record(p), "m2-entry")
    /\ UNCHANGED <<argv, bytes, cached, picked, cache, evidence, loaded, booted, runs>>

M2BootEntry(p) ==
    /\ pc[p] = "m2-entry"
    /\ Emit(p, BootEntry, M2Record(p), "done")
    /\ UNCHANGED <<argv, bytes, cached, picked, cache, evidence, loaded, booted, runs>>

(***************************************************************************)
(* The process is killed.  An artifact it had open stays as it is; of a    *)
(* record it had open, a part may have been written.                       *)
(***************************************************************************)
Kill(p) ==
    /\ pc[p] \in Running
    /\ Goto(p, "idle")
    /\ bytes' = [bytes EXCEPT ![p] = Absent]
    /\ out' = [out EXCEPT ![p] = NoOut]
    /\ \/ UNCHANGED evidence
       \/ /\ pc[p] = "write"
          /\ evidence' = [evidence EXCEPT ![out[p].file] = Garbled]
    /\ UNCHANGED <<argv, cached, picked, cache, loaded, booted, runs>>

\* The steps a started process takes by itself.
Step(p) ==
    \/ InputError(p)
    \/ \E read \in Contents : FetchArtifact(p, read)
    \/ CacheArtifact(p) \/ CacheError(p) \/ FetchFinish(p)
    \/ OpenEvidence(p) \/ WriteEvidence(p) \/ SinkError(p)
    \/ ReadRecord(p) \/ VerifyKernel(p) \/ VerifyInitrd(p) \/ CheckPreExec(p)
    \/ KexecLoad(p) \/ KexecExec(p) \/ KexecError(p)
    \/ M2AdapterPlan(p) \/ M2BootEntry(p)

Next == \E p \in Procs : \/ \E a \in Invocations : Start(p, a)
                        \/ Step(p)
                        \/ Kill(p)

Spec == Init /\ [][Next]_vars
-----------------------------------------------------------------------------
Images == [kernel : Contents \cup {Absent, Truncated},
           initrd : Contents \cup {Absent, Truncated},
           plan : Plans, entries : Seq(Entries)]

\* Every variable has its type.
TypeOK ==
    /\ pc \in [Procs -> Ended \cup Running]
    /\ argv \in [Procs -> Invocations \cup {NoCommand}]
    /\ bytes \in [Procs -> Contents \cup {Absent}]
    /\ cached \in [Procs -> Seq(Entries)]
    /\ picked \in [Procs -> Seq(Entries)]
    /\ out \in [Procs -> Outs]
    /\ cache \in [Paths -> Contents \cup {Absent, Truncated}]
    /\ evidence \in [EvidenceFiles -> Records \cup Unreadable]
    /\ loaded \in Images \cup {NoImage}
    /\ booted \in [image : Images, plan : Plans] \cup {NoImage}
    /\ runs \in Nat

(***************************************************************************)
(* The cache is content-addressed at every instant, whatever processes     *)
(* race or die: a file holds nothing, a beginning, or the bytes whose hash *)
(* is in its name (main.rs:543-554).                                       *)
(***************************************************************************)
CacheContentAddressed ==
    \A path \in Paths :
       cache[path] \in Contents => Digest(cache[path]) = path[3]

(***************************************************************************)
(* What kexec --load took into the kernel has the hashes the client        *)
(* verified, or was torn by a concurrent write of the same artifact; other *)
(* bytes never get there, although the paths are read twice                *)
(* (main.rs:607-613, 666-672).                                             *)
(***************************************************************************)
LoadedNeverSubstituted ==
    loaded # NoImage =>
       /\ loaded.kernel # Truncated => loaded.kernel \in Contents
                /\ Digest(loaded.kernel) = loaded.entries[1].sha256
       /\ loaded.initrd # Truncated => loaded.initrd \in Contents
                /\ Digest(loaded.initrd) = loaded.entries[2].sha256

(***************************************************************************)
(* docs/USABLE_MVP_GAP.md:97-98: "invoke `kexec --load` with verified      *)
(* kernel/initrd/args; never use unverified paths".                        *)
(***************************************************************************)
LoadedVerified ==
    loaded # NoImage =>
       /\ Digest(loaded.kernel) = loaded.entries[1].sha256
       /\ Digest(loaded.initrd) = loaded.entries[2].sha256

(***************************************************************************)
(* With one process at a time, a fetch that ends well leaves every file of *)
(* its record whole, also where an earlier fetch was killed half way       *)
(* through the same file (main.rs:543-575).                                *)
(***************************************************************************)
FetchHealsCache ==
    [][\A p \in Procs :
          pc[p] = "write" /\ out[p].file = CacheRecord /\ pc'[p] = "done" =>
             \A i \in DOMAIN out[p].record.artifacts :
                Intact(out[p].record.artifacts[i])]_vars

(***************************************************************************)
(* A readable cache record is the result of one whole fetch: it lists the  *)
(* artifacts of the plan it names, all of them, in the plan's order, each  *)
(* under the kind its key asks for, and all in one cache directory         *)
(* (main.rs:533-575).                                                      *)
(***************************************************************************)
RecordIsOneFetch ==
    LET record == evidence[CacheRecord]
    IN  record \notin Unreadable =>
           LET wanted == PlanArtifacts[record.plan]
           IN  /\ Len(record.artifacts) = Len(wanted)
               /\ \A i \in DOMAIN wanted :
                     /\ record.artifacts[i].ref = wanted[i][2]
                     /\ record.artifacts[i].kind = KindOfKey[wanted[i][1]]
                     /\ record.artifacts[i].cache = record.artifacts[1].cache

\* The entry a fetch of the plan pushes for a key.
CachedFor(entry, plan, key) ==
    /\ entry.kind = KindOfKey[key]
    /\ \E i \in DOMAIN PlanArtifacts[plan] :
          PlanArtifacts[plan][i] = <<key, entry.ref>>

(***************************************************************************)
(* The kernel and the initrd of a loaded image come from the fetch of one  *)
(* plan and one cache directory, even if other fetches replace the record  *)
(* meanwhile (main.rs:598-606).                                            *)
(***************************************************************************)
LoadedFromOneFetch ==
    loaded # NoImage =>
       /\ loaded.entries[1].cache = loaded.entries[2].cache
       /\ \E plan \in Plans : /\ CachedFor(loaded.entries[1], plan, "kernel_ref")
                              /\ CachedFor(loaded.entries[2], plan, "initrd_ref")

(***************************************************************************)
(* With one process at a time, the proof of what is about to happen is on  *)
(* disk, whole, when kexec is invoked (main.rs:659, 709).                  *)
(***************************************************************************)
EvidenceBeforeMutation ==
    \A p \in Procs :
       /\ pc[p] = "kexec-load" =>
             evidence[PreExec] = [plan |-> argv[p].plan, dry_run |-> FALSE,
                                  artifacts |-> picked[p]]
       /\ pc[p] = "kexec-exec" =>
             /\ evidence[ExecProof] \notin Unreadable
             /\ evidence[ExecProof].plan = argv[p].plan
             /\ evidence[PreExec] # Absent

(***************************************************************************)
(* Which overlaps break the two promises above, and that no other does.    *)
(***************************************************************************)
\* Process p is at a label, or will be there once its record is written.
Heading(p, label) ==
    \/ pc[p] = label
    \/ pc[p] \in {"open", "write"} /\ out[p].next = label

Writing(p, file) == pc[p] \in {"open", "write"} /\ out[p].file = file

\* Nobody fetches into a cache directory between another process's check of
\* its kernel and its kexec --load from there.
Loading(p) == pc[p] = "initrd" \/ Heading(p, "kexec-load")
LoadsApart ==
    \A p, q \in Procs :
       Loading(p) /\ pc[q] = "fetch" =>
          \A i \in DOMAIN picked[p] : picked[p][i].cache # argv[q].cache

\* A proof is not rewritten between its own writing and the kexec it is for.
Using(p, file) ==
    \/ Writing(p, file)
    \/ file = PreExec /\ pc[p] = "kexec-load"
    \/ file = ExecProof /\ pc[p] = "kexec-exec"
ProofsApart ==
    \A p, q \in Procs, file \in {PreExec, ExecProof} :
       Using(p, file) /\ Using(q, file) => p = q

(***************************************************************************)
(* Processes may overlap in any other way, and be killed: if nobody        *)
(* fetches into a directory that is being loaded from, kexec --load gets   *)
(* the verified files (main.rs:607-613, 666-672).                          *)
(***************************************************************************)
LoadsApartVerified == []LoadsApart => []LoadedVerified

(***************************************************************************)
(* Likewise, if nobody rewrites a proof that a kexec is being called on,   *)
(* the proof is on disk, whole, when kexec is invoked (main.rs:659, 709).  *)
(***************************************************************************)
ProofsApartFirst == []ProofsApart => []EvidenceBeforeMutation

\* The boot entry on disk is of the plan that the adapter plan on disk announces.
EntryAnnounced ==
    evidence[BootEntry] \notin Unreadable =>
       /\ evidence[AdapterPlan] \notin Unreadable
       /\ evidence[AdapterPlan].plan = evidence[BootEntry].plan

(***************************************************************************)
(* With one process at a time, a run of the M2 adapter that ends well      *)
(* leaves both records, whole and of its plan, whatever runs that were     *)
(* killed or failed have left there before; and the two files cease to     *)
(* agree only while an adapter plan is being written, so what a broken-off *)
(* run can leave is the older boot entry of another plan beside a new or   *)
(* torn adapter plan, never a boot entry that is ahead of its adapter plan *)
(* (main.rs:734-775).                                                      *)
(***************************************************************************)
BootEntryFollowsPlan ==
    [][/\ \A p \in Procs :
             Writing(p, BootEntry) /\ pc'[p] = "done" =>
                /\ evidence'[BootEntry] \notin Unreadable
                /\ evidence'[BootEntry].plan = argv[p].plan
                /\ EntryAnnounced'
       /\ EntryAnnounced /\ ~EntryAnnounced' =>
             \E p \in Procs : Writing(p, AdapterPlan)]_vars

(***************************************************************************)
(* The kernel's image changes, and the host reboots, only on behalf of a   *)
(* command line that asked for exactly that: linux-kexec, not a dry run,   *)
(* as root, with the acknowledgements, and the image lies under the cache  *)
(* directory it names (main.rs:604-606, 617-631, 680-686, 804-829).        *)
(***************************************************************************)
HostMutationGated ==
    [][/\ loaded' # loaded /\ loaded' # NoImage =>
             \E p \in Procs :
                /\ pc[p] = "kexec-load"
                /\ argv[p].adapter = "linux-kexec"
                /\ argv[p].load_only /\ ~argv[p].exec_now
                /\ argv[p].mutation_ack /\ argv[p].root /\ ~argv[p].dry_run
                /\ InCache(loaded'.entries[1], loaded'.entries[2], argv[p].cache)
       /\ booted' # booted =>
             \E p \in Procs :
                /\ pc[p] = "kexec-exec"
                /\ argv[p].adapter = "linux-kexec"
                /\ argv[p].exec_now /\ ~argv[p].load_only
                /\ argv[p].mutation_ack /\ argv[p].reboot_ack
                /\ argv[p].root /\ ~argv[p].dry_run]_vars

-----------------------------------------------------------------------------
(***************************************************************************)
(* README.md:224: "A real `kexec --exec` path also requires the prior      *)
(* load-only proof": when kexec --exec is invoked for a plan, the proof    *)
(* that this plan was really loaded is there.                              *)
(***************************************************************************)
ExecHasItsLoadProof ==
    \A p \in Procs :
       pc[p] = "kexec-exec" =>
          /\ evidence[PreExec] \notin Unreadable
          /\ evidence[PreExec].plan = argv[p].plan
          /\ ~evidence[PreExec].dry_run
=============================================================================
