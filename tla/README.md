# A TLA+ model of nlboot

nlboot enrols devices, plans boots from signed manifests, and hands a planned boot
over to the platform. This directory holds TLA+ modules for its parts, TLC
configurations that check them on small instances, and TLAPS proofs. Paths below are
relative to the repository root; `main.rs` is `rust/nlboot-client/src/main.rs`, and
the Python files are those of `src/nlboot/`.

## The system

| Component | State it keeps | Operations | Hard part |
|---|---|---|---|
| Device identity and claims (`device.py`) | a key pair | `generate`, `make_claim`, `verify` | what the signature covers (the PEM text) and what the id covers (the DER key) differ |
| Enrollment registry (`enrollment.py`) | a dictionary from code hashes to bindings | `issue`, `redeem`, `binding_for`, `issue_enrollment_token_payload` | single use and expiry over long call sequences, replayed claims, threads |
| Reference planner (`cli.py`, `protocol.py`, `verify.py`) | none | `nlboot-plan` | three documents and a menu that must fit together |
| Trust bundles (`verify.py:130`) | none; a host keeps what it returned | `load_trusted_keys`, `load_verified_trust_bundle` | old bundles, roots that expire, keys of two bundles mixed |
| Rust planner (`main.rs`, `plan`) | none | `plan` | being the same program as the reference planner |
| Rust client (`main.rs`, `fetch`, `execute`) | the cache tree, the evidence directory, the kernel's kexec image | `fetch`, `execute --load-only`, `execute --exec`, M2 dry run | several processes, kills and errors between any two file accesses, gates |
| SPDX export (`tools/cargo_metadata_to_spdx.py`) | none | metadata to SBOM | two functions work out the same identifier, and identifiers can collide |
| Validators (`tools/validate_*.py`), schemas, packaging, workflows | none | one pass over static files | - |

A device makes a claim and presents it to the registry, which binds a code to it. The
device exchanges code and claim for a session; the binding is also rendered as an
enrollment token. A planner checks token, manifest and key document and writes a plan.
`fetch` takes the plan and fills cache and evidence directory; `execute` reads what
`fetch` left there, writes its own evidence and calls `kexec`. The last two only
communicate through files, which nothing locks.

What makes each part correct:

- *claims*: a claim verifies only if the key named by its id signed all of its fields;
- *registry*: a code buys at most one credential, for its device, with its authority,
  before it expires, and a live code can be redeemed by its owner;
- *planners*: no plan without the signer's signature over this manifest and a live
  token for it; both planners agree;
- *trust bundles*: the trusted keys are one bundle, vouched for by a root that is alive;
- *the way through*: whatever is loaded and booted was authorized by a code of the
  registry;
- *client*: the kernel gets verified bytes of one fetched plan, only on behalf of a
  command that passed every gate, after its proof is on disk; files torn by kills or
  races are noticed or repaired.

`PROJECT.json` lists the hazards behind these statements, each at its line.

## Modules

| Module | Models |
|---|---|
| `Device` | `device.py`: operators only |
| `OneTimeCode` | abstract specification: a code is handed out once and granted once or voided; a ticket (the session id) tells one grant from another |
| `Enrollment` | `enrollment.py` with one call at a time, and the devices that present claims |
| `EnrollmentThreads` | `redeem` split at its lookup, its write and its return, in several threads; extends `Enrollment` |
| `Verify` | keys and signatures of `verify.py`: operators only |
| `PlanRules` | what both planners decide and build: operators only; extends `Verify` |
| `Planner` | both planners run on the same input; extends `PlanRules` |
| `TrustBundle` | a host that loads roots and bundles over time; extends `Verify` |
| `Handoff` | abstract specification of the client: only files that one fetched plan names together are loaded and booted |
| `ClientHandoff` | `fetch` and `execute` as concurrent processes |
| `ClientHandoffHistory` | `ClientHandoff` with the plans fetched so far, which `Handoff` needs; extends `ClientHandoff`, instantiates `Handoff` |
| `Authorization` | registry, planners and client composed; extends `Enrollment`, instantiates `PlanRules` and `Handoff` |
| `Sbom` | `tools/cargo_metadata_to_spdx.py` |
| `EnrollmentProofs`, `EnrollmentThreadsProofs` | theorems about the registry |
| `PlannerProofs`, `TrustBundleProofs` | theorems about planners and trust bundles |
| `ClientHandoffProofs`, `ClientHandoffOverlapProofs` | theorems about the client |
| `AuthorizationProofs` | theorems about the composition |
| `SbomProofs` | theorems about the SPDX export |
| `MC*` | the instances TLC checks, one module for each specification |

### Device and Enrollment

Cryptography is symbolic. A hash is an injective constructor; a signature is the pair
of signer and payload; nobody signs for a key of somebody else. A PEM text is a key
with a layout (as this program writes it, reflowed, truncated), because
`device_fingerprint` ignores the layout and `_signing_payload` does not.

`bindings` is `EnrollmentRegistry._bindings`, with `NoBinding` for an absent key.
`clock` is the host's clock and moves freely, also back. `made` (claims that devices
signed), `redemptions` (calls of `redeem` that returned) and `lost` (codes whose use
was taken by a call that then raised) are history variables. `Issue` is the method
`issue` where it returns. `redeem` ends in two ways that change something: `Redeem`
returns a credential; `RedeemOverflows` has stored the used-up binding (line 167) when
`current + timedelta(...)` (line 177) leaves `Datetimes` and raises `OverflowError`.
A call that raises `EnrollmentError` changes nothing, so refusals are stuttering steps
and the guards are the conjunction of all checks; so is an `issue` whose expiry would
overflow, which fails before it stores anything. Claims presented to either method are any combination of fields with
any signature made so far, or a foreign one: tampered and replayed claims included. A
fresh code is one not drawn before (16 random bytes), and so is a session id. The type
of an argument (`isinstance`) is not modelled.

### EnrollmentThreads

`redeem` takes no lock, so a call is four steps of its thread: `Enter` reads the clock,
`LookUp` fetches the binding and makes the checks (`Refuse` if one fails), `Spend`
writes the binding back with one use less, `Return` builds and returns the credential,
or `Overflow` raises there and the use is `lost`. What `Spend` writes is the binding of
the lookup, however stale. `seen`, the codes already redeemed when the call began, is
history.

### TrustBundle

`load_verified_trust_bundle` has no state and, apart from the tests, no caller in the
repository. The model is a host that keeps what the last successful calls returned:
`roots` from `LoadRoots`, `trusted` from `LoadBundle`. Root holders sign any contents;
every signature ever made can be presented again under any contents. `source` is
history: the bundle behind `trusted` and when it was loaded. The bundle carries no
version that is compared, so `TrustVouched` states what the code offers instead: the
signing root was alive at the time of the call.

### Authorization

The whole way: the registry of `Enrollment`; `Render` is
`issue_enrollment_token_payload`, which renders any binding, spent and expired ones
too; `MakePlan` is one of the planners of `PlanRules`, without options; `Fetch`, `Load`
and `Exec` are the client's commands as far as they look at plans, and are made of the
actions of `Handoff`. A load takes what was fetched for any earlier plan file, not only
the last: that is all `Handoff` promises when fetches and loads overlap, and
`ClientHandoff` is shown to implement it. A plan printed by the Python planner only
loads in the Rust client without the object around it (`LoadsPlan`). Token documents
are unsigned, so anyone can write one: the model takes only tokens that the registry
rendered, and `ImageAuthorized` says what follows for them. A manifest comes with the
programs that can read it; the key document is one that both read.

### PlanRules and Planner

An input is a key document, a manifest with its signature, a token, the options
`--require-fips` and `--now`, and the clock. Strings that are only required are
abstracted to whether they are there; `text` says what the manifest holds that the two
JSON writers put differently into the signed payload, `hex` how the signature is
written. The parsers of the two programs do not accept the same files: serde checks the
type of every field, chrono wants RFC 3339, Python looks at what it uses. That is not
modelled field by field; `readers` says which programs read the input as the record it
is in the model. Files that both read, but as different records (times finer than a
microsecond, which Python cuts off), are not inputs. `RunPython` and `RunRust` are one
run of each program. The result is a plan or `Refused`; messages are left out.
`KnownDifference` lists the inputs on which the programs are known to differ, by a line
that only one of them has or by a library:

- files that only one program's parsers read (`readers`);
- manifests with non-ASCII text or DEL, which `json.dumps` escapes and `serde_json`
  does not, or with numbers that the two write differently: what one verifies the other
  does not, although `AGENT_TASKS/rust-signature-parity.md:14-15` asks for "parity for
  [...] canonical unsigned manifest payload";
- white space in `signature_hex`, which `bytes.fromhex` skips and `hex::decode` refuses;
- artifact values that are no strings, which Python turns into strings;
- `--now`, which Python does not apply to the keys;
- invalid keys of other signers, which Python refuses and Rust does not look at;
- two keys of one name (Python: the last, Rust: the first);
- keys below 2048 bits (Python refuses), above 4096 bits (the library of the Rust
  client refuses), and blank revocation reasons;
- a profile other than FIPS without `--require-fips`;
- white-space artifact refs;
- an invalid boot menu, which Rust does not read;
- a token issued at or after its expiry, and a blank subject id.

### Sbom

One conversion of a metadata file. Names and versions are sequences of symbols, because
the identifiers are made by replacing separators, so that two packages can get one. They
are worked out in two functions, `SpdxId` (line 36) for the packages and `RootSpdxId`
(line 61) for the roots of the links, and `TypeOK` is where the two have to agree. The
set of symbols is a constant that contains the three separators and the text
`UNKNOWN`, which counts as one symbol. A missing version under a checksum is the one
error. Texts of the format are left out.

### ClientHandoff

One process per running `nlboot-client`. `pc` names the next access to a shared file;
everything between two such accesses is one step. `fs::write` is two steps: the open
with truncation, and the write. Of the file contents the model keeps `Absent`,
`Truncated` (an incomplete artifact, an empty record), `Garbled` (a part of a record,
or two on top of each other), and whole contents. `Emit` queues a record and
`OpenEvidence`, `WriteEvidence`, `SinkError` write it, for all six evidence files.
`Start` contains the checks of `main`, `require_mutation_ack` and
`require_root_or_dry_run` (`Supported`, `RootOrDryRun`, `Permitted`), which touch no file except the refusal record.
Every `?` is an action that ends the process: `InputError`, `CacheError`, `SinkError`,
`KexecError`, the failing branches of `ReadRecord`, `VerifyKernel`, `VerifyInitrd`.
`Kill` ends a process anywhere. The end labels `no-cache-evidence`, `outside-cache` and
`hash-mismatch` tell apart errors that the program only distinguishes by its message.

External, modelled from their use: `kexec --load` reads the two paths once more and
replaces the image; `kexec --exec` boots it and ends all processes (it syncs file
systems first); both may fail. Sources of artifacts may return anything. `loaded` and
`booted` remember for which plan and cache entries an image was loaded. `Within` says
which cache directories lie in which, since a recorded path passes the check of
`main.rs:604` if it merely begins with the directory the load names (`InCache`).

`ClientHandoffHistory` adds `fetched`, the plans that a readable cache record has named
so far: the evidence directory forgets a record when the next fetch replaces it, while
a load may go on with the entries of the old one. With it, `FilesOf(loaded)` and
`BootedFiles` (the kernel and initrd refs of the image) are the refinement mapping
to `Handoff`, where `PlanFiles` are the pairs of refs a plan names. The mapping is
about refs; that the bytes behind them have the digests of the map is
`LoadedNeverSubstituted`.

## Runs

All at two workers; each takes less than two minutes.

| Run | Checks | Instance |
|---|---|---|
| `enrollment` | `TypeOK`, `SingleUse`, `SessionAuthorized`, `SessionPossession`, `OwnerCanRedeem`, `BindingImmutable`, `ImplementsOneTimeCode` | 2 device keys and a weak one, 2 codes, 2 nonces and a blank one, session TTLs that fit and overflow, `MaxClaims = 2`, symmetric |
| `enrollment_threads` | `ThreadsTypeOK`, `NoGrantAfterReturn`, `UsesAccounted`, `SessionAuthorized`, `BindingImmutable` | 2 threads, 2 codes, 2 session ids, 1 device, 2 clock readings, session TTLs that fit and overflow, symmetric |
| `trust_bundle` | `TypeOK`, `TrustIsOneBundle`, `TrustVouched` | 6 root documents, 8 bundle contents, 3 clock readings, `MaxSigned = 3` |
| `planner` | `TypeOK`, `PlannersAgree`, `PlanIsSigned`, `SelectedEntryBound` | 7107 inputs |
| `authorization` | `AuthTypeOK`, `ImageAuthorized`, `BridgeAccepted` | 1 device, 2 codes, 3 requests, 2 trusted keys of different signers, 5 manifests, `MaxTokens = 2`, `MaxPlans = 2` |
| `handoff_sequential` | `TypeOK`, `LoadedVerified`, `EvidenceBeforeMutation`, `FetchHealsCache`, `BootEntryFollowsPlan`, `HostMutationGated` | one process, 27 command lines, two cache directories, one inside the other, `MaxRuns = 4` |
| `handoff_concurrent` | `CacheContentAddressed`, `LoadedNeverSubstituted`, `LoadedFromOneFetch`, `RecordIsOneFetch`, `LoadsApartVerified`, `ProofsApartFirst`, `ImplementsHandoff` | two processes, two plans that share artifacts, `MaxRuns = 4` |
| `sbom` | `TypeOK`, `VersionsDistinguished` | 4105 metadata files of up to three packages |

Why the bounds are enough to be interesting. Two claims and two codes are what a
replay, a mix-up of two devices or two nonces, and a second redemption need. Two
threads are what a race on one binding needs, and two codes let both race at once. Three
signatures are two bundles and a replay of the first, or the same contents under two
roots; three clock readings put every load before, in and after the life of a key. Two
tokens and two plans are what a load needs that names one plan and takes the artifacts
of another; the requests mirror each other's releases, and one manifest is signed by the
other trusted signer, so a mix-up would show; the recovery manifest has an artifact that
only Python accepts. Four command lines are a fetch that is killed, the fetch that repairs it, a load and an
exec; or two fetches and two loads that overlap; or two M2 runs of two plans, each
broken off between its records, and two more. The planner's inputs are one good
input with every fault of each document, combined for every pair of documents; the
metadata files combine crates in two versions, of two sources, and with hyphens.
Deadlock checking is off where a bound (`MaxRuns`), or the end of a single pass (the
planners, the SBOM), stops the model.

`LoadedVerified`, `EvidenceBeforeMutation`, `FetchHealsCache` and
`BootEntryFollowsPlan` hold for one process at a time and are checked so; with two
processes they do not hold. What is left of the first is `LoadedNeverSubstituted`, and
two conditional properties say which overlap alone takes the first two away:
`LoadsApartVerified` (loading stays verified as long as nobody fetches into the cache
directory that is being loaded from) and `ProofsApartFirst` (the proof stays ahead of
kexec as long as nobody rewrites it before the kexec it is for). Every other overlap is
harmless for them. In the same way `SingleUse` holds for one call of `redeem` at a time;
`NoGrantAfterReturn` and `UsesAccounted` state what is left with threads, and the
theorems `SingleUseNeedsChecksApart` and `ThreadsKeepTheCodePromise` say what has to be
kept apart for all of it.

Four runs are expected to fail. Each checks a sentence of the repository's documents
or comments that the code does not keep; `PROJECT.json` quotes the sentences under
`findings`.

| Run | Shows |
|---|---|
| `enrollment_replay` | one claim redeems two codes |
| `handoff_torn_load` | a concurrent fetch truncates an artifact between its verification and kexec's read |
| `handoff_exec_gate` | exec proceeds on a pre-exec proof of a dry run |
| `authorization_refusal` | a plan is made on the token of a redeemed code |

The passing runs contain more of the kind, stated by what their properties leave open
and without a run of their own: two calls of `redeem` that overlap both return a
credential (`NoGrantAfterReturn` excludes no more than a later call, although
`enrollment.py:166` says "atomically"); an overflow spends a code and returns nothing
(`RedeemOverflows`, `Overflow`; `SingleUse` and `UsesAccounted` say that this is the
only way a use is lost); fetch and load accept a plan whose token has expired (`Fetch`,
`Load`, `Exec`, which `RefusesDeadTokens` would forbid, too); a load takes what was
fetched for another plan (`Load`); a host takes an older bundle after a newer one
(`LoadBundle`); a manifest with non-ASCII text verifies in one planner only
(`KnownDifference`); and exec leaves no refusal record when the cache evidence fails
(the ends `no-cache-evidence` and `hash-mismatch`), against
`AGENT_TASKS/gated-kexec-exec.md:72-78`.

**Fairness.** None is assumed, and no liveness property is stated. The client's commands
are straight-line programs with one loop over a finite map; nothing in the repository
waits for another process, retries or polls, so that whether a command ends is a
question to the operating system, `kexec` and the artifact source, not to this code.

## Proofs

### Registry

`EnrollmentProofs` proves, for any keys, nonces, codes, requests, TTLs, clock readings
and any bound on claims, everything the `enrollment` run checks:

| Theorem | States |
|---|---|
| `TypeCorrect` | `Spec => []TypeOK` |
| `CodesAreSingleUse` | `Spec => []SingleUse` |
| `SessionsAreAuthorized` | `Spec => []SessionAuthorized` |
| `SessionsProvePossession` | `Spec => []SessionPossession` |
| `OwnersCanRedeem` | `Spec => []OwnerCanRedeem` |
| `BindingsAreImmutable` | `Spec => BindingImmutable` |
| `RegistryImplementsOneTimeCode` | `Spec => OTC!CodeSpec` |

Assumptions: the named ones of `Device` and `Enrollment` (which sets contain which, the
clock shows datetimes, foreign signatures are not by identities of this program); the symbolic treatment of
cryptography is part of the model.

The inductive invariant `IInv` is `TypeOK`, `SingleUse`, `SessionAuthorized` and three
facts that the properties do not say by themselves. `Genuine`: every claim in `made`
is what `make_claim` builds, so a signature determines the other fields; without it a
claim that verifies could not be traced to its signer. `GrantedOnMadeClaim`: every
redemption was on a claim whose signature some device made. `BoundToMadeClaim`: so was
every binding, which is what lets its owner redeem it later. The key lemma is
`VerifiedClaimWasMade`: among all presentable claims, those that verify agree with a
made claim field by field. `RegistryStep` reduces every step to "a free slot filled",
"one use taken with one redemption", "one use taken and lost" or "bindings, redemptions
and losses unchanged"; the action property and the refinement follow from it.

### Threads

`EnrollmentThreadsProofs` proves, for any number of threads and any registry:

| Theorem | States |
|---|---|
| `ThreadsTypeCorrect` | `ThreadsSpec => []ThreadsTypeOK` |
| `ReturnedCodesAreDead` | `ThreadsSpec => []NoGrantAfterReturn` |
| `EveryUseIsAccounted` | `ThreadsSpec => []UsesAccounted` |
| `ThreadSessionsAreAuthorized` | `ThreadsSpec => []SessionAuthorized` |
| `ThreadBindingsAreImmutable` | `ThreadsSpec => BindingImmutable` |
| `SingleUseNeedsChecksApart` | `ThreadsSpec /\ []ChecksApart => []AtMostOneGrant` |
| `ThreadsKeepTheCodePromise` | `ThreadsSpec /\ []ChecksApart => ThreadsImplementOneTimeCode` |

Assumptions: those of the registry and `NoCallAssumption` (no call is the mark for none).

`IInv` is of no use here, since a code may be granted twice. `ThreadsIInv` says instead
how stale the binding can be that a call holds on to (`CallInv`, `Holds`): it is the
stored one, or the stored one has lost its use since; once the call has written it back
it has lost it for certain. So writing it back never re-arms a code. `SeenSpent` says
that what was spent when a call began stays so, which `NoGrantAfterReturn` needs, and
`OneUseOrNone` that "not spent" is one use.

`UsesAccounted` is an equivalence, and inductive on top of `ThreadsIInv`. From left to
right it says that no use disappears other than by a grant or an overflow; from right to
left that neither a grant nor a loss is ever undone. `HandedOn` is the step where a
call that has spent its code passes it to `redemptions` or to `lost`; `SpendAccounted`
is the write, which needs `Holds` to know that it spends the call's own code.

`SingleUseNeedsChecksApart` is the theorem a lock would rest on. `ChecksApart` says that no two calls for one
code are between lookup and write at the same time; entering, returning and calls for
other codes may overlap as they like. `SingleUseInv` adds to `AtMostOneGrant` that a
call past its checks is the only one for its code (`OwnersApart`) and that nothing was
returned for the code yet (`OwnsUnredeemed`). The premise is needed at a single step,
the lookup (`LookUpSingleUse`): a binding that is not spent has no call behind its
write, so the only other owner there could be is one that `ChecksApart` excludes. The
premise is met by every behaviour in which calls take turns, and broken only by the
race that the run `enrollment_threads` admits.

`ThreadsKeepTheCodePromise` extends it to the whole abstract specification, which the
registry without threads implements, too. The mapping differs in one place: a code is
"redeemed" when its credential is returned (`ReturnedStatus`), since the write of the
use may be long before. Then issuing is `HandOut` (`IssueHandsOut`), returning is
`Grant` (`ReturnGrants`), and everything else, the write included, a stutter
(`HoldersStay`). `OneTimeCode` numbers its grants, so a second credential for a code
would be no stutter: without the premise the theorem is false, as two calls that overlap
return one each.

### Client

`ClientHandoffProofs` proves, for any number of processes, command lines, plans,
artifacts and caches and any `MaxRuns`, kills and errors included:

| Theorem | States |
|---|---|
| `TypeCorrect` | `Spec => []TypeOK` |
| `CacheIsContentAddressed` | `Spec => []CacheContentAddressed` |
| `LoadsAreNeverSubstituted` | `Spec => []LoadedNeverSubstituted` |
| `MutationsAreGated` | `Spec => HostMutationGated` |
| `RecordsAreOneFetch` | `Spec => []RecordIsOneFetch` |
| `LoadsAreFromOneFetch` | `Spec => []LoadedFromOneFetch` |
| `ClientImplementsHandoff` | `HistorySpec => ImplementsHandoff` |

Assumptions: `InvocationsAssumption`, `PlansAssumption` and `MapsAssumption` (command
lines, plans and descriptor maps have their types), `WithinAssumption` (a directory is
within itself), `MarksAssumption` (a missing, a
torn and a whole file are told apart) and, for the refinement, `NoImageAssumption`
(the mark for no image is none).

The inductive invariant adds to the type and the two properties what a process holds at
each label. `Started`: a running process has a command line, and a queued record leads
to one of the labels that follow an evidence file. `FetchChecked`: at `cache-write` the
bytes in memory passed the checks of `fetch_artifacts` for the current artifact; they
are checked in the step before, which truncates the file, and other processes may run
in between.
`PickedPresent`: from `kernel` on there are two picked entries, and a verified file is
still there in some state, since a concurrent fetch truncates files and never removes
them; so kexec reads an incomplete file at worst. `Gated`: whoever is on the way to
kexec, also while it still writes its proof (`Heading`), passed `Permitted` and is no
dry run. One lemma per action shows that it preserves `IInv`; `Invariance` combines them.

For the two theorems about records, `FInv` follows the entries on their way: into the
list of a running fetch (`CachedSoFar`), into the record it queues (`QueuedWhole`), onto
the disk (`RecordWhole`), into the pair a load picks (`PickedTogether`), and into the
image. Torn and overlapping writes do not disturb it because they leave files that do
not parse.

`ClientImplementsHandoff` is the refinement, and stands on both invariants. Neither
says that the plan of a picked pair is one that was fetched, because the record
may be gone by the time of the load; `HInv` adds it: whatever record can be read
is of a plan in `fetched`, and so is every pair that a process still holds
(`PickedFrom`). Each step of the client then maps to one of `Handoff` (`StepHandoff`):
the write that completes a record to `Fetched`, `KexecLoad` to `Loaded` (`LoadHandoff`),
`KexecExec` to `Booted` (`ExecHandoff`), everything else to a stutter (`QuietHandoff`).

`ClientHandoffOverlapProofs` proves four properties that races break, each under the
weakest premise we know, and still for any number of processes, kills and errors:

| Theorem | States | Premise, always |
|---|---|---|
| `LoadsAreVerified` | `Spec => LoadsApartVerified` | `LoadsApart`: nobody fetches into a cache directory between a load's check of its kernel and its kexec |
| `EvidenceComesFirst` | `Spec => ProofsApartFirst` | `ProofsApart`: no proof is rewritten between its writing and the kexec it is for |
| `FetchesHealTheCache` | `Spec /\ []FetchesApart => FetchHealsCache` | `FetchesApart`: overlapping fetches use different cache directories |
| `BootEntriesFollowPlans` | `Spec /\ []AnnouncementsApart => BootEntryFollowsPlan` | `AnnouncementsApart`: one M2 run at a time is between its two records |
| `AloneLoadsAreVerified` | `Spec => []LoadedVerified` | `Alone`: at most one process |
| `AloneEvidenceComesFirst` | `Spec => []EvidenceBeforeMutation` | `Alone` |
| `AloneFilesAreInOrder` | `Spec => FetchHealsCache /\ BootEntryFollowsPlan` | `Alone` |

The invariants say per label what a process has established and only an excluded
overlap could undo: verified files are still as verified (`VerifiedAt`), cached ones
whole (`CachedAt`), proofs on disk before kexec is called (`ProofAt`), the adapter plan
before the boot entry (`AnnouncedAt`). `BootEntryFollowsPlan` is about the two files of
the M2 adapter as earlier runs have left them, broken-off ones included: a run that
ends well makes them agree (`RunEndsAnnounced`), and they cease to agree only at the
write of an adapter plan (`DisagreementIsAhead`), so a disagreement is always an adapter
plan that is newer than the boot entry. The premises are state predicates over the
behaviours of `Spec`, so the theorems hold of the client as it is, for those of its
behaviours in which the overlap does not happen; `handoff_torn_load` shows a behaviour
in which it does. `Alone` implies all four premises (`NothingOverlaps`), so
the last three theorems cover what `handoff_sequential` checks and
`ClientHandoffProofs` does not.

### Planners

`PlannerProofs` proves, for any inputs, what the `planner` run checks: `TypeCorrect`,
`PlansAreSigned` (`PlanIsSigned`), `SelectedEntriesFitTheManifest`
(`SelectedEntryBound`) and `PlannersAreEqual` (`PlannersAgree`). `PInv` says no more
than that an outcome is what decision and plan operators give; the argument is in
the lemmas that take the two programs apart check by check and show each pair
equivalent outside `KnownDifference` (`KeysValidAlike`, `SignerAlike`,
`VerifiesAlike`, `ManifestsAlike`, `TokensAlike`, `PlansAlike`). So within the model
nothing is missing from the list of known differences; what the model leaves to the
libraries (`readers`, `text`, the limits of the RSA library) is on the list as one item
each and is not resolved further. Assumptions: `InputsAssumption` (times and key sizes
are integers, key documents are lists) and `OutcomesAssumption`
(no plan is one of the marks).

### Trust bundles

`TrustBundleProofs` proves `TypeCorrect`, `TrustComesFromOneBundle`
(`TrustIsOneBundle`) and `TrustIsVouchedFor` (`TrustVouched`) for any root documents,
bundles, signatures, clock readings and any bound on signatures. Assumptions:
`DocumentsAssumption` (documents and bundles list keys) and `JunkAssumption` (bytes
that no root holder signed do not verify under a root key). The invariant adds
`RootsInstalled`: the roots in use are entries of a document the operator installed,
since a bundle is as good as the root behind it. `LastOfName` is the fact about lists
under it: the last key of a name wins, and there is one.

### Composition

`AuthorizationProofs` proves, for any devices, codes, requests, manifests, trusted keys,
clock readings and bounds:

| Theorem | States |
|---|---|
| `DocumentsAreTraceable` | `AuthSpec => []AuthTypeOK` |
| `ImagesAreAuthorized` | `AuthSpec => []ImageAuthorized` |
| `BridgeHolds` | `AuthSpec => []BridgeAccepted` |
| `RegistryIsUndisturbed` | `AuthSpec` implies the registry's safety properties, `BindingImmutable` and `ImplementsOneTimeCode` |
| `ClientHalfIsHandoff` | `AuthSpec => Client!HandoffSpec` |

Assumptions: those of the registry, `KeyDocumentAssumption` (the trusted keys are a list
and their times are times) and `DeviceIdsAssumption` (a device id, the text of a hash, is
never blank; the planners refuse blank subjects).

`RefinesRegistry` shows that the composition does to the registry what the registry
does, so that the theorems of `EnrollmentProofs` carry over. `AInv` follows the
authority: token and binding agree (`TokensRendered`), plans lie within both
(`PlansAuthorized`), what is fetched, loaded and booted comes from plans (`FromPlans`),
and a binding lives for a positive time (`Lifetimes`). `BindingKept` is what makes it
inductive: a binding is never replaced, so what a token was rendered from is still
there. `AcceptedIsAuthorized` is the step of the planners, Python or Rust, and the first
half of `BridgeAccepted`: what a planner accepts is signed, covered and alive. The
second half says that the checks refuse nothing else: with keys and manifest in order,
all that is left of either program's checks is signature, expiry, releases and purpose
(`TrustIsAuthenticity`, `TokenIsBinding`); `Lifetimes` excludes the token that is issued
when it expires, which only one of the planners refuses. It is stated for codes that are
not redeemed, since for the others the documents want a refusal that the code does not
give: the run `authorization_refusal`.

`ClientHalfIsHandoff` and `ClientImplementsHandoff` meet at `Handoff`: what the
composition does with the client is what `Handoff` allows, and the client with all its
interleavings, kills and errors does no more either. With `RefinesRegistry` the two
halves of the composition are the two programs as modelled by themselves.

### SPDX export

`SbomProofs` proves, for any metadata, `LinksAreClosed` (`TypeOK`), which rests on the
agreement of the two identifiers (`RootIdIsPackageId`), and `VersionsAreDistinguished`
(`VersionsDistinguished`). Assumptions: `SymbolsAssumption` and `MetadataAssumption` (names and
versions are texts over the symbols). `SInv` says that the document is what
`build_sbom` makes of its input; the second theorem is a statement about texts. A name
without separators goes into the identifier unchanged (`PlainKept`), so the first
hyphen of two equal identifiers is at the end of both names (`FirstHyphen`), and
what follows are two versions that became equal by replacing dots (`UpToDots`). Names
with separators are outside the theorem, and do collide: a-1 2.0.0 and a 1.2.0-0.

### Only model-checked

Nothing: every property of the passing runs is proved. Liveness, which the proof system
has no rules for, is not claimed. The four runs that are expected to fail show counterexamples,
which there is nothing to prove about.

## Not modelled

- `tools/validate_contract_schemas.py`, `tools/validate_lifecycle_contracts.py`: one
  pass over the example files of the repository, without state, input of its own or a
  caller that uses the result; what could be stated would repeat their conditions.
- `schemas/`, `packaging/`, workflows: data and build descriptions.
- Parsing of JSON, times and PEM beyond accepting or refusing; messages; file
  permissions and symbolic links; loss of unsynced file data at a power failure.
- What runs `load_verified_trust_bundle`: the repository has no caller, so how often a
  host loads bundles, and which, is left open.

## Plan

Everything planned so far is modelled, and every property of the passing runs is proved. What could
follow: the client's records and cache under a loss of unsynced writes, if the code
begins to sync them; the real Apple Silicon adapter, when `main.rs` has one; a lock in
`redeem`, for which `SingleUseNeedsChecksApart` states what it has to achieve.
