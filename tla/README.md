# minireg in TLA+

minireg is a caching proxy and private registry for npm, PyPI, cargo and container images: a FastAPI server
(`src/backend/app`), a scanner worker (`src/scanner`), a command line client (`src/cli`) and a web interface. This
directory models the parts of it where several actors share state, and the version algebra its rules rest on, checks
them with TLC on small instances, and proves the safety properties it checks with TLAPS for instances of any
size.

1. [The system](#the-system): parts, state, interactions
2. [What is modelled](#what-is-modelled): module by module, against the code
3. [Runs](#runs): what each checks, its bounds
4. [Fairness](#fairness)
5. [Proofs](#proofs)
6. [Statements the models refute](#statements-the-models-refute)
7. [Plan](#plan), and [what is not modelled](#not-modelled)

To check a run: `tlc -config MCBlobStoreShared.cfg MCBlobStore`. To check the proofs of a
module: `tlapm BlobStoreProofs.tla`, and so for every `*Proofs.tla`.

## The system

The server runs as one or more processes (replicas), each a single asyncio event loop. They share a database
(PostgreSQL, or SQLite for one process), a volume with the artifact and image stores, and a Redis-compatible cache that
may be absent or down. Within a process tasks interleave at every `await`; between processes anything interleaves, and
only row locks, unique indexes, atomic renames and cache keys order them.

| Component | State | Operations | Hard behaviour | Correct when |
|---|---|---|---|---|
| artifact store (`services/artifacts.py`, `storage.py`) | blob files, `blobs` rows with refcounts, `package_files` pointers | record a download, publish, upload, purge, collect, evict, sweep, repair | files and rows change in different steps; locks are released before unlinks | no pointer to a missing file; refcounts cover pointers; bytes that exist nowhere else are kept; orphans go |
| artifact streaming (`services/artifacts.py`, `core/cache.py`) | `_fills`, `_opening`, the lease, partial files and `.done` markers | join or start a download, tail it, tail a peer's, wait, retry | readers ahead of verification; crashed or slow peers; lease loss; cancelled openers | one download per process and, with a working lease, per deployment; no complete body that was not verified; every request ends |
| cache, herd guard, limits (`core/cache.py`) | breaker, local locks, lock keys with TTL, window counters | acquire, release, renew, trip, count, refund | TTL expiry under a holder; degraded mode; cancellation in the line | one line per process; one holder across replicas while the cache keeps its locks |
| upstream resolution (`services/resolver.py`, `upstreams/base.py`, `revalidation.py`) | upstream health, quarantine, validators | resolve by tier, race, merge, probe, revalidate | failures told from absence; a validator used against another upstream | a higher tier wins; a 304 only confirms what is held |
| package metadata (`services/packages.py`) | package and version rows, validators, rendered documents | refresh, prune, settle, mark stale, retire | refreshes over a table and rows that change under them | local versions survive; nothing outlives its source |
| publishing (`services/ownership.py`, `npm_publish.py`, `pypi_publish.py`, routes) | owners, local versions, tombstones, dist-tags | publish, retag, unpublish, withdraw | check-then-insert across an upstream query; three-request unpublish | no shadowing; a withdrawn version never comes back; tags name versions |
| policy (`services/policy.py`) | rules, settings and their caches | evaluate, change, invalidate | a cached rule or document older than the change | an edit holds once it has returned |
| vulnerability data (`services/osv.py`, `vulns.py`) | advisories, links, CVE columns of versions | query, hydrate, recompute, rescore; refresh, audit, inline | overlapping scans; partial failures; advisories changed in place | nothing is clean by accident; verdicts catch up |
| authentication (`api/auth.py`, `core/deps.py`, `core/security.py`, `services/oidc.py`) | accounts with a session version, cookies, API tokens | sign in and out, change password, single sign-on, mint, revoke | revocation against requests in flight | an ended session stays ended; no credential is worth more than its origin |
| device login (`api/cli.py`) | device authorisations | start, approve, deny, poll | two polls, two approvals | a denial stands; one token, handed over once |
| container registry (`api/docker_v2.py`, `docker/*.py`) | upload sessions, blobs, manifests, links, tags | upload, mount, push, pull through, delete | one store for pushed and cached content | what is listed can be pulled; pushed content stays private |
| image policy (`docker/policy.py`) | the image policy, push blocks | judge a push, judge a pull, rejudge | scanned before or after the push; edits | no pull gets an image the push rules refuse |
| image scanning (`docker/scanning.py`, `api/docker_api.py`, `scanner/worker.py`) | `docker_scan_jobs`, `scan_status`, findings, worker leases | enqueue, claim, heartbeat, result, fail, skip, prune | workers that die or come back late; stale reads written back | no image waits without a job; findings of one scan; every scan settles |
| image housekeeping (`docker/housekeeping.py`) | the registry's rows and files | collect, evict, sweep, watch | unlink before commit | nothing linked loses a file |
| download log (`services/audit.py`) | a bounded queue | record, flush, stop | overflow, shutdown | events are written once or counted as dropped |
| background loops (`main.py`) | the housekeeping lease | one pass per hour | two replicas, long passes | one pass at a time |
| administration (`api/admin/*.py`) | users, upstreams, rules, settings | change, delete | an edit in two transactions | what is deleted is gone |
| versions (`core/semver.py`, `core/naming.py`) | none | compare, parse a range, test it | bounds with and without "-0" | a range covers what npm and cargo say it does |

Interactions: a package route asks the policy, then package metadata (which asks the resolver under a herd guard), then
the artifact store through artifact streaming. Publishing writes the same three tables as downloads. A metadata request
scans what it finds unscanned, filters by the rules and caches the document; a policy edit drops those caches.
Background loops call the artifact store's collector, sweep and eviction, the CVE refresh and the image housekeeping
under a lease. A pull or push of an image enqueues a scan; the worker claims it over HTTP, pulls the image through the
container registry and posts a report, on which image policy then decides later pulls.

## What is modelled

| Module | Component | Instance |
|---|---|---|
| `BlobStore`, `BlobStoreProofs` | artifact store | `MCBlobStore` |
| `ArtifactFill`, `ArtifactFillProofs` | artifact streaming, the lease | `MCArtifactFill` |
| `ScanQueue`, `ScanQueueProofs` | image scanning | `MCScanQueue` |
| `Registry`, `RegistryProofs` | container registry, image policy, image housekeeping | `MCRegistry` |
| `Accounts`, over `Principals`, `IdentityProofs` | accounts and sessions | `MCAccounts` |
| `Credentials`, over `Principals`, `IdentityProofs` | API tokens, device login, registry tokens | `MCCredentials` |
| `HerdGuard`, which implements `HerdQueue`, `HerdGuardProofs` | herd guard | `MCHerdGuard` |
| `Packages`, over `Resolver`, `PackagesProofs` | package metadata, upstream resolution, publishing, upstream administration | `MCPackages` |
| `Advisories`, over `Catalog`, `PolicyProofs` | vulnerability data, policy and its caches | `MCAdvisories` |
| `DistTags`, over `Semver` and `Catalog`, `PolicyProofs` | npm tags and unpublish, version rules, version algebra | `MCDistTags` |

Conventions: variables are named after the table, map or field they stand for; those marked "ghost" are history the code
does not keep. An action carries the name of the function (or of the step of it) it models; operators whose comment
begins with "Mutant" are deliberately wrong variants of the definition that follows them, used to show that the
properties notice such an error, and no specification uses them. Every module has a `TypeOK`
(`AccountsTypeOK`, `TagsTypeOK` where two are proved about together); `blob_shared` checks BlobStore's, and the others
hold on the instances below (add them to the `INVARIANTS` of the `.cfg`). `Principals` and `Catalog` hold the constants
that two modules share.

### BlobStore

*State.* `rows`, `ptr`: the `package_files` rows and their `blob_sha256`. `known`, `refs`, `recent`: committed `blobs`
rows, their `refcount` and whether they were read within `EVICT_GRACE`. `disk`: the blob file, absent, fresh (younger
than the sweep's grace) or old. `lock`, `flock`: row locks. Per process: `pc`, and the file, digest and refcount it has
in hand.

*Actions.* A transaction is split where it takes a lock and where it commits; each file operation that somebody else can
observe is a step of its own.

| Code | Actions |
|---|---|
| `_run_fill`'s end, `BlobStore.adopt`, `_record` | `OpenFill`, `Adopt`, `RecordBlob`, `RecordRow`, `RecordCommit` |
| `purge_file` | `PurgeLoad`, `PurgeFlush`, `PurgeLock`, `PurgeCommit` |
| `collect_orphan_blobs` | `CollectDelete`, `CollectCommit` |
| `sweep_orphan_files`, `delete_if_older` | `SweepScan`, `DeleteIfOlder` |
| `evict_to` | `EvictRows`, `EvictUnlink` |
| npm publish | `NpmStore`, `NpmReadBlob`, `NpmCommit` |
| PyPI upload, `_discard_unreferenced_blob` | `UploadRead`, `UploadFlush`, `UploadStore`, `UploadCommit`, `UploadDiscard` |
| a retired upstream, the npm name repair at startup | `RetireFile`, `RepairFile` |
| a cached read; an administrator pausing an upstream; time | `StreamCached`, `ToggleUpstream`, `Cool`, `Age` |
| a failed commit; PostgreSQL's deadlock victim | `Abort`, `DeadlockVictim` |

*Assumptions.* A statement that waits for a row lock evaluates its `WHERE` when it gets it (READ COMMITTED). The
session's autoflush makes a purge lock the file row before the Blob row while `_record` locks them the other way round;
the victim of that deadlock aborts. `delete_if_older`'s stat and unlink are one step, and the sweep's grace is longer
than any write takes (`Age` waits for writers of the digest). Batches take one digest per transaction. Row ids are not
reused. `blob_sha256` has no foreign key. The quota's byte counting (`_make_room`, `LOW_WATER`) is not modelled:
eviction may take any blob its query admits.

### ArtifactFill

One uncached file, requested by several clients of several processes.

*State.* `fills`, `opening`: the maps `_fills` and `_opening` of each process. `lease`, `owned`: the key in the cache
and the attempts that believe they hold it. Per attempt to download: `phase`, `body` (what the upstream answered),
`future` (what its opener told those waiting), `written`, `error`. `partial`, `paths`, `marker`, `stored`: the volume.
`row`: the database. Per request: its process (`home`, chosen from `Homes`), `pc`, the attempt it follows, `promised`
(the Content-Length it sent), `sent`, and `held` (the chunk kept back until verification).

*Actions.* `Arrive` to `Joined`: `stream_artifact`, `_start_or_join` and `_open_fill` with `Lease.acquire`. `Write` to
`FinishRelease`: `_run_fill`, `_record` and the release. `StartTail` to `TailDone`: `_obtain` and `_tail`.
`PeerFinished` to `PeerStall`: `_tail_peer`. `WaitForPeer`, `WaitTimesOut`, `Refresh`: the waiting and retrying of
`_obtain`. `Leave`, `CancelAsking`: a client that goes away. `Crash`, `Lapse`, `CleanupTmp`: the environment.

*Assumptions.* The code between two awaits is one action, except where another process can look between two file
operations. A timer may fire whenever its loop looks at it. Redirects, address checks and digest arithmetic are inside
the choice of `body`: its declared length, its real length and whether it has the right digest. A `SET NX` may be
executed and its answer lost. Eviction of the finished blob is left to BlobStore.

### ScanQueue

One image.

*State.* `scan`, `latest`, `findings`: `scan_status`, `latest_scan_id` and the scans whose finding rows are kept.
`jobs`: status, worker, lease and attempts of the image's jobs. `work`: where each worker is. `result`, `report`: the
calls of `/result` and `/fail` that the server has begun and not ended. `req`: requests between loading the manifest and
committing the job.

*Actions.* `Load`, `Look`, `Joined`, `Insert`: the five callers of `enqueue` and `enqueue` itself. `Claim`,
`ClaimSkips`: `claim` with its requeueing of lapsed jobs, and `skip`. `Heartbeat`, `Lapse`: renewal and expiry. `Post`,
`Write`, `Ingest`, `Reject`, `RejectCommits`: `/result` and `ingest`. `Report`, `ReportCommits`: `/fail`. `ScanFails`,
`ResultTimesOut`, `ResultAborts`, `ReportAborts`, `GivesUp`: what goes wrong. `PruneJob`: `prune_jobs`.

*The point of the module* is that a session works on what it loaded and writes it back at its commit, and that it writes
only the columns whose value it changed: an image loaded as `scanned` and set to `scanned` is not written, whatever
others did to it meanwhile (`Emit`).

*Assumptions.* `claim` is one step: its rows are locked. One manifest, so priorities do not matter. A row with a new
SBOM is locked before the findings are replaced (`Locked`). `Overtakes` FALSE says that a job does not change hands
while the server is still working on a call about it: calls take far less than the two minutes of a lease and the five
minutes a worker waits. With `Overtakes` TRUE the code can leave an image `scanning` without a job; with two requests in
`Requests` it can make two jobs, and keep two scans' findings, but strands no image. The corresponding hazards say how.
Report parsing, report and SBOM files, and the KEV catalogue are not modelled; the push verdict written after an ingest
and the deletion of the manifest are in Registry.

### Registry

Images, indexes and layers of local and cached repositories over one content-addressed store.

*State.* `files`, `aged`: the OCI store, and what is past every grace period. `manifests`, `pushedRows`, `blobs`,
`links`, `blocked`, `held`, `tag`, `owner`: the tables, a `DockerRepoManifest` row being a pair of repository and
manifest. `quarantined`, `bar`: what administrators set. `scan`: the `scan_status` that ScanQueue is about. `gc`,
`sweep`: what housekeeping has selected and not yet finished with.

*Actions.* `StartUpload`, `FinishUpload`, `FailUpload`, `MountBlob`, `PutManifest`, `FailManifest`, `DeleteManifest`,
`DeleteTag`, `DeleteBlob`: a push and its opposites, with `repo_for_push`, the reference check, the ownership claim, the
push verdict and the queued scan inside. `FetchByDigest`, `FetchByTag`, `TagMoved`, `TagGone`, `FillBlob`,
`RefreshWatched`: pulls through an upstream, its revalidation, the watch. `PullManifest`: what a pull changes here.
`ScanLands`, `ScanFails`, `Rescan`: scans. `PutPolicy`, `Quarantine`, `PurgeRepository`: administration. `GcManifests`,
`GcBlobs`, `GcCommit`, `SweepList`, `SweepBatch`, `Evict`, `Crash`, `TimePasses`: housekeeping and the environment; a
collection is three actions because it unlinks before it commits, and `Crash` rolls back what it had selected.

*Assumptions.* A request is one action from its last network wait to its commit. `Overlap` FALSE says nothing commits
inside a collection or between the steps of a PUT. With `Overlap` TRUE a push may be accepted on the strength of a blob
that the collection under way then unlinks (`LinkedComplete` fails); the hazards name the lines. The blob sessions of
one push are not told apart, severities are the sets `FailsPush` and `FailsPull`, and eviction's order (oldest first,
until under the budget) is any set of candidates.

### Accounts

*State.* `account`: `User` rows (active, admin, may publish, whether and as whom it belongs to the provider,
`session_version`). `cookie`: the signed cookies in circulation, of which the server keeps no copy. `revoked`:
`RevokedSession`. `flight`: the request that has read its account and not yet committed. `ejected`, `decided`: ghosts.

*Actions.* `BeginLogin`/`FinishLogin` and `BeginChange`/`FinishChange`: a sign-in and a password change hold the row
they read across a throttle and a slow hash. `Abandon`: a client that leaves. `SsoLogin`: `oidc_callback` in its three
branches (`SsoKnown`, `SsoLink`, `SsoCreate`). `CreateUser`, `UpdateUser`, `DeleteUser`, `Logout`, `LogoutEverywhere`,
`Expire`. Administrators act through a session or an admin token.

*Assumptions.* `Overlap` FALSE: two requests do not bump one version from the same value (`user.session_version + 1` is
a read-modify-write; two at once count once). Hashing, the provider's signatures and the rate limits are external.

### Credentials

*State.* `rights`: what Accounts leaves of an account, as flags, ranging over `Standings`. `token`: `ApiToken` rows.
`device`: `DeviceAuthorization` rows. `flight`: polls and approvals between their read and their commit. `grant`:
registry JWTs, with the API token behind each. `limit`, `refused`, `handed`: ghosts.

*Actions.* `CreateToken`, `RevokeToken`, `ExpireToken`; `DeviceStart`, `DeviceExpires`, `PollReads`, `PollCommits`,
`PollEnds`, `ApproveReads`, `ApproveCommits`, `Deny`; `RegistryLogin`, `GrantExpires`; `AccountChanges` for anything
Accounts may do to the rights. `Callers` is every identity that may come with a request: a session, a token, a password
over HTTP Basic. `RequirePrimary`, `Allowed`, `Granted`, `MayPush`, `Accepts` and `Served` are the checks of
`core/deps.py`, `api/auth.py`, `api/cli.py` and `docker/auth.py`, asked anew at each use as the code asks them.

### HerdGuard and HerdQueue

*State.* `localMap`, `users`, `holder`, `waiters`, `entryOf`: `_local_locks` with its reference counts and its
`asyncio.Lock`, whose queue is a sequence. `remote`, `heldRemote`, `lapsed`: the cache's key, `_held_remote`, and the
locks that ran out under their holder. `up`, `client`, `open`: the cache, the connection, the breaker.

*Actions.* `Enter`, `Wake`, `Link`, `Ask`: `__aenter__` up to the body, with the wait for the local lock, a reconnect
and the `SET NX`. `Finish`, `Release`: `__aexit__`. `Cancel`: a request that is cancelled. `Lapse`, `CacheFails`,
`CacheReturns`, `BreakerLapses`, `Trip`: TTLs, outages, the breaker.

*Refinement.* `HerdQueue` is what a process's requests may rely on: one line in order of arrival, only its first works,
whoever gives up leaves no trace, and the first of the line gets on (weak fairness of `Start` and `Finish`). `OneLine`
is `HerdQueue!Spec` with the line read off the lock's holder and waiters; TLC checks it as a temporal property, so
entries that are dropped and remade, woken waiters and cancellations all map to its four steps or to stuttering.

*Assumptions.* `CancelInAwait` FALSE: no request is cancelled inside the reconnect or inside `__aexit__`; with TRUE the
local lock can stay held for ever (below).

### Packages and Resolver

One name: its package row, the upstreams that may answer for it, and everybody who writes either.

*State.* `ups`: the `upstreams` table with health and patterns. `has`: what each upstream serves, which changes. `pkg`,
`row`, `retired`: the package, the source of each version's row (an upstream, `Local`, or `Unsourced` when a foreign key
was nulled) and the tombstones. `req`, `pub`, `admin`: a refresh, a publish, an edit, between their steps. `held`,
`published`, `changes`: ghosts and counters.

*Actions.* `FetchProbe`, `FetchAsk`, `FetchApply`: a refresh reads its validators, walks the tiers (`Resolve`, over
`TierOutcome` and `EndsAt` of Resolver) and persists, prunes or settles. `ProbeDue`, `TestUpstream`, `IndexUpstream`:
health. `NpmPublish`/`NpmCommit`, `PypiUpload`/`PypiCommit`, `PublishBlocked`, `PypiRefused`: `authorize_publish` with
its shadow check across the network, and what comes of it. `UnpublishVersion`, `UnpublishPackage`, `UpdatePackument`:
withdrawals. `CreateUpstream`, `UpdateUpstream`/`FinishUpdate`, `DeleteUpstream`/`FinishDelete`: the administrator,
whose edits are two transactions. `UpstreamChanges`: the world.

*Assumptions.* Any package that is not local may be stale at any time, so freshness clocks and the negative cache do not
appear. Requests may be of different replicas whose cache is down, so no herd guard keeps them apart. An upstream serves
a set of versions, and its `ETag` is that set; files within a version, deprecations and ownership transfers are left
out, and a publish that is forwarded to another registry is none of ours. An upstream's health is written when the walk
ends. `FailureThreshold` is 1 and `Flaky`, `MaxMoves`, `MaxEdits` bound what goes wrong. `DeleteOverlaps` FALSE: no
refresh commits between the two transactions of an upstream's deletion (with TRUE `GoneIsGone` fails).

### Advisories

*State.* `osv`: what OSV says of each advisory now. `store`, `links`, `row`: the copies, `PackageVulnerability`, the CVE
columns of each version. `policy`, `cached`, `doc`: the rules and settings, their caches, the rendered document. `job`:
scans and metadata requests between their steps. `edit`: the invalidation still to be done.

*Actions.* A scan is `Ask` (in `RefreshStep`, `AdminScan`, `Audit` and in a metadata request), `Hydrate`, `Commit`,
`Drop`; it writes the columns it changed against what its session had loaded (`Flushed`). A metadata request is
`StartRender`, `Lookup`, its scan, `Load`, `Render`, `Put`. `GiveUp` is the inline budget. `EditRules`, `EditSettings`,
`Invalidate`: an edit, its commit and the three prefixes it drops one after the other. `ExpirePolicy`, `ExpireDoc`:
TTLs. `Publish`: OSV.

*Assumptions.* One package. A version range of a rule is the set of versions it covers (DistTags models the range). A
score is below the blocked range or in it. Time is order only. Which advisories have a fix, and which are not CVEs, does
not change. Suppressing a CVE only hides it in listings and is left out. `Budgets` lets a run have one edit, or one
change of OSV's data and one failure: the two halves share only rows and caches.

### DistTags and Semver

*State.* `rows`, `retired`, `tags`, `column`: versions, tombstones, `DistTag` rows and `Package.latest_version`. `rule`:
the range of the version rule on this name. `unpublish`: each client's unpublish (read, PUT, DELETE), with what it
read. `torn`: a ghost.

*Actions.* `PublishVersion`, `SetDistTag`, `DeleteDistTag`, `SaveRule`, `Read`, `UpdatePackument`, `RefusePackument`,
`DeleteTarball`. `VisibleDistTags` and `PackumentTags` are the two derivations of what is served.

*Semver* has versions as three numbers and prerelease identifiers, precedence, comparators, the desugaring of `~`, `^`,
hyphen and x ranges with their `-0` bounds, comparator sets and their treatment of prereleases. It has no state;
`RuleMeansWhatItSays` compares it, for whatever rule is saved, with a definition that knows nothing of comparators: the
versions that keep the numbers an operator pins and are not below it, and no gaps.

*Assumptions.* Build metadata takes no part in precedence. Identifiers are numbers or ranks of words. Lexing, invalid
versions and PEP 440 (the `packaging` library) are left out. Callers own the package; who may do what is in Packages.
The rule is the only thing that hides versions; the cached document is in Advisories.

## Runs

Every run passes with all the properties named.

| Run | Instance | Shows |
|---|---|---|
| `blob_shared` | a file with its own bytes, two that share theirs, one misnamed; two downloads, a purge, collector, sweep | types; no pointer to a missing file; refcounts cover pointers |
| `blob_all` | every writer and remover on one digest; failing commits | no row counts zero; eviction spares what cannot be fetched again; orphaned files go |
| `fill_peers` | two requests, in one process or two; an unreliable cache and volume; good and bad answers | no complete unverified body; one attempt per process; followers find the file cached |
| `fill_replicas` | two replicas, a working lease, one crash | one download; requests end; the lease comes free |
| `scan_queue` | two workers, two job rows, one request at a time | no image stranded; one scan's findings; one job; scans settle |
| `registry` | a local and a cached repository; an image both pushed and offered, an index over it, one only offered | what is listed can be pulled; pushed content stays private; tags follow links; the push bar holds |
| `accounts` | two accounts, one person of the provider, two cookies | ended sessions stay ended; a provider's account has no password session |
| `credentials` | one account of changing standing, two tokens, a device login, a registry token | nothing widens; a denial stands; registry tokens die with their API token |
| `herd` | three guards of one process, one of another | `HerdQueue` is implemented; one holder across replicas while locks last; no deadlock |
| `packages` | an internal index, a public registry and a mirror; npm and PyPI | no shadowing; public names stay public; validators; local versions; deletion; tombstones |
| `advisories` | two versions, an advisory that is raised and extended, a malware report that is withdrawn | nothing clean by accident; edits hold; verdicts and documents catch up |
| `dist_tags` | three versions, two tags, 76 rules tried on 72 versions | rules mean what they say; tags name versions; latest can be installed |

*Why these bounds.* The store's races are between two transactions on one digest, with a third that cleans up: two
downloads, one of each remover, and two files that share bytes contain all of them, and `blob_all` puts every kind of
process on one digest. `MaxRefs` only bounds refcounts that leak. A file of one byte and a chunk of one byte put every
reader before, at and after the held-back chunk; the bad answer is longer than promised, which is the case the reader's
checks are for. `Tokens` bounds attempts: a stream starts at most one, and an `ensure_cached` request at most
`MaxTries`, which is 2 instead of 3 since the second round is the one that differs. `MaxAttempts` is 2 for the same
reason; `MaxClaims` says from which claim on nothing goes wrong by accident any more, without which no scan need ever
settle; two job rows are enough because a pruned row is used again. In `registry` the one image is at once the pushed
and the cached one, a child and a tag, and its layer is the only one, so everything that can be shared is. In `accounts`
and `credentials` two cookies or tokens are the one that is ended or parent and the one in flight or child; `MaxVersion`
2 is two ejections. In `herd` three guards of a process are a holder, a woken waiter and a newcomer. In `packages` the
three upstreams give a tier of one and a tier of two; one move and one edit give every order of them against a refresh
and a publish. In `dist_tags` the rules have every operator over partial versions of every length with zero and non-zero
numbers, and the probes lie on, below and above each bound, with prereleases.

*Deadlock* is checked in `herd`, `advisories` and `dist_tags`; elsewhere every request may have ended and nobody need
make another.

*Preconditions that are not hidden.* `PointersHaveFiles` is about files that share their bytes with no other:
`SharedBytesKept`, the same for the others, is refuted (below), as is the property under eviction or publishing, so
`blob_shared` has neither. `NeverShadowed` and `PublicNameStands` are about an upstream alone in its tier that has had
the name all along: one that shares its tier is refuted. `EditTakesHold` excludes requests that straddle the edit: those
may put back what it dropped, until the entry expires. `TagsNameVersions` and `LatestInstallable` except tags torn off
by a tarball's DELETE, refuted below too. `OneAcrossReplicas` is about locks that have not outlived their TTL.

MCBlobStoreReplaced (an upstream that changes its bytes, commits that fail: `RefcountCoversPointers`) is a further
instance that passes and is not among the runs. So does `HiddenSpared` (an edited document removes nothing that the
policy hides meanwhile), as a `PROPERTY` of `MCDistTags.cfg`.

## Fairness

- BlobStore (`OrphanFileRemoved`): a download that began ends, since it has a deadline; housekeeping runs every hour;
  time passes. Nobody need request, purge or publish.
- ArtifactFill (`RequestsEnd`, `LeaseComesFree`): the event loop runs every task that can run, timers fire, a key with a
  TTL lapses. Upstreams need not answer: their silence ends in a timeout, which is a failing step.
- ScanQueue (`ScanSettles`): workers poll in a loop, Trivy runs under a timeout, the server ends each call it began, a
  lease nobody renews passes. Nothing is assumed of a particular outcome.
- HerdGuard (`OneLine`, whose abstract specification is fair): the event loop runs what is ready, commands to the cache
  answer or time out, and a body is an upstream fetch with timeouts. Nobody has to come.
- Advisories (`VerdictCatchesUp`, `DocsCatchUp`): the housekeeping loop runs the refresh for ever, a request once begun
  proceeds, and what the cache holds expires. Failures are bounded by `Budgets`: under an OSV that fails for ever nothing
  catches up.

All of it is weak fairness: each step waits for nobody who may take its turn away for ever. The other modules state
safety only.

## Proofs

Every theorem holds for any sets of actors, rows and digests and any value of the bounds; what it assumes beyond that is
in its row. The `ASSUME`s of the modules on their constants are typing, the sentinels (`None` is no account, no row and
no process) and, in BlobStore, that a process has one role; TLC evaluates them in every run.

| Theorem | Assumes | States |
|---|---|---|
| `BlobStoreProofs!Typed` | - | `TypeOK` |
| `BlobStoreProofs!EvictionSpares` | - | `EvictionSparesIrreplaceable` |
| `BlobStoreProofs!NoZero` | no misnamed rows to repair | `NoZeroRefcount` |
| `BlobStoreProofs!CachedPointersSafe` | `CacheOnly` | `PointersHaveFiles` |
| `BlobStoreProofs!OnlyStalePurges` | no publishers or uploaders, no stale purge | `RefcountCoversPointers` |
| `BlobStoreProofs!PointersCounted` | `PurgesAlone` | `RefcountCoversPointers` |
| `ArtifactFillProofs!Typed`, `Shared`, `Found` | - | `TypeOK`, `OneFillPerProcess`, `FollowersFindIt` |
| `ArtifactFillProofs!OnlyDownload` | the cache answers, leases are renewed in time | `OneDownload` |
| `ArtifactFillProofs!Whole` | `NoLonger` | `NoUnverifiedBody` |
| `ScanQueueProofs!Typed` | - | `TypeOK` |
| `ScanQueueProofs!NotStranded` | `~Overtakes` | `NeverStranded` |
| `ScanQueueProofs!OneAtATime`, `LatestOnly` | `~Overtakes`, one request | `OneActiveJob`, `LatestFindingsOnly` |
| `RegistryProofs!Typed`, `TagsKept`, `PrivateKept`, `BarKept` | - | `TypeOK`, `TagsLinked`, `PrivateStaysPrivate`, `PushBarHolds` |
| `RegistryProofs!ListedComplete` | `~Overlap` | `LinkedComplete` |
| `IdentityProofs!AccountsTyped`, `EndedForGood`, `ProviderDecides` | `~Overlap` | `AccountsTypeOK`, `EjectedStaysOut`, `SsoOnly` |
| `IdentityProofs!Typed`, `TokensNeverWiden`, `DeniedStaysDenied`, `ServedWithinToken` | - | `TypeOK`, `NoWidening`, `DenialStands`, `RegistryWithinToken` |
| `HerdGuardProofs!Typed`, `ReplicasApart`, `EntryDropped` | - | `TypeOK`, `OneAcrossReplicas`, `NoIdleEntry` |
| `HerdGuardProofs!KeepsOneLine` | `~CancelInAwait` | every step is one of `HerdQueue`, or a stutter |
| `PackagesProofs!Typed`, `NotShadowed`, `PublicNameKept`, `LocalKept` | - | `TypeOK`, `NeverShadowed`, `PublicNameStands`, `LocalStands` |
| `PackagesProofs!DeletedGone`, `ValidatorsTrue` | `~DeleteOverlaps` | `GoneIsGone`, `ValidatorsConfirm` |
| `PackagesProofs!TombstonesHold` | one publisher | `WithdrawnStaysOut` |
| `PolicyProofs!Typed`, `CleanOnlyIfSaid`, `EditsTakeHold` | - | `TypeOK`, `NeverCleanUnsaid`, `EditTakesHold` of Advisories |
| `PolicyProofs!TagsTyped`, `TagsNamed`, `LatestServed`, `HiddenKept` | - | `TagsTypeOK`, `TagsNameVersions`, `LatestInstallable`, `HiddenSpared` |
| `PolicyProofs!RulesMeanWhatTheySay` | - | `RuleMeansWhatItSays`, for every set of versions and rules |

*What the hypotheses mean.* Each one is the setting of a passing run, and without it the property fails or may fail in
the code; the hazards name the lines.

- `~Overtakes`, `~Overlap`, `~DeleteOverlaps`, `~CancelInAwait`, one request or publisher: nobody takes a step inside a
  window that the code leaves open. The theorem says that this window is the only one.
- A cache that answers and a lease renewed in time: `Lease.acquire` proceeds without a lease otherwise, by design, and
  replicas then download twice. `Shared` and `Found` need neither.
- `NoLonger`: no answer is longer than the Content-Length it or the row promised its readers, none announces 0 bytes,
  and no verified one is longer than its row says. `MCArtifactFillLong` shows an answer of the first kind delivered
  unverified; one that announces 0 is complete before its first byte (`_obtain` sends `fill.expected_size`). The bad
  answer of `fill_peers` is within `NoLonger`: it announces its own length, which is not that of the row, so that peers,
  who go by the row, are promised less than is written.
- `CacheOnly`, `PurgesAlone` and what a stale purge is: below.

### The invariants

*BlobStore.* `TypeOK` is not inductive alone: a step uses the file and digest its process has in hand. `TypeInv` adds
`Busy`: who is not idle has a digest, and a file where a file is needed. `NoZeroRefcount` needs `HeldInv` (a process that
is about to commit holds the locks it took, and the row it found is still there) and `CountInv` (refcounts and remembered
refcounts are never negative). The repair of misnamed rows (`RepairFile`) is excluded because it counts a reference down
and leaves a row at zero to the orphan sweep.

`CachedPointersSafe` is about the registry as a pure cache: `CacheOnly` says there are no publishers, uploaders or
evictors, commits do not fail, each file has one content and no two files share it. Each of these is needed: shared
or changing contents, eviction, publishing and aborted purges each lead to a pointer without a file. The invariant
`CacheInv` is `RoleInv` (what a process is doing tells which kind it is and that its digest belongs to its file),
`OwnInv` (a file points at its own digest, exactly while that has a row), `ProgressInv` (the file of a download about to
commit is on disk and too young to be swept; a digest being swept has no row, one being collected belongs to no file, and
a purge past its lock holds the row), refcounts of at most one, and the property itself. The argument in one sentence: the
Blob row's lock orders the download's existence check and commit against the purge's and the collector's unlink, and the
grace period orders them against the sweep.

`RefcountCoversPointers` fails with publishers, whose unlocked read of the count loses increments, and with purges that
commit for a pointer their file has lost meanwhile. `OnlyStalePurges` says that these are all the ways: without
publishers, as long as no purge is stale (`NoStalePurge`), every pointer stays counted, under eviction, changing bytes
and failing commits. Its invariant `CoverInv` is the property with the finiteness that counting needs, that a digest
without a row counts none (so nothing points at it), and that nothing points at a digest being collected.
`PointersCounted` discharges the condition in the setting of `blob_shared`, one purge at a time of files with fixed
bytes and no eviction (`PurgesAlone`): nobody else moves the pointer a purge has loaded (`Fixed`).

*ArtifactFill.* `Typing` is types, what a request has in hand at each of its steps (`PcInv`) and that an attempt with
readers has a body (`Opened`). `OneInv`: the maps of a process name its one attempt, being opened (`_opening`) or running
(`_fills`), never both (`Maps`), and an attempt being opened has one request that opens it (`OneOpener`). `FoundInv`: an
attempt says that it is recorded, over without an error, or done with an `ok` marker only when its bytes are stored and
verified (`Sound`), and those who follow it are of its process and read its outcome after it is known (`Followers`).
`LeaseInv`: who opens or runs holds the key and believes so. `ReadInv`, per request: what it has promised and to whom it
listens (`Told`), that it passes on no byte that is not in the partial file (`Passed`), and that whoever has all that was
promised has the bytes of a stored body (`Backed`). The chunk that is held back until verification carries this last
step.

*ScanQueue.* `CallInv`: a call the server has not ended is about a job that is still its worker's, and no two calls are
about one job; this is all that `Overtakes` would break. `ScanInv`: while an image waits there is an active job whose
calls have all loaded a status that their commit will change, so that none of them writes nothing (`Emit`). This is the
strengthening that two requests do not disturb: a second job only adds a candidate. `OneInv`: one active job at most, and
none if a request has looked and found none. `FindInv`: the rows a report deletes are those there are.

*Registry.* `Produced`: what a cached repository lists, an upstream has. `Barred`: a scanned image that fails the push
rules is blocked in every local repository that lists it. `Complete` and `Spared`: what a local repository lists is here
with its layers and children, and a collection has selected nothing that is alive and no layer of what stays. The last is
the one to break when something is linked between the selection and the unlink, hence `~Overlap`.

*Accounts.* `Ended`: an ejected cookie is revoked by name or its account has left its version behind; so has the account
of a doomed request in flight. `Provided`: a password's cookie is behind the version of an account that belongs to the
provider. `Known`: versions in circulation were given out. With `Overlap` a version bump can be lost.

*Credentials.* `Bounded`: a token's scopes, and those of an approval in flight, are within the limit noted for them, and
such limits are worth what administrators and readers are. `DenialKept`: a refused row keeps `denied` for as long as
there is a row, and a poll that has read a row has not read a denied one. `PushScoped`: a registry token that pushes comes
from a token with a scope for it.

*HerdGuard.* `RemoteInv`: the key of the cache holds the token of whoever relies on its lock and has not outrun it.
`LineInv`: an entry is in the map exactly while some guard of the process counts in it, its count is the number of these
guards, whoever is past the lock is its holder, and whoever is queued has one place in the queue. `KeepsOneLine` maps
each step of the code to `HerdQueue` from it; the lemmas on `Seq` (a queue without one of its members keeps the order of
the others) are proved in the module.

*Packages.* `Pending`: an answer under way holds nothing from below an upstream that has had the name all along. `HeldInv`:
such an upstream has the name and may answer for it. `PublicInv`: where it is alone in its tier, no publish of the name
is under way. `Doomed`: what a deletion has picked is what the upstream alone supplied. `Confirmed`: the versions that
the validators stand for are held from the upstream that issued them, or were published over or withdrawn here.
`Fresh`: a version on its way was not published before. The walk of the tiers is reasoned about once, in the lemmas on
`Resolve`.

*Advisories.* `JobsOK` says what a scan has in hand at each of its steps. `Held`: a row that its session loaded as scanned
is still scanned, and what the table has lost of it since was taken by a clean answer. `Asking` and `Answered`: an
answer in which OSV names nothing for a version means that OSV said so (`saidClean`), the copies are no newer than OSV's
records, and each advisory found has a copy to commit. With it `Clean` is inductive: a row is as new, or has advisories
linked, or carries no score, or OSV had nothing to say. The step that needs it all is `Committed`, where a session
writes only the columns it has changed over a row that others have changed (`Merging`, `MergedRow`). `EditTakesHold` has
an invariant of its own beside it, `HoldInv`: while nothing straddles an edit, what is cached is what is in force, as far
as the three invalidations have come (`Caches`), and so is what each metadata request has loaded (`Informed`).

*DistTags.* `TagsInv`: every tag and the column name a row or a torn version, whatever an unpublish under way has read; the
steps that retag use that `max_semver` of versions is one of them, which holds because precedence is a strict order
(`VersionOrder`, from the lexicographic order of sequences, `BelowTransitive`) on finitely many versions.
`RulesMeanWhatTheySay` is about the algebra alone. Every token desugars to bounds (`DesugarTyped`), what a bound takes is
convex (`TestConvex`), so nothing is skipped; and the two bounds of `~`, `^` and an x-range take exactly what is meant
(`Interval`): the "-0" of an upper bound lets no prerelease through (`BeforeFirst`), at or above the lower bound the
next value of a component bounds those that keep it (`BumpKeeps`), and `^` pins what `Kept` says (`KeptPinned`). No
induction is needed: a release has three numbers, and prereleases are compared, never computed.

### Only model-checked

Liveness, and the fairness of `OneLine`: `OrphanFileRemoved`, `RequestsEnd`, `LeaseComesFree`, `ScanSettles`,
`VerdictCatchesUp`, `DocsCatchUp`, and that the first of the line gets on. Fairness and `ENABLED` are beyond the provers
here. Every safety property of a run is a theorem, some under the hypotheses of the table.

## Statements the models refute

Comments, docstrings and claims of the code that a model of it contradicts. Each configuration ends in a counterexample;
none is among the runs.

| Configuration | Refutes | How |
|---|---|---|
| `MCBlobStoreLost` | `PublishedBytesKept` | eviction commits, releases its lock and unlinks afterwards; a PyPI upload of the same bytes in between finds the file present, and loses it |
| `MCBlobStorePurgeTwice` | `SharedBytesKept` | two requests purge the same file on a pointer each loaded earlier; the second takes a reference that is not its own and removes bytes another file points at |
| `MCArtifactFillLong` | `NoUnverifiedBody` | the last reads after the end of a download do not make the check `sent > promised` of the main loop, so a failed download can still complete a client's body |
| `MCArtifactFillStuck` | `RequestsEnd` | an `unlink` that fails in `_run_fill`'s clean-up leaves the download in the map, unfinished, and its lease renewed for ever |
| `MCAccountsDemoted` | `DemotionTakesPublish` | an administrator by the provider's groups, refused publishing here (which does not bite while admin), keeps publishing after the provider's demotion |
| `MCHerdGuardHang` | `WaiterEnters` | a request cancelled while it reconnects, or while it gives the cache's lock back, keeps the local lock for ever |
| `MCPackagesRefused` | `FrozenByPublish` | an upload refused after `authorize_publish` leaves its project marked local |
| `MCPackagesShared` | `NoPromotion` | in a tier of two, one that failed and is quarantined is not asked, and the other's 404 lets the walk go on to a lower tier, which takes the name |
| `MCAdvisoriesRescore` | `MalwareScored` | the rescore at start-up computes malware's score from its record and drops the one it was given |
| `MCAdvisoriesOverlap` | `RowsMatchLinks` | two scans of one version each write what changed against their own load, one the links and one the columns |
| `MCDistTagsUnseen` | `OnlySeenRemoved` | `npm unpublish` sends back what it fetched; `_rev` is not compared, so a version published in between is retired |
| `MCDistTagsRefuted` | `EndpointsAgree` | with no `latest` tag one endpoint derives it from the versions, the other from the column of an earlier publish |
| `MCDistTagsRefuted` | `NoTornTag` | a tarball's DELETE removes a version that the edited document had left alone, and leaves its tags |
| `MCDistTagsRefuted` | `PrereleasesFollow` | a rule `1.1.0` or `^1.1.0` lets `1.1.0-b` through |

TLC stops at the first of the three; take it out of the `INVARIANTS` for the next.

Further claims that fail with a switch of the instance: `HandedOnce` of Credentials (two polls at once both get the
token); `LinkedComplete` with `Overlap`; `GoneIsGone` with `DeleteOverlaps`; `OneActiveJob` and `LatestFindingsOnly` with
two requests; `NeverStranded` with `Overtakes`; `WithdrawnStaysOut` with two publishers (one has passed
`assert_not_retired` and waits in its inline scan while the other publishes the version and withdraws it, then commits).

## Plan

The safety properties of the runs are proved. Of what the next section lists, `delete_package`, `purge_cache` and the
transfer of ownership are the operations to model next: they write the tables of Packages and BlobStore.

## Not modelled

- *Rendering, search, help pages, provenance* format rows. *Upstream dialects* (`upstreams/*_provider.py`) and
  `netguard.py` parse documents and addresses, one request at a time and without state. *Configuration, schema and
  metrics* are declarations. The *command line client* edits its own user's files, and the *web interface* shows answers
  of the API.
- *CVSS arithmetic* is a formula. *`services/vulns.py`* merges the records of one CVE for display; a record with a higher
  score overwrites `suppressed` before the flags are combined (`vulns.py:41`), against the comment at line 51.
- *The download log* (`services/audit.py`): nothing depends on it; a flush cancelled by `stop` can lose its batch.
- *Rate limits, the login throttle and window counters* (`core/cache.py`): a hit counted while the cache is down is
  refunded to the cache once it is back (`cache.py:483`).
- *Administration beyond accounts, upstreams, policies and scans*: `suppress_vulnerability`, `delete_package`,
  `purge_cache`, reports. *Ownership transfer* and *forwarded publishes*.
- *The hourly lease of the background loops* (`main.py`): its passes are made safe by what they call, which is modelled.
- Chunked uploads, HTTP ranges, cryptography, TLS and SQL are taken as given.
