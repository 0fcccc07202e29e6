------------------------------ MODULE Registry ------------------------------
(***************************************************************************)
(* The container registry (docker/registry.py, push.py, policy.py,          *)
(* housekeeping.py, the /v2 handlers of api/docker_v2.py and the admin      *)
(* handlers of api/docker_api.py): manifests and layers of local and of     *)
(* cached repositories share one content-addressed store, rows say who may  *)
(* read what, and housekeeping removes what no row needs.                   *)
(*                                                                         *)
(* A request is one action from its last network wait to its commit;        *)
(* garbage collection is three, because it deletes files before it commits. *)
(* One housekeeping run is under way at a time.  The scan queue of          *)
(* ScanQueue is reduced to                                                  *)
(* the status it leaves on a manifest.                                     *)
(***************************************************************************)
EXTENDS Naturals, FiniteSets

CONSTANTS
    LocalRepos,    \* repositories under the local namespace
    CachedRepos,   \* repositories of one upstream
    Users, Admins,
    MayPush,       \* users whose account and token pass push_problem
    Images, Indexes,
    Blobs,
    Layers,        \* the blobs (layers and config) an image names
    Children,      \* the manifests an index lists
    Offers,        \* the manifests the upstream has, per cached repository
    FailsPush,     \* scanned images that fail the push rules ...
    FailsPull,     \* ... and the pull rules
    Pushes,        \* the manifests clients push
    Suspects,      \* the repositories an administrator may quarantine
    Strict, RequireScan,  \* strict_mode, push_require_scan
    Overlap,       \* whether another request may commit inside a PUT or a GC
    None

Manifests == Images \cup Indexes
Repos == LocalRepos \cup CachedRepos
Digests == Manifests \cup Blobs

ASSUME RegistryAssumption ==
    /\ LocalRepos \cap CachedRepos = {} /\ Images \cap Indexes = {} /\ Manifests \cap Blobs = {}
    /\ Admins \subseteq Users /\ MayPush \subseteq Users
    /\ Layers \in [Images -> SUBSET Blobs] /\ Children \in [Indexes -> SUBSET Images]
    /\ Offers \in [CachedRepos -> SUBSET Manifests]
    /\ FailsPull \subseteq FailsPush /\ FailsPush \subseteq Images
    /\ Pushes \subseteq Manifests /\ Suspects \subseteq Repos
    /\ {Strict, RequireScan, Overlap} \subseteq BOOLEAN
    /\ None \notin Users \cup Digests \cup Repos

VARIABLES
    files,       \* digests with a file in the OCI store
    aged,        \* digests whose row and file are past every grace period
    manifests,   \* DockerManifest rows
    pushedRows,  \* ... whose upstream_id is NULL
    blobs,       \* DockerBlob rows: "none", "cached" or "local"
    links,       \* DockerRepoManifest rows: <<repository, manifest>>
    blocked,     \* ... with a push_block_reason
    held,        \* DockerRepoBlob rows: <<repository, blob>>
    tag,         \* the DockerTag row of each repository
    owner,       \* owner_user_id of each local repository
    quarantined,
    scan,        \* scan_status of each image; "unscanned" stands for "failed" too
    bar,         \* whether the push rules of the image policy are on
    gc, sweep    \* what housekeeping has selected

admin == <<quarantined, bar>>
rows == <<manifests, pushedRows, blobs, links, blocked, held, tag, owner, scan, admin>>
disk == <<files, aged>>
flight == <<gc, sweep>>
vars == <<rows, disk, flight>>

NotRunning == [at |-> "idle", dead |-> {}, orphans |-> {}]

Init ==
    /\ files = {} /\ aged = {}
    /\ manifests = {} /\ pushedRows = {}
    /\ blobs = [b \in Blobs |-> "none"]
    /\ links = {} /\ blocked = {} /\ held = {}
    /\ tag = [r \in Repos |-> None]
    /\ owner = [r \in LocalRepos |-> None]
    /\ quarantined = {}
    /\ scan = [m \in Images |-> "unscanned"]
    /\ bar = TRUE
    /\ gc = NotRunning /\ sweep = {}

-----------------------------------------------------------------------------
(* What the tables say.                                                    *)

\* Requests are serialised unless Overlap: nothing commits inside another.
Quiet == Overlap \/ gc = NotRunning

Linked(r) == {m \in manifests : <<r, m>> \in links}
WithChildren(M) == M \cup (manifests \cap UNION {Children[x] : x \in M \cap Indexes})
LayersOf(M) == UNION {Layers[m] : m \in M \cap Images}

\* blob_in_repo: pushed or mounted here, or named by a manifest of the
\* repository or by a child of one.
BlobInRepo(r, b) == <<r, b>> \in held \/ b \in LayersOf(WithChildren(Linked(r)))

\* evaluate_rules for the push bar and for the pull bar.
PassesPush(m) == bar => m \notin FailsPush
PassesPull(m) == m \notin FailsPull

\* _evaluate_index: a firm refusal of a child is the index's.
IndexVerdict(r, x) ==
    IF \E m \in Children[x] \cap manifests :
           <<r, m>> \in blocked \/ (scan[m] = "scanned" /\ ~PassesPull(m))
    THEN "denied" ELSE "allow"

\* evaluate_pull.
Verdict(r, m) ==
    IF r \in quarantined \/ <<r, m>> \in blocked THEN "denied"
    ELSE IF m \in Indexes THEN IndexVerdict(r, m)
    ELSE IF scan[m] = "scanned" THEN (IF PassesPull(m) THEN "allow" ELSE "denied")
    ELSE IF ~(Strict \/ (r \in LocalRepos /\ RequireScan)) THEN "allow"
    ELSE "unavailable"

\* manifests_naming_blob.
Naming(r, b) == {m \in WithChildren(Linked(r)) \cap Images : b \in Layers[m]}

\* blob_pull_verdict: a blob takes the best verdict of the manifests naming it.
BlobVerdict(r, b) ==
    LET verdicts == {Verdict(r, m) : m \in Naming(r, b)}
    IN  IF r \in quarantined THEN "denied"
        ELSE IF Naming(r, b) = {} \/ "allow" \in verdicts THEN "allow"
        ELSE CHOOSE v \in verdicts : TRUE

\* enqueue: a scan job, and the status that says so.
Queued(m) == IF m \in Images /\ scan[m] = "unscanned"
             THEN [scan EXCEPT ![m] = "queued"] ELSE scan

\* apply_push_policy: every local link of a scanned image, by the push bar.
Judged(m, L) ==
    LET local == {k \in L : k[1] \in LocalRepos /\ k[2] = m}
    IN  IF m \notin Images THEN blocked
        ELSE (blocked \ local) \cup (IF PassesPush(m) THEN {} ELSE local)

-----------------------------------------------------------------------------
(* Uploads (POST, PATCH, PUT, DELETE on an upload session; a mount).       *)

\* repo_for_push: the first pusher owns the repository.
OwnedBy(r, u) == u \in MayPush /\ (owner[r] \in {None, u} \/ u \in Admins)
Claimed(r, u) == [owner EXCEPT ![r] = IF @ = None THEN u ELSE @]

\* finish_upload's and mount_blob's rows.
Recorded(r, b) ==
    /\ blobs' = [blobs EXCEPT ![b] = "local"]
    /\ held' = held \cup {<<r, b>>}

\* start_upload: the repository is claimed before any byte arrives.
StartUpload(r, u) ==
    /\ Quiet /\ OwnedBy(r, u) /\ owner[r] = None
    /\ owner' = Claimed(r, u)
    /\ UNCHANGED <<manifests, pushedRows, blobs, links, blocked, held, tag, admin, scan, disk, flight>>

\* The chunks of a session change no more than its temporary file.
\* finish_upload, when they hash to the digest: the file first, then the rows.
FinishUpload(r, u, b) ==
    /\ Quiet /\ OwnedBy(r, u) /\ owner[r] # None
    /\ files' = files \cup {b}
    /\ aged' = IF b \in files /\ blobs[b] # "none" THEN aged ELSE aged \ {b}
    /\ Recorded(r, b)
    /\ UNCHANGED <<manifests, pushedRows, links, blocked, tag, owner, admin, scan, flight>>

\* upload_commit has put the bytes in place and the transaction fails.
FailUpload(r, u, b) ==
    /\ Quiet /\ OwnedBy(r, u) /\ owner[r] # None /\ b \notin files
    /\ files' = files \cup {b} /\ aged' = aged \ {b}
    /\ UNCHANGED <<rows, flight>>

\* mount_blob: a layer the source repository holds and does not refuse.
MountBlob(r, u, src, b) ==
    /\ Quiet /\ OwnedBy(r, u)
    /\ b \in files /\ src \notin quarantined /\ BlobInRepo(src, b)
    /\ BlobVerdict(src, b) # "denied"
    /\ owner' = Claimed(r, u)
    /\ Recorded(r, b)
    /\ aged' = IF blobs[b] = "none" THEN aged \ {b} ELSE aged
    /\ UNCHANGED <<manifests, pushedRows, links, blocked, tag, admin, scan, files, flight>>

-----------------------------------------------------------------------------
(* PUT of a manifest, and the DELETEs.                                     *)

\* Every blob it names has bytes and is in this repository, every child is
\* linked here.
RefsPresent(r, m) ==
    IF m \in Images THEN \A b \in Layers[m] : b \in files /\ BlobInRepo(r, b)
    ELSE \A c \in Children[m] : c \in manifests /\ <<r, c>> \in links

\* Mutant: an image scanned before is left to the rescan the push queues.
PutUnjudged(u, r, m) ==
    /\ Quiet /\ OwnedBy(r, u) /\ RefsPresent(r, m)
    /\ files' = files \cup {m} /\ manifests' = manifests \cup {m}
    /\ aged' = IF m \in files /\ m \in manifests THEN aged ELSE aged \ {m}
    /\ pushedRows' = IF m \in manifests THEN pushedRows ELSE pushedRows \cup {m}
    /\ links' = links \cup {<<r, m>>}
    /\ UNCHANGED blocked
    /\ tag' \in {tag, [tag EXCEPT ![r] = m]}
    /\ owner' = Claimed(r, u)
    /\ scan' = Queued(m)
    /\ UNCHANGED <<blobs, held, admin, flight>>

\* put_manifest and the handler around it: the file, the row, the link, the
\* verdict of an image already scanned, the tag, the scan job, the commit.
PutManifest(u, r, m) ==
    /\ Quiet /\ OwnedBy(r, u) /\ RefsPresent(r, m)
    /\ files' = files \cup {m} /\ manifests' = manifests \cup {m}
    /\ aged' = IF m \in files /\ m \in manifests THEN aged ELSE aged \ {m}
    /\ pushedRows' = IF m \in manifests THEN pushedRows ELSE pushedRows \cup {m}
    /\ links' = links \cup {<<r, m>>}
    /\ blocked' = IF m \in Images /\ scan[m] = "scanned" THEN Judged(m, links') ELSE blocked
    /\ tag' \in {tag, [tag EXCEPT ![r] = m]}
    /\ owner' = Claimed(r, u)
    /\ scan' = Queued(m)
    /\ UNCHANGED <<blobs, held, admin, flight>>

\* The transaction fails: the file stays without a row.
FailManifest(u, r, m) ==
    /\ Quiet /\ OwnedBy(r, u) /\ RefsPresent(r, m) /\ m \notin files
    /\ files' = files \cup {m} /\ aged' = aged \ {m}
    /\ UNCHANGED <<rows, flight>>

Untagged(gone) == [r \in Repos |-> IF <<r, tag[r]>> \in gone THEN None ELSE tag[r]]

\* DELETE of a manifest by digest: its tags and its link.
DeleteManifest(u, r, m) ==
    /\ Quiet /\ OwnedBy(r, u) /\ <<r, m>> \in links
    /\ links' = links \ {<<r, m>>} /\ blocked' = blocked \ {<<r, m>>}
    /\ tag' = Untagged({<<r, m>>})
    /\ UNCHANGED <<manifests, pushedRows, blobs, held, owner, admin, scan, disk, flight>>

DeleteTag(u, r) ==
    /\ Quiet /\ OwnedBy(r, u) /\ tag[r] # None
    /\ tag' = [tag EXCEPT ![r] = None]
    /\ UNCHANGED <<manifests, pushedRows, blobs, links, blocked, held, owner, admin,
                   scan, disk, flight>>

DeleteBlob(u, r, b) ==
    /\ Quiet /\ OwnedBy(r, u) /\ <<r, b>> \in held
    /\ held' = held \ {<<r, b>>}
    /\ UNCHANGED <<manifests, pushedRows, blobs, links, blocked, tag, owner, admin,
                   scan, disk, flight>>

-----------------------------------------------------------------------------
(* Cached repositories.                                                    *)

\* store_manifest and link of what the upstream produced, set_tag if by tag.
Fetched(r, m, tags) ==
    /\ files' = files \cup {m} /\ manifests' = manifests \cup {m}
    /\ aged' = IF m \in files /\ m \in manifests THEN aged ELSE aged \ {m}
    /\ links' = links \cup {<<r, m>>}
    /\ tag' = tags
    /\ UNCHANGED <<pushedRows, blobs, blocked, held, owner, admin, scan, flight>>

\* set_tag.
Retagged(r, m) == [tag EXCEPT ![r] = m]

\* _manifest_by_digest.
FetchByDigest(r, m) ==
    /\ Quiet /\ m \in Offers[r] /\ (m \notin files \/ <<r, m>> \notin links)
    /\ Fetched(r, m, tag)

\* _manifest_by_tag of a tag that is new here, or whose bytes have to be read
\* again.
FetchByTag(r, m) ==
    /\ Quiet /\ m \in Offers[r] /\ (m \notin files \/ tag[r] # m)
    /\ Fetched(r, m, Retagged(r, m))

\* Mutant: the digest a HEAD names is taken whatever its bytes' origin.
ReusableHere(r, m) == TRUE

\* _reusable: linked here, or to another repository of the same upstream.
Reusable(r, m) == \E c \in CachedRepos : <<c, m>> \in links

\* _revalidate: a HEAD names a digest this registry has; only the upstream's
\* word says so, and it may name anything.
TagMoved(r, m) ==
    /\ Quiet /\ tag[r] # None /\ tag[r] \in files
    /\ m \in manifests /\ m \in files /\ m # tag[r]
    /\ Reusable(r, m)
    /\ links' = links \cup {<<r, m>>}
    /\ tag' = Retagged(r, m)
    /\ UNCHANGED <<manifests, pushedRows, blobs, blocked, held, owner, admin, scan,
                   disk, flight>>

\* _revalidate: the upstream no longer has the tag.
TagGone(r) ==
    /\ Quiet /\ tag[r] # None
    /\ tag' = [tag EXCEPT ![r] = None]
    /\ UNCHANGED <<manifests, pushedRows, blobs, links, blocked, held, owner, admin,
                   scan, disk, flight>>

\* open_blob of an uncached layer and prefetch_image: the file is in place
\* before _record_blob, whose failure is suppressed, adds the row.
FillBlob(r, b) ==
    /\ Quiet /\ b \notin files /\ BlobInRepo(r, b)
    /\ b \in LayersOf(WithChildren(Offers[r]))
    /\ BlobVerdict(r, b) = "allow"
    /\ files' = files \cup {b} /\ aged' = aged \ {b}
    /\ blobs' \in {blobs, [blobs EXCEPT ![b] = IF @ = "none" THEN "cached" ELSE @]}
    /\ UNCHANGED <<manifests, pushedRows, links, blocked, held, tag, owner, admin, scan, flight>>

\* refresh_watched: the tag is revalidated, the layers that can be had are
\* prefetched and the scan is queued (the hourly watch and the admin's refresh).
RefreshWatched(r) ==
    /\ Quiet
    /\ \E m \in Offers[r] \cap Images : \E got \in SUBSET (Layers[m] \ files) :
          /\ files' = files \cup {m} \cup got /\ manifests' = manifests \cup {m}
          /\ aged' = aged \ (got \cup ({m} \ (files \cap manifests)))
          /\ blobs' = [b \in Blobs |-> IF b \in got /\ blobs[b] = "none" THEN "cached" ELSE blobs[b]]
          /\ links' = links \cup {<<r, m>>}
          /\ tag' = Retagged(r, m)
          /\ scan' = Queued(m)
    /\ UNCHANGED <<pushedRows, blocked, held, owner, admin, flight>>

\* purge_repository.
PurgeRepository(r) ==
    /\ Quiet /\ (Linked(r) # {} \/ tag[r] # None)
    /\ links' = {k \in links : k[1] # r}
    /\ tag' = [tag EXCEPT ![r] = None]
    /\ UNCHANGED <<manifests, pushedRows, blobs, blocked, held, owner, admin, scan,
                   disk, flight>>

-----------------------------------------------------------------------------
(* Pulls (GET of a manifest by anyone but the scanner).                    *)

\* The manifest is found here; an unscanned image is queued for a scan before
\* Verdict judges it.  A hold polls the status until Verdict can.
PullManifest(r, m) ==
    /\ Quiet /\ r \notin quarantined /\ m \in files /\ <<r, m>> \in links
    /\ scan' = Queued(m) /\ scan' # scan
    /\ UNCHANGED <<manifests, pushedRows, blobs, links, blocked, held, tag, owner,
                   admin, disk, flight>>

-----------------------------------------------------------------------------
(* Scans and administration.                                               *)

\* A scan lands: status and push verdicts in one transaction.
ScanLands(m) ==
    /\ Quiet /\ m \in manifests /\ scan[m] # "unscanned"
    /\ scan' = [scan EXCEPT ![m] = "scanned"]
    /\ blocked' = Judged(m, links)
    /\ UNCHANGED <<manifests, pushedRows, blobs, links, held, tag, owner, admin, disk,
                   flight>>

\* It fails for good: the image can be queued again.
ScanFails(m) ==
    /\ Quiet /\ m \in manifests /\ scan[m] = "queued"
    /\ scan' = [scan EXCEPT ![m] = "unscanned"]
    /\ UNCHANGED <<manifests, pushedRows, blobs, links, blocked, held, tag, owner, admin,
                   disk, flight>>

\* The rescan of the admin API.
Rescan(m) ==
    /\ Quiet /\ \E r \in Repos : <<r, m>> \in links
    /\ scan' = Queued(m) /\ scan' # scan
    /\ UNCHANGED <<manifests, pushedRows, blobs, links, blocked, held, tag, owner, admin,
                   disk, flight>>

\* update_repository.
Quarantine(r) ==
    /\ Quiet
    /\ quarantined' \in {quarantined \cup {r}, quarantined \ {r}} /\ quarantined' # quarantined
    /\ UNCHANGED <<manifests, pushedRows, blobs, links, blocked, held, tag, owner, scan, bar, disk,
                   flight>>

\* Mutant: a new policy judges what is pushed and scanned from now on.
PolicyOnly ==
    /\ Quiet
    /\ bar' = ~bar
    /\ UNCHANGED <<manifests, pushedRows, blobs, links, blocked, held, tag, owner, quarantined,
                   scan, disk, flight>>

\* reapply_push_policy: the links of scanned images in local repositories.
Rejudged(on) ==
    LET judged == {k \in links : k[1] \in LocalRepos /\ k[2] \in Images /\ scan[k[2]] = "scanned"}
    IN  (blocked \ judged) \cup {k \in judged : on /\ k[2] \in FailsPush}

\* put_policy: the policy, and every push verdict again.
PutPolicy ==
    /\ Quiet
    /\ bar' = ~bar
    /\ blocked' = Rejudged(bar')
    /\ UNCHANGED <<manifests, pushedRows, blobs, links, held, tag, owner, quarantined, scan, disk,
                   flight>>

-----------------------------------------------------------------------------
(* Housekeeping.                                                           *)

\* Longer than every grace period, and so than any request.
TimePasses ==
    /\ gc = NotRunning
    /\ aged' = files \cup manifests \cup {b \in Blobs : blobs[b] # "none"}
    /\ aged' # aged
    /\ UNCHANGED <<rows, files, flight>>

\* evict_to's candidates: images of cached repositories, never one that was
\* pushed first.  Evict takes any of them, so a pinned repository and a watched
\* tag are among those it spares.
Evictable == {k \in links : k[1] \in CachedRepos /\ k[2] \notin pushedRows}

\* Mutant: the tags of an evicted image are left for its next revalidation.
EvictKeepsTags ==
    /\ Quiet
    /\ \E gone \in SUBSET Evictable :
          /\ gone # {}
          /\ links' = links \ gone /\ UNCHANGED tag
    /\ UNCHANGED <<manifests, pushedRows, blobs, blocked, held, owner, admin, scan,
                   disk, flight>>

\* _evict: over the budget, as many as it takes, their tags with them.
Evict ==
    /\ Quiet
    /\ \E gone \in SUBSET Evictable :
          /\ gone # {}
          /\ links' = links \ gone /\ tag' = Untagged(gone)
    /\ UNCHANGED <<manifests, pushedRows, blobs, blocked, held, owner, admin, scan,
                   disk, flight>>

\* Mutant: only what is linked is alive.
LiveLinked == {m \in manifests : \E r \in Repos : <<r, m>> \in links}

\* _live_manifest_ids.
LiveManifests == WithChildren({m \in manifests : \E r \in Repos : <<r, m>> \in links})

\* Blobs no manifest row names and no local repository holds.
OrphanBlobs(M) ==
    {b \in Blobs : /\ blobs[b] # "none" /\ b \notin LayersOf(M)
                   /\ ~\E r \in LocalRepos : <<r, b>> \in held}

\* _gc selects the dead manifests and deletes their files, then selects the
\* orphaned blobs, in one transaction that is not yet committed.
GcManifests ==
    LET dead == (manifests \ LiveManifests) \cap aged
        orphans == OrphanBlobs(manifests \ dead) \cap aged
    IN  /\ gc = NotRunning /\ sweep = {}
        /\ dead \cup orphans # {}
        /\ gc' = [at |-> "blobs", dead |-> dead, orphans |-> orphans]
        /\ files' = files \ dead /\ UNCHANGED aged
        /\ UNCHANGED <<rows, sweep>>

\* The files of the orphans.
GcBlobs ==
    /\ gc.at = "blobs"
    /\ gc' = [gc EXCEPT !.at = "commit"]
    /\ files' = files \ gc.orphans /\ UNCHANGED aged
    /\ UNCHANGED <<rows, sweep>>

\* Mutant: only the rows of the dead manifests go, and what names them stays.
GcKeepsSelected ==
    LET dead == gc.dead
    IN  /\ gc.at = "commit"
        /\ gc' = NotRunning
        /\ manifests' = manifests \ dead
        /\ blobs' = [b \in Blobs |-> IF b \in gc.orphans THEN "none" ELSE blobs[b]]
        /\ aged' = aged \ ((dead \cup gc.orphans) \ files)
        /\ scan' = [m \in Images |-> IF m \in dead THEN "unscanned" ELSE scan[m]]
        /\ UNCHANGED <<pushedRows, links, blocked, tag, held, owner, admin, files, sweep>>

\* The commit: rows, and everything that names the dead manifests.
GcCommit ==
    LET dead == gc.dead
    IN  /\ gc.at = "commit"
        /\ gc' = NotRunning
        /\ manifests' = manifests \ dead /\ pushedRows' = pushedRows \ dead
        /\ blobs' = [b \in Blobs |-> IF b \in gc.orphans THEN "none" ELSE blobs[b]]
        /\ aged' = aged \ ((dead \cup gc.orphans) \ files)
        /\ links' = {k \in links : k[2] \notin dead}
        /\ blocked' = {k \in blocked : k[2] \notin dead}
        /\ tag' = [r \in Repos |-> IF tag[r] \in dead THEN None ELSE tag[r]]
        /\ scan' = [m \in Images |-> IF m \in dead THEN "unscanned" ELSE scan[m]]
        /\ UNCHANGED <<held, owner, admin, files, sweep>>

\* _orphan_files lists the tree in a thread ...
SweepList ==
    /\ gc = NotRunning /\ sweep = {} /\ aged \cap files # {}
    /\ sweep' = aged \cap files
    /\ UNCHANGED <<rows, disk, gc>>

\* ... and then asks the tables: a file without a row gets one back if a
\* manifest names it or a push holds it, and goes otherwise.
SweepBatch ==
    LET known == manifests \cup {b \in Blobs : blobs[b] # "none"}
        missing == sweep \ known
        wanted == {b \in missing \cap Blobs : b \in LayersOf(manifests) \/ \E r \in LocalRepos : <<r, b>> \in held}
        local == {b \in wanted : (\E r \in LocalRepos : <<r, b>> \in held) \/ b \in LayersOf(pushedRows)}
    IN  /\ Quiet /\ sweep # {}
        /\ sweep' = {}
        /\ files' = files \ (missing \ wanted) /\ aged' = aged \ missing
        /\ blobs' = [b \in Blobs |-> IF b \in local THEN "local"
                                     ELSE IF b \in wanted THEN "cached" ELSE blobs[b]]
        /\ UNCHANGED <<manifests, pushedRows, links, blocked, held, tag, owner, admin, scan,
                       gc>>

\* The process dies: files stay as they are, no transaction commits.
Crash ==
    /\ gc' = NotRunning /\ sweep' = {}
    /\ UNCHANGED <<rows, disk>>

-----------------------------------------------------------------------------
Push ==
    \E r \in LocalRepos, u \in Users :
        \/ StartUpload(r, u)
        \/ \E b \in Blobs : FinishUpload(r, u, b) \/ FailUpload(r, u, b) \/ DeleteBlob(u, r, b)
        \/ \E src \in Repos, b \in Blobs : MountBlob(r, u, src, b)
        \/ \E m \in Pushes : PutManifest(u, r, m) \/ FailManifest(u, r, m) \/ DeleteManifest(u, r, m)
        \/ DeleteTag(u, r)

Cache ==
    \E r \in CachedRepos :
        \/ \E m \in Manifests : FetchByDigest(r, m) \/ FetchByTag(r, m) \/ TagMoved(r, m)
        \/ RefreshWatched(r)
        \/ TagGone(r) \/ PurgeRepository(r)
        \/ \E b \in Blobs : FillBlob(r, b)

Housekeep == GcManifests \/ GcBlobs \/ GcCommit \/ SweepList \/ SweepBatch

Next ==
    \/ Push \/ Cache
    \/ \E r \in Repos, m \in Manifests : PullManifest(r, m)
    \/ \E m \in Images : ScanLands(m) \/ ScanFails(m) \/ Rescan(m)
    \/ \E r \in Suspects : Quarantine(r)
    \/ PutPolicy
    \/ TimePasses \/ Evict \/ Housekeep \/ Crash

Spec == Init /\ [][Next]_vars

-----------------------------------------------------------------------------
Status == {"unscanned", "queued", "scanned"}

\* The variables have their types.
TypeOK ==
    /\ files \subseteq Digests
    /\ manifests \subseteq Manifests /\ pushedRows \subseteq manifests
    /\ blobs \in [Blobs -> {"none", "cached", "local"}]
    /\ aged \subseteq files \cup manifests \cup {b \in Blobs : blobs[b] # "none"}
    /\ links \subseteq Repos \X manifests
    /\ blocked \subseteq links
    /\ held \subseteq LocalRepos \X Blobs
    /\ tag \in [Repos -> Manifests \cup {None}]
    /\ owner \in [LocalRepos -> Users \cup {None}]
    /\ quarantined \subseteq Repos
    /\ scan \in [Images -> Status]
    /\ bar \in BOOLEAN
    /\ gc.at \in {"idle", "blobs", "commit"} /\ gc.dead \subseteq Manifests /\ gc.orphans \subseteq Blobs
    /\ sweep \subseteq Digests

\* What a local repository lists can be pulled: a linked manifest, and a child
\* of a linked index, has its file and the files of its layers, whatever GC,
\* the orphan sweep, eviction, deletes, failed transactions and crashes do
\* (housekeeping.py _gc: "a blob is live while any linked manifest ... names
\* it, or a local repository holds it from a push").
LinkedComplete ==
    \A r \in LocalRepos : \A m \in WithChildren(Linked(r)) :
        m \in files /\ (m \in Images => Layers[m] \subseteq files)

\* An upstream repository never lists, and so never serves the layers of, an
\* image its upstream has not produced: a digest a HEAD names is not enough
\* (registry.py _reusable and the stale branch of _manifest_by_digest).
PrivateStaysPrivate ==
    \A r \in CachedRepos : Linked(r) \subseteq UNION {Offers[c] : c \in CachedRepos}

\* A pull from a local repository is never answered with an image that fails
\* the push rules: not before its scan, not when its bytes were scanned under
\* another repository first, not after a delete and a second push (push.py
\* put_manifest, scanning.py apply_push_policy, policy.py evaluate_pull).
PushBarHolds ==
    RequireScan =>
        \A r \in LocalRepos : \A m \in Linked(r) \cap Images : Verdict(r, m) = "allow" => PassesPush(m)

\* A tag names an image of its own repository: what removes the link of an
\* image (delete, eviction, purge, GC) removes its tags.
TagsLinked == \A r \in Repos : tag[r] # None => <<r, tag[r]>> \in links
=============================================================================
