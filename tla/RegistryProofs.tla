---------------------------- MODULE RegistryProofs ----------------------------
(***************************************************************************)
(* What Registry guarantees for any repositories, images, upstreams and    *)
(* policies: tags name what is listed, cached repositories list only what   *)
(* an upstream has, the push rules decide about every pull, and what a      *)
(* local repository lists is complete.                                      *)
(***************************************************************************)
EXTENDS Registry, TLAPS

-----------------------------------------------------------------------------
(* Types.                                                                  *)

\* Only links of local repositories are judged by the push rules, and what a
\* collection has selected keeps its rows until the commit.
Typing ==
    /\ TypeOK
    /\ gc \in [at : {"idle", "blobs", "commit"}, dead : SUBSET Manifests, orphans : SUBSET Blobs]
    /\ \A k \in blocked : k[1] \in LocalRepos
    /\ gc.at # "idle" => gc.dead \subseteq manifests /\ \A b \in gc.orphans : blobs[b] # "none"

\* A new registry has no housekeeping under way.
LEMMA InitTyped == Init => Typing
BY RegistryAssumption DEF Init, Typing, TypeOK, NotRunning, Status, Manifests, Digests

\* A scan that is queued, or a row that is aged, stays of its kind.
LEMMA QueuedKind ==
    ASSUME Typing, NEW m
    PROVE  /\ Queued(m) \in [Images -> Status]
           /\ \A x \in Images : Queued(m)[x] = "scanned" <=> scan[x] = "scanned"
BY DEF Queued, Typing, TypeOK, Status

\* The push verdicts of an image are about its links in local repositories.
LEMMA JudgedLinks ==
    ASSUME Typing, NEW m, NEW L
    PROVE  /\ Judged(m, L) \subseteq blocked \cup L
           /\ \A k \in Judged(m, L) : k[1] \in LocalRepos
BY DEF Judged, Typing

\* Every step leaves rows, files and links of their kinds.
LEMMA StepTyped ==
    ASSUME Typing, [Next]_vars
    PROVE  Typing'
<1> USE RegistryAssumption DEF Typing, TypeOK, Manifests, Repos, Digests
<1>1. ASSUME NEW r \in LocalRepos, NEW u \in Users, StartUpload(r, u) PROVE Typing'
  BY <1>1 DEF StartUpload, Claimed, disk, flight, admin
<1>2. ASSUME NEW r \in LocalRepos, NEW u \in Users, NEW b \in Blobs, FinishUpload(r, u, b) PROVE Typing'
  BY <1>2 DEF FinishUpload, Recorded, flight, admin
<1>3. ASSUME NEW r \in LocalRepos, NEW u \in Users, NEW b \in Blobs, FailUpload(r, u, b) PROVE Typing'
  BY <1>3 DEF FailUpload, rows, flight, admin
<1>4. ASSUME NEW r \in LocalRepos, NEW u \in Users, NEW src \in Repos, NEW b \in Blobs, MountBlob(r, u, src, b) PROVE Typing'
  BY <1>4 DEF MountBlob, Recorded, Claimed, flight, admin
<1>5. ASSUME NEW r \in LocalRepos, NEW u \in Users, NEW m \in Pushes, PutManifest(u, r, m) PROVE Typing'
  <2>1. scan' \in [Images -> Status]
    BY <1>5, QueuedKind DEF PutManifest
  <2>2. blocked' \subseteq links' /\ \A k \in blocked' : k[1] \in LocalRepos
    BY <1>5, JudgedLinks DEF PutManifest
  <2>3. owner' \in [LocalRepos -> Users \cup {None}] /\ tag' \in [Repos -> Manifests \cup {None}]
    BY <1>5 DEF PutManifest, Claimed
  <2>4. manifests' \subseteq Manifests /\ pushedRows' \subseteq manifests' /\ files' \subseteq Digests
    BY <1>5 DEF PutManifest
  <2>5. links' \subseteq Repos \X manifests'
    BY <1>5 DEF PutManifest
  <2>6. UNCHANGED <<blobs, held, quarantined, bar, gc, sweep>> /\ manifests \subseteq manifests'
    BY <1>5 DEF PutManifest, flight, admin
  <2>7. aged' \subseteq files' \cup manifests' \cup {b \in Blobs : blobs[b] # "none"}
    BY <1>5 DEF PutManifest
  <2> QED
    BY <2>1, <2>2, <2>3, <2>4, <2>5, <2>6, <2>7
<1>6. ASSUME NEW r \in LocalRepos, NEW u \in Users, NEW m \in Pushes, FailManifest(u, r, m) PROVE Typing'
  BY <1>6 DEF FailManifest, rows, flight, admin
<1>7. ASSUME NEW r \in LocalRepos, NEW u \in Users, NEW m \in Pushes, DeleteManifest(u, r, m) PROVE Typing'
  BY <1>7 DEF DeleteManifest, Untagged, disk, flight, admin
<1>8. ASSUME NEW r \in LocalRepos, NEW u \in Users, DeleteTag(u, r) PROVE Typing'
  BY <1>8 DEF DeleteTag, disk, flight, admin
<1>9. ASSUME NEW r \in LocalRepos, NEW u \in Users, NEW b \in Blobs, DeleteBlob(u, r, b) PROVE Typing'
  BY <1>9 DEF DeleteBlob, disk, flight, admin
<1>10. ASSUME NEW r \in CachedRepos, NEW m \in Manifests, NEW tags \in [Repos -> Manifests \cup {None}], Fetched(r, m, tags)
      PROVE  Typing'
  BY <1>10 DEF Fetched, flight, admin
<1>11. ASSUME NEW r \in CachedRepos, NEW m \in Manifests, TagMoved(r, m) PROVE Typing'
  BY <1>11 DEF TagMoved, Retagged, disk, flight, admin
<1>12. ASSUME NEW r \in CachedRepos, TagGone(r) PROVE Typing'
  BY <1>12 DEF TagGone, disk, flight, admin
<1>13. ASSUME NEW r \in CachedRepos, PurgeRepository(r) PROVE Typing'
  BY <1>13 DEF PurgeRepository, disk, flight, admin
<1>14. ASSUME NEW r \in CachedRepos, NEW b \in Blobs, FillBlob(r, b) PROVE Typing'
  BY <1>14 DEF FillBlob, flight, admin
<1>15. ASSUME NEW r \in CachedRepos, RefreshWatched(r) PROVE Typing'
  <2>m. PICK m \in Offers[r] \cap Images : \E got \in SUBSET (Layers[m] \ files) :
          /\ files' = files \cup {m} \cup got /\ manifests' = manifests \cup {m}
          /\ aged' = aged \ (got \cup ({m} \ (files \cap manifests)))
          /\ blobs' = [b \in Blobs |-> IF b \in got /\ blobs[b] = "none" THEN "cached" ELSE blobs[b]]
          /\ links' = links \cup {<<r, m>>}
          /\ tag' = Retagged(r, m)
          /\ scan' = Queued(m)
    BY <1>15, Zenon DEF RefreshWatched
  <2>1. PICK got \in SUBSET (Layers[m] \ files) :
          /\ files' = files \cup {m} \cup got /\ manifests' = manifests \cup {m}
          /\ aged' = aged \ (got \cup ({m} \ (files \cap manifests)))
          /\ blobs' = [b \in Blobs |-> IF b \in got /\ blobs[b] = "none" THEN "cached" ELSE blobs[b]]
          /\ links' = links \cup {<<r, m>>}
          /\ tag' = Retagged(r, m)
          /\ scan' = Queued(m)
    BY <2>m, Zenon
  <2>2. scan' \in [Images -> Status] /\ got \subseteq Blobs
    BY <2>1, QueuedKind
  <2>3. m \in Manifests /\ r \in Repos
    BY <2>1
  <2>4. files' \subseteq Digests /\ manifests' \subseteq Manifests /\ manifests \subseteq manifests'
    BY <2>1, <2>2, <2>3
  <2>5. blobs' \in [Blobs -> {"none", "cached", "local"}] /\ \A b \in Blobs : blobs[b] # "none" => blobs'[b] # "none"
    BY <2>1
  <2>6. aged' \subseteq files' \cup manifests' \cup {b \in Blobs : blobs'[b] # "none"}
    <3>1. aged' \subseteq aged /\ files \subseteq files' /\ manifests \subseteq manifests'
      BY <2>1
    <3> QED
      BY <2>5, <3>1
  <2>7. links' \subseteq Repos \X manifests' /\ links \subseteq links'
    BY <2>1, <2>3
  <2>8. tag' \in [Repos -> Manifests \cup {None}]
    BY <2>1, <2>3 DEF Retagged
  <2>9. UNCHANGED <<pushedRows, blocked, held, owner, quarantined, bar, gc, sweep>>
    BY <1>15 DEF RefreshWatched, flight, admin
  <2> QED
    BY <2>2, <2>4, <2>5, <2>6, <2>7, <2>8, <2>9
<1>16. ASSUME NEW m, scan' = Queued(m), UNCHANGED <<manifests, pushedRows, blobs, links, blocked, held, tag, owner, admin, disk, flight>>
       PROVE  Typing'
  BY <1>16, QueuedKind DEF disk, flight, admin
<1>17. ASSUME NEW m \in Images, ScanLands(m) PROVE Typing'
  BY <1>17, JudgedLinks DEF ScanLands, Status, disk, flight, admin
<1>18. ASSUME NEW m \in Images, ScanFails(m) PROVE Typing'
  BY <1>18 DEF ScanFails, Status, disk, flight, admin
<1>19. ASSUME NEW r \in Suspects, Quarantine(r) PROVE Typing'
  BY <1>19 DEF Quarantine, disk, flight
<1>20. CASE PutPolicy
  BY <1>20 DEF PutPolicy, Rejudged, disk, flight
<1>21. CASE TimePasses
  BY <1>21 DEF TimePasses, rows, flight, admin
<1>22. CASE Evict
  BY <1>22 DEF Evict, Evictable, Untagged, disk, flight, admin
<1>23. CASE GcManifests
  BY <1>23 DEF GcManifests, OrphanBlobs, rows, admin
<1>24. CASE GcBlobs
  BY <1>24 DEF GcBlobs, rows, admin
<1>25. CASE GcCommit
  BY <1>25 DEF GcCommit, NotRunning, Status, admin
<1>26. CASE SweepList
  BY <1>26 DEF SweepList, rows, disk, admin
<1>27. CASE SweepBatch
  BY <1>27 DEF SweepBatch, admin
<1>28. CASE Crash
  BY <1>28 DEF Crash, NotRunning, rows, disk, admin
<1>29. CASE UNCHANGED vars
  BY <1>29 DEF vars, rows, disk, flight, admin
<1> QED
  <2> HIDE DEF Typing, TypeOK
  <2>1. ASSUME NEW r \in CachedRepos, NEW m \in Manifests, FetchByDigest(r, m) \/ FetchByTag(r, m) PROVE Typing'
    BY <1>10, <2>1 DEF FetchByDigest, FetchByTag, Retagged, Typing, TypeOK
  <2>2. ASSUME NEW r \in Repos, NEW m \in Manifests, PullManifest(r, m) PROVE Typing'
    BY <1>16, <2>2 DEF PullManifest
  <2>3. ASSUME NEW m \in Images, Rescan(m) PROVE Typing'
    BY <1>16, <2>3 DEF Rescan
  <2> QED
    BY <1>1, <1>2, <1>3, <1>4, <1>5, <1>6, <1>7, <1>8, <1>11, <1>12, <1>13, <1>14, <1>15, <1>17, <1>18, <1>19,
       <1>20, <1>21, <1>22, <1>23, <1>24, <1>25, <1>26, <1>27, <1>28, <1>29, <1>9, <2>1, <2>2, <2>3
       DEF Next, Push, Cache, Housekeep

-----------------------------------------------------------------------------
(* Links, tags and verdicts.                                               *)

\* The steps that list, delist, tag, untag or judge something; no other does.
Lists ==
    \/ \E r \in LocalRepos, u \in Users, m \in Pushes : PutManifest(u, r, m) \/ DeleteManifest(u, r, m)
    \/ \E r \in LocalRepos, u \in Users : DeleteTag(u, r)
    \/ \E r \in CachedRepos, m \in Manifests : FetchByDigest(r, m) \/ FetchByTag(r, m) \/ TagMoved(r, m)
    \/ \E r \in CachedRepos : RefreshWatched(r) \/ TagGone(r) \/ PurgeRepository(r)
    \/ Evict \/ GcCommit
Judges == PutPolicy \/ \E m \in Images : ScanLands(m)
Marks ==
    \/ \E r \in Repos, m \in Manifests : PullManifest(r, m)
    \/ \E m \in Images : ScanFails(m) \/ Rescan(m)

\* A link and at most its repository's tag are added, from a push or because an
\* upstream has the image; or links go, and the tags that name them.
Added(r, m) ==
    /\ links' = links \cup {<<r, m>>} /\ tag' \in {tag, [tag EXCEPT ![r] = m]}
    /\ r \in CachedRepos => m \in Offers[r] \/ Reusable(r, m)
Dropped ==
    /\ links' \subseteq links
    /\ \A r \in Repos : tag'[r] # None => tag'[r] = tag[r] /\ (<<r, tag[r]>> \in links => <<r, tag[r]>> \in links')

\* What the other steps leave alone.
LEMMA ListingSteps ==
    ASSUME [Next]_vars
    PROVE  Lists \/ ((Judges \/ Marks \/ UNCHANGED <<scan, blocked, bar>>) /\ UNCHANGED <<links, tag>>)
<1>1. Judges \/ Marks => UNCHANGED <<links, tag>>
  BY DEF Judges, Marks, PullManifest, ScanLands, ScanFails, Rescan, PutPolicy
<1>2. ASSUME NEW r \in LocalRepos, NEW u \in Users, NEW b \in Blobs,
             FinishUpload(r, u, b) \/ FailUpload(r, u, b) \/ DeleteBlob(u, r, b) \/ (\E src \in Repos : MountBlob(r, u, src, b))
      PROVE  UNCHANGED <<scan, blocked, bar, links, tag>>
  BY <1>2 DEF FinishUpload, FailUpload, MountBlob, DeleteBlob, rows, admin
<1>3. ASSUME NEW r \in LocalRepos, NEW u \in Users, NEW m \in Pushes, FailManifest(u, r, m)
      PROVE  UNCHANGED <<scan, blocked, bar, links, tag>>
  BY <1>3 DEF FailManifest, rows, admin
<1>4. ASSUME NEW r \in LocalRepos, NEW u \in Users, StartUpload(r, u) PROVE UNCHANGED <<scan, blocked, bar, links, tag>>
  BY <1>4 DEF StartUpload, admin
<1>5. ASSUME NEW r \in CachedRepos, NEW b \in Blobs, FillBlob(r, b) PROVE UNCHANGED <<scan, blocked, bar, links, tag>>
  BY <1>5 DEF FillBlob, admin
<1>6. ASSUME NEW r \in Suspects, Quarantine(r) PROVE UNCHANGED <<scan, blocked, bar, links, tag>>
  BY <1>6 DEF Quarantine
<1>7. ASSUME TimePasses \/ GcManifests \/ GcBlobs \/ SweepList \/ SweepBatch \/ Crash \/ UNCHANGED vars
      PROVE  UNCHANGED <<scan, blocked, bar, links, tag>>
  BY <1>7 DEF TimePasses, GcManifests, GcBlobs, SweepList, SweepBatch, Crash, vars, rows, admin
<1> QED
  BY <1>1, <1>2, <1>3, <1>4, <1>5, <1>6, <1>7 DEF Next, Push, Cache, Housekeep, Lists, Judges, Marks

\* What a listing step makes of links and tags.
LEMMA LinksAndTags ==
    ASSUME Typing, Lists
    PROVE  Dropped \/ \E r \in Repos, m \in Manifests : Added(r, m)
<1> USE RegistryAssumption DEF Typing, TypeOK, Manifests, Repos, Added, Dropped
<1>1. ASSUME NEW r \in LocalRepos, NEW u \in Users, NEW m \in Pushes, PutManifest(u, r, m) PROVE Added(r, m)
  BY <1>1 DEF PutManifest
<1>2. ASSUME NEW r \in CachedRepos, NEW m \in Manifests, FetchByDigest(r, m) \/ FetchByTag(r, m) \/ TagMoved(r, m)
      PROVE  Added(r, m)
  BY <1>2 DEF FetchByDigest, FetchByTag, TagMoved, Fetched, Retagged
<1>3. ASSUME NEW r \in CachedRepos, RefreshWatched(r) PROVE \E m \in Images : Added(r, m)
  BY <1>3 DEF RefreshWatched, Retagged
<1>4. ASSUME NEW r \in Repos, TagGone(r) \/ \E u \in Users : DeleteTag(u, r) PROVE Dropped
  BY <1>4 DEF TagGone, DeleteTag
<1>5. ASSUME NEW r \in LocalRepos, NEW u \in Users, NEW m \in Pushes, DeleteManifest(u, r, m) PROVE Dropped
  BY <1>5 DEF DeleteManifest, Untagged
<1>6. ASSUME NEW r \in CachedRepos, PurgeRepository(r) PROVE Dropped
  <2>1. links' = {k \in links : k[1] # r} /\ tag' = [tag EXCEPT ![r] = None]
    BY <1>6 DEF PurgeRepository
  <2> QED
    BY <2>1
<1>7. CASE Evict
  BY <1>7 DEF Evict, Untagged
<1>8. CASE GcCommit
  <2>1. links' = {k \in links : k[2] \notin gc.dead} /\ tag' = [r \in Repos |-> IF tag[r] \in gc.dead THEN None ELSE tag[r]]
    BY <1>8 DEF GcCommit
  <2> QED
    BY <2>1
<1> QED
  <2> HIDE DEF Typing, TypeOK, Added, Dropped
  <2> QED
    BY <1>1, <1>2, <1>3, <1>4, <1>5, <1>6, <1>7, <1>8 DEF Lists

\* A tag is set with its link and goes with it.
LEMMA StepTags ==
    ASSUME Typing, TagsLinked, [Next]_vars
    PROVE  TagsLinked'
<1>1. CASE UNCHANGED <<links, tag>>
  BY <1>1 DEF TagsLinked
<1>2. ASSUME NEW r \in Repos, NEW m \in Manifests, Added(r, m) PROVE TagsLinked'
  BY <1>2 DEF Added, TagsLinked, Typing, TypeOK
<1>3. CASE Dropped
  BY <1>3 DEF Dropped, TagsLinked
<1> QED
  BY <1>1, <1>2, <1>3, ListingSteps, LinksAndTags

\* Whatever a cached repository lists, some upstream has it.
Produced == \A k \in links : k[1] \in CachedRepos => k[2] \in UNION {Offers[c] : c \in CachedRepos}

\* A cached repository is linked only to what an upstream was asked for.
LEMMA StepProduced ==
    ASSUME Typing, Produced, [Next]_vars
    PROVE  Produced'
<1>1. CASE UNCHANGED links
  BY <1>1 DEF Produced
<1>2. ASSUME NEW r \in Repos, NEW m \in Manifests, Added(r, m) PROVE Produced'
  <2>1. r \in CachedRepos => m \in UNION {Offers[c] : c \in CachedRepos}
    BY <1>2 DEF Added, Reusable, Produced
  <2> QED
    BY <1>2, <2>1 DEF Added, Produced
<1>3. CASE Dropped
  BY <1>3 DEF Dropped, Produced
<1> QED
  BY <1>1, <1>2, <1>3, ListingSteps, LinksAndTags

\* A scanned image that fails the push rules is barred from every local
\* repository that lists it.
Barred ==
    \A r \in LocalRepos, m \in Images :
        <<r, m>> \in links /\ scan[m] = "scanned" /\ ~PassesPush(m) => <<r, m>> \in blocked

\* The verdicts stay while no local link is added and no image is scanned.
LEMMA StaysBarred ==
    ASSUME Barred, UNCHANGED <<bar, blocked>>,
           \A k \in links' \ links : k[1] \notin LocalRepos,
           \A m \in Images : scan'[m] = "scanned" => scan[m] = "scanned"
    PROVE  Barred'
BY DEF Barred, PassesPush

\* A push judges its image, and an enqueued rescan does not take the verdict back.
LEMMA StepBarred ==
    ASSUME Typing, Barred, [Next]_vars
    PROVE  Barred'
<1> USE RegistryAssumption DEF Typing, TypeOK, Manifests, Repos
<1>1. ASSUME NEW r \in LocalRepos, NEW u \in Users, NEW m \in Pushes, PutManifest(u, r, m) PROVE Barred'
  <2>1. /\ links' = links \cup {<<r, m>>} /\ bar' = bar
        /\ blocked' = IF m \in Images /\ scan[m] = "scanned" THEN Judged(m, links') ELSE blocked
        /\ \A x \in Images : scan'[x] = "scanned" <=> scan[x] = "scanned"
    BY <1>1, QueuedKind DEF PutManifest, admin
  <2> SUFFICES ASSUME NEW q \in LocalRepos, NEW x \in Images, <<q, x>> \in links', scan[x] = "scanned", ~PassesPush(x)
               PROVE  <<q, x>> \in blocked'
    BY <2>1 DEF Barred, PassesPush
  <2>2. CASE x = m
    BY <2>1, <2>2 DEF Judged
  <2>3. CASE x # m
    <3>1. <<q, x>> \in blocked
      BY <2>1, <2>3 DEF Barred
    <3> QED
      BY <2>1, <2>3, <3>1 DEF Judged
  <2> QED
    BY <2>2, <2>3
<1>2. ASSUME NEW r \in LocalRepos, NEW u \in Users, NEW m \in Pushes, DeleteManifest(u, r, m) PROVE Barred'
  BY <1>2 DEF DeleteManifest, Barred, PassesPush, admin
<1>3. ASSUME NEW r \in CachedRepos, NEW m \in Manifests, FetchByDigest(r, m) \/ FetchByTag(r, m) \/ TagMoved(r, m) PROVE Barred'
  BY <1>3, StaysBarred DEF FetchByDigest, FetchByTag, TagMoved, Fetched, admin
<1>4. ASSUME NEW r \in CachedRepos, RefreshWatched(r) PROVE Barred'
  <2>1. PICK m \in Images : links' = links \cup {<<r, m>>} /\ scan' = Queued(m)
    BY <1>4 DEF RefreshWatched
  <2>2. \A x \in Images : scan'[x] = "scanned" <=> scan[x] = "scanned"
    BY <2>1, QueuedKind
  <2> QED
    BY <1>4, <2>1, <2>2, StaysBarred DEF RefreshWatched, admin
<1>5. ASSUME NEW r \in Repos, TagGone(r) \/ PurgeRepository(r) \/ \E u \in Users : DeleteTag(u, r) PROVE Barred'
  BY <1>5, StaysBarred DEF TagGone, PurgeRepository, DeleteTag, admin
<1>6. CASE Evict
  BY <1>6, StaysBarred DEF Evict, admin
<1>7. CASE GcCommit
  BY <1>7 DEF GcCommit, Barred, PassesPush, admin
<1>8. CASE PutPolicy
  BY <1>8 DEF PutPolicy, Rejudged, Barred, PassesPush
<1>9. ASSUME NEW m \in Images, ScanLands(m) PROVE Barred'
  <2>1. /\ links' = links /\ bar' = bar /\ blocked' = Judged(m, links)
        /\ scan' = [scan EXCEPT ![m] = "scanned"]
    BY <1>9 DEF ScanLands, admin
  <2> QED
    BY <2>1 DEF Barred, PassesPush, Judged
<1>10. ASSUME NEW m, scan' = Queued(m), UNCHANGED <<links, blocked, bar>> PROVE Barred'
  BY <1>10, QueuedKind, StaysBarred
<1>11. ASSUME NEW m \in Images, ScanFails(m) PROVE Barred'
  BY <1>11, StaysBarred DEF ScanFails, admin
<1>12. CASE UNCHANGED <<scan, blocked, bar, links>>
  BY <1>12, StaysBarred
<1> QED
  <2> HIDE DEF Typing, TypeOK, Manifests
  <2>1. CASE Lists
    BY <1>1, <1>2, <1>3, <1>4, <1>5, <1>6, <1>7, <2>1 DEF Lists
  <2>2. CASE Judges
    BY <1>8, <1>9, <2>2 DEF Judges
  <2>3. ASSUME NEW r \in Repos, NEW m \in Manifests, PullManifest(r, m) PROVE Barred'
    BY <1>10, <2>3 DEF PullManifest, admin
  <2>4. ASSUME NEW m \in Images, Rescan(m) PROVE Barred'
    BY <1>10, <2>4 DEF Rescan, admin
  <2>5. CASE Marks
    BY <1>11, <2>3, <2>4, <2>5 DEF Marks
  <2> QED
    BY <1>12, <2>1, <2>2, <2>5, ListingSteps

-----------------------------------------------------------------------------
(* Completeness, nothing else committing while a collection runs.           *)

\* What a local repository lists is here, with its layers and its children.
Whole(m) == m \in files /\ (m \in Images => Layers[m] \subseteq files)
Complete ==
    \A r \in LocalRepos, m \in Manifests : <<r, m>> \in links =>
        Whole(m) /\ (m \in Indexes => \A c \in Children[m] : c \in manifests /\ Whole(c))

\* A collection has selected nothing that is alive, and no layer of what stays.
Spared ==
    gc.at # "idle" => /\ gc.dead \cap LiveManifests = {}
                      /\ gc.orphans \cap LayersOf(manifests \ gc.dead) = {}

\* What is alive: whatever is listed, and its children.
LEMMA ListedAlive ==
    ASSUME Typing, Complete, NEW r \in LocalRepos, NEW m \in Manifests, <<r, m>> \in links
    PROVE  m \in LiveManifests /\ (m \in Indexes => \A c \in Children[m] : c \in LiveManifests)
<1>1. r \in Repos /\ m \in manifests
  BY DEF Repos, Typing, TypeOK
<1>2. m \in Indexes => \A c \in Children[m] : c \in manifests
  BY DEF Complete
<1> QED
  BY <1>1, <1>2 DEF LiveManifests, WithChildren

\* Nothing is lost while no file and no row goes and no local link comes.
LEMMA StaysComplete ==
    ASSUME Complete, files \subseteq files', manifests \subseteq manifests',
           \A k \in links' \ links : k[1] \notin LocalRepos
    PROVE  Complete'
<1>1. \A m \in Manifests : Whole(m) => Whole(m)'
  BY DEF Whole
<1>2. \A r \in LocalRepos, m \in Manifests : <<r, m>> \in links' => <<r, m>> \in links
  OBVIOUS
<1>3. Images \subseteq Manifests /\ Indexes \subseteq Manifests
  BY DEF Manifests
<1>4. \A x \in Indexes : Children[x] \subseteq Manifests
  BY <1>3, RegistryAssumption
<1> QED
  BY <1>1, <1>2, <1>4 DEF Complete

\* A collection takes no file of what is listed.
LEMMA CollectionSpares ==
    ASSUME Typing, Complete, Spared, GcManifests \/ GcBlobs \/ GcCommit
    PROVE  Complete' /\ Spared'
<1> USE RegistryAssumption DEF Typing, TypeOK, Manifests
<1>1. LiveManifests \subseteq manifests
  BY DEF LiveManifests, WithChildren
<1>2. CASE GcManifests
  <2> DEFINE dead == (manifests \ LiveManifests) \cap aged
             orphans == OrphanBlobs(manifests \ dead) \cap aged
  <2>1. gc' = [at |-> "blobs", dead |-> dead, orphans |-> orphans] /\ files' = files \ dead /\ UNCHANGED <<manifests, links>>
    BY <1>2 DEF GcManifests, rows
  <2>2. orphans \cap LayersOf(manifests \ dead) = {}
    BY DEF OrphanBlobs
  <2> HIDE DEF orphans
  <2>3. LiveManifests' = LiveManifests
    BY <2>1 DEF LiveManifests, WithChildren
  <2>4. LayersOf(manifests \ gc.dead)' = LayersOf(manifests \ dead)
    BY <2>1 DEF LayersOf
  <2>5. Spared'
    BY <2>1, <2>2, <2>3, <2>4 DEF Spared
  <2>6. \A m \in LiveManifests : Whole(m) => Whole(m)'
    BY <1>1, <2>1 DEF Whole
  <2>7. Complete'
    BY <2>1, <2>6, ListedAlive DEF Complete
  <2> QED
    BY <2>5, <2>7
<1>3. CASE GcBlobs
  <2>1. /\ gc' = [gc EXCEPT !.at = "commit"] /\ gc.at = "blobs" /\ files' = files \ gc.orphans
        /\ UNCHANGED <<manifests, links>>
    BY <1>3 DEF GcBlobs, rows
  <2>2. gc'.dead = gc.dead /\ gc'.orphans = gc.orphans
    BY <2>1
  <2>3. LiveManifests' = LiveManifests
    BY <2>1 DEF LiveManifests, WithChildren
  <2>4. LayersOf(manifests \ gc.dead)' = LayersOf(manifests \ gc.dead)
    BY <2>1, <2>2 DEF LayersOf
  <2>5. Spared'
    BY <2>1, <2>2, <2>3, <2>4 DEF Spared
  <2>6. ASSUME NEW m \in LiveManifests, Whole(m) PROVE Whole(m)'
    <3>1. m \in manifests \ gc.dead /\ m \notin gc.orphans
      BY <1>1, <2>1 DEF Spared
    <3>2. m \in Images => Layers[m] \cap gc.orphans = {}
      BY <2>1, <3>1 DEF Spared, LayersOf
    <3> QED
      BY <2>1, <2>6, <3>1, <3>2 DEF Whole
  <2>7. Complete'
    BY <2>1, <2>6, ListedAlive DEF Complete
  <2> QED
    BY <2>5, <2>7
<1>4. CASE GcCommit
  <2>1. /\ manifests' = manifests \ gc.dead /\ files' = files /\ links' \subseteq links /\ gc'.at = "idle"
        /\ gc.at = "commit"
    BY <1>4 DEF GcCommit, NotRunning
  <2>2. \A m : Whole(m) => Whole(m)'
    BY <2>1 DEF Whole
  <2>3. \A m \in LiveManifests : m \in manifests'
    BY <1>1, <2>1 DEF Spared
  <2>4. Complete'
    BY <2>1, <2>2, <2>3, ListedAlive DEF Complete
  <2> QED
    BY <2>1, <2>4 DEF Spared
<1> QED
  BY <1>2, <1>3, <1>4

\* The orphan sweep takes no file that a row, a manifest or a push holds.
LEMMA SweepSpares ==
    ASSUME Typing, Complete, SweepBatch
    PROVE  Complete'
<1> USE RegistryAssumption DEF Typing, TypeOK, Manifests
<1> DEFINE known == manifests \cup {b \in Blobs : blobs[b] # "none"}
           missing == sweep \ known
           wanted == {b \in missing \cap Blobs : b \in LayersOf(manifests) \/ \E r \in LocalRepos : <<r, b>> \in held}
<1>1. files' = files \ (missing \ wanted) /\ UNCHANGED <<manifests, links>>
  BY DEF SweepBatch
<1>2. ASSUME NEW m \in manifests, Whole(m) PROVE Whole(m)'
  <2>1. m \notin missing
    OBVIOUS
  <2>2. m \in Images => Layers[m] \cap missing \subseteq wanted
    BY DEF LayersOf
  <2> QED
    BY <1>1, <1>2, <2>1, <2>2 DEF Whole
<1>3. \A r \in LocalRepos, m \in Manifests : <<r, m>> \in links => m \in manifests
  OBVIOUS
<1> QED
  BY <1>1, <1>2, <1>3 DEF Complete

\* A push lists what is here, under an index only what the repository lists.
LEMMA PutComplete ==
    ASSUME Typing, Complete, NEW r \in LocalRepos, NEW u \in Users, NEW m \in Pushes, PutManifest(u, r, m)
    PROVE  Complete'
<1> USE RegistryAssumption DEF Manifests
<1>1. /\ links' = links \cup {<<r, m>>} /\ files' = files \cup {m} /\ manifests' = manifests \cup {m}
      /\ RefsPresent(r, m)
  BY DEF PutManifest
<1>2. \A x : Whole(x) => Whole(x)'
  BY <1>1 DEF Whole
<1>3. Whole(m)'
  BY <1>1 DEF Whole, RefsPresent
<1>4. m \in Indexes => \A c \in Children[m] : c \in manifests /\ Whole(c)
  BY <1>1 DEF RefsPresent, Complete
<1> QED
  BY <1>1, <1>2, <1>3, <1>4 DEF Complete

\* Every step but a collection's comes while none runs.
LEMMA StepComplete ==
    ASSUME ~Overlap, Typing, Complete, Spared, [Next]_vars
    PROVE  (Complete /\ Spared)'
<1>1. ASSUME gc' = NotRunning PROVE Spared'
  <2>1. gc'.at = "idle"
    BY <1>1 DEF NotRunning
  <2> QED
    BY <2>1 DEF Spared
<1>2. ASSUME gc = NotRunning, UNCHANGED gc PROVE Spared'
  BY <1>1, <1>2
<1>3. ASSUME NEW r \in LocalRepos, NEW u \in Users, NEW b \in Blobs,
             FinishUpload(r, u, b) \/ FailUpload(r, u, b) \/ DeleteBlob(u, r, b) \/ (\E src \in Repos : MountBlob(r, u, src, b))
      PROVE  (Complete /\ Spared)'
  BY <1>2, <1>3, StaysComplete DEF FinishUpload, FailUpload, MountBlob, DeleteBlob, Quiet, rows, disk, flight
<1>4. ASSUME NEW r \in LocalRepos, NEW u \in Users, StartUpload(r, u) \/ DeleteTag(u, r) PROVE (Complete /\ Spared)'
  BY <1>2, <1>4, StaysComplete DEF StartUpload, DeleteTag, Quiet, disk, flight
<1>5. ASSUME NEW r \in LocalRepos, NEW u \in Users, NEW m \in Pushes,
             PutManifest(u, r, m) \/ FailManifest(u, r, m) \/ DeleteManifest(u, r, m)
      PROVE  (Complete /\ Spared)'
  <2>1. CASE PutManifest(u, r, m)
    BY <1>2, <2>1, PutComplete DEF PutManifest, Quiet, flight
  <2>2. CASE FailManifest(u, r, m) \/ DeleteManifest(u, r, m)
    BY <1>2, <2>2, StaysComplete DEF FailManifest, DeleteManifest, Quiet, rows, disk, flight
  <2> QED
    BY <1>5, <2>1, <2>2
<1>6. ASSUME NEW r \in CachedRepos, NEW m \in Manifests, FetchByDigest(r, m) \/ FetchByTag(r, m) \/ TagMoved(r, m)
      PROVE  (Complete /\ Spared)'
  BY <1>2, <1>6, StaysComplete, RegistryAssumption DEF FetchByDigest, FetchByTag, TagMoved, Fetched, Quiet, disk, flight
<1>7. ASSUME NEW r \in CachedRepos, RefreshWatched(r) \/ TagGone(r) \/ PurgeRepository(r) \/ \E b \in Blobs : FillBlob(r, b)
      PROVE  (Complete /\ Spared)'
  BY <1>2, <1>7, StaysComplete, RegistryAssumption
     DEF RefreshWatched, TagGone, PurgeRepository, FillBlob, Quiet, disk, flight
<1>8. ASSUME NEW r \in Repos, NEW m \in Manifests, PullManifest(r, m) PROVE (Complete /\ Spared)'
  BY <1>2, <1>8, StaysComplete DEF PullManifest, Quiet, disk, flight
<1>9. ASSUME NEW m \in Images, ScanLands(m) \/ ScanFails(m) \/ Rescan(m) PROVE (Complete /\ Spared)'
  BY <1>2, <1>9, StaysComplete DEF ScanLands, ScanFails, Rescan, Quiet, disk, flight
<1>10. ASSUME PutPolicy \/ Evict \/ \E r \in Suspects : Quarantine(r) PROVE (Complete /\ Spared)'
  BY <1>2, <1>10, StaysComplete DEF PutPolicy, Quarantine, Evict, Quiet, disk, flight
<1>11. CASE TimePasses \/ SweepList
  BY <1>2, <1>11, StaysComplete DEF TimePasses, SweepList, rows, disk, flight
<1>12. CASE SweepBatch
  BY <1>2, <1>12, SweepSpares DEF SweepBatch, Quiet
<1>13. CASE GcManifests \/ GcBlobs \/ GcCommit
  BY <1>13, CollectionSpares
<1>14. CASE Crash
  BY <1>1, <1>14, StaysComplete DEF Crash, rows, disk
<1>15. CASE UNCHANGED vars
  <2>1. UNCHANGED <<files, manifests, links, gc>>
    BY <1>15 DEF vars, rows, disk, flight
  <2>2. Spared'
    BY <2>1 DEF Spared, LiveManifests, WithChildren, LayersOf
  <2> QED
    BY <2>1, <2>2, StaysComplete
<1> QED
  <2>1. CASE Push
    BY <1>3, <1>4, <1>5, <2>1 DEF Push
  <2>2. CASE Cache
    BY <1>6, <1>7, <2>2 DEF Cache
  <2> QED
    BY <1>8, <1>9, <1>10, <1>11, <1>12, <1>13, <1>14, <1>15, <2>1, <2>2 DEF Next, Housekeep

-----------------------------------------------------------------------------
(* The theorems.                                                           *)

\* What the other invariants are proved from.
LEMMA AlwaysTyped == Spec => []Typing
BY InitTyped, StepTyped, PTL DEF Spec

\* Rows, links and files are always of their kinds.
THEOREM Typed == Spec => []TypeOK
<1>1. Typing => TypeOK
  BY DEF Typing
<1> QED
  BY <1>1, AlwaysTyped, PTL

\* A tag names an image of its own repository, whatever is deleted, evicted,
\* purged, collected or gone upstream (DELETE of a manifest, _evict,
\* purge_repository, _gc, _revalidate).
THEOREM TagsKept == Spec => []TagsLinked
<1>1. Init => TagsLinked
  BY DEF Init, TagsLinked
<1>2. Typing /\ TagsLinked /\ [Next]_vars => TagsLinked'
  BY StepTags
<1> QED
  BY <1>1, <1>2, AlwaysTyped, PTL DEF Spec

\* A cached repository never lists an image that no upstream has produced, so
\* what is pushed to a local one is not to be had through it (_reusable).
THEOREM PrivateKept == Spec => []PrivateStaysPrivate
<1>1. Init => Produced
  BY DEF Init, Produced
<1>2. Typing /\ Produced /\ [Next]_vars => Produced'
  BY StepProduced
<1>3. Produced => PrivateStaysPrivate
  BY DEF Produced, PrivateStaysPrivate, Linked
<1> QED
  BY <1>1, <1>2, <1>3, AlwaysTyped, PTL DEF Spec

\* Where scans are required, no pull from a local repository gets an image that
\* fails the push rules in force (apply_push_policy, reapply_push_policy,
\* put_manifest, evaluate_pull).
THEOREM BarKept == Spec => []PushBarHolds
<1>1. Init => Barred
  BY DEF Init, Barred
<1>2. Typing /\ Barred /\ [Next]_vars => Barred'
  BY StepBarred
<1>3. Typing /\ Barred => PushBarHolds
  BY RegistryAssumption DEF Barred, PushBarHolds, Verdict, Linked
<1> QED
  BY <1>1, <1>2, <1>3, AlwaysTyped, PTL DEF Spec

\* Where nothing else commits inside a collection, what a local repository lists
\* can be pulled: no collection, sweep, eviction, delete, failed transaction or
\* crash takes the file of a listed manifest, of a child of one, or of a layer
\* of theirs (_gc, _orphan_files).
THEOREM ListedComplete ==
    ASSUME ~Overlap
    PROVE  Spec => []LinkedComplete
<1>1. Init => Complete /\ Spared
  BY DEF Init, Complete, Spared, NotRunning
<1>2. Typing /\ Complete /\ Spared /\ [Next]_vars => (Complete /\ Spared)'
  BY StepComplete
<1>3. Typing /\ Complete => LinkedComplete
  <2> SUFFICES ASSUME Typing, Complete, NEW r \in LocalRepos, NEW m \in WithChildren(Linked(r)) PROVE Whole(m)
    BY DEF LinkedComplete, Whole
  <2>1. \A x \in Linked(r) : <<r, x>> \in links /\ x \in Manifests
    BY DEF Linked, Typing, TypeOK
  <2>2. CASE m \in Linked(r)
    BY <2>1, <2>2 DEF Complete
  <2>3. CASE m \notin Linked(r)
    <3>1. PICK x \in Linked(r) \cap Indexes : m \in Children[x]
      BY <2>3 DEF WithChildren
    <3> QED
      BY <2>1, <3>1 DEF Complete
  <2> QED
    BY <2>2, <2>3
<1> QED
  BY <1>1, <1>2, <1>3, AlwaysTyped, PTL DEF Spec
=============================================================================
