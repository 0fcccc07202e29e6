----------------------------- MODULE BlobStore -----------------------------
(***************************************************************************)
(* The content-addressed artifact store: blob files on disk, the `blobs`   *)
(* rows that count references to them, the `package_files` rows that point *)
(* at them, and every writer and remover of the three                      *)
(* (services/artifacts.py, services/storage.py, the two publish handlers). *)
(*                                                                         *)
(* A database transaction is one or more actions: the one that takes a row *)
(* lock (SELECT ... FOR UPDATE, or the UPDATE/DELETE/INSERT of a flush) and *)
(* the one that commits.  Uncommitted writes are invisible to the others.  *)
(* A statement that waits for a row lock looks at the row, and evaluates   *)
(* its WHERE clause, when it gets the lock.                                *)
(***************************************************************************)
EXTENDS Integers, FiniteSets

CONSTANTS
    Shas,        \* digests, i.e. distinct artifact contents
    Upstreamed,  \* ids of package_files rows with an upstream_url
    Local,       \* ids of the rows npm publish / twine upload create
    Miscased,    \* the rows an old release stored under the wrong npm name
    Contents,    \* the bytes a source may serve as each file (no digest pins them)
    Fills,       \* download tasks (_run_fill)
    Purgers,     \* requests that call purge_file
    Collectors,  \* collect_orphan_blobs
    Sweepers,    \* sweep_orphan_files
    Evictors,    \* evict_to
    Publishers,  \* npm publish requests
    Uploaders,   \* PyPI upload requests
    MayAbort,    \* whether a commit may fail
    MaxRefs,     \* bound on a refcount that leaks
    NoSha, NoFile, NoProc

Files == Upstreamed \cup Local
Writers == Fills \cup Publishers \cup Uploaders
Procs == Writers \cup Purgers \cup Collectors \cup Sweepers \cup Evictors

\* What a process that read no Blob row remembers of the refcount.
Absent == -1

ASSUME ContentAssumption == Contents \in [Files -> SUBSET Shas]

ASSUME SentinelAssumption ==
    /\ NoSha \notin Shas
    /\ NoFile \notin Files
    /\ NoProc \notin Procs
    /\ MayAbort \in BOOLEAN
    /\ MaxRefs \in Nat

ASSUME RolesAssumption ==
    /\ Upstreamed \cap Local = {}
    /\ Miscased \subseteq Upstreamed
    /\ Purgers \cap (Writers \cup Collectors \cup Sweepers \cup Evictors) = {}
    /\ Collectors \cap (Writers \cup Sweepers \cup Evictors) = {}
    /\ Fills \cap (Publishers \cup Uploaders \cup Sweepers \cup Evictors) = {}

VARIABLES
    rows,    \* package_files rows that exist
    ptr,     \* package_files.blob_sha256
    known,   \* digests with a committed Blob row
    refs,    \* Blob.refcount, 0 for a digest with no row
    recent,  \* Blob rows read within EVICT_GRACE
    disk,    \* the blob file: "none", "fresh" (mtime inside the sweep's grace) or "old"
    lock,    \* who holds the Blob row of a digest
    flock,   \* who holds a package_files row
    enabled, \* Upstream.enabled of the files' upstream
    pc,      \* where each process is
    file,    \* the package_files row a process works on
    sha,     \* the digest a process works on
    seen     \* the refcount a process read, or Absent

vars == <<rows, ptr, known, refs, recent, disk, lock, flock, enabled, pc, file, sha, seen>>
db == <<rows, ptr, known, refs, recent>>
local == <<pc, file, sha, seen>>

Init ==
    /\ rows = Upstreamed
    /\ ptr = [f \in Files |-> NoSha]
    /\ known = {}
    /\ refs = [s \in Shas |-> 0]
    /\ recent = {}
    /\ disk = [s \in Shas |-> "none"]
    /\ lock = [s \in Shas |-> NoProc]
    /\ flock = [f \in Files |-> NoProc]
    /\ enabled = TRUE
    /\ pc = [p \in Procs |-> "idle"]
    /\ file = [p \in Procs |-> NoFile]
    /\ sha = [p \in Procs |-> NoSha]
    /\ seen = [p \in Procs |-> Absent]

\* A registry that only caches: nothing is published, the quota is never
\* reached, commits succeed, and every file has bytes of its own, pinned by a
\* digest.
CacheOnly ==
    /\ Publishers = {} /\ Uploaders = {} /\ Evictors = {}
    /\ MayAbort = FALSE
    /\ \A f, g \in Files : \A s \in Contents[f], t \in Contents[g] : (s = t) <=> (f = g)

-----------------------------------------------------------------------------
Exists(s) == disk[s] # "none"
Free(s) == lock[s] = NoProc
PointingAt(s) == {f \in rows : ptr[f] = s}
Referenced(s) == PointingAt(s) # {}

\* Mutant: a disabled upstream's files may be evicted.
HasPublishedReference(s) == \E f \in PointingAt(s) : f \in Local

\* PackageFiles whose bytes could not be fetched again (_has_local_reference).
HasLocalReference(s) == \E f \in PointingAt(s) : f \in Local \/ ~enabled

Goto(p, step) == pc' = [pc EXCEPT ![p] = step]
Begin(p, step, f, s) ==
    /\ pc[p] = "idle"
    /\ Goto(p, step)
    /\ file' = [file EXCEPT ![p] = f]
    /\ sha' = [sha EXCEPT ![p] = s]
    /\ seen' = [seen EXCEPT ![p] = Absent]
\* A process that ends forgets what it worked on.
Step(p, from, to) ==
    /\ pc[p] = from
    /\ Goto(p, to)
    /\ IF to = "idle"
       THEN /\ file' = [file EXCEPT ![p] = NoFile]
            /\ sha' = [sha EXCEPT ![p] = NoSha]
            /\ seen' = [seen EXCEPT ![p] = Absent]
       ELSE UNCHANGED <<file, sha, seen>>

\* session.get(Blob, sha) without FOR UPDATE.
ReadRefcount(p, from, to) ==
    /\ pc[p] = from
    /\ Goto(p, to)
    /\ seen' = [seen EXCEPT ![p] = IF sha[p] \in known THEN refs[sha[p]] ELSE Absent]
    /\ UNCHANGED <<file, sha>>

\* Release every row lock a transaction holds, at its commit or rollback.
Unlocked(p) == [s \in Shas |-> IF lock[s] = p THEN NoProc ELSE lock[s]]
Locked(p, s) == [lock EXCEPT ![s] = p]
EndTransaction(p) ==
    /\ lock' = Unlocked(p)
    /\ flock' = [f \in Files |-> IF flock[f] = p THEN NoProc ELSE flock[f]]

-----------------------------------------------------------------------------
(* A download: the bytes are renamed into place, then recorded.            *)

\* _open_fill re-checks that the file is not cached and its upstream enabled.
OpenFill(p, f) ==
    /\ f \in rows \cap Upstreamed
    /\ ptr[f] # NoSha => ~Exists(ptr[f])
    /\ enabled
    /\ \E s \in Contents[f] : Begin(p, "adopt", f, s)
    /\ UNCHANGED <<db, disk, lock, flock, enabled>>

\* Mutant: the download is copied into place instead of renamed, so the blob
\* file is there while it is incomplete.
AdoptByCopy(p) ==
    /\ Step(p, "adopt", "lock")
    /\ disk' = [disk EXCEPT ![sha[p]] = "partial"]
    /\ UNCHANGED <<db, lock, flock, enabled>>

Adopt(p) ==
    /\ Step(p, "adopt", "lock")
    /\ disk' = [disk EXCEPT ![sha[p]] = "fresh"]
    /\ UNCHANGED <<db, lock, flock, enabled>>

\* _record, first statement: the Blob row, FOR UPDATE.  No row, no lock.
RecordBlob(p) ==
    LET s == sha[p]
    IN /\ pc[p] = "lock"
       /\ s \in known => Free(s)
       /\ Goto(p, "row")
       /\ seen' = [seen EXCEPT ![p] = IF s \in known THEN refs[s] ELSE Absent]
       /\ lock' = IF s \in known THEN Locked(p, s) ELSE lock
       /\ UNCHANGED <<db, disk, flock, enabled, file, sha>>

\* Mutant: _record without its store.exists check.
RecordRowUnchecked(p) ==
    LET f == file[p]
        found == f \in rows
    IN /\ pc[p] = "row"
       /\ flock[f] = NoProc
       /\ Step(p, "row", IF found THEN "record" ELSE "idle")
       /\ flock' = IF found THEN [flock EXCEPT ![f] = p] ELSE flock
       /\ lock' = IF found THEN lock ELSE Unlocked(p)
       /\ UNCHANGED <<db, disk, enabled>>

\* Then the file row, FOR UPDATE, and store.exists; either may be gone.
RecordRow(p) ==
    LET f == file[p]
        found == f \in rows /\ Exists(sha[p])
    IN /\ pc[p] = "row"
       /\ flock[f] = NoProc
       /\ Step(p, "row", IF found THEN "record" ELSE "idle")
       /\ flock' = IF found THEN [flock EXCEPT ![f] = p] ELSE flock
       /\ lock' = IF found THEN lock ELSE Unlocked(p)
       /\ UNCHANGED <<db, disk, enabled>>

\* Mutant: a download that finds the Blob row does not count its own reference.
RecordedRefsUncounted(p) == IF seen[p] = Absent THEN 1 ELSE refs[sha[p]]

\* The refcount _record leaves: a new row starts at one, a file that did not
\* point at the blob yet adds one.
RecordedRefs(p) ==
    IF seen[p] = Absent THEN 1
    ELSE IF ptr[file[p]] # sha[p] THEN refs[sha[p]] + 1 ELSE refs[sha[p]]

\* Mutant: the old row goes one reference too early.
ReplacedGoneEarly(p) == {s \in {ptr[file[p]]} \cap known : ptr[file[p]] # sha[p] /\ refs[s] - 1 <= 1}

\* The row of a stale pointer to other bytes, which _record lets go of.
Replaced(p) == IF ptr[file[p]] # sha[p] THEN {ptr[file[p]]} \cap known ELSE {}
ReplacedGone(p) == {s \in Replaced(p) : refs[s] - 1 <= 0}

\* The writes and the commit.  An INSERT that meets a row committed since the
\* read violates the primary key, and the transaction is rolled back.
RecordCommit(p) ==
    LET s == sha[p]
        f == file[p]
    IN /\ pc[p] = "record"
       /\ \A t \in {s} \cup Replaced(p) : lock[t] \in {NoProc, p}
       /\ Step(p, "record", "idle")
       /\ EndTransaction(p)
       /\ IF seen[p] = Absent /\ s \in known
          THEN UNCHANGED <<ptr, known, refs, recent>>
          ELSE /\ ptr' = [ptr EXCEPT ![f] = s]
               /\ known' = (known \ ReplacedGone(p)) \cup {s}
               /\ refs' = [t \in Shas |-> IF t = s THEN RecordedRefs(p)
                                         ELSE IF t \in ReplacedGone(p) THEN 0
                                         ELSE IF t \in Replaced(p) THEN refs[t] - 1 ELSE refs[t]]
               /\ recent' = IF seen[p] = Absent \/ ptr[f] # s THEN recent \cup {s} ELSE recent
       /\ UNCHANGED <<rows, disk, enabled>>

-----------------------------------------------------------------------------
(* purge_file, called with a file row loaded earlier in the request.        *)

PurgeLoad(p, f) ==
    /\ f \in rows
    /\ ptr[f] # NoSha
    /\ Begin(p, "purge", f, ptr[f])
    /\ UNCHANGED <<db, disk, lock, flock, enabled>>

\* The session flushes the cleared pointer before it reads the Blob row; a
\* file row that has gone makes the UPDATE stale and fails the request.
PurgeFlush(p) ==
    LET f == file[p]
    IN /\ pc[p] = "purge"
       /\ flock[f] = NoProc
       /\ Step(p, "purge", IF f \in rows THEN "flushed" ELSE "idle")
       /\ flock' = IF f \in rows THEN [flock EXCEPT ![f] = p] ELSE flock
       /\ UNCHANGED <<db, disk, lock, enabled>>

\* Mutant: off by one.
BelowLastReference(s) == refs[s] - 1 < 0

\* purge_file's `refcount <= 0` after the decrement.
LastReference(s) == refs[s] - 1 <= 0

\* The Blob row is locked; on its last reference the file goes at once.
PurgeLock(p) ==
    LET s == sha[p]
    IN /\ Step(p, "flushed", "purged")
       /\ s \in known => Free(s)
       /\ lock' = IF s \in known THEN Locked(p, s) ELSE lock
       /\ disk' = IF s \in known /\ LastReference(s) THEN [disk EXCEPT ![s] = "none"] ELSE disk
       /\ UNCHANGED <<db, flock, enabled>>

\* The caller's commit; unpublish and prune delete the file row as well.
PurgeCommit(p) ==
    LET s == sha[p]
        held == lock[s] = p
    IN /\ Step(p, "purged", "idle")
       /\ EndTransaction(p)
       /\ ptr' = [ptr EXCEPT ![file[p]] = NoSha]
       /\ rows' \in {rows, rows \ {file[p]}}
       /\ known' = IF held /\ LastReference(s) THEN known \ {s} ELSE known
       /\ refs' = IF held THEN [refs EXCEPT ![s] = IF LastReference(s) THEN 0 ELSE @ - 1] ELSE refs
       /\ UNCHANGED <<recent, disk, enabled>>

\* PostgreSQL ends a deadlock between a download that holds the Blob row and
\* a purge that holds the file row by failing one of them.
Deadlocked(d, p) ==
    /\ pc[d] = "row" /\ pc[p] = "flushed"
    /\ flock[file[d]] = p /\ lock[sha[p]] = d

DeadlockVictim(p) ==
    /\ \E q \in Procs : Deadlocked(p, q) \/ Deadlocked(q, p)
    /\ Step(p, pc[p], "idle")
    /\ EndTransaction(p)
    /\ UNCHANGED <<db, disk, enabled>>

\* The row goes with its deleted upstream (retire_upstream_content).  The
\* refcount stays; the orphan sweep releases the bytes.
RetireFile(f) ==
    /\ f \in rows \cap Upstreamed
    /\ flock[f] = NoProc
    /\ ptr[f] # NoSha => refs[ptr[f]] < MaxRefs
    /\ rows' = rows \ {f}
    /\ UNCHANGED <<ptr, known, refs, recent, disk, lock, flock, enabled, local>>

\* The one-time npm case repair at startup deletes a mis-cased row and counts
\* its reference down, but leaves the Blob row to the orphan sweep.
RepairFile(f) ==
    /\ f \in rows \cap Miscased
    /\ flock[f] = NoProc
    /\ ptr[f] \in known => Free(ptr[f])
    /\ rows' = rows \ {f}
    /\ refs' = [s \in Shas |-> IF s \in known /\ s = ptr[f] THEN refs[s] - 1 ELSE refs[s]]
    /\ UNCHANGED <<ptr, known, recent, disk, lock, flock, enabled, local>>

-----------------------------------------------------------------------------
(* Housekeeping.                                                            *)

\* collect_orphan_blobs: DELETE the row if nothing points at it, then the file.
CollectDelete(p, s) ==
    /\ s \in known
    /\ Free(s)
    /\ ~Referenced(s)
    /\ Begin(p, "collected", NoFile, s)
    /\ lock' = Locked(p, s)
    /\ disk' = [disk EXCEPT ![s] = "none"]
    /\ UNCHANGED <<db, flock, enabled>>

CollectCommit(p) ==
    /\ Step(p, "collected", "idle")
    /\ known' = known \ {sha[p]}
    /\ refs' = [refs EXCEPT ![sha[p]] = 0]
    /\ lock' = Unlocked(p)
    /\ UNCHANGED <<rows, ptr, recent, disk, flock, enabled>>

\* Mutant: the sweep goes by rows, and never sees a file without one.
SweepScanRecorded(p, s) ==
    /\ disk[s] = "old"
    /\ s \in known
    /\ Begin(p, "sweep", NoFile, s)
    /\ UNCHANGED <<db, disk, lock, flock, enabled>>

\* sweep_orphan_files: an old file with no row, re-checked before it goes.
SweepScan(p, s) ==
    /\ disk[s] = "old"
    /\ s \notin known
    /\ Begin(p, "sweep", NoFile, s)
    /\ UNCHANGED <<db, disk, lock, flock, enabled>>

DeleteIfOlder(p) ==
    /\ Step(p, "sweep", "idle")
    /\ disk' = IF disk[sha[p]] = "old" THEN [disk EXCEPT ![sha[p]] = "none"] ELSE disk
    /\ UNCHANGED <<db, lock, flock, enabled>>

\* evict_to: lock and re-check a victim, null its pointers, delete its row and
\* commit; the file goes only afterwards.
EvictRows(p, s) ==
    /\ s \in known \ recent
    /\ Free(s)
    /\ \A f \in PointingAt(s) : flock[f] = NoProc
    /\ ~HasLocalReference(s)
    /\ Begin(p, "unlink", NoFile, s)
    /\ ptr' = [f \in Files |-> IF f \in rows /\ ptr[f] = s THEN NoSha ELSE ptr[f]]
    /\ known' = known \ {s}
    /\ refs' = [refs EXCEPT ![s] = 0]
    /\ UNCHANGED <<rows, recent, disk, lock, flock, enabled>>

EvictUnlink(p) ==
    /\ Step(p, "unlink", "idle")
    /\ disk' = [disk EXCEPT ![sha[p]] = "none"]
    /\ UNCHANGED <<db, lock, flock, enabled>>

-----------------------------------------------------------------------------
(* npm publish: put_bytes, then an unlocked read of the Blob row, then the  *)
(* flush and commit.                                                        *)

NpmStore(p, f) ==
    /\ f \in Local \ rows
    /\ \A q \in Procs : pc[q] # "idle" => file[q] # f
    /\ \E s \in Contents[f] :
          /\ Begin(p, "stored", f, s)
          /\ disk' = [disk EXCEPT ![s] = "fresh"]
    /\ UNCHANGED <<db, lock, flock, enabled>>

NpmReadBlob(p) ==
    /\ pc[p] = "stored" => refs[sha[p]] < MaxRefs
    /\ ReadRefcount(p, "stored", "publish")
    /\ UNCHANGED <<db, disk, lock, flock, enabled>>

\* The rows a publish commits, given the refcount it read.
PublishRows(p) ==
    LET s == sha[p]
    IN /\ rows' = rows \cup {file[p]}
       /\ ptr' = [ptr EXCEPT ![file[p]] = s]
       /\ known' = known \cup {s}
       /\ refs' = [refs EXCEPT ![s] = IF seen[p] = Absent THEN 1 ELSE seen[p] + 1]
       /\ recent' = IF seen[p] = Absent THEN recent \cup {s} ELSE recent

\* An INSERT of a key that exists, or an UPDATE of a row that is gone.
Clash(p) == (sha[p] \in known) # (seen[p] # Absent)

NpmCommit(p) ==
    /\ Step(p, "publish", "idle")
    /\ Free(sha[p])
    /\ IF Clash(p) THEN UNCHANGED db ELSE PublishRows(p)
    /\ UNCHANGED <<disk, lock, flock, enabled>>

-----------------------------------------------------------------------------
(* PyPI upload: the Blob row is read and flushed first, the bytes land just *)
(* before the commit and are taken back if that fails.                      *)

UploadRead(p, f) ==
    /\ f \in Local \ rows
    /\ \A q \in Procs : pc[q] # "idle" => file[q] # f
    /\ pc[p] = "idle"
    /\ Goto(p, "flush")
    /\ file' = [file EXCEPT ![p] = f]
    /\ \E s \in Contents[f] :
          /\ refs[s] < MaxRefs
          /\ sha' = [sha EXCEPT ![p] = s]
          /\ seen' = [seen EXCEPT ![p] = IF s \in known THEN refs[s] ELSE Absent]
    /\ UNCHANGED <<db, disk, lock, flock, enabled>>

\* record_audit flushes: the INSERT or UPDATE takes the row.
UploadFlush(p) ==
    /\ pc[p] = "flush"
    /\ Free(sha[p])
    /\ IF Clash(p)
       THEN Step(p, "flush", "idle") /\ UNCHANGED lock
       ELSE Step(p, "flush", "put") /\ lock' = Locked(p, sha[p])
    /\ UNCHANGED <<db, disk, flock, enabled>>

\* put_bytes; "created" remembers not already_existed.
UploadStore(p) ==
    /\ Step(p, "put", IF Exists(sha[p]) THEN "commit" ELSE "created")
    /\ disk' = [disk EXCEPT ![sha[p]] = "fresh"]
    /\ UNCHANGED <<db, lock, flock, enabled>>

UploadCommit(p) ==
    /\ pc[p] \in {"commit", "created"}
    /\ Step(p, pc[p], "idle")
    /\ PublishRows(p)
    /\ lock' = Unlocked(p)
    /\ UNCHANGED <<disk, flock, enabled>>

\* _discard_unreferenced_blob, after the rollback.
UploadDiscard(p) ==
    /\ Step(p, "discard", "idle")
    /\ disk' = IF sha[p] \notin known THEN [disk EXCEPT ![sha[p]] = "none"] ELSE disk
    /\ UNCHANGED <<db, lock, flock, enabled>>

\* A commit that fails, or a request that dies with its transaction open:
\* the database keeps nothing, the disk keeps what was done to it.
Abort(p) ==
    /\ MayAbort
    /\ pc[p] \in {"record", "purged", "collected", "publish", "commit", "created"}
    /\ Step(p, pc[p], IF pc[p] = "created" THEN "discard" ELSE "idle")
    /\ EndTransaction(p)
    /\ UNCHANGED <<db, disk, enabled>>

-----------------------------------------------------------------------------
(* Reads, time and the administrator.                                       *)

\* stream_artifact of a cached file.
StreamCached(f) ==
    /\ f \in rows
    /\ ptr[f] \in known \ recent
    /\ Free(ptr[f])
    /\ Exists(ptr[f])
    /\ recent' = recent \cup {ptr[f]}
    /\ UNCHANGED <<rows, ptr, known, refs, disk, lock, flock, enabled, local>>

\* EVICT_GRACE passes without a read.
Cool(s) ==
    /\ s \in recent
    /\ recent' = recent \ {s}
    /\ UNCHANGED <<rows, ptr, known, refs, disk, lock, flock, enabled, local>>

\* ORPHAN_FILE_GRACE_SECONDS pass.  No write stays between its rename and its
\* commit that long, and a sweep's cutoff is fixed when it starts.
Age(s) ==
    /\ disk[s] = "fresh"
    /\ \A p \in Writers : pc[p] # "idle" => sha[p] # s
    /\ \A p \in Sweepers : pc[p] = "idle"
    /\ disk' = [disk EXCEPT ![s] = "old"]
    /\ UNCHANGED <<db, lock, flock, enabled, local>>

ToggleUpstream ==
    /\ enabled' = ~enabled
    /\ UNCHANGED <<db, disk, lock, flock, local>>

Fill(p) == (\E f \in Upstreamed : OpenFill(p, f)) \/ Adopt(p) \/ RecordBlob(p) \/ RecordRow(p) \/ RecordCommit(p)
Purge(p) == (\E f \in Files : PurgeLoad(p, f)) \/ PurgeFlush(p) \/ PurgeLock(p) \/ PurgeCommit(p)
Collect(p) == (\E s \in Shas : CollectDelete(p, s)) \/ CollectCommit(p)
Sweep(p) == (\E s \in Shas : SweepScan(p, s)) \/ DeleteIfOlder(p)
Evict(p) == (\E s \in Shas : EvictRows(p, s)) \/ EvictUnlink(p)
Publish(p) == (\E f \in Local : NpmStore(p, f)) \/ NpmReadBlob(p) \/ NpmCommit(p)
Upload(p) ==
    \/ \E f \in Local : UploadRead(p, f)
    \/ UploadFlush(p) \/ UploadStore(p) \/ UploadCommit(p) \/ UploadDiscard(p)
Environment ==
    \/ \E f \in Files : RetireFile(f) \/ RepairFile(f) \/ StreamCached(f)
    \/ \E s \in Shas : Cool(s) \/ Age(s)
    \/ ToggleUpstream

Next ==
    \/ \E p \in Fills : Fill(p)
    \/ \E p \in Purgers : Purge(p)
    \/ \E p \in Collectors : Collect(p)
    \/ \E p \in Sweepers : Sweep(p)
    \/ \E p \in Evictors : Evict(p)
    \/ \E p \in Publishers : Publish(p)
    \/ \E p \in Uploaders : Upload(p)
    \/ \E p \in Procs : Abort(p) \/ DeadlockVictim(p)
    \/ Environment

Spec == Init /\ [][Next]_vars

\* The next step of an operation that has begun.
Proceed(p) ==
    \/ Adopt(p) \/ RecordBlob(p) \/ RecordRow(p) \/ RecordCommit(p)
    \/ PurgeFlush(p) \/ PurgeLock(p) \/ PurgeCommit(p)
    \/ CollectCommit(p) \/ DeleteIfOlder(p) \/ EvictUnlink(p)
    \/ NpmReadBlob(p) \/ NpmCommit(p)
    \/ UploadFlush(p) \/ UploadStore(p) \/ UploadCommit(p) \/ UploadDiscard(p)

\* What has begun goes on, PostgreSQL resolves a deadlock, time passes and the
\* sweep runs every hour; nobody has to request, purge or publish anything.
Fairness ==
    /\ \A p \in Procs : WF_vars(Proceed(p))
    /\ WF_vars(\E p \in Procs : DeadlockVictim(p))
    /\ \A p \in Sweepers : WF_vars(Sweep(p))
    /\ \A s \in Shas : WF_vars(Age(s))

LiveSpec == Spec /\ Fairness

-----------------------------------------------------------------------------
(* Properties.                                                              *)

\* Every variable has its type.
TypeOK ==
    /\ rows \subseteq Files
    /\ ptr \in [Files -> Shas \cup {NoSha}]
    /\ known \subseteq Shas
    /\ refs \in [Shas -> Int]
    /\ recent \subseteq Shas
    /\ disk \in [Shas -> {"none", "fresh", "old"}]
    /\ lock \in [Shas -> Procs \cup {NoProc}]
    /\ flock \in [Files -> Procs \cup {NoProc}]
    /\ enabled \in BOOLEAN
    /\ pc \in [Procs -> {"idle", "adopt", "lock", "row", "record", "purge", "flushed", "purged", "collected", "sweep",
                        "unlink", "stored", "publish", "flush", "put", "commit", "created", "discard"}]
    /\ file \in [Procs -> Files \cup {NoFile}]
    /\ sha \in [Procs -> Shas \cup {NoSha}]
    /\ seen \in [Procs -> Int]

\* A committed pointer of one of the files F leads to a file on disk; the one
\* exception is the file whose purge has unlinked it and is about to commit.
PointersHaveFilesIn(F) ==
    \A f \in rows \cap F :
        ptr[f] # NoSha =>
            \/ Exists(ptr[f])
            \/ \E p \in Purgers : pc[p] = "purged" /\ lock[ptr[f]] = p /\ file[p] = f

\* Files whose bytes no other file can have.
Unshared == {f \in Files : \A g \in Files \ {f} : Contents[f] \cap Contents[g] = {}}

\* No committed package_files row of such a file points at a blob file that is
\* gone, whatever the order in which downloads record, requests purge and the
\* collector and the orphan-file sweep run (_record, purge_file and their row
\* lock).
PointersHaveFiles == PointersHaveFilesIn(Unshared)

\* The same for files that share their bytes.
SharedBytesKept == PointersHaveFilesIn(Files \ Unshared)

\* The same for locally published files, whose bytes exist nowhere else.
PublishedBytesKept == PointersHaveFilesIn(Local)

\* A digest that rows point at has a Blob row that counts at least that many:
\* fewer would let purge_file unlink bytes another file still needs.
RefcountCoversPointers ==
    \A s \in Shas : refs[s] >= Cardinality(PointingAt(s))

\* Only a purge of the file itself takes the pointer of a published file, or
\* of a file whose upstream is disabled, away: eviction never does.
EvictionSparesIrreplaceable ==
    [][\A f \in rows \cap rows' :
         (f \in Local \/ ~enabled) /\ ptr[f] # NoSha /\ ptr'[f] = NoSha
            => \E p \in Purgers : pc[p] = "purged" /\ file[p] = f]_vars

\* A refcount that reaches zero takes its Blob row with it, so a committed row
\* always counts at least one reference, with every writer and remover at work
\* (and no mis-cased row left for the startup repair).
NoZeroRefcount == \A s \in known : refs[s] >= 1

\* A file no row records and nobody is about to record.
Orphaned(s) ==
    Exists(s) /\ s \notin known /\ \A p \in Writers : pc[p] # "idle" => sha[p] # s

\* A blob file left behind by a failed publish, a purge or a lost row is not
\* left for ever: it is swept away, or somebody needs its bytes again
\* (sweep_orphan_files).
OrphanFileRemoved == \A s \in Shas : Orphaned(s) ~> ~Orphaned(s)
=============================================================================
