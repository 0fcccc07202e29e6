-------------------------- MODULE BlobStoreProofs --------------------------
(***************************************************************************)
(* What BlobStore guarantees for any number of files, digests, downloads,  *)
(* purges, publishers and housekeeping passes.                             *)
(***************************************************************************)
EXTENDS BlobStore, FiniteSetTheorems, TLAPS

\* Steps at which a process works on a package_files row.
FileSteps == {"adopt", "lock", "row", "record", "purge", "flushed", "purged", "stored", "publish", "flush", "put",
              "commit", "created"}

\* A process that is not idle works on a digest, and on a file where it has to.
Busy ==
    \A p \in Procs :
        /\ pc[p] # "idle" => sha[p] \in Shas
        /\ pc[p] \in FileSteps => file[p] \in Files

TypeInv == TypeOK /\ Busy

\* The store begins empty.
LEMMA InitTyped == Init => TypeInv
BY ContentAssumption, SentinelAssumption DEF Init, TypeInv, TypeOK, Busy, FileSteps, Absent, Files

\* Every step leaves rows, counts and files of their kinds.
LEMMA StepTyped ==
    TypeInv /\ [Next]_vars => TypeInv'
<1> SUFFICES ASSUME TypeInv, [Next]_vars PROVE TypeInv'
  OBVIOUS
<1> USE ContentAssumption, SentinelAssumption DEF TypeInv, TypeOK, Busy, FileSteps, Absent, Goto, db, local,
       Files, Procs, Writers
<1>1. ASSUME NEW p \in Fills, Fill(p) PROVE TypeInv'
  <2>1. ASSUME NEW f \in Upstreamed, OpenFill(p, f) PROVE TypeInv'
    BY <2>1 DEF OpenFill, Begin
  <2>2. CASE Adopt(p)
    BY <2>2 DEF Adopt, Step
  <2>3. CASE RecordBlob(p)
    BY <2>3 DEF RecordBlob, Locked
  <2>4. CASE RecordRow(p)
    BY <2>4 DEF RecordRow, Step, Unlocked
  <2>5. CASE RecordCommit(p)
    BY <2>5 DEF RecordCommit, Step, Unlocked, EndTransaction, RecordedRefs, Replaced, ReplacedGone
  <2> QED
    BY <1>1, <2>1, <2>2, <2>3, <2>4, <2>5 DEF Fill
<1>2. ASSUME NEW p \in Purgers, Purge(p) PROVE TypeInv'
  <2>1. ASSUME NEW f \in Files, PurgeLoad(p, f) PROVE TypeInv'
    BY <2>1 DEF PurgeLoad, Begin
  <2>2. CASE PurgeFlush(p)
    BY <2>2 DEF PurgeFlush, Step
  <2>3. CASE PurgeLock(p)
    BY <2>3 DEF PurgeLock, Step, Locked
  <2>4. CASE PurgeCommit(p)
    BY <2>4 DEF PurgeCommit, Step, EndTransaction, Unlocked
  <2> QED
    BY <1>2, <2>1, <2>2, <2>3, <2>4 DEF Purge
<1>3. ASSUME NEW p \in Collectors, Collect(p) PROVE TypeInv'
  BY <1>3 DEF Collect, CollectDelete, CollectCommit, Begin, Step, Locked, Unlocked
<1>4. ASSUME NEW p \in Sweepers, Sweep(p) PROVE TypeInv'
  BY <1>4 DEF Sweep, SweepScan, DeleteIfOlder, Begin, Step
<1>5. ASSUME NEW p \in Evictors, Evict(p) PROVE TypeInv'
  BY <1>5 DEF Evict, EvictRows, EvictUnlink, Begin, Step
<1>6. ASSUME NEW p \in Publishers, Publish(p) PROVE TypeInv'
  <2>1. ASSUME NEW f \in Local, NpmStore(p, f) PROVE TypeInv'
    BY <2>1 DEF NpmStore, Begin
  <2>2. CASE NpmReadBlob(p)
    BY <2>2 DEF NpmReadBlob, ReadRefcount
  <2>3. CASE NpmCommit(p)
    BY <2>3 DEF NpmCommit, Step, PublishRows
  <2> QED
    BY <1>6, <2>1, <2>2, <2>3 DEF Publish
<1>7. ASSUME NEW p \in Uploaders, Upload(p) PROVE TypeInv'
  <2>1. ASSUME NEW f \in Local, UploadRead(p, f) PROVE TypeInv'
    BY <2>1 DEF UploadRead
  <2>2. CASE UploadFlush(p)
    BY <2>2 DEF UploadFlush, Step, Locked
  <2>3. CASE UploadStore(p)
    BY <2>3 DEF UploadStore, Step
  <2>4. CASE UploadCommit(p)
    BY <2>4 DEF UploadCommit, Step, PublishRows, Unlocked
  <2>5. CASE UploadDiscard(p)
    BY <2>5 DEF UploadDiscard, Step
  <2> QED
    BY <1>7, <2>1, <2>2, <2>3, <2>4, <2>5 DEF Upload
<1>8. ASSUME NEW p \in Procs, Abort(p) \/ DeadlockVictim(p) PROVE TypeInv'
  <2>1. CASE Abort(p)
    BY <2>1 DEF Abort, Step, EndTransaction, Unlocked
  <2>2. CASE DeadlockVictim(p)
    BY <2>2 DEF DeadlockVictim, Step, EndTransaction, Unlocked
  <2> QED
    BY <1>8, <2>1, <2>2
<1>9. CASE Environment
  <2>1. ASSUME NEW f \in Files, RetireFile(f) \/ RepairFile(f) \/ StreamCached(f) PROVE TypeInv'
    BY <2>1 DEF RetireFile, RepairFile, StreamCached
  <2>2. ASSUME NEW s \in Shas, Cool(s) \/ Age(s) PROVE TypeInv'
    BY <2>2 DEF Cool, Age
  <2>3. CASE ToggleUpstream
    BY <2>3 DEF ToggleUpstream
  <2> QED
    BY <1>9, <2>1, <2>2, <2>3 DEF Environment
<1>10. CASE UNCHANGED vars
  BY <1>10 DEF vars
<1> QED
  BY <1>1, <1>2, <1>3, <1>4, <1>5, <1>6, <1>7, <1>8, <1>9, <1>10 DEF Next

\* Type correctness of the store, and with it that no process commits, unlinks
\* or locks anything but a real digest and a real file.
THEOREM Typed == Spec => []TypeOK
<1>1. Spec => []TypeInv
  BY InitTyped, StepTyped, PTL DEF Spec
<1> QED
  BY <1>1, PTL DEF TypeInv

\* Eviction never takes the pointer of a published file, or of one whose
\* upstream is disabled: only a purge of that very file does.
THEOREM EvictionSpares == Spec => EvictionSparesIrreplaceable
<1> DEFINE Spares ==
       \A f \in rows \cap rows' :
         (f \in Local \/ ~enabled) /\ ptr[f] # NoSha /\ ptr'[f] = NoSha
            => \E p \in Purgers : pc[p] = "purged" /\ file[p] = f
<1>1. TypeInv /\ [Next]_vars => [Spares]_vars
  <2> SUFFICES ASSUME TypeInv, Next PROVE Spares
    OBVIOUS
  <2> SUFFICES ASSUME NEW f \in rows \cap rows', f \in Local \/ ~enabled, ptr[f] # NoSha, ptr'[f] = NoSha
               PROVE  \E p \in Purgers : pc[p] = "purged" /\ file[p] = f
    OBVIOUS
  <2> USE SentinelAssumption DEF TypeInv, TypeOK, Busy, FileSteps, Files, db
  <2>1. ASSUME NEW p \in Fills, Fill(p) PROVE FALSE
    <3>1. CASE RecordCommit(p)
      BY <2>1, <3>1 DEF RecordCommit, Procs, Writers
    <3> QED
      BY <2>1, <3>1 DEF Fill, OpenFill, Adopt, RecordBlob, RecordRow
  <2>2. ASSUME NEW p \in Purgers, Purge(p) PROVE pc[p] = "purged" /\ file[p] = f
    BY <2>2 DEF Purge, PurgeLoad, PurgeFlush, PurgeLock, PurgeCommit, Step
  <2>3. ASSUME NEW p \in Evictors, Evict(p) PROVE FALSE
    BY <2>3 DEF Evict, EvictRows, EvictUnlink, HasLocalReference, PointingAt
  <2>4. ASSUME NEW p \in Publishers, Publish(p) PROVE FALSE
    BY <2>4 DEF Publish, NpmStore, NpmReadBlob, NpmCommit, PublishRows, Step, Procs, Writers
  <2>5. ASSUME NEW p \in Uploaders, Upload(p) PROVE FALSE
    BY <2>5 DEF Upload, UploadRead, UploadFlush, UploadStore, UploadCommit, UploadDiscard, PublishRows, Procs, Writers
  <2>6. ASSUME NEW p \in Collectors, Collect(p) PROVE FALSE
    BY <2>6 DEF Collect, CollectDelete, CollectCommit
  <2>7. ASSUME NEW p \in Sweepers, Sweep(p) PROVE FALSE
    BY <2>7 DEF Sweep, SweepScan, DeleteIfOlder
  <2>8. ASSUME NEW p \in Procs, Abort(p) \/ DeadlockVictim(p) PROVE FALSE
    BY <2>8 DEF Abort, DeadlockVictim
  <2>9. CASE Environment
    BY <2>9 DEF Environment, RetireFile, RepairFile, StreamCached, Cool, Age, ToggleUpstream
  <2> QED
    BY <2>1, <2>2, <2>3, <2>4, <2>5, <2>6, <2>7, <2>8, <2>9 DEF Next
<1> QED
  BY <1>1, InitTyped, StepTyped, PTL DEF Spec, EvictionSparesIrreplaceable

-----------------------------------------------------------------------------
(* Who holds which row.                                                     *)

\* A download about to commit and a purge past its flush hold their file row,
\* so it exists; a download that found the Blob row holds it, so it stays; the
\* collector holds the row it has deleted.
HeldInv ==
    \A p \in Procs :
        /\ pc[p] \in {"record", "flushed", "purged"} => file[p] \in rows /\ flock[file[p]] = p
        /\ pc[p] \in {"row", "record"} /\ seen[p] # Absent => sha[p] \in known /\ lock[sha[p]] = p
        /\ pc[p] = "collected" => lock[sha[p]] = p

\* Whoever works on a row keeps it locked (SELECT ... FOR UPDATE).
LEMMA StepHeld ==
    TypeInv /\ HeldInv /\ [Next]_vars => HeldInv'
<1> SUFFICES ASSUME TypeInv, HeldInv, [Next]_vars PROVE HeldInv'
  OBVIOUS
<1> USE ContentAssumption, SentinelAssumption
    DEF TypeInv, TypeOK, Busy, HeldInv, FileSteps, Goto, db, local, Files, Procs, Writers, Free
<1>1. ASSUME NEW p \in Fills, Fill(p) PROVE HeldInv'
  <2>1. ASSUME NEW f \in Upstreamed, OpenFill(p, f) PROVE HeldInv'
    BY <2>1 DEF OpenFill, Begin
  <2>2. CASE Adopt(p)
    BY <2>2 DEF Adopt, Step
  <2>3. CASE RecordBlob(p)
    BY <2>3 DEF RecordBlob, Locked
  <2>4. CASE RecordRow(p)
    BY <2>4 DEF RecordRow, Step, Unlocked
  <2>5. CASE RecordCommit(p)
    BY <2>5 DEF RecordCommit, Step, Unlocked, EndTransaction, Replaced, ReplacedGone
  <2> QED
    BY <1>1, <2>1, <2>2, <2>3, <2>4, <2>5 DEF Fill
<1>2. ASSUME NEW p \in Purgers, Purge(p) PROVE HeldInv'
  <2>1. ASSUME NEW f \in Files, PurgeLoad(p, f) PROVE HeldInv'
    BY <2>1 DEF PurgeLoad, Begin
  <2>2. CASE PurgeFlush(p)
    BY <2>2 DEF PurgeFlush, Step
  <2>3. CASE PurgeLock(p)
    BY <2>3 DEF PurgeLock, Step, Locked
  <2>4. CASE PurgeCommit(p)
    BY <2>4 DEF PurgeCommit, Step, EndTransaction, Unlocked
  <2> QED
    BY <1>2, <2>1, <2>2, <2>3, <2>4 DEF Purge
<1>3. ASSUME NEW p \in Collectors, Collect(p) PROVE HeldInv'
  <2>1. ASSUME NEW s \in Shas, CollectDelete(p, s) PROVE HeldInv'
    BY <2>1 DEF CollectDelete, Begin, Locked
  <2>2. CASE CollectCommit(p)
    BY <2>2 DEF CollectCommit, Step, Unlocked
  <2> QED
    BY <1>3, <2>1, <2>2 DEF Collect
<1>4. ASSUME NEW p \in Sweepers, Sweep(p) PROVE HeldInv'
  BY <1>4 DEF Sweep, SweepScan, DeleteIfOlder, Begin, Step
<1>5. ASSUME NEW p \in Evictors, Evict(p) PROVE HeldInv'
  BY <1>5 DEF Evict, EvictRows, EvictUnlink, Begin, Step
<1>6. ASSUME NEW p \in Publishers, Publish(p) PROVE HeldInv'
  BY <1>6 DEF Publish, NpmStore, NpmReadBlob, NpmCommit, Begin, ReadRefcount, Step, PublishRows
<1>7. ASSUME NEW p \in Uploaders, Upload(p) PROVE HeldInv'
  <2>1. ASSUME NEW f \in Local, UploadRead(p, f) PROVE HeldInv'
    BY <2>1 DEF UploadRead
  <2>2. CASE UploadFlush(p)
    BY <2>2 DEF UploadFlush, Step, Locked
  <2>3. CASE UploadStore(p)
    BY <2>3 DEF UploadStore, Step
  <2>4. CASE UploadCommit(p)
    BY <2>4 DEF UploadCommit, Step, PublishRows, Unlocked
  <2>5. CASE UploadDiscard(p)
    BY <2>5 DEF UploadDiscard, Step
  <2> QED
    BY <1>7, <2>1, <2>2, <2>3, <2>4, <2>5 DEF Upload
<1>8. ASSUME NEW p \in Procs, Abort(p) \/ DeadlockVictim(p) PROVE HeldInv'
  <2>1. CASE Abort(p)
    BY <2>1 DEF Abort, Step, EndTransaction, Unlocked
  <2>2. CASE DeadlockVictim(p)
    BY <2>2 DEF DeadlockVictim, Step, EndTransaction, Unlocked
  <2> QED
    BY <1>8, <2>1, <2>2
<1>9. CASE Environment
  BY <1>9 DEF Environment, RetireFile, RepairFile, StreamCached, Cool, Age, ToggleUpstream
<1>10. CASE UNCHANGED vars
  BY <1>10 DEF vars
<1> QED
  BY <1>1, <1>2, <1>3, <1>4, <1>5, <1>6, <1>7, <1>8, <1>9, <1>10 DEF Next

\* So the locks always say who is at work.
LEMMA Held == Spec => [](TypeInv /\ HeldInv)
<1>1. Init => HeldInv
  BY DEF Init, HeldInv
<1> QED
  BY <1>1, InitTyped, StepTyped, StepHeld, PTL DEF Spec

-----------------------------------------------------------------------------
(* Reference counts.                                                        *)

CountInv ==
    /\ NoZeroRefcount
    /\ \A s \in Shas : refs[s] >= 0
    /\ \A p \in Procs : seen[p] >= Absent

\* No step lets a count fall to zero and stay (put_file, release_blob).
LEMMA StepCount ==
    ASSUME Miscased = {}
    PROVE  TypeInv /\ HeldInv /\ CountInv /\ [Next]_vars => CountInv'
<1> SUFFICES ASSUME TypeInv, HeldInv, CountInv, [Next]_vars PROVE CountInv'
  OBVIOUS
<1> USE SentinelAssumption
    DEF TypeInv, TypeOK, Busy, HeldInv, CountInv, NoZeroRefcount, FileSteps, Goto, db, local, Files, Procs, Writers,
        Absent
<1>1. ASSUME NEW p \in Fills, Fill(p) PROVE CountInv'
  <2>1. CASE RecordCommit(p)
    BY <2>1 DEF RecordCommit, RecordedRefs, Replaced, ReplacedGone, Step
  <2> QED
    BY <1>1, <2>1 DEF Fill, OpenFill, Adopt, RecordBlob, RecordRow, Begin, Step
<1>2. ASSUME NEW p \in Purgers, Purge(p) PROVE CountInv'
  <2>1. CASE PurgeCommit(p)
    BY <2>1 DEF PurgeCommit, LastReference, Step
  <2> QED
    BY <1>2, <2>1 DEF Purge, PurgeLoad, PurgeFlush, PurgeLock, Begin, Step
<1>3. ASSUME NEW p \in Collectors, Collect(p) PROVE CountInv'
  BY <1>3 DEF Collect, CollectDelete, CollectCommit, Begin, Step
<1>4. ASSUME NEW p \in Sweepers, Sweep(p) PROVE CountInv'
  BY <1>4 DEF Sweep, SweepScan, DeleteIfOlder, Begin, Step
<1>5. ASSUME NEW p \in Evictors, Evict(p) PROVE CountInv'
  BY <1>5 DEF Evict, EvictRows, EvictUnlink, Begin, Step
<1>6. ASSUME NEW p \in Publishers, Publish(p) PROVE CountInv'
  BY <1>6 DEF Publish, NpmStore, NpmReadBlob, NpmCommit, Begin, ReadRefcount, Step, PublishRows
<1>7. ASSUME NEW p \in Uploaders, Upload(p) PROVE CountInv'
  BY <1>7 DEF Upload, UploadRead, UploadFlush, UploadStore, UploadCommit, UploadDiscard, Step, PublishRows
<1>8. ASSUME NEW p \in Procs, Abort(p) \/ DeadlockVictim(p) PROVE CountInv'
  BY <1>8 DEF Abort, DeadlockVictim, Step
<1>9. CASE Environment
  BY <1>9 DEF Environment, RetireFile, RepairFile, StreamCached, Cool, Age, ToggleUpstream
<1>10. CASE UNCHANGED vars
  BY <1>10 DEF vars
<1> QED
  BY <1>1, <1>2, <1>3, <1>4, <1>5, <1>6, <1>7, <1>8, <1>9, <1>10 DEF Next

\* With every writer and remover at work and any commit failing, a committed
\* Blob row counts at least one reference: purge_file, _record and the
\* publishers never leave a row that says nobody needs its bytes.
THEOREM NoZero ==
    ASSUME Miscased = {}
    PROVE  Spec => []NoZeroRefcount
<1>1. Init => CountInv
  BY DEF Init, CountInv, NoZeroRefcount, Absent
<1>2. TypeInv /\ HeldInv /\ CountInv /\ [Next]_vars => CountInv'
  BY StepCount
<1>3. CountInv => NoZeroRefcount
  BY DEF CountInv
<1> QED
  BY <1>1, <1>2, <1>3, Held, PTL DEF Spec

-----------------------------------------------------------------------------
(* Pointers and files, for a registry that only caches.                     *)

\* Sweepers, collectors and downloads are where they say they are.
RoleInv ==
    \A p \in Procs :
        /\ pc[p] \in {"adopt", "lock", "row", "record"} => p \in Fills /\ sha[p] \in Contents[file[p]]
        /\ pc[p] \in {"purge", "flushed", "purged"} => p \in Purgers /\ sha[p] \in Contents[file[p]]
        /\ pc[p] = "sweep" => p \in Sweepers
        /\ pc[p] \in {"idle", "adopt", "lock", "row", "record", "purge", "flushed", "purged", "collected", "sweep"}

\* A file points at its own digest, and does so exactly while that has a row.
OwnInv ==
    \A f \in rows :
        /\ ptr[f] # NoSha => ptr[f] \in Contents[f] /\ ptr[f] \in known
        /\ \A s \in Contents[f] : s \in known => ptr[f] = s

\* The file of a digest somebody is about to record is there and too young to
\* be swept; a digest being swept is unrecorded; one being collected is
\* nobody's; a purge past its lock holds the row if there is one.
ProgressInv ==
    \A p \in Procs :
        /\ pc[p] \in {"lock", "row", "record"} => disk[sha[p]] # "old"
        /\ pc[p] = "record" => Exists(sha[p])
        /\ pc[p] = "sweep" /\ disk[sha[p]] = "old" => sha[p] \notin known
        /\ pc[p] = "collected" => \A f \in rows : sha[p] \notin Contents[f]
        /\ pc[p] = "purged" /\ sha[p] \in known => lock[sha[p]] = p

CacheInv ==
    /\ RoleInv
    /\ OwnInv
    /\ ProgressInv
    /\ \A s \in known : refs[s] <= 1
    /\ PointersHaveFilesIn(Files)

\* With the cache alone at work, no step leaves a pointer to a file that is gone.
LEMMA StepCache ==
    ASSUME CacheOnly
    PROVE  TypeInv /\ HeldInv /\ CacheInv /\ [Next]_vars => CacheInv'
<1> SUFFICES ASSUME TypeInv, HeldInv, CacheInv, [Next]_vars PROVE CacheInv'
  OBVIOUS
<1> USE ContentAssumption, SentinelAssumption
    DEF CacheOnly, TypeInv, TypeOK, Busy, HeldInv, CacheInv, RoleInv, OwnInv, ProgressInv,
        PointersHaveFilesIn, FileSteps, Goto, db, local, Files, Procs, Writers, Exists, Free
<1>1. ASSUME NEW p \in Fills, Fill(p) PROVE CacheInv'
  <2>1. ASSUME NEW f \in Upstreamed, OpenFill(p, f) PROVE CacheInv'
    BY <2>1 DEF OpenFill, Begin
  <2>2. CASE Adopt(p)
    BY <2>2 DEF Adopt, Step
  <2>3. CASE RecordBlob(p)
    BY <2>3 DEF RecordBlob, Locked
  <2>4. CASE RecordRow(p)
    <3>1. RoleInv'
      BY <2>4 DEF RecordRow, Step, Unlocked
    <3>2. OwnInv'
      BY <2>4 DEF RecordRow, Step, Unlocked
    <3>3. ProgressInv'
      BY <2>4 DEF RecordRow, Step, Unlocked
    <3>4. (\A s \in known : refs[s] <= 1)'
      BY <2>4 DEF RecordRow, Step, Unlocked
    <3>5. PointersHaveFilesIn(Files)'
      BY <2>4 DEF RecordRow, Step, Unlocked
    <3> QED
      BY <3>1, <3>2, <3>3, <3>4, <3>5
  <2>5. CASE RecordCommit(p)
    <3>1. RoleInv'
      BY <2>5 DEF RecordCommit, Step, Unlocked, EndTransaction, RecordedRefs, Replaced, ReplacedGone
    <3>2. OwnInv'
      BY <2>5 DEF RecordCommit, Step, Unlocked, EndTransaction, RecordedRefs, Replaced, ReplacedGone
    <3>3. ProgressInv'
      BY <2>5 DEF RecordCommit, Step, Unlocked, EndTransaction, RecordedRefs, Replaced, ReplacedGone
    <3>4. (\A s \in known : refs[s] <= 1)'
      BY <2>5 DEF RecordCommit, Step, Unlocked, EndTransaction, RecordedRefs, Replaced, ReplacedGone
    <3>5. PointersHaveFilesIn(Files)'
      <4> SUFFICES ASSUME NEW f \in rows', ptr'[f] # NoSha, disk'[ptr'[f]] = "none"
                   PROVE  \E q \in Purgers : pc'[q] = "purged" /\ lock'[ptr'[f]] = q /\ file'[q] = f
        OBVIOUS
      <4>1. f \in rows /\ ptr'[f] = ptr[f] /\ disk[ptr[f]] = "none" /\ pc[p] = "record"
        BY <2>5 DEF RecordCommit, Step, Unlocked, EndTransaction, RecordedRefs, Replaced, ReplacedGone
      <4>2. PICK q \in Purgers : pc[q] = "purged" /\ lock[ptr[f]] = q /\ file[q] = f
        BY <4>1
      <4>3. q # p
        BY <2>5, <4>1, <4>2 DEF RecordCommit, Step, Unlocked, EndTransaction, RecordedRefs, Replaced, ReplacedGone
      <4>4. pc'[q] = "purged" /\ lock'[ptr'[f]] = q /\ file'[q] = f
        BY <2>5, <4>1, <4>2, <4>3 DEF RecordCommit, Step, Unlocked, EndTransaction, RecordedRefs, Replaced, ReplacedGone
      <4> QED
        BY <4>4
    <3> QED
      BY <3>1, <3>2, <3>3, <3>4, <3>5
  <2> QED
    BY <1>1, <2>1, <2>2, <2>3, <2>4, <2>5 DEF Fill
<1>2. ASSUME NEW p \in Purgers, Purge(p) PROVE CacheInv'
  <2>1. ASSUME NEW f \in Files, PurgeLoad(p, f) PROVE CacheInv'
    BY <2>1 DEF PurgeLoad, Begin
  <2>2. CASE PurgeFlush(p)
    BY <2>2 DEF PurgeFlush, Step
  <2>3. CASE PurgeLock(p)
    BY <2>3 DEF PurgeLock, Step, Locked
  <2>4. CASE PurgeCommit(p)
    <3>1. RoleInv'
      BY <2>4 DEF PurgeCommit, Step, EndTransaction, Unlocked, LastReference
    <3>2. OwnInv'
      BY <2>4 DEF PurgeCommit, Step, EndTransaction, Unlocked, LastReference
    <3>3. ProgressInv'
      BY <2>4 DEF PurgeCommit, Step, EndTransaction, Unlocked, LastReference
    <3>4. (\A s \in known : refs[s] <= 1)'
      BY <2>4 DEF PurgeCommit, Step, EndTransaction, Unlocked, LastReference
    <3>5. PointersHaveFilesIn(Files)'
      <4> SUFFICES ASSUME NEW f \in rows', ptr'[f] # NoSha, disk'[ptr'[f]] = "none"
                   PROVE  \E q \in Purgers : pc'[q] = "purged" /\ lock'[ptr'[f]] = q /\ file'[q] = f
        OBVIOUS
      <4>1. f \in rows /\ ptr'[f] = ptr[f] /\ disk[ptr[f]] = "none" /\ pc[p] = "purged"
        BY <2>4 DEF PurgeCommit, Step, EndTransaction, Unlocked, LastReference
      <4>2. PICK q \in Purgers : pc[q] = "purged" /\ lock[ptr[f]] = q /\ file[q] = f
        BY <4>1
      <4>3. q # p
        BY <2>4, <4>1, <4>2 DEF PurgeCommit, Step, EndTransaction, Unlocked, LastReference
      <4>4. pc'[q] = "purged" /\ lock'[ptr'[f]] = q /\ file'[q] = f
        BY <2>4, <4>1, <4>2, <4>3 DEF PurgeCommit, Step, EndTransaction, Unlocked, LastReference
      <4> QED
        BY <4>4
    <3> QED
      BY <3>1, <3>2, <3>3, <3>4, <3>5
  <2> QED
    BY <1>2, <2>1, <2>2, <2>3, <2>4 DEF Purge
<1>3. ASSUME NEW p \in Collectors, Collect(p) PROVE CacheInv'
  <2>1. ASSUME NEW s \in Shas, CollectDelete(p, s) PROVE CacheInv'
    BY <2>1 DEF CollectDelete, Begin, Locked, Referenced, PointingAt
  <2>2. CASE CollectCommit(p)
    <3>1. RoleInv'
      BY <2>2 DEF CollectCommit, Step, Unlocked
    <3>2. OwnInv'
      BY <2>2 DEF CollectCommit, Step, Unlocked
    <3>3. ProgressInv'
      BY <2>2 DEF CollectCommit, Step, Unlocked
    <3>4. (\A s \in known : refs[s] <= 1)'
      BY <2>2 DEF CollectCommit, Step, Unlocked
    <3>5. PointersHaveFilesIn(Files)'
      <4> SUFFICES ASSUME NEW f \in rows', ptr'[f] # NoSha, disk'[ptr'[f]] = "none"
                   PROVE  \E q \in Purgers : pc'[q] = "purged" /\ lock'[ptr'[f]] = q /\ file'[q] = f
        OBVIOUS
      <4>1. f \in rows /\ ptr'[f] = ptr[f] /\ disk[ptr[f]] = "none" /\ pc[p] = "collected"
        BY <2>2 DEF CollectCommit, Step, Unlocked
      <4>2. PICK q \in Purgers : pc[q] = "purged" /\ lock[ptr[f]] = q /\ file[q] = f
        BY <4>1
      <4>3. q # p
        BY <2>2, <4>1, <4>2 DEF CollectCommit, Step, Unlocked
      <4>4. pc'[q] = "purged" /\ lock'[ptr'[f]] = q /\ file'[q] = f
        BY <2>2, <4>1, <4>2, <4>3 DEF CollectCommit, Step, Unlocked
      <4> QED
        BY <4>4
    <3> QED
      BY <3>1, <3>2, <3>3, <3>4, <3>5
  <2> QED
    BY <1>3, <2>1, <2>2 DEF Collect
<1>4. ASSUME NEW p \in Sweepers, Sweep(p) PROVE CacheInv'
  <2>1. ASSUME NEW s \in Shas, SweepScan(p, s) PROVE CacheInv'
    BY <2>1 DEF SweepScan, Begin
  <2>2. CASE DeleteIfOlder(p)
    BY <2>2 DEF DeleteIfOlder, Step
  <2> QED
    BY <1>4, <2>1, <2>2 DEF Sweep
<1>5. ASSUME NEW p \in Procs, Abort(p) \/ DeadlockVictim(p) PROVE CacheInv'
  BY <1>5 DEF Abort, DeadlockVictim, Deadlocked, Step, EndTransaction, Unlocked
<1>6. CASE Environment
  <2>1. ASSUME NEW f \in Files, RetireFile(f) \/ RepairFile(f) \/ StreamCached(f) PROVE CacheInv'
    BY <2>1 DEF RetireFile, RepairFile, StreamCached
  <2>2. ASSUME NEW s \in Shas, Cool(s) \/ Age(s) PROVE CacheInv'
    BY <2>2 DEF Cool, Age
  <2>3. CASE ToggleUpstream
    BY <2>3 DEF ToggleUpstream
  <2> QED
    BY <1>6, <2>1, <2>2, <2>3 DEF Environment
<1>7. CASE UNCHANGED vars
  BY <1>7 DEF vars
<1> QED
  BY <1>1, <1>2, <1>3, <1>4, <1>5, <1>6, <1>7 DEF Next

\* In a registry that only caches, no order of downloads, purges, collector
\* and sweep runs, retired upstreams and repaired rows commits a pointer to a
\* file that is gone, however many of each there are.
THEOREM CachedPointersSafe ==
    ASSUME CacheOnly
    PROVE  Spec => []PointersHaveFiles
<1>1. Init => CacheInv
  BY SentinelAssumption DEF Init, CacheInv, RoleInv, OwnInv, ProgressInv, PointersHaveFilesIn, Files
<1>2. TypeInv /\ HeldInv /\ CacheInv /\ [Next]_vars => CacheInv'
  BY StepCache
<1>3. CacheInv => PointersHaveFiles
  BY DEF CacheInv, PointersHaveFiles, PointersHaveFilesIn, Unshared
<1> QED
  BY <1>1, <1>2, <1>3, Held, PTL DEF Spec

-----------------------------------------------------------------------------
(* Reference counts and pointers, for a registry without publishers.        *)

\* A purge about to commit works on the pointer its file has.  It loaded the
\* pointer earlier in the request and never looks again.
NoStalePurge ==
    \A p \in Purgers : pc[p] \in {"flushed", "purged"} /\ file[p] \in rows => ptr[file[p]] = sha[p]

\* Pointers are counted, a digest without a row counts none, and nothing comes
\* to point at a digest being collected.
CoverInv ==
    /\ \A s \in Shas : IsFiniteSet(PointingAt(s)) /\ refs[s] >= Cardinality(PointingAt(s))
    /\ \A s \in Shas \ known : refs[s] = 0
    /\ \A p \in Procs : pc[p] = "collected" => ~Referenced(sha[p])

\* A digest stays covered when pointers at it go, when one goes and the count
\* drops by one at most, and when one comes and is counted.
LEMMA StaysCovered ==
    ASSUME TypeInv, CoverInv, NEW s \in Shas, refs' \in [Shas -> Int],
           \/ PointingAt(s)' \subseteq PointingAt(s) /\ refs'[s] >= refs[s]
           \/ PointingAt(s)' = {} /\ refs'[s] >= 0
           \/ \E f \in PointingAt(s) : PointingAt(s)' \subseteq PointingAt(s) \ {f} /\ refs'[s] >= refs[s] - 1
           \/ \E f \in Files : PointingAt(s)' \subseteq PointingAt(s) \cup {f} /\ refs'[s] >= refs[s] + 1
    PROVE  IsFiniteSet(PointingAt(s)') /\ refs'[s] >= Cardinality(PointingAt(s)')
<1> DEFINE S == PointingAt(s)  T == PointingAt(s)'
<1>1. IsFiniteSet(S) /\ Cardinality(S) \in Nat /\ refs[s] \in Int /\ refs'[s] \in Int /\ refs[s] >= Cardinality(S)
  BY FS_CardinalityType DEF CoverInv, TypeInv, TypeOK
<1> SUFFICES IsFiniteSet(T) /\ refs'[s] >= Cardinality(T)
  OBVIOUS
<1>2. CASE T \subseteq S /\ refs'[s] >= refs[s]
  <2> HIDE DEF S, T
  <2>1. IsFiniteSet(T) /\ Cardinality(T) <= Cardinality(S) /\ Cardinality(T) \in Nat
    BY <1>1, <1>2, FS_Subset, FS_CardinalityType
  <2> QED
    BY <1>1, <1>2, <2>1
<1>3. CASE T = {} /\ refs'[s] >= 0
  <2> HIDE DEF S, T
  <2> QED
    BY <1>1, <1>3, FS_EmptySet
<1>4. ASSUME NEW f \in S, T \subseteq S \ {f}, refs'[s] >= refs[s] - 1
      PROVE  IsFiniteSet(T) /\ refs'[s] >= Cardinality(T)
  <2> HIDE DEF S, T
  <2>1. IsFiniteSet(S \ {f}) /\ Cardinality(S \ {f}) = Cardinality(S) - 1
    BY <1>1, FS_RemoveElement
  <2>2. IsFiniteSet(T) /\ Cardinality(T) <= Cardinality(S \ {f}) /\ Cardinality(T) \in Nat
    BY <1>4, <2>1, FS_Subset, FS_CardinalityType
  <2> QED
    BY <1>1, <1>4, <2>1, <2>2
<1>5. ASSUME NEW f, T \subseteq S \cup {f}, refs'[s] >= refs[s] + 1
      PROVE  IsFiniteSet(T) /\ refs'[s] >= Cardinality(T)
  <2> HIDE DEF S, T
  <2>0. /\ IsFiniteSet(S \cup {f})
        /\ Cardinality(S \cup {f}) = IF f \in S THEN Cardinality(S) ELSE Cardinality(S) + 1
    BY <1>1, FS_AddElement
  <2>1. Cardinality(S \cup {f}) <= Cardinality(S) + 1 /\ Cardinality(S \cup {f}) \in Nat
    BY <1>1, <2>0
  <2>2. IsFiniteSet(T) /\ Cardinality(T) <= Cardinality(S \cup {f}) /\ Cardinality(T) \in Nat
    BY <1>5, <2>0, FS_Subset, FS_CardinalityType
  <2> QED
    BY <1>1, <1>5, <2>1, <2>2
<1> QED
  BY <1>2, <1>3, <1>4, <1>5

\* What a committed file row points at has a Blob row.
LEMMA PointedKnown ==
    ASSUME TypeInv, CoverInv, NEW s \in Shas, Referenced(s)
    PROVE  s \in known
<1>1. IsFiniteSet(PointingAt(s)) /\ refs[s] >= Cardinality(PointingAt(s)) /\ PointingAt(s) # {}
  BY DEF CoverInv, Referenced
<1>2. Cardinality(PointingAt(s)) # 0 /\ Cardinality(PointingAt(s)) \in Nat
  BY <1>1, FS_EmptySet, FS_CardinalityType
<1> QED
  BY <1>1, <1>2 DEF CoverInv

\* Where nobody publishes, only a stale purge counts a reference that is not its
\* own: downloads, collections, sweeps, evictions, retired upstreams and the
\* repair leave every pointer counted.
LEMMA StepCover ==
    ASSUME Publishers = {}, Uploaders = {}
    PROVE  TypeInv /\ TypeInv' /\ HeldInv /\ NoStalePurge /\ CoverInv /\ [Next]_vars => CoverInv'
<1> SUFFICES ASSUME TypeInv, TypeInv', HeldInv, NoStalePurge, CoverInv, [Next]_vars PROVE CoverInv'
  OBVIOUS
<1> DEFINE Change(s) ==
       \/ PointingAt(s)' \subseteq PointingAt(s) /\ refs'[s] >= refs[s]
       \/ PointingAt(s)' = {} /\ refs'[s] >= 0
       \/ \E f \in PointingAt(s) : PointingAt(s)' \subseteq PointingAt(s) \ {f} /\ refs'[s] >= refs[s] - 1
       \/ \E f \in Files : PointingAt(s)' \subseteq PointingAt(s) \cup {f} /\ refs'[s] >= refs[s] + 1
    Rest == /\ \A s \in Shas \ known' : refs'[s] = 0
            /\ \A p \in Procs : pc'[p] = "collected" => ~Referenced(sha[p])'
<1>0. (\A s \in Shas : Change(s)) /\ Rest => CoverInv'
  <2> SUFFICES ASSUME \A s \in Shas : Change(s), Rest PROVE CoverInv'
    OBVIOUS
  <2>1. refs' \in [Shas -> Int]
    BY DEF TypeInv, TypeOK
  <2>2. ASSUME NEW s \in Shas PROVE IsFiniteSet(PointingAt(s)') /\ refs'[s] >= Cardinality(PointingAt(s)')
    <3>1. Change(s)
      OBVIOUS
    <3> HIDE DEF Change
    <3> QED
      BY <2>1, <3>1, StaysCovered DEF Change
  <2> QED
    BY <2>2 DEF CoverInv
<1>1. \A s \in Shas : refs[s] \in Int /\ refs[s] >= 0
  <2>1. \A s \in Shas : Cardinality(PointingAt(s)) \in Nat
    BY FS_CardinalityType DEF CoverInv
  <2> QED
    BY <2>1 DEF CoverInv, TypeInv, TypeOK
<1>2. \A f \in rows : ptr[f] # NoSha => ptr[f] \in known
  <2>1. \A f \in rows : ptr[f] # NoSha => ptr[f] \in Shas /\ Referenced(ptr[f])
    BY DEF TypeInv, TypeOK, Referenced, PointingAt
  <2> QED
    BY <2>1, PointedKnown
<1>3. \A s \in Shas \ known : refs[s] = 0 /\ PointingAt(s) = {}
  BY <1>2, SentinelAssumption DEF CoverInv, PointingAt
<1>4. \A p \in Procs : pc[p] = "collected" => ~Referenced(sha[p]) /\ lock[sha[p]] = p /\ sha[p] \in Shas
  BY DEF CoverInv, HeldInv, TypeInv, Busy
<1> USE SentinelAssumption
    DEF TypeInv, TypeOK, Busy, FileSteps, Goto, db, local, Files, Procs, Writers, Free, Referenced, PointingAt
<1> HIDE DEF Change, Rest
<1>5. CASE UNCHANGED <<rows, ptr, known, refs>> /\ \A p \in Procs : pc'[p] = "collected" => pc[p] = "collected" /\ sha'[p] = sha[p]
  BY <1>0, <1>3, <1>4, <1>5 DEF Change, Rest, CoverInv
<1>6. ASSUME NEW p \in Fills, RecordCommit(p) PROVE CoverInv'
  <2>0. pc[p] = "record" /\ file[p] \in rows /\ sha[p] \in Shas /\ p \in Procs
    BY <1>6 DEF RecordCommit, HeldInv
  <2> PICK s \in Shas, f \in rows : s = sha[p] /\ f = file[p]
    BY <2>0
  <2>1. pc[p] = "record" /\ f \in rows /\ s \in Shas /\ s # NoSha /\ p \in Procs
    BY <2>0
  <2>2. CASE seen[p] = Absent /\ s \in known
    BY <1>5, <1>6, <2>2 DEF RecordCommit, Step
  <2>3. CASE ~(seen[p] = Absent /\ s \in known)
    <3>1. /\ ptr' = [ptr EXCEPT ![f] = s] /\ rows' = rows /\ known' = (known \ ReplacedGone(p)) \cup {s}
          /\ refs' = [t \in Shas |-> IF t = s THEN RecordedRefs(p) ELSE IF t \in ReplacedGone(p) THEN 0
                                     ELSE IF t \in Replaced(p) THEN refs[t] - 1 ELSE refs[t]]
      BY <1>6, <2>3 DEF RecordCommit
    <3>2. seen[p] = Absent => s \notin known /\ refs[s] = 0 /\ PointingAt(s) = {} /\ ptr[f] # s
      BY <1>3, <2>1, <2>3
    <3>3. Change(s)
      <4>1. refs'[s] = RecordedRefs(p) /\ PointingAt(s)' = PointingAt(s) \cup {f}
        BY <2>1, <3>1
      <4>2. CASE ptr[f] = s
        <5>1. PointingAt(s)' \subseteq PointingAt(s) /\ refs'[s] = refs[s]
          BY <2>1, <3>2, <4>1, <4>2 DEF RecordedRefs
        <5> QED
          BY <1>1, <2>1, <5>1 DEF Change
      <4>3. CASE ptr[f] # s
        <5>1. refs'[s] = refs[s] + 1
          BY <1>1, <2>1, <3>2, <4>1, <4>3 DEF RecordedRefs
        <5>2. f \in Files
          BY <2>1
        <5> QED
          BY <1>1, <2>1, <4>1, <5>1, <5>2 DEF Change
      <4> QED
        BY <4>2, <4>3
    <3>4. ASSUME NEW t \in Shas, t # s PROVE Change(t)
      <4>1. PointingAt(t)' = PointingAt(t) \ {f}
        BY <2>1, <3>1, <3>4
      <4>2. CASE t \in Replaced(p)
        <5>1. f \in PointingAt(t) /\ refs'[t] >= refs[t] - 1
          BY <1>1, <2>1, <3>1, <3>4, <4>2 DEF Replaced, ReplacedGone
        <5> QED
          BY <4>1, <5>1 DEF Change
      <4>3. CASE t \notin Replaced(p)
        <5>1. refs'[t] = refs[t]
          BY <3>1, <3>4, <4>3 DEF ReplacedGone
        <5> QED
          BY <1>1, <4>1, <5>1 DEF Change
      <4> QED
        BY <4>2, <4>3
    <3>5. Rest
      <4>1. \A t \in Shas \ known' : refs'[t] = 0
        BY <1>3, <3>1 DEF ReplacedGone, Replaced
      <4>2. ASSUME NEW q \in Procs, pc'[q] = "collected" PROVE ~Referenced(sha[q])'
        <5>1. q # p /\ pc[q] = "collected" /\ sha'[q] = sha[q]
          BY <1>6, <2>1, <4>2 DEF RecordCommit, Step
        <5>2. sha[q] # s
          BY <1>4, <1>6, <2>1, <5>1 DEF RecordCommit
        <5> QED
          BY <1>4, <2>1, <3>1, <5>1, <5>2
      <4> QED
        BY <4>1, <4>2 DEF Rest
    <3> QED
      BY <1>0, <3>3, <3>4, <3>5
  <2> QED
    BY <2>2, <2>3
<1>7. ASSUME NEW p \in Purgers, PurgeCommit(p) PROVE CoverInv'
  <2>0. pc[p] = "purged" /\ file[p] \in rows /\ sha[p] \in Shas /\ ptr[file[p]] = sha[p] /\ p \in Procs
    BY <1>7 DEF PurgeCommit, Step, HeldInv, NoStalePurge
  <2> PICK s \in Shas, f \in rows : s = sha[p] /\ f = file[p]
    BY <2>0
  <2>1. pc[p] = "purged" /\ f \in rows /\ s \in Shas /\ ptr[f] = s /\ p \in Procs
    BY <2>0
  <2>2. \A t \in Shas : PointingAt(t)' \subseteq PointingAt(t) \ {f}
    BY <1>7, <2>1 DEF PurgeCommit
  <2>3. Change(s)
    <3>1. f \in PointingAt(s) /\ refs'[s] >= refs[s] - 1
      BY <1>1, <1>7, <2>1 DEF PurgeCommit, LastReference
    <3> QED
      BY <2>1, <2>2, <3>1 DEF Change
  <2>4. ASSUME NEW t \in Shas, t # s PROVE Change(t)
    <3>1. refs'[t] = refs[t]
      BY <1>7, <2>1, <2>4 DEF PurgeCommit
    <3> QED
      BY <1>1, <2>2, <3>1 DEF Change
  <2>5. Rest
    <3>1. \A t \in Shas \ known' : refs'[t] = 0
      BY <1>1, <1>3, <1>7, <2>1 DEF PurgeCommit, LastReference
    <3>2. \A q \in Procs : pc'[q] = "collected" => pc[q] = "collected" /\ sha'[q] = sha[q]
      BY <1>7, <2>1 DEF PurgeCommit, Step
    <3> QED
      BY <1>4, <2>2, <3>1, <3>2 DEF Rest
  <2> QED
    BY <1>0, <2>3, <2>4, <2>5
<1>8. ASSUME NEW p \in Collectors, Collect(p) PROVE CoverInv'
  <2>1. ASSUME NEW s \in Shas, CollectDelete(p, s) PROVE CoverInv'
    <3>1. /\ UNCHANGED <<rows, ptr, known, refs>> /\ ~Referenced(s)
          /\ \A q \in Procs : pc'[q] = "collected" => (q = p /\ sha'[q] = s) \/ (pc[q] = "collected" /\ sha'[q] = sha[q])
      BY <2>1 DEF CollectDelete, Begin
    <3> QED
      BY <1>0, <1>1, <1>3, <1>4, <3>1 DEF Change, Rest
  <2>2. CASE CollectCommit(p)
    <3>1. /\ pc[p] = "collected" /\ sha[p] \in Shas /\ PointingAt(sha[p]) = {}
          /\ UNCHANGED <<rows, ptr>> /\ known' = known \ {sha[p]} /\ refs' = [refs EXCEPT ![sha[p]] = 0]
          /\ \A q \in Procs : pc'[q] = "collected" => pc[q] = "collected" /\ sha'[q] = sha[q]
      BY <1>4, <2>2 DEF CollectCommit, Step
    <3>2. \A s \in Shas : Change(s)
      BY <1>1, <3>1 DEF Change
    <3>3. Rest
      BY <1>3, <1>4, <3>1 DEF Rest
    <3> QED
      BY <1>0, <3>2, <3>3
  <2> QED
    BY <1>8, <2>1, <2>2 DEF Collect
<1>9. ASSUME NEW p \in Evictors, Evict(p) PROVE CoverInv'
  <2>1. ASSUME NEW s \in Shas, EvictRows(p, s) PROVE CoverInv'
    <3>1. /\ UNCHANGED rows /\ ptr' = [f \in Files |-> IF f \in rows /\ ptr[f] = s THEN NoSha ELSE ptr[f]]
          /\ known' = known \ {s} /\ refs' = [refs EXCEPT ![s] = 0]
          /\ \A q \in Procs : pc'[q] = "collected" => pc[q] = "collected" /\ sha'[q] = sha[q]
      BY <2>1 DEF EvictRows, Begin
    <3>2. PointingAt(s)' = {} /\ \A t \in Shas : PointingAt(t)' \subseteq PointingAt(t)
      BY <3>1
    <3>3. \A t \in Shas : Change(t)
      BY <1>1, <3>1, <3>2 DEF Change
    <3>4. \A t \in Shas \ known' : refs'[t] = 0
      BY <1>3, <3>1
    <3>5. ASSUME NEW q \in Procs, pc'[q] = "collected" PROVE ~Referenced(sha[q])'
      <4>1. PICK t \in Shas : t = sha[q] /\ sha'[q] = t /\ PointingAt(t) = {}
        BY <1>4, <3>1, <3>5
      <4>2. PointingAt(t)' = {}
        BY <3>2, <4>1
      <4> QED
        BY <4>1, <4>2
    <3>6. Rest
      BY <3>4, <3>5 DEF Rest
    <3> QED
      BY <1>0, <3>3, <3>6
  <2>2. CASE EvictUnlink(p)
    BY <1>5, <2>2 DEF EvictUnlink, Step
  <2> QED
    BY <1>9, <2>1, <2>2 DEF Evict
<1>10. ASSUME NEW f \in Files, RetireFile(f) PROVE CoverInv'
  <2>1. \A s \in Shas : PointingAt(s)' \subseteq PointingAt(s)
    BY <1>10 DEF RetireFile
  <2>2. UNCHANGED <<known, refs, pc, sha>>
    BY <1>10 DEF RetireFile
  <2>3. \A s \in Shas : Change(s)
    BY <1>1, <2>1, <2>2 DEF Change
  <2>4. Rest
    BY <1>3, <1>4, <2>1, <2>2 DEF Rest
  <2> QED
    BY <1>0, <2>3, <2>4
<1>11. ASSUME NEW f \in Files, RepairFile(f) PROVE CoverInv'
  <2>1. /\ f \in rows /\ rows' = rows \ {f} /\ UNCHANGED <<ptr, known, pc, sha>>
        /\ refs' = [s \in Shas |-> IF s \in known /\ s = ptr[f] THEN refs[s] - 1 ELSE refs[s]]
    BY <1>11 DEF RepairFile
  <2>2. \A s \in Shas : PointingAt(s)' = PointingAt(s) \ {f}
    BY <2>1
  <2>3. ASSUME NEW s \in Shas PROVE Change(s)
    <3>1. CASE ptr[f] = s
      <4>1. f \in PointingAt(s) /\ refs'[s] >= refs[s] - 1
        BY <1>1, <2>1, <3>1
      <4> QED
        BY <2>2, <4>1 DEF Change
    <3>2. CASE ptr[f] # s
      <4>1. refs'[s] = refs[s]
        BY <2>1, <3>2
      <4> QED
        BY <1>1, <2>2, <4>1 DEF Change
    <3> QED
      BY <3>1, <3>2
  <2>4. Rest
    BY <1>3, <1>4, <2>1, <2>2 DEF Rest
  <2> QED
    BY <1>0, <2>3, <2>4
<1>12. ASSUME NEW p \in Fills, Fill(p) PROVE CoverInv'
  BY <1>5, <1>6, <1>12 DEF Fill, OpenFill, Adopt, RecordBlob, RecordRow, Begin, Step
<1>13. ASSUME NEW p \in Purgers, Purge(p) PROVE CoverInv'
  BY <1>5, <1>7, <1>13 DEF Purge, PurgeLoad, PurgeFlush, PurgeLock, Begin, Step
<1>14. ASSUME NEW p \in Sweepers, Sweep(p) PROVE CoverInv'
  BY <1>5, <1>14 DEF Sweep, SweepScan, DeleteIfOlder, Begin, Step
<1>15. ASSUME NEW p \in Procs, Abort(p) \/ DeadlockVictim(p) PROVE CoverInv'
  BY <1>5, <1>15 DEF Abort, DeadlockVictim, Step
<1>16. CASE Environment
  BY <1>5, <1>10, <1>11, <1>16 DEF Environment, StreamCached, Cool, Age, ToggleUpstream
<1>17. CASE UNCHANGED vars
  BY <1>5, <1>17 DEF vars
<1> QED
  BY <1>8, <1>9, <1>12, <1>13, <1>14, <1>15, <1>16, <1>17 DEF Next

\* With any number of downloads, purges, evictions and collections, and commits
\* that fail, a Blob row never counts fewer references than there are pointers
\* at it, unless a purge commits for a pointer that its file no longer has
\* (purge_file works on the row as its request loaded it).
THEOREM OnlyStalePurges ==
    ASSUME Publishers = {}, Uploaders = {}
    PROVE  Spec /\ []NoStalePurge => []RefcountCoversPointers
<1>1. Init => CoverInv
  <2> SUFFICES ASSUME Init PROVE CoverInv
    OBVIOUS
  <2>1. \A s \in Shas : PointingAt(s) = {} /\ refs[s] = 0
    BY SentinelAssumption DEF Init, PointingAt, Files
  <2>2. \A p \in Procs : pc[p] # "collected"
    BY DEF Init
  <2>3. \A s \in Shas : IsFiniteSet(PointingAt(s)) /\ Cardinality(PointingAt(s)) = 0
    BY <2>1, FS_EmptySet
  <2>4. \A s \in Shas : refs[s] >= Cardinality(PointingAt(s))
    BY <2>1, <2>3
  <2> QED
    BY <2>1, <2>2, <2>3, <2>4 DEF CoverInv
<1>2. TypeInv /\ TypeInv' /\ HeldInv /\ NoStalePurge /\ CoverInv /\ [Next]_vars => CoverInv'
  BY StepCover
<1>3. CoverInv => RefcountCoversPointers
  BY DEF CoverInv, RefcountCoversPointers
<1> QED
  BY <1>1, <1>2, <1>3, Held, PTL DEF Spec

\* One purge at a time of files whose bytes are fixed, and no eviction: nobody
\* moves the pointer a purge has loaded.
PurgesAlone ==
    /\ \A p, q \in Purgers : p = q
    /\ \A f \in Files : \A s, t \in Contents[f] : s = t
    /\ Publishers = {} /\ Uploaders = {} /\ Evictors = {}

\* Who is where, and whose bytes they are.
Fixed ==
    /\ \A p \in Procs :
          /\ pc[p] \in {"adopt", "lock", "row", "record"} => sha[p] \in Contents[file[p]]
          /\ pc[p] \in {"purge", "flushed", "purged"} =>
                p \in Purgers /\ sha[p] \in Contents[file[p]] /\ (file[p] \in rows => ptr[file[p]] = sha[p])
    /\ \A f \in Files : ptr[f] # NoSha => ptr[f] \in Contents[f]

\* The pointer a purge has loaded stays until it is cleared.
LEMMA StepFixed ==
    ASSUME PurgesAlone
    PROVE  TypeInv /\ HeldInv /\ Fixed /\ [Next]_vars => Fixed'
<1> SUFFICES ASSUME TypeInv, HeldInv, Fixed, [Next]_vars PROVE Fixed'
  OBVIOUS
<1> USE ContentAssumption, SentinelAssumption
    DEF PurgesAlone, TypeInv, TypeOK, Busy, HeldInv, Fixed, FileSteps, Goto, db, local, Files, Procs, Writers
<1>1. ASSUME NEW p \in Fills, Fill(p) PROVE Fixed'
  <2>1. ASSUME NEW f \in Upstreamed, OpenFill(p, f) PROVE Fixed'
    BY <2>1 DEF OpenFill, Begin
  <2>2. CASE Adopt(p) \/ RecordBlob(p) \/ RecordRow(p)
    BY <2>2 DEF Adopt, RecordBlob, RecordRow, Step
  <2>3. CASE RecordCommit(p)
    <3>1. pc[p] = "record" /\ file[p] \in rows /\ sha[p] \in Contents[file[p]] /\ UNCHANGED rows
      BY <2>3 DEF RecordCommit
    <3>2. ptr' \in {ptr, [ptr EXCEPT ![file[p]] = sha[p]]}
      BY <2>3 DEF RecordCommit
    <3>3. \A q \in Procs : q # p => pc'[q] = pc[q] /\ file'[q] = file[q] /\ sha'[q] = sha[q]
      BY <2>3 DEF RecordCommit, Step
    <3>4. pc'[p] = "idle"
      BY <2>3 DEF RecordCommit, Step
    <3> QED
      BY <3>1, <3>2, <3>3, <3>4
  <2> QED
    BY <1>1, <2>1, <2>2, <2>3 DEF Fill
<1>2. ASSUME NEW p \in Purgers, Purge(p) PROVE Fixed'
  <2>1. ASSUME NEW f \in Files, PurgeLoad(p, f) PROVE Fixed'
    BY <2>1 DEF PurgeLoad, Begin
  <2>2. CASE PurgeFlush(p) \/ PurgeLock(p)
    BY <2>2 DEF PurgeFlush, PurgeLock, Step
  <2>3. CASE PurgeCommit(p)
    BY <2>3 DEF PurgeCommit, Step
  <2> QED
    BY <1>2, <2>1, <2>2, <2>3 DEF Purge
<1>3. ASSUME NEW p \in Collectors, Collect(p) PROVE Fixed'
  BY <1>3 DEF Collect, CollectDelete, CollectCommit, Begin, Step
<1>4. ASSUME NEW p \in Sweepers, Sweep(p) PROVE Fixed'
  BY <1>4 DEF Sweep, SweepScan, DeleteIfOlder, Begin, Step
<1>5. ASSUME NEW p \in Procs, Abort(p) \/ DeadlockVictim(p) PROVE Fixed'
  BY <1>5 DEF Abort, DeadlockVictim, Step
<1>6. CASE Environment
  BY <1>6 DEF Environment, RetireFile, RepairFile, StreamCached, Cool, Age, ToggleUpstream
<1>7. CASE UNCHANGED vars
  BY <1>7 DEF vars
<1> QED
  BY <1>1, <1>2, <1>3, <1>4, <1>5, <1>6, <1>7 DEF Next

\* So one purge at a time keeps the counts: no order of it with downloads,
\* collections, sweeps, retired upstreams and repairs lets purge_file unlink
\* bytes that another file points at.
THEOREM PointersCounted ==
    ASSUME PurgesAlone
    PROVE  Spec => []RefcountCoversPointers
<1>1. Init => Fixed
  BY DEF Init, Fixed
<1>2. TypeInv /\ HeldInv /\ Fixed /\ [Next]_vars => Fixed'
  BY StepFixed
<1>3. Fixed => NoStalePurge
  BY DEF Fixed, NoStalePurge, Procs
<1>4. Spec /\ []NoStalePurge => []RefcountCoversPointers
  BY OnlyStalePurges DEF PurgesAlone
<1> QED
  BY <1>1, <1>2, <1>3, <1>4, Held, PTL DEF Spec
=============================================================================
