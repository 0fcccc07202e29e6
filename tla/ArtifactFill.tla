---------------------------- MODULE ArtifactFill ----------------------------
(***************************************************************************)
(* Downloading one uncached artifact while clients already read it          *)
(* (services/artifacts.py, the partial files of services/storage.py, the    *)
(* Lease of core/cache.py).  Requests of one process share a download        *)
(* through the maps _fills and _opening; processes share it through a lease *)
(* in the cache server and through partial files and markers on a common    *)
(* volume.                                                                 *)
(*                                                                         *)
(* The code between two awaits is one action, except where another process *)
(* can look between two file operations.  Timers may fire at any moment    *)
(* their loop looks at them.                                               *)
(***************************************************************************)
EXTENDS Integers, Sequences, SequencesExt

CONSTANTS
    Replicas,       \* server processes
    Requests,       \* requests for the file
    Homes,          \* how the processes may share out the requests
    Streams,        \* requests from stream_artifact; the others are ensure_cached
    Tokens,         \* attempts to download: one Lease and one _Fill each
    Bodies,         \* what the upstream may answer: [declared, len, good]
    RowSize,        \* PackageFile.size, or Unknown
    Chunk,          \* stream_chunk_size
    MaxTries,       \* attempts of _obtain
    MaxCrashes,     \* bound on process crashes
    CacheMayFail,   \* whether cache commands may fail
    LeaseMayLapse,  \* whether a live holder may miss its renewals
    UnlinkMayFail,  \* whether the volume may refuse to unlink a partial file
    NoToken, NoBody

\* A length nobody declared (None).
Unknown == -1

ASSUME FillAssumption ==
    /\ Replicas # {} /\ Homes \subseteq [Requests -> Replicas]
    /\ Streams \subseteq Requests
    /\ Bodies \subseteq [declared : Nat \cup {Unknown}, len : Nat, good : BOOLEAN]
    /\ RowSize \in Nat \cup {Unknown}
    /\ Chunk \in Nat \ {0} /\ MaxTries \in Nat \ {0} /\ MaxCrashes \in Nat
    /\ {CacheMayFail, LeaseMayLapse, UnlinkMayFail} \subseteq BOOLEAN
    /\ NoToken \notin Tokens /\ NoBody \notin Bodies

VARIABLES
    fills,    \* _fills of each process: its running download
    opening,  \* _opening of each process: the attempt whose open is awaited
    lease,    \* the attempt whose token the cache server holds for this file
    owned,    \* attempts with Lease._remote set
    phase,    \* where each attempt is
    at,       \* its process
    body,     \* what the upstream answered it
    future,   \* what its opener told the requests waiting for it
    written,  \* _Fill.written
    error,    \* attempts that finished with an error
    partial,  \* bytes in the attempt's partial file, readable while open
    paths,    \* partial files still at their path, by mtime, latest first
    marker,   \* the .done files: "none", "ok" or "failed"
    stored,   \* answers whose bytes are in the blob store
    row,      \* the answer package_files.blob_sha256 names
    crashes,
    home,     \* the process that serves each request
    pc,       \* where each request is
    att,      \* the attempt a request follows
    tries,    \* rounds of _obtain's loop it has used up
    promised, \* the Content-Length it has sent
    sent,     \* bytes its generator has read
    held      \* the last of them, held back

process == <<fills, opening>>
leases == <<lease, owned>>
download == <<phase, at, body, future, written, error>>
volume == <<partial, paths, marker, stored>>
request == <<pc, att, tries, promised, sent, held>>
world == <<crashes, home>>
server == <<process, leases, download, volume, row, world>>
vars == <<server, request>>

Init ==
    /\ fills = [p \in Replicas |-> NoToken]
    /\ opening = [p \in Replicas |-> NoToken]
    /\ lease = NoToken
    /\ owned = {}
    /\ phase = [t \in Tokens |-> "unused"]
    /\ at = [t \in Tokens |-> CHOOSE p \in Replicas : TRUE]
    /\ body = [t \in Tokens |-> NoBody]
    /\ future = [t \in Tokens |-> "pending"]
    /\ written = [t \in Tokens |-> 0]
    /\ error = {}
    /\ partial = [t \in Tokens |-> 0]
    /\ paths = <<>>
    /\ marker = [t \in Tokens |-> "none"]
    /\ stored = {}
    /\ row = NoBody
    /\ crashes = 0 /\ home \in Homes
    /\ pc = [r \in Requests |-> "idle"]
    /\ att = [r \in Requests |-> NoToken]
    /\ tries = [r \in Requests |-> 0]
    /\ promised = [r \in Requests |-> Unknown]
    /\ sent = [r \in Requests |-> 0]
    /\ held = [r \in Requests |-> 0]

-----------------------------------------------------------------------------
Cached == row # NoBody /\ row \in stored

\* A fill that runs in its process and has not finished.
Running == {"down", "recording", "recorded", "failed", "stuck"}
Done(t) == phase[t] \in {"over", "gone"}

Ended == {"served", "complete", "cut", "error", "gone"}

Goto(r, step) == pc' = [pc EXCEPT ![r] = step]
Follow(r, step, t) ==
    /\ Goto(r, step)
    /\ att' = [att EXCEPT ![r] = t]
    /\ UNCHANGED <<tries, promised, sent, held>>
Become(r, step) == Goto(r, step) /\ UNCHANGED <<att, tries, promised, sent, held>>

\* A request that is over, and what it had is forgotten.
Forgets(R) ==
    /\ att' = [r \in Requests |-> IF r \in R THEN NoToken ELSE att[r]]
    /\ tries' = [r \in Requests |-> IF r \in R THEN 0 ELSE tries[r]]
    /\ promised' = [r \in Requests |-> IF r \in R THEN Unknown ELSE promised[r]]
    /\ sent' = [r \in Requests |-> IF r \in R THEN 0 ELSE sent[r]]
    /\ held' = [r \in Requests |-> IF r \in R THEN 0 ELSE held[r]]
Quit(r, step) == Goto(r, step) /\ Forgets({r})
Phase(t, step) == phase' = [phase EXCEPT ![t] = step]

\* Lease.release: the server deletes the key only for the token that is in it.
Release(t) ==
    /\ owned' = owned \ {t}
    /\ \/ lease' = IF t \in owned /\ lease = t THEN NoToken ELSE lease
       \/ CacheMayFail /\ lease' = lease

\* The opener leaves _opening and hands its outcome to those who wait for it.
Settle(t, outcome) ==
    /\ opening' = [opening EXCEPT ![at[t]] = NoToken]
    /\ future' = [future EXCEPT ![t] = outcome]

\* The partial files without, or with a new write to, the one of t.
AtPath(t) == \E i \in DOMAIN paths : paths[i] = t
Unlinked(t) == IF AtPath(t) THEN RemoveAt(paths, CHOOSE i \in DOMAIN paths : paths[i] = t) ELSE paths
Touched(t) == <<t>> \o Unlinked(t)

-----------------------------------------------------------------------------
(* _start_or_join and _open_fill.                                          *)

\* stream_artifact and ensure_cached: a cached file needs no download.
Arrive(r) ==
    pc[r] = "idle" /\ Become(r, IF Cached THEN "served" ELSE "choose") /\ UNCHANGED server

\* Join the download, or the attempt to open one, of this process.
Join(r) ==
    LET p == home[r]
    IN  /\ pc[r] = "choose"
        /\ \/ fills[p] # NoToken /\ Follow(r, "following", fills[p])
           \/ fills[p] = NoToken /\ opening[p] # NoToken /\ Follow(r, "joining", opening[p])
        /\ UNCHANGED server

\* A new attempt in _opening, about to ask for the lease.
Claim(r) ==
    \E t \in Tokens :
        /\ phase[t] = "unused"
        /\ opening' = [opening EXCEPT ![home[r]] = t]
        /\ at' = [at EXCEPT ![t] = home[r]]
        /\ Phase(t, "asking")
        /\ Follow(r, "asking", t)
        /\ UNCHANGED <<fills, leases, body, future, written, error, volume, row, world>>

\* Mutant: a second request opens its own connection while one is being opened.
StartOpeningToo(r) ==
    pc[r] = "choose" /\ fills[home[r]] = NoToken /\ Claim(r)

\* Nobody here downloads it or is about to.
StartOpening(r) ==
    pc[r] = "choose" /\ fills[home[r]] = NoToken /\ opening[home[r]] = NoToken /\ Claim(r)

\* SET NX EX succeeds, or the cache is unreachable and the lease is granted
\* anyway -- in which case the server may still have executed the SET.
Acquire(r) ==
    LET t == att[r]
    IN  /\ pc[r] = "asking"
        /\ \/ lease = NoToken /\ lease' = t /\ owned' = owned \cup {t}
           \/ CacheMayFail /\ lease' \in {lease, IF lease = NoToken THEN t ELSE lease} /\ UNCHANGED owned
        /\ Phase(t, "opening")
        /\ Become(r, "recheck")
        /\ UNCHANGED <<process, at, body, future, written, error, volume, row, world>>

\* Another replica holds it.
AcquireRefused(r) ==
    LET t == att[r]
    IN  /\ pc[r] = "asking"
        /\ lease # NoToken
        /\ Phase(t, "gone")
        /\ Settle(t, "peer")
        /\ Become(r, "peer")
        /\ UNCHANGED <<fills, leases, at, body, written, error, volume, row, world>>

\* Under the lease: a peer may have just cached it.
RecheckCached(r) ==
    LET t == att[r]
    IN  /\ pc[r] = "recheck"
        /\ Cached
        /\ Release(t)
        /\ Phase(t, "gone")
        /\ Settle(t, "cached")
        /\ Become(r, "refresh")
        /\ UNCHANGED <<fills, at, body, written, error, volume, row, world>>

\* Mutant: what a peer has just cached is not looked at under the lease.
NoRecheck(r) ==
    pc[r] = "recheck" /\ Become(r, "connect") /\ UNCHANGED server

RecheckMissing(r) ==
    /\ pc[r] = "recheck"
    /\ ~Cached
    /\ Become(r, "connect")
    /\ UNCHANGED server

\* The upstream answers; the fill and its task exist from here on.
OpenUpstream(r) ==
    LET t == att[r]
    IN  /\ pc[r] = "connect"
        /\ \E b \in Bodies : body' = [body EXCEPT ![t] = b]
        /\ Phase(t, "down")
        /\ paths' = Touched(t)
        /\ fills' = [fills EXCEPT ![at[t]] = t]
        /\ Settle(t, "fill")
        /\ Become(r, "following")
        /\ UNCHANGED <<leases, at, written, error, partial, marker, stored, row, world>>

\* The open fails, or its client goes away: its error is not the joiners'.
OpenFails(r) ==
    LET t == att[r]
    IN  /\ pc[r] \in {"recheck", "connect"}
        /\ Release(t)
        /\ Phase(t, "gone")
        /\ Settle(t, "error")
        /\ Quit(r, "error")
        /\ UNCHANGED <<fills, at, body, written, error, volume, row, world>>

\* Mutant: except Exception, which a cancellation passes by.
CancelSilently(r) ==
    LET t == att[r]
    IN  /\ pc[r] = "asking"
        /\ Phase(t, "gone")
        /\ opening' = [opening EXCEPT ![at[t]] = NoToken]
        /\ Quit(r, "gone")
        /\ UNCHANGED <<fills, leases, at, body, future, written, error, volume, row, world>>

\* A client that leaves while SET is on its way leaves a lease nobody renews.
CancelAsking(r) ==
    LET t == att[r]
    IN  /\ pc[r] = "asking"
        /\ lease' \in {lease, IF lease = NoToken THEN t ELSE lease}
        /\ Phase(t, "gone")
        /\ Settle(t, "error")
        /\ Quit(r, "gone")
        /\ UNCHANGED <<fills, owned, at, body, written, error, volume, row, world>>

\* The attempt a request waited for is decided.
Joined(r) ==
    LET t == att[r]
    IN  /\ pc[r] = "joining"
        /\ future[t] # "pending"
        /\ Become(r, CASE future[t] = "error" -> "choose"
                       [] future[t] = "peer" -> "peer"
                       [] future[t] = "cached" -> "refresh"
                       [] future[t] = "fill" -> "following")
        /\ UNCHANGED server

-----------------------------------------------------------------------------
(* _run_fill.                                                              *)

\* A chunk reaches the file: a reader can see it before fill.advance says so.
Write(t) ==
    /\ phase[t] = "down"
    /\ partial[t] = written[t] /\ partial[t] < body[t].len
    /\ partial' = [partial EXCEPT ![t] = @ + 1]
    /\ paths' = Touched(t)
    /\ UNCHANGED <<process, leases, download, marker, stored, row, world, request>>

\* Mutant: readers are told of a chunk before it is flushed.
AdvanceFirst(t) ==
    /\ phase[t] = "down"
    /\ written[t] <= partial[t] /\ partial[t] < body[t].len
    /\ written' = [written EXCEPT ![t] = partial[t] + 1]
    /\ UNCHANGED <<process, leases, phase, at, body, future, error, volume, row, world, request>>

Advance(t) ==
    /\ phase[t] = "down"
    /\ written[t] < partial[t]
    /\ written' = [written EXCEPT ![t] = partial[t]]
    /\ UNCHANGED <<process, leases, phase, at, body, future, error, volume, row, world, request>>

Adopted(t, next) ==
    /\ phase[t] = "down"
    /\ written[t] = body[t].len
    /\ body[t].good
    /\ stored' = stored \cup {body[t]}
    /\ paths' = Unlinked(t)
    /\ Phase(t, next)
    /\ UNCHANGED <<process, leases, at, body, future, written, error, partial, marker, row, world,
                   request>>

\* Mutant: the fill finishes without waiting for its transaction.
AdoptOnly(t) == Adopted(t, "recorded")

\* The bytes verify and the partial file is renamed to its digest.
Adopt(t) == Adopted(t, "recording")

\* The connection breaks, the deadline passes or the digest is wrong; the
\* partial file goes before the marker says why.
Fail(t) ==
    /\ phase[t] \in {"down", "recording"}
    /\ \/ Phase(t, "failed") /\ paths' = Unlinked(t)
       \/ UnlinkMayFail /\ phase[t] = "down" /\ Phase(t, "stuck") /\ UNCHANGED paths
    /\ UNCHANGED <<process, leases, at, body, future, written, error, partial,
                   marker, stored, row, world, request>>

Record(t) ==
    /\ phase[t] = "recording"
    /\ row' = body[t]
    /\ Phase(t, "recorded")
    /\ UNCHANGED <<process, leases, at, body, future, written, error, volume, world, request>>

\* The marker, the fill map and fill.finish.
Finish(t) ==
    /\ phase[t] \in {"recorded", "failed"}
    /\ marker' = [marker EXCEPT ![t] = IF phase[t] = "recorded" THEN "ok" ELSE "failed"]
    /\ error' = IF phase[t] = "failed" THEN error \cup {t} ELSE error
    /\ fills' = [fills EXCEPT ![at[t]] = IF @ = t THEN NoToken ELSE @]
    /\ Phase(t, "over")
    /\ UNCHANGED <<opening, leases, at, body, future, written, partial, paths,
                   stored, row, world, request>>

\* Mutant: the lease is given back on the success path only.
ReleaseOnSuccess(t) ==
    /\ phase[t] = "over" /\ t \notin error
    /\ Release(t)
    /\ Phase(t, "gone")
    /\ UNCHANGED <<process, at, body, future, written, error, volume, row, world, request>>

\* Until now a request in this process was sent to a "peer".
FinishRelease(t) ==
    /\ phase[t] = "over"
    /\ Release(t)
    /\ Phase(t, "gone")
    /\ UNCHANGED <<process, at, body, future, written, error, volume, row, world, request>>

-----------------------------------------------------------------------------
(* _obtain, _wait_for_peer.                                                *)

\* Response headers go out: from now on only cutting the connection is left.
Promise(r, step, size) ==
    /\ Goto(r, step)
    /\ promised' = [promised EXCEPT ![r] = size]
    /\ UNCHANGED <<att, tries, sent, held>>

Size(t) == IF body[t].declared # Unknown THEN body[t].declared ELSE RowSize

\* STREAM_AFTER_SECONDS pass and the fill is still running.
StartTail(r) ==
    /\ pc[r] = "following"
    /\ r \in Streams /\ Size(att[r]) # Unknown
    /\ ~Done(att[r])
    /\ Promise(r, "tail", Size(att[r]))
    /\ UNCHANGED server

Followed(r) ==
    /\ pc[r] = "following"
    /\ Done(att[r])
    /\ IF att[r] \in error THEN Quit(r, "error") ELSE Become(r, "refresh")
    /\ UNCHANGED server

StartTailPeer(r) ==
    /\ pc[r] = "peer"
    /\ r \in Streams /\ RowSize \notin {Unknown, 0}
    /\ Promise(r, "look", RowSize)
    /\ UNCHANGED server

\* The lease is free (or cannot be asked for): the next of three rounds.
WaitForPeer(r) ==
    /\ pc[r] = "peer"
    /\ r \notin Streams \/ RowSize \in {Unknown, 0}
    /\ lease = NoToken \/ CacheMayFail
    /\ tries' = [tries EXCEPT ![r] = @ + 1]
    /\ Goto(r, IF tries[r] + 1 < MaxTries THEN "choose" ELSE "refresh")
    /\ att' = [att EXCEPT ![r] = NoToken]
    /\ UNCHANGED <<promised, sent, held, process, leases, download, volume, row, world>>

WaitTimesOut(r) ==
    /\ pc[r] = "peer"
    /\ r \notin Streams \/ RowSize \in {Unknown, 0}
    /\ Quit(r, "error")
    /\ UNCHANGED server

\* session.refresh: serve the blob the row names, or ask the client to retry.
Refresh(r) ==
    pc[r] = "refresh" /\ Quit(r, IF Cached THEN "served" ELSE "error") /\ UNCHANGED server

-----------------------------------------------------------------------------
(* _tail, _tail_peer, _from_blob.                                          *)

Lesser(m, n) == IF m < n THEN m ELSE n
Available(r) == partial[att[r]] - sent[r]

\* Mutant: nothing is held back.
ReadAndSend(r, step) ==
    LET n == Lesser(Chunk, Available(r))
    IN  /\ n > 0
        /\ Goto(r, step)
        /\ sent' = [sent EXCEPT ![r] = @ + n]
        /\ UNCHANGED <<att, tries, promised, held>>

\* Mutant: more bytes than promised are passed on.
ReadUnchecked(r, step) ==
    LET n == Lesser(Chunk, Available(r))
    IN  /\ n > 0
        /\ Goto(r, step)
        /\ sent' = [sent EXCEPT ![r] = @ + n]
        /\ held' = [held EXCEPT ![r] = n]
        /\ UNCHANGED <<att, tries, promised>>

\* Read the next chunk; the one before it goes to the client.
ReadChunk(r, step) ==
    LET n == Lesser(Chunk, Available(r))
    IN  /\ n > 0
        /\ IF sent[r] + n > promised[r]
           THEN Goto(r, "cut") /\ UNCHANGED <<sent, held>>
           ELSE /\ Goto(r, step)
                /\ sent' = [sent EXCEPT ![r] = @ + n]
                /\ held' = [held EXCEPT ![r] = n]
        /\ UNCHANGED <<att, tries, promised>>

\* The reads after the end: whole chunks, each pushing out the one before it.
LastChunk(r) == IF Available(r) % Chunk = 0 THEN Chunk ELSE Available(r) % Chunk
LastReads(r, ok) ==
    LET total == partial[att[r]]
        complete == ok /\ total = promised[r]
    IN  /\ Goto(r, IF complete THEN "complete" ELSE "cut")
        /\ sent' = [sent EXCEPT ![r] = total]
        /\ held' = [held EXCEPT ![r] = IF complete THEN 0
                                       ELSE IF Available(r) > 0 THEN LastChunk(r) ELSE @]
        /\ UNCHANGED <<att, tries, promised>>

\* Send a stored blob of the promised size.
FromBlob(r, t) ==
    /\ Goto(r, IF body[t] \in stored /\ body[t].len = promised[r] THEN "complete" ELSE "cut")
    /\ att' = [att EXCEPT ![r] = t]
    /\ sent' = [sent EXCEPT ![r] = IF body[t].len = promised[r] THEN promised[r] ELSE 0]
    /\ UNCHANGED <<tries, promised, held>>

\* Open the partial file, if it is still where it was.
TailOpen(r) ==
    pc[r] = "tail" /\ Become(r, IF AtPath(att[r]) THEN "read" ELSE "finish") /\ UNCHANGED server

TailFinished(r) ==
    /\ pc[r] = "finish"
    /\ Done(att[r])
    /\ IF att[r] \in error THEN Become(r, "cut") ELSE FromBlob(r, att[r])
    /\ UNCHANGED server

TailRead(r) ==
    pc[r] = "read" /\ ReadChunk(r, "read") /\ UNCHANGED server

TailEnd(r) ==
    /\ pc[r] = "read"
    /\ Available(r) = 0
    /\ Become(r, "wait")
    /\ UNCHANGED server

\* fill.changed.wait() returns.
TailWake(r) ==
    /\ pc[r] = "wait"
    /\ ~Done(att[r]) /\ written[att[r]] > sent[r]
    /\ Become(r, "read")
    /\ UNCHANGED server

TailDone(r) ==
    /\ pc[r] = "wait"
    /\ Done(att[r])
    /\ LastReads(r, att[r] \notin error)
    /\ UNCHANGED server

\* BlobStore.finished_for, and the places of BlobStore.partials_for.  The files
\* come latest first, so when live_within drops the first it drops them all:
\* the reader picks the first or none.
FinishedFor == {t \in Tokens : marker[t] = "ok" /\ body[t] \in stored}
PartialsFor == {i \in DOMAIN paths : marker[paths[i]] = "none"}

PeerFinished(r) ==
    pc[r] = "look" /\ \E t \in FinishedFor : FromBlob(r, t) /\ UNCHANGED server

PeerPick(r) ==
    /\ pc[r] = "look"
    /\ FinishedFor = {}
    /\ \E i \in PartialsFor : (\A j \in PartialsFor : i <= j) /\ Follow(r, "peeropen", paths[i])
    /\ UNCHANGED server

\* For PEER_STALL_SECONDS no partial file, or none written to that recently.
PeerNotStarted(r) ==
    /\ pc[r] = "look"
    /\ FinishedFor = {}
    /\ Become(r, "cut")
    /\ UNCHANGED server

PeerOpen(r) ==
    pc[r] = "peeropen" /\ Become(r, IF AtPath(att[r]) THEN "peerread" ELSE "peerblob") /\ UNCHANGED server

PeerRead(r) ==
    pc[r] = "peerread" /\ ReadChunk(r, "peerread") /\ UNCHANGED server

\* Nothing more to read: look for the marker next.
PeerEnd(r) ==
    /\ pc[r] = "peerread"
    /\ Available(r) = 0
    /\ Become(r, "peermark")
    /\ UNCHANGED server

PeerAgain(r) ==
    /\ pc[r] = "peermark"
    /\ marker[att[r]] = "none"
    /\ Available(r) > 0
    /\ Become(r, "peerread")
    /\ UNCHANGED server

PeerOutcome(r) ==
    /\ pc[r] \in {"peermark", "peerblob"}
    /\ marker[att[r]] # "none"
    /\ CASE marker[att[r]] = "failed" -> Become(r, "cut")
         [] marker[att[r]] = "ok" /\ pc[r] = "peermark" -> LastReads(r, TRUE)
         [] marker[att[r]] = "ok" /\ pc[r] = "peerblob" -> FromBlob(r, att[r])
    /\ UNCHANGED server

\* Mutant: no timer for a reader that has no file to read.
PeerStallReading(r) ==
    /\ pc[r] = "peermark"
    /\ marker[att[r]] = "none"
    /\ Become(r, "cut")
    /\ UNCHANGED server

\* No progress for PEER_STALL_SECONDS.
PeerStall(r) ==
    /\ pc[r] \in {"peermark", "peerblob"}
    /\ marker[att[r]] = "none"
    /\ Become(r, "cut")
    /\ UNCHANGED server

-----------------------------------------------------------------------------
(* Clients leave, processes die, time passes.                              *)

\* A client that only reads or waits takes nothing with it.
Leave(r) ==
    /\ pc[r] \notin {"idle", "asking", "recheck", "connect"} \cup Ended
    /\ Quit(r, "gone")
    /\ UNCHANGED server

\* Partial files, markers and the lease outlive the process.
Crash(p) ==
    /\ crashes < MaxCrashes
    /\ crashes' = crashes + 1
    /\ fills' = [fills EXCEPT ![p] = NoToken]
    /\ opening' = [opening EXCEPT ![p] = NoToken]
    /\ phase' = [t \in Tokens |-> IF phase[t] # "unused" /\ at[t] = p THEN "gone" ELSE phase[t]]
    /\ LET dying == {r \in Requests : home[r] = p /\ pc[r] \notin {"idle"} \cup Ended}
       IN  pc' = [r \in Requests |-> IF r \in dying THEN "gone" ELSE pc[r]] /\ Forgets(dying)
    /\ UNCHANGED <<leases, at, body, future, written, error, volume, row, home>>

\* A lease nobody renews lapses after LEASE_SECONDS.
Renewed == lease \in owned /\ phase[lease] \in {"opening", "over"} \cup Running
Lapse ==
    /\ lease # NoToken
    /\ Renewed => LeaseMayLapse
    /\ lease' = NoToken
    /\ UNCHANGED <<process, owned, download, volume, row, world, request>>

\* cleanup_tmp: what a download an hour ago left behind.
CleanupTmp(t) ==
    /\ phase[t] = "gone"
    /\ AtPath(t) \/ marker[t] # "none"
    /\ paths' = Unlinked(t)
    /\ marker' = [marker EXCEPT ![t] = "none"]
    /\ UNCHANGED <<process, leases, download, partial, stored, row, world, request>>

-----------------------------------------------------------------------------
\* What the server does for a request once it is there.
Serve(r) ==
    \/ Join(r) \/ StartOpening(r) \/ Acquire(r) \/ AcquireRefused(r) \/ RecheckCached(r)
    \/ RecheckMissing(r) \/ OpenUpstream(r) \/ OpenFails(r) \/ Joined(r)
    \/ StartTail(r) \/ Followed(r) \/ StartTailPeer(r) \/ WaitForPeer(r) \/ WaitTimesOut(r)
    \/ Refresh(r) \/ TailOpen(r) \/ TailFinished(r) \/ TailRead(r) \/ TailEnd(r) \/ TailWake(r)
    \/ TailDone(r) \/ PeerFinished(r) \/ PeerPick(r) \/ PeerNotStarted(r) \/ PeerOpen(r)
    \/ PeerRead(r) \/ PeerEnd(r) \/ PeerAgain(r) \/ PeerOutcome(r) \/ PeerStall(r)

RunFill(t) ==
    Write(t) \/ Advance(t) \/ Adopt(t) \/ Fail(t) \/ Record(t) \/ Finish(t) \/ FinishRelease(t)

Next ==
    \/ \E r \in Requests : Arrive(r) \/ Serve(r) \/ CancelAsking(r) \/ Leave(r)
    \/ \E t \in Tokens : RunFill(t) \/ CleanupTmp(t)
    \/ \E p \in Replicas : Crash(p)
    \/ Lapse

Spec == Init /\ [][Next]_vars

\* The event loop runs every task that can run, every timer fires in the end
\* (a download has a deadline), and a key with a TTL lapses.
Fairness ==
    /\ \A r \in Requests : WF_vars(Serve(r))
    /\ \A t \in Tokens : WF_vars(RunFill(t))
    /\ WF_vars(Lapse)

LiveSpec == Spec /\ Fairness

-----------------------------------------------------------------------------
TypeOK ==
    /\ fills \in [Replicas -> Tokens \cup {NoToken}]
    /\ opening \in [Replicas -> Tokens \cup {NoToken}]
    /\ lease \in Tokens \cup {NoToken}
    /\ owned \subseteq Tokens /\ error \subseteq Tokens
    /\ paths \in Seq(Tokens)
    /\ phase \in [Tokens -> {"unused", "asking", "opening", "over", "gone"} \cup Running]
    /\ at \in [Tokens -> Replicas]
    /\ body \in [Tokens -> Bodies \cup {NoBody}]
    /\ future \in [Tokens -> {"pending", "error", "peer", "cached", "fill"}]
    /\ partial \in [Tokens -> Nat]
    /\ written \in [Tokens -> Nat] /\ \A t \in Tokens : written[t] <= partial[t]
    /\ marker \in [Tokens -> {"none", "ok", "failed"}]
    /\ stored \subseteq Bodies
    /\ row \in Bodies \cup {NoBody}
    /\ crashes \in Nat /\ home \in Homes
    /\ pc \in [Requests -> {"idle", "choose", "asking", "joining", "recheck", "connect", "following",
                            "peer", "refresh", "tail", "finish", "read", "wait", "look", "peeropen",
                            "peerread", "peermark", "peerblob"} \cup Ended]
    /\ att \in [Requests -> Tokens \cup {NoToken}]
    /\ tries \in [Requests -> 0..MaxTries]
    /\ promised \in [Requests -> Nat \cup {Unknown}]
    /\ sent \in [Requests -> Nat] /\ held \in [Requests -> Nat]

\* Bytes that have left for the client.
Delivered(r) == sent[r] - held[r]

\* A client that has received as many bytes as its response promised has
\* received a verified artifact, whole (module docstring of artifacts.py and
\* _tail: the last chunk waits for the verification).
NoUnverifiedBody ==
    \A r \in Requests :
        promised[r] # Unknown /\ Delivered(r) >= promised[r] =>
            body[att[r]] \in stored /\ body[att[r]].len = promised[r]

\* Requests of one process collapse into one download (_fills, _opening).
Attempting == {"asking", "opening"} \cup Running
OneFillPerProcess ==
    \A t, u \in Tokens : {phase[t], phase[u]} \subseteq Attempting /\ at[t] = at[u] => t = u

\* While the lease works, replicas too share one download, and nobody asks
\* the upstream for a file that is cached already.
OneDownload ==
    /\ \A t, u \in Tokens : {phase[t], phase[u]} \subseteq Attempting \ {"asking"} => t = u
    /\ \A r \in Requests : pc[r] = "connect" => ~Cached

\* A request that was told the file is cached finds it so: fill.finish comes
\* after the transaction that records the blob.
FollowersFindIt ==
    \A r \in Requests : pc[r] = "refresh" /\ tries[r] < MaxTries => Cached

\* Every request ends: nobody waits for an attempt, a download or a peer that
\* will never speak again.
RequestsEnd == \A r \in Requests : pc[r] # "idle" ~> pc[r] \in Ended

\* A download always gives its claim back, so that others may try.
LeaseComesFree == \A t \in Tokens : lease = t ~> lease # t
=============================================================================
