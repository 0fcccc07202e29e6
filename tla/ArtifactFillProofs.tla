-------------------------- MODULE ArtifactFillProofs --------------------------
(***************************************************************************)
(* What ArtifactFill guarantees for any number of processes, requests and   *)
(* attempts, any answers, crashes, and any cache and volume: one download   *)
(* at most per process, and whoever is sent to the cached file finds it;     *)
(* with a working lease, one download in the deployment; and, if no answer  *)
(* is longer than the size its readers were promised, no client's body is   *)
(* complete before it is verified.                                         *)
(***************************************************************************)
EXTENDS ArtifactFill, TLAPS

-----------------------------------------------------------------------------
(* Types.                                                                  *)

\* Requests that open a download, that follow one of their own process, that
\* read a peer's file, and those whose response headers are out.
Openers == {"asking", "recheck", "connect"}
Local == {"following", "tail", "finish", "read", "wait"}
PeerReaders == {"peeropen", "peerread", "peermark", "peerblob"}
Headed == {"tail", "finish", "read", "wait", "look"} \cup PeerReaders

Steps == {"idle", "choose", "asking", "joining", "recheck", "connect", "following",
          "peer", "refresh", "tail", "finish", "read", "wait", "look", "peeropen",
          "peerread", "peermark", "peerblob"} \cup Ended

ServerTypes ==
    /\ fills \in [Replicas -> Tokens \cup {NoToken}]
    /\ opening \in [Replicas -> Tokens \cup {NoToken}]
    /\ lease \in Tokens \cup {NoToken}
    /\ owned \subseteq Tokens /\ error \subseteq Tokens
    /\ paths \in Seq(Tokens)
    /\ phase \in [Tokens -> {"unused", "asking", "opening", "over", "gone"} \cup Running]
    /\ at \in [Tokens -> Replicas]
    /\ body \in [Tokens -> Bodies \cup {NoBody}]
    /\ future \in [Tokens -> {"pending", "error", "peer", "cached", "fill"}]
    /\ partial \in [Tokens -> Nat]
    /\ written \in [Tokens -> Nat] /\ \A t \in Tokens : written[t] <= partial[t]
    /\ marker \in [Tokens -> {"none", "ok", "failed"}]
    /\ stored \subseteq Bodies
    /\ row \in Bodies \cup {NoBody}
    /\ crashes \in Nat /\ home \in Homes /\ home \in [Requests -> Replicas]

RequestTypes ==
    /\ pc \in [Requests -> Steps]
    /\ att \in [Requests -> Tokens \cup {NoToken}]
    /\ tries \in [Requests -> 0..MaxTries]
    /\ promised \in [Requests -> Nat \cup {Unknown}]
    /\ sent \in [Requests -> Nat] /\ held \in [Requests -> Nat]

\* A request has the attempt, the promise and the tries its step goes by.
PcInv ==
    \A r \in Requests :
        /\ pc[r] \in Openers \cup Local \cup PeerReaders \cup {"joining"} => att[r] \in Tokens
        /\ pc[r] \in Headed => promised[r] \in Nat
        /\ pc[r] \notin {"refresh"} \cup Ended => tries[r] < MaxTries

\* What runs, what was handed on and what is followed has been answered.
Opened ==
    /\ \A p \in Replicas : fills[p] # NoToken => body[fills[p]] \in Bodies
    /\ \A t \in Tokens : future[t] = "fill" => body[t] \in Bodies
    /\ \A t \in Tokens : phase[t] \in Running => body[t] \in Bodies
    /\ \A r \in Requests : pc[r] \in Local => body[att[r]] \in Bodies

Typing == ServerTypes /\ RequestTypes /\ PcInv /\ Opened

\* Before any request nothing is opened.
LEMMA InitTyped == Init => Typing
<1> SUFFICES ASSUME Init PROVE Typing
  OBVIOUS
<1>1. (CHOOSE p \in Replicas : TRUE) \in Replicas
  BY FillAssumption
<1>2. ServerTypes
  BY <1>1, FillAssumption DEF Init, ServerTypes
<1>3. RequestTypes /\ PcInv
  BY FillAssumption DEF Init, RequestTypes, PcInv, Steps, Unknown, Openers, Local, PeerReaders, Headed, Ended
<1>4. Opened
  BY DEF Init, Opened, Local, Running
<1> QED
  BY <1>2, <1>3, <1>4 DEF Typing

\* A partial file that is removed or written to leaves a list of files.
LEMMA PathsTyped ==
    ASSUME paths \in Seq(Tokens), NEW t \in Tokens
    PROVE  Unlinked(t) \in Seq(Tokens) /\ Touched(t) \in Seq(Tokens)
<1>1. Unlinked(t) \in Seq(Tokens)
  <2>1. CASE AtPath(t)
    <3> DEFINE i == CHOOSE i \in DOMAIN paths : paths[i] = t
    <3>1. i \in 1..Len(paths)
      BY <2>1 DEF AtPath
    <3> HIDE DEF i
    <3>2. SubSeq(paths, 1, i - 1) \in Seq(Tokens) /\ SubSeq(paths, i + 1, Len(paths)) \in Seq(Tokens)
      BY <3>1
    <3>3. RemoveAt(paths, i) \in Seq(Tokens)
      BY <3>2 DEF RemoveAt
    <3> QED
      BY <2>1, <3>3 DEF Unlinked, i
  <2>2. CASE ~AtPath(t)
    BY <2>2 DEF Unlinked
  <2> QED
    BY <2>1, <2>2
<1> QED
  BY <1>1 DEF Touched

\* A request's step changes what this request has and no other's.
LEMMA OneMoves ==
    ASSUME RequestTypes, NEW r \in Requests, NEW step \in Steps
    PROVE  /\ Goto(r, step) =>
                 pc' \in [Requests -> Steps] /\ pc'[r] = step /\ \A s \in Requests : s # r => pc'[s] = pc[s]
           /\ \A t \in Tokens \cup {NoToken} : att' = [att EXCEPT ![r] = t] =>
                 /\ att' \in [Requests -> Tokens \cup {NoToken}]
                 /\ att'[r] = t /\ \A s \in Requests : s # r => att'[s] = att[s]
           /\ Forgets({r}) =>
                 /\ att' \in [Requests -> Tokens \cup {NoToken}] /\ att'[r] = NoToken
                 /\ tries' \in [Requests -> 0..MaxTries] /\ tries'[r] = 0
                 /\ promised' \in [Requests -> Nat \cup {Unknown}] /\ promised'[r] = Unknown
                 /\ sent' \in [Requests -> Nat] /\ sent'[r] = 0
                 /\ held' \in [Requests -> Nat] /\ held'[r] = 0
                 /\ \A s \in Requests : s # r => /\ att'[s] = att[s] /\ tries'[s] = tries[s] /\ promised'[s] = promised[s]
                                                 /\ sent'[s] = sent[s] /\ held'[s] = held[s]
<1> USE FillAssumption DEF RequestTypes
<1>1. Goto(r, step) => pc' \in [Requests -> Steps] /\ pc'[r] = step /\ \A s \in Requests : s # r => pc'[s] = pc[s]
  BY DEF Goto
<1>2. ASSUME NEW t \in Tokens \cup {NoToken}, att' = [att EXCEPT ![r] = t]
      PROVE  /\ att' \in [Requests -> Tokens \cup {NoToken}]
             /\ att'[r] = t /\ \A s \in Requests : s # r => att'[s] = att[s]
  BY <1>2
<1>3. Forgets({r}) =>
                 /\ att' \in [Requests -> Tokens \cup {NoToken}] /\ att'[r] = NoToken
                 /\ tries' \in [Requests -> 0..MaxTries] /\ tries'[r] = 0
                 /\ promised' \in [Requests -> Nat \cup {Unknown}] /\ promised'[r] = Unknown
                 /\ sent' \in [Requests -> Nat] /\ sent'[r] = 0
                 /\ held' \in [Requests -> Nat] /\ held'[r] = 0
                 /\ \A s \in Requests : s # r => /\ att'[s] = att[s] /\ tries'[s] = tries[s] /\ promised'[s] = promised[s]
                                                 /\ sent'[s] = sent[s] /\ held'[s] = held[s]
  BY DEF Forgets
<1> QED
  BY <1>1, <1>2, <1>3

\* What a request may do that changes nothing but the request.
Reads(r) ==
    \/ Arrive(r) \/ Join(r) \/ RecheckMissing(r) \/ Joined(r) \/ StartTail(r) \/ Followed(r) \/ StartTailPeer(r)
    \/ WaitForPeer(r) \/ WaitTimesOut(r) \/ Refresh(r) \/ Leave(r)
    \/ TailOpen(r) \/ TailFinished(r) \/ TailRead(r) \/ TailEnd(r) \/ TailWake(r) \/ TailDone(r)
    \/ PeerFinished(r) \/ PeerPick(r) \/ PeerNotStarted(r) \/ PeerOpen(r) \/ PeerRead(r) \/ PeerEnd(r)
    \/ PeerAgain(r) \/ PeerOutcome(r) \/ PeerStall(r)

Others(r) ==
    \A s \in Requests : s # r => /\ pc'[s] = pc[s] /\ att'[s] = att[s] /\ tries'[s] = tries[s]
                                 /\ promised'[s] = promised[s] /\ sent'[s] = sent[s] /\ held'[s] = held[s]

\* What a request's new step needs of it.
Fits(r) ==
    /\ pc[r] \in Openers \cup Local \cup PeerReaders \cup {"joining"} => att[r] \in Tokens
    /\ pc[r] \in Headed => promised[r] \in Nat
    /\ pc[r] \notin {"refresh"} \cup Ended => tries[r] < MaxTries
    /\ pc[r] \in Local => body[att[r]] \in Bodies

\* A step of one request that leaves the server as it is leaves it typed.
LEMMA FitsAll ==
    ASSUME Typing, NEW r \in Requests, UNCHANGED server, Others(r), RequestTypes', Fits(r)'
    PROVE  Typing'
<1>1. ServerTypes'
  BY DEF Typing, ServerTypes, server, process, leases, download, volume, world
<1>2. UNCHANGED <<fills, future, body, phase>>
  BY DEF server, process, download
<1>3. PcInv'
  BY DEF Typing, PcInv, Others, Fits
<1>4. Opened'
  BY <1>2 DEF Typing, Opened, Others, Fits
<1> QED
  BY <1>1, <1>3, <1>4 DEF Typing

\* The same request with another step,
LEMMA BecomesTyped ==
    ASSUME Typing, NEW r \in Requests, NEW step \in Steps, Become(r, step),
           step \in Openers \cup Local \cup PeerReaders \cup {"joining"} => att[r] \in Tokens,
           step \in Headed => promised[r] \in Nat,
           step \notin {"refresh"} \cup Ended => tries[r] < MaxTries,
           step \in Local => body[att[r]] \in Bodies
    PROVE  RequestTypes' /\ Others(r) /\ (UNCHANGED body => Fits(r)')
<1>1. pc' \in [Requests -> Steps] /\ pc'[r] = step /\ \A s \in Requests : s # r => pc'[s] = pc[s]
  BY OneMoves DEF Become, Typing
<1>2. UNCHANGED <<att, tries, promised, sent, held>>
  BY DEF Become
<1> QED
  BY <1>1, <1>2 DEF Typing, RequestTypes, Others, Fits

\* a request that is over,
LEMMA QuitsTyped ==
    ASSUME Typing, NEW r \in Requests, NEW step \in Ended, Quit(r, step)
    PROVE  RequestTypes' /\ Others(r) /\ Fits(r)' /\ pc'[r] = step /\ sent'[r] = 0 /\ held'[r] = 0 /\ promised'[r] = Unknown
<1>0. step \in Steps
  BY DEF Steps
<1>1. /\ pc' \in [Requests -> Steps] /\ pc'[r] = step /\ \A s \in Requests : s # r => pc'[s] = pc[s]
      /\ Forgets({r})
  BY <1>0, OneMoves DEF Quit, Typing
<1>2. RequestTypes' /\ Others(r) /\ sent'[r] = 0 /\ held'[r] = 0 /\ promised'[r] = Unknown
  BY <1>1, OneMoves DEF Typing, RequestTypes, Others
<1> QED
  BY <1>1, <1>2 DEF Fits, Ended, Openers, Local, PeerReaders, Headed

\* and one that takes up an attempt.
LEMMA FollowsTyped ==
    ASSUME Typing, NEW r \in Requests, NEW step \in Openers \cup PeerReaders \cup {"joining", "following"}, NEW t \in Tokens,
           Follow(r, step, t), step \in Headed => promised[r] \in Nat, tries[r] < MaxTries,
           step = "following" => body[t] \in Bodies
    PROVE  /\ RequestTypes' /\ Others(r) /\ (UNCHANGED body => Fits(r)')
           /\ pc'[r] = step /\ att'[r] = t
<1>0. step \in Steps
  BY DEF Steps, Openers, PeerReaders
<1>1. /\ pc' \in [Requests -> Steps] /\ pc'[r] = step /\ \A s \in Requests : s # r => pc'[s] = pc[s]
      /\ att' = [att EXCEPT ![r] = t]
  BY <1>0, OneMoves DEF Follow, Typing
<1>2. /\ att' \in [Requests -> Tokens \cup {NoToken}] /\ att'[r] = t /\ \A s \in Requests : s # r => att'[s] = att[s]
      /\ UNCHANGED <<tries, promised, sent, held>>
  BY <1>1 DEF Follow, Typing, RequestTypes
<1> QED
  BY <1>1, <1>2 DEF Typing, RequestTypes, Others, Fits, Openers, PeerReaders, Local

\* Headers go out with a length.
LEMMA PromisesTyped ==
    ASSUME Typing, NEW r \in Requests, NEW step \in {"tail", "look"}, NEW size \in Nat, Promise(r, step, size),
           step = "tail" => att[r] \in Tokens /\ body[att[r]] \in Bodies, tries[r] < MaxTries
    PROVE  /\ RequestTypes' /\ Others(r) /\ (UNCHANGED body => Fits(r)')
           /\ pc'[r] = step /\ promised'[r] = size /\ UNCHANGED <<att, tries, sent, held>>
<1>0. step \in Steps
  BY DEF Steps
<1>1. pc' \in [Requests -> Steps] /\ pc'[r] = step /\ \A s \in Requests : s # r => pc'[s] = pc[s]
  BY <1>0, OneMoves DEF Promise, Typing
<1>2. promised' = [promised EXCEPT ![r] = size] /\ UNCHANGED <<att, tries, sent, held>>
  BY DEF Promise
<1> QED
  BY <1>1, <1>2 DEF Typing, RequestTypes, Others, Fits, Openers, PeerReaders, Local, Headed

\* The bytes of one read, the one before them having gone to the client.
LEMMA ChunkTyped ==
    ASSUME Typing, NEW r \in Requests, NEW step \in {"read", "peerread"}, pc[r] = step, ReadChunk(r, step)
    PROVE  /\ RequestTypes' /\ Others(r) /\ (UNCHANGED body => Fits(r)')
           /\ UNCHANGED <<att, tries, promised>>
           /\ \/ pc'[r] = "cut" /\ sent'[r] = sent[r] /\ held'[r] = held[r]
              \/ /\ pc'[r] = step
                 /\ sent'[r] <= promised[r] /\ sent'[r] <= partial[att[r]] /\ 0 < held'[r]
                 /\ held'[r] = sent'[r] - sent[r]
<1>1. /\ att[r] \in Tokens /\ promised[r] \in Nat /\ tries[r] < MaxTries /\ (step = "read" => body[att[r]] \in Bodies)
      /\ partial[att[r]] \in Nat /\ sent[r] \in Nat /\ held[r] \in Nat
  BY DEF Typing, ServerTypes, RequestTypes, PcInv, Opened, Local, PeerReaders, Headed, Ended
<1> DEFINE n == Lesser(Chunk, Available(r))
<1>2. n \in Nat /\ n > 0 /\ n <= partial[att[r]] - sent[r]
  BY <1>1, FillAssumption DEF ReadChunk, Lesser, Available
<1>3. /\ UNCHANGED <<att, tries, promised>>
      /\ \/ Goto(r, "cut") /\ UNCHANGED <<sent, held>>
         \/ /\ Goto(r, step) /\ sent[r] + n <= promised[r]
            /\ sent' = [sent EXCEPT ![r] = @ + n] /\ held' = [held EXCEPT ![r] = n]
  BY <1>1, <1>2 DEF ReadChunk
<1> HIDE DEF n
<1>4. "cut" \in Steps /\ step \in Steps
  BY DEF Steps, Ended
<1>5. CASE Goto(r, "cut") /\ UNCHANGED <<sent, held>>
  <2>1. pc' \in [Requests -> Steps] /\ pc'[r] = "cut" /\ \A s \in Requests : s # r => pc'[s] = pc[s]
    BY <1>4, <1>5, OneMoves DEF Typing
  <2> QED
    BY <1>3, <1>5, <2>1 DEF Typing, RequestTypes, Others, Fits, Ended, Openers, PeerReaders, Local, Headed
<1>6. CASE /\ Goto(r, step) /\ sent[r] + n <= promised[r]
           /\ sent' = [sent EXCEPT ![r] = @ + n] /\ held' = [held EXCEPT ![r] = n]
  <2>1. pc' \in [Requests -> Steps] /\ pc'[r] = step /\ \A s \in Requests : s # r => pc'[s] = pc[s]
    <3>1. Goto(r, step) /\ RequestTypes
      BY <1>6 DEF Typing
    <3> QED
      BY <1>4, <3>1, OneMoves
  <2>2. /\ sent' \in [Requests -> Nat] /\ held' \in [Requests -> Nat] /\ sent'[r] = sent[r] + n /\ held'[r] = n
        /\ \A s \in Requests : s # r => sent'[s] = sent[s] /\ held'[s] = held[s]
    BY <1>1, <1>2, <1>6 DEF Typing, RequestTypes
  <2>3. RequestTypes' /\ Others(r)
    BY <1>3, <2>1, <2>2 DEF Typing, RequestTypes, Others
  <2>4. UNCHANGED body => Fits(r)'
    BY <1>1, <1>3, <2>1 DEF Fits, Ended, Openers, PeerReaders, Local, Headed
  <2> QED
    BY <1>1, <1>2, <1>3, <1>6, <2>1, <2>2, <2>3, <2>4
<1> QED
  BY <1>3, <1>5, <1>6

\* The reads after the end: all there is, its last chunk perhaps held back.
LEMMA LastTyped ==
    ASSUME Typing, NEW r \in Requests, NEW ok \in BOOLEAN, pc[r] \in {"wait", "peermark"}, LastReads(r, ok)
    PROVE  /\ RequestTypes' /\ Others(r) /\ Fits(r)'
           /\ UNCHANGED <<att, tries, promised>> /\ sent'[r] = partial[att[r]]
           /\ \/ pc'[r] = "complete" /\ ok /\ partial[att[r]] = promised[r]
              \/ /\ pc'[r] = "cut"
                 /\ partial[att[r]] > sent[r] => held'[r] > 0
                 /\ partial[att[r]] <= sent[r] => held'[r] = held[r]
<1>1. att[r] \in Tokens /\ partial[att[r]] \in Nat /\ sent[r] \in Nat /\ held[r] \in Nat /\ Chunk \in Nat /\ Chunk > 0
  BY FillAssumption DEF Typing, ServerTypes, RequestTypes, PcInv, Local, PeerReaders
<1> DEFINE complete == ok /\ partial[att[r]] = promised[r]
           rest == IF complete THEN 0 ELSE IF Available(r) > 0 THEN LastChunk(r) ELSE held[r]
<1>2. Available(r) \in Int /\ Available(r) = partial[att[r]] - sent[r]
  BY <1>1 DEF Available
<1>3. Available(r) > 0 => LastChunk(r) \in Nat /\ LastChunk(r) > 0
  <2>1. Available(r) % Chunk \in 0..(Chunk - 1)
    BY <1>1, <1>2
  <2> QED
    BY <1>1, <2>1 DEF LastChunk
<1>4. rest \in Nat
  BY <1>1, <1>3
<1>5. /\ Goto(r, IF complete THEN "complete" ELSE "cut")
      /\ sent' = [sent EXCEPT ![r] = partial[att[r]]] /\ held' = [held EXCEPT ![r] = rest] /\ UNCHANGED <<att, tries, promised>>
  BY DEF LastReads
<1>6. {"complete", "cut"} \subseteq Steps /\ {"complete", "cut"} \subseteq Ended
  BY DEF Steps, Ended
<1>7. /\ pc' \in [Requests -> Steps] /\ pc'[r] = (IF complete THEN "complete" ELSE "cut")
      /\ \A s \in Requests : s # r => pc'[s] = pc[s]
  BY <1>5, <1>6, OneMoves DEF Typing
<1>8. rest > 0 \/ complete \/ (partial[att[r]] <= sent[r] /\ rest = held[r])
  BY <1>1, <1>2, <1>3
<1> HIDE DEF rest
<1>9. /\ sent' \in [Requests -> Nat] /\ held' \in [Requests -> Nat] /\ sent'[r] = partial[att[r]] /\ held'[r] = rest
      /\ \A s \in Requests : s # r => sent'[s] = sent[s] /\ held'[s] = held[s]
  BY <1>1, <1>4, <1>5 DEF Typing, RequestTypes
<1>10. RequestTypes' /\ Others(r) /\ Fits(r)'
  BY <1>5, <1>6, <1>7, <1>9 DEF Typing, RequestTypes, Others, Fits, Ended, Openers, PeerReaders, Local, Headed
<1>11. ~complete /\ partial[att[r]] <= sent[r] => rest = held[r]
  BY <1>1, <1>2 DEF rest
<1>12. ~complete /\ partial[att[r]] > sent[r] => rest > 0
  BY <1>1, <1>8
<1> QED
  BY <1>5, <1>7, <1>9, <1>10, <1>11, <1>12

\* A stored blob of the promised size is sent whole.
LEMMA BlobTyped ==
    ASSUME Typing, NEW r \in Requests, NEW t \in Tokens, promised[r] \in Nat, FromBlob(r, t)
    PROVE  /\ RequestTypes' /\ Others(r) /\ Fits(r)'
           /\ UNCHANGED <<tries, promised, held>> /\ att'[r] = t
           /\ \/ pc'[r] = "complete" /\ body[t] \in stored /\ body[t].len = promised[r]
              \/ pc'[r] = "cut" /\ (body[t] \in stored => sent'[r] = 0)
<1> DEFINE complete == body[t] \in stored /\ body[t].len = promised[r]
           size == IF body[t].len = promised[r] THEN promised[r] ELSE 0
<1>1. size \in Nat
  OBVIOUS
<1>2. /\ Goto(r, IF complete THEN "complete" ELSE "cut") /\ att' = [att EXCEPT ![r] = t]
      /\ sent' = [sent EXCEPT ![r] = size] /\ UNCHANGED <<tries, promised, held>>
  BY DEF FromBlob
<1>3. {"complete", "cut"} \subseteq Steps /\ {"complete", "cut"} \subseteq Ended
  BY DEF Steps, Ended
<1>4. /\ pc' \in [Requests -> Steps] /\ pc'[r] = (IF complete THEN "complete" ELSE "cut")
      /\ \A s \in Requests : s # r => pc'[s] = pc[s]
  BY <1>2, <1>3, OneMoves DEF Typing
<1>5. ~complete /\ body[t] \in stored => size = 0
  OBVIOUS
<1> HIDE DEF size
<1>6. /\ sent' \in [Requests -> Nat] /\ sent'[r] = size /\ att' \in [Requests -> Tokens \cup {NoToken}] /\ att'[r] = t
      /\ \A s \in Requests : s # r => sent'[s] = sent[s] /\ att'[s] = att[s]
  BY <1>1, <1>2 DEF Typing, RequestTypes
<1>7. RequestTypes' /\ Others(r) /\ Fits(r)'
  BY <1>2, <1>3, <1>4, <1>6 DEF Typing, RequestTypes, Others, Fits, Ended, Openers, PeerReaders, Local, Headed
<1> QED
  BY <1>2, <1>4, <1>5, <1>6, <1>7

\* Where such a step may lead: to the attempt or the download of this process,
\* on with the one followed, or to the cached file.
Leads(r) ==
    /\ pc'[r] \in Openers => pc[r] = "recheck" /\ pc'[r] = "connect" /\ att'[r] = att[r] /\ ~Cached
    /\ pc'[r] = "joining" => att'[r] = opening[home[r]] /\ att'[r] \in Tokens
    /\ pc'[r] \in Local => \/ att'[r] = fills[home[r]] /\ att'[r] \in Tokens
                           \/ att'[r] = att[r] /\ (pc[r] \in Local \/ (pc[r] = "joining" /\ future[att[r]] = "fill"))
    /\ pc'[r] = "refresh" => \/ tries'[r] >= MaxTries
                             \/ pc[r] = "joining" /\ future[att[r]] = "cached"
                             \/ pc[r] = "following" /\ Done(att[r]) /\ att[r] \notin error

\* The steps of a request, one by one.
LEMMA ReadTyped ==
    ASSUME Typing, NEW r \in Requests, Reads(r)
    PROVE  Typing' /\ UNCHANGED server /\ Others(r) /\ Leads(r)
<1> USE DEF Openers, Local, PeerReaders, Headed, Ended
<1>1. UNCHANGED server /\ UNCHANGED <<body, fills, opening, future, phase, error>>
  BY DEF Reads, Arrive, Join, RecheckMissing, Joined, StartTail, Followed, StartTailPeer, WaitForPeer, WaitTimesOut,
         Refresh, Leave, TailOpen, TailFinished, TailRead, TailEnd, TailWake, TailDone, PeerFinished, PeerPick,
         PeerNotStarted, PeerOpen, PeerRead, PeerEnd, PeerAgain, PeerOutcome, PeerStall,
         server, process, leases, download, volume, world
<1>2. /\ pc[r] \in {"asking", "recheck", "connect", "joining"} \cup Local \cup PeerReaders => att[r] \in Tokens
      /\ pc[r] \in Headed => promised[r] \in Nat
      /\ pc[r] \notin {"refresh"} \cup Ended => tries[r] < MaxTries
      /\ pc[r] \in Local => body[att[r]] \in Bodies
      /\ pc[r] \in Steps /\ home[r] \in Replicas
  BY DEF Typing, PcInv, Opened, RequestTypes, ServerTypes
<1>3. ASSUME RequestTypes', Others(r), Fits(r)' PROVE Typing'
  BY <1>1, <1>3, FitsAll
<1>4. ASSUME NEW step \in Steps, Become(r, step),
             step \in Openers \cup Local \cup PeerReaders \cup {"joining"} => att[r] \in Tokens,
             step \in Headed => promised[r] \in Nat,
             step \notin {"refresh"} \cup Ended => tries[r] < MaxTries,
             step \in Local => body[att[r]] \in Bodies
      PROVE  Typing' /\ Others(r) /\ pc'[r] = step /\ att'[r] = att[r] /\ tries'[r] = tries[r]
  <2>1. RequestTypes' /\ Others(r) /\ Fits(r)'
    BY <1>1, <1>4, BecomesTyped
  <2>2. pc'[r] = step /\ UNCHANGED <<att, tries>>
    BY <1>4, OneMoves DEF Become, Typing
  <2> QED
    BY <1>3, <2>1, <2>2
<1>5. ASSUME NEW step \in Ended, Quit(r, step) PROVE Typing' /\ Others(r) /\ Leads(r)
  BY <1>3, <1>5, QuitsTyped DEF Leads
<1>6. ASSUME NEW step \in {"joining", "following", "peeropen"}, NEW t \in Tokens, Follow(r, step, t), tries[r] < MaxTries,
             step = "following" => body[t] \in Bodies, step = "peeropen" => promised[r] \in Nat
      PROVE  Typing' /\ Others(r) /\ pc'[r] = step /\ att'[r] = t
  <2>1. RequestTypes' /\ Others(r) /\ Fits(r)' /\ pc'[r] = step /\ att'[r] = t
    BY <1>1, <1>6, FollowsTyped
  <2> QED
    BY <1>3, <2>1
<1>7. CASE Arrive(r)
  <2>1. pc[r] = "idle" /\ \E step \in {"served", "choose"} : Become(r, step)
    BY <1>7 DEF Arrive
  <2> QED
    BY <1>1, <1>2, <1>4, <2>1 DEF Leads, Steps
<1>8. CASE Join(r)
  <2>1. CASE fills[home[r]] # NoToken /\ Follow(r, "following", fills[home[r]])
    <3>1. fills[home[r]] \in Tokens /\ body[fills[home[r]]] \in Bodies /\ pc[r] = "choose"
      BY <1>2, <1>8, <2>1 DEF Typing, ServerTypes, Opened, Join
    <3> QED
      BY <1>1, <1>2, <1>6, <2>1, <3>1 DEF Leads
  <2>2. CASE opening[home[r]] # NoToken /\ Follow(r, "joining", opening[home[r]])
    <3>1. opening[home[r]] \in Tokens /\ pc[r] = "choose"
      BY <1>2, <1>8, <2>2 DEF Typing, ServerTypes, Join
    <3> QED
      BY <1>1, <1>2, <1>6, <2>2, <3>1 DEF Leads
  <2> QED
    BY <1>8, <2>1, <2>2 DEF Join
<1>9. CASE RecheckMissing(r)
  BY <1>1, <1>2, <1>4, <1>9 DEF RecheckMissing, Leads, Steps
<1>10. CASE Joined(r)
  <2>1. pc[r] = "joining" /\ att[r] \in Tokens
    BY <1>2, <1>10 DEF Joined
  <2>2. \/ future[att[r]] = "error" /\ Become(r, "choose")
        \/ future[att[r]] = "peer" /\ Become(r, "peer")
        \/ future[att[r]] = "cached" /\ Become(r, "refresh")
        \/ future[att[r]] = "fill" /\ Become(r, "following")
    BY <1>10, <2>1 DEF Joined, Typing, ServerTypes
  <2>3. future[att[r]] = "fill" => body[att[r]] \in Bodies
    BY <2>1 DEF Typing, Opened
  <2> QED
    BY <1>1, <1>2, <1>4, <2>1, <2>2, <2>3 DEF Leads, Steps
<1>11. CASE StartTail(r)
  <2>1. /\ pc[r] = "following" /\ Promise(r, "tail", Size(att[r])) /\ Size(att[r]) # Unknown
    BY <1>11 DEF StartTail
  <2>2. Size(att[r]) \in Nat
    BY <1>2, <2>1, FillAssumption DEF Size
  <2>3. RequestTypes' /\ Others(r) /\ Fits(r)' /\ pc'[r] = "tail" /\ att' = att
    BY <1>1, <1>2, <2>1, <2>2, PromisesTyped
  <2> QED
    BY <1>1, <1>3, <2>1, <2>3 DEF Leads
<1>12. CASE StartTailPeer(r)
  <2>1. pc[r] = "peer" /\ Promise(r, "look", RowSize) /\ RowSize \in Nat
    BY <1>12, FillAssumption DEF StartTailPeer
  <2>3. RequestTypes' /\ Others(r) /\ Fits(r)' /\ pc'[r] = "look"
    BY <1>1, <1>2, <2>1, PromisesTyped
  <2> QED
    BY <1>1, <1>3, <2>1, <2>3 DEF Leads
<1>13. CASE Followed(r)
  <2>1. pc[r] = "following" /\ Done(att[r]) /\ (att[r] \in error => Quit(r, "error")) /\ (att[r] \notin error => Become(r, "refresh"))
    BY <1>13 DEF Followed
  <2>2. CASE att[r] \in error
    BY <1>1, <1>5, <2>1, <2>2
  <2>3. CASE att[r] \notin error
    BY <1>1, <1>2, <1>4, <2>1, <2>3 DEF Leads, Steps
  <2> QED
    BY <2>2, <2>3
<1>14. CASE WaitForPeer(r)
  <2>1. /\ pc[r] = "peer" /\ tries' = [tries EXCEPT ![r] = @ + 1] /\ att' = [att EXCEPT ![r] = NoToken]
        /\ UNCHANGED <<promised, sent, held>>
        /\ Goto(r, IF tries[r] + 1 < MaxTries THEN "choose" ELSE "refresh")
    BY <1>14 DEF WaitForPeer
  <2>2. tries[r] < MaxTries /\ tries[r] \in Nat /\ MaxTries \in Nat
    BY <1>2, <2>1, FillAssumption DEF Typing, RequestTypes
  <2>3. {"choose", "refresh"} \subseteq Steps
    BY DEF Steps
  <2>4. pc' \in [Requests -> Steps] /\ pc'[r] = (IF tries[r] + 1 < MaxTries THEN "choose" ELSE "refresh")
        /\ \A s \in Requests : s # r => pc'[s] = pc[s]
    BY <2>1, <2>3, OneMoves DEF Typing
  <2>5. /\ tries' \in [Requests -> 0..MaxTries] /\ tries'[r] = tries[r] + 1 /\ \A s \in Requests : s # r => tries'[s] = tries[s]
        /\ att' \in [Requests -> Tokens \cup {NoToken}] /\ \A s \in Requests : s # r => att'[s] = att[s]
    BY <2>1, <2>2 DEF Typing, RequestTypes
  <2>6. RequestTypes' /\ Others(r) /\ Fits(r)'
    BY <2>1, <2>2, <2>4, <2>5 DEF Typing, RequestTypes, Others, Fits
  <2>7. Leads(r)
    BY <2>2, <2>4, <2>5 DEF Leads
  <2> QED
    BY <1>1, <1>3, <2>6, <2>7
<1>15. CASE WaitTimesOut(r) \/ Refresh(r) \/ Leave(r)
  <2>1. \E step \in Ended : Quit(r, step)
    BY <1>15 DEF WaitTimesOut, Refresh, Leave
  <2> QED
    BY <1>1, <1>5, <2>1
<1>16. CASE TailOpen(r) \/ TailEnd(r) \/ TailWake(r)
  <2>1. pc[r] \in {"tail", "read", "wait"} /\ \E step \in {"read", "finish", "wait"} : Become(r, step)
    BY <1>16 DEF TailOpen, TailEnd, TailWake
  <2> QED
    BY <1>1, <1>2, <1>4, <2>1 DEF Leads, Steps
<1>17. CASE PeerNotStarted(r) \/ PeerOpen(r) \/ PeerEnd(r) \/ PeerAgain(r) \/ PeerStall(r)
  <2>1. \/ Become(r, "cut")
        \/ pc[r] \in PeerReaders /\ \E step \in {"peerread", "peerblob", "peermark"} : Become(r, step)
    BY <1>17 DEF PeerNotStarted, PeerOpen, PeerEnd, PeerAgain, PeerStall
  <2> QED
    BY <1>1, <1>2, <1>4, <2>1 DEF Leads, Steps
<1>18. ASSUME NEW t \in Tokens, FromBlob(r, t), promised[r] \in Nat PROVE Typing' /\ Others(r) /\ Leads(r)
  <2>1. RequestTypes' /\ Others(r) /\ Fits(r)' /\ pc'[r] \in {"complete", "cut"}
    BY <1>18, BlobTyped
  <2> QED
    BY <1>3, <2>1 DEF Leads
<1>19. CASE TailFinished(r)
  <2>1. CASE att[r] \in error
    BY <1>1, <1>2, <1>4, <1>19, <2>1 DEF TailFinished, Leads, Steps
  <2>2. CASE att[r] \notin error
    BY <1>1, <1>2, <1>18, <1>19, <2>2 DEF TailFinished
  <2> QED
    BY <2>1, <2>2
<1>20. CASE PeerFinished(r)
  BY <1>1, <1>2, <1>18, <1>20 DEF PeerFinished, FinishedFor
<1>21. ASSUME NEW ok \in BOOLEAN, pc[r] \in {"wait", "peermark"}, LastReads(r, ok) PROVE Typing' /\ Others(r) /\ Leads(r)
  <2>1. RequestTypes' /\ Others(r) /\ Fits(r)' /\ pc'[r] \in {"complete", "cut"}
    BY <1>21, LastTyped
  <2> QED
    BY <1>3, <2>1 DEF Leads
<1>22. CASE TailDone(r)
  BY <1>1, <1>21, <1>22 DEF TailDone
<1>23. CASE PeerOutcome(r)
  <2>1. marker[att[r]] \in {"ok", "failed"} /\ pc[r] \in {"peermark", "peerblob"} /\ att[r] \in Tokens /\ promised[r] \in Nat
    BY <1>2, <1>23 DEF PeerOutcome, Typing, ServerTypes
  <2>2. CASE marker[att[r]] = "failed"
    BY <1>1, <1>2, <1>4, <1>23, <2>2 DEF PeerOutcome, Leads, Steps
  <2>3. CASE marker[att[r]] = "ok" /\ pc[r] = "peermark"
    <3>1. LastReads(r, TRUE)
      BY <1>23, <2>3 DEF PeerOutcome
    <3> QED
      BY <1>1, <1>21, <2>3, <3>1
  <2>4. CASE marker[att[r]] = "ok" /\ pc[r] = "peerblob"
    <3>1. FromBlob(r, att[r])
      BY <1>23, <2>4 DEF PeerOutcome
    <3> QED
      BY <1>1, <1>18, <2>1, <3>1
  <2> QED
    BY <2>1, <2>2, <2>3, <2>4
<1>24. CASE TailRead(r) \/ PeerRead(r)
  <2>1. PICK step \in {"read", "peerread"} : pc[r] = step /\ ReadChunk(r, step)
    BY <1>24 DEF TailRead, PeerRead
  <2>2. RequestTypes' /\ Others(r) /\ Fits(r)' /\ att' = att /\ pc'[r] \in {step, "cut"}
    BY <1>1, <2>1, ChunkTyped
  <2> QED
    BY <1>1, <1>3, <2>1, <2>2 DEF Leads
<1>25. CASE PeerPick(r)
  <2>1. PICK i \in PartialsFor : Follow(r, "peeropen", paths[i])
    BY <1>25 DEF PeerPick
  <2>2. paths[i] \in Tokens /\ pc[r] = "look"
    BY <1>25, <2>1 DEF PartialsFor, Typing, ServerTypes, PeerPick
  <2> QED
    BY <1>1, <1>2, <1>6, <2>1, <2>2 DEF Leads
<1> QED
  BY <1>1, <1>7, <1>8, <1>9, <1>10, <1>11, <1>12, <1>13, <1>14, <1>15, <1>16, <1>17, <1>19, <1>20, <1>22, <1>23, <1>24, <1>25
     DEF Reads

\* What a step must leave in order for the server and all requests to be typed.
LEMMA GoesOn ==
    ASSUME Typing, ServerTypes', RequestTypes', NEW r \in Requests, Others(r), Fits(r)',
           \A t \in Tokens : body[t] \in Bodies => body'[t] \in Bodies,
           \A p \in Replicas : fills'[p] \in {NoToken, fills[p]} \/ body'[fills'[p]] \in Bodies,
           \A t \in Tokens : future'[t] = "fill" => future[t] = "fill" \/ body'[t] \in Bodies,
           \A t \in Tokens : phase'[t] \in Running => phase[t] \in Running \/ body'[t] \in Bodies
    PROVE  Typing'
<1>1. PcInv'
  BY DEF Typing, PcInv, Others, Fits
<1>2. \A p \in Replicas : fills'[p] # NoToken => body'[fills'[p]] \in Bodies
  BY DEF Typing, Opened, ServerTypes
<1>3. \A s \in Requests : pc'[s] \in Local => body'[att'[s]] \in Bodies
  <2> TAKE s \in Requests
  <2>1. CASE s # r
    BY <2>1 DEF Typing, Opened, PcInv, Others
  <2> QED
    BY <2>1 DEF Fits
<1>4. Opened'
  BY <1>2, <1>3 DEF Typing, Opened
<1> QED
  BY <1>1, <1>4 DEF Typing

\* The attempt of a request that opens a download.
LEMMA OpenerHas ==
    ASSUME Typing, NEW r \in Requests, pc[r] \in Openers
    PROVE  att[r] \in Tokens /\ at[att[r]] \in Replicas /\ tries[r] < MaxTries
  BY DEF Typing, PcInv, ServerTypes, Openers, Ended

\* Opening a download, and giving up on it, leaves everything typed.
LEMMA OpeningTyped ==
    ASSUME Typing, NEW r \in Requests,
           StartOpening(r) \/ Acquire(r) \/ AcquireRefused(r) \/ RecheckCached(r) \/ OpenUpstream(r) \/ OpenFails(r)
               \/ CancelAsking(r)
    PROVE  Typing' /\ Others(r)
<1> USE DEF Openers, Local, PeerReaders, Headed, Ended
<1>1. \A t \in Tokens, p \in Replicas :
        /\ [opening EXCEPT ![p] = t] \in [Replicas -> Tokens \cup {NoToken}]
        /\ [opening EXCEPT ![p] = NoToken] \in [Replicas -> Tokens \cup {NoToken}]
        /\ [fills EXCEPT ![p] = t] \in [Replicas -> Tokens \cup {NoToken}]
        /\ [at EXCEPT ![t] = p] \in [Tokens -> Replicas]
  BY DEF Typing, ServerTypes
<1>2. \A t \in Tokens :
        /\ \A step \in {"asking", "opening", "down", "gone"} :
             [phase EXCEPT ![t] = step] \in [Tokens -> {"unused", "asking", "opening", "over", "gone"} \cup Running]
        /\ \A outcome \in {"error", "peer", "cached", "fill"} :
             [future EXCEPT ![t] = outcome] \in [Tokens -> {"pending", "error", "peer", "cached", "fill"}]
  BY DEF Typing, ServerTypes, Running
<1>12. \A t \in Tokens : \A step \in {"asking", "opening", "gone"} : phase' = [phase EXCEPT ![t] = step] =>
         \A u \in Tokens : phase'[u] \in Running => phase[u] \in Running
  BY DEF Typing, ServerTypes, Running
<1>3. \A t \in Tokens : Release(t) => lease' \in Tokens \cup {NoToken} /\ owned' \subseteq Tokens
  BY DEF Typing, ServerTypes, Release
<1>4. CASE StartOpening(r)
  <2>1. PICK t \in Tokens : /\ opening' = [opening EXCEPT ![home[r]] = t] /\ at' = [at EXCEPT ![t] = home[r]]
                            /\ phase' = [phase EXCEPT ![t] = "asking"] /\ Follow(r, "asking", t)
    BY <1>4 DEF StartOpening, Claim, Phase
  <2>2. pc[r] = "choose" /\ home[r] \in Replicas /\ tries[r] < MaxTries
        /\ UNCHANGED <<fills, lease, owned, body, future, written, error, partial, paths, marker, stored, row, crashes, home>>
    BY <1>4 DEF StartOpening, Claim, leases, volume, world, Typing, ServerTypes, PcInv
  <2>3. ServerTypes'
    BY <1>1, <1>2, <2>1, <2>2 DEF Typing, ServerTypes
  <2>4. RequestTypes' /\ Others(r) /\ Fits(r)'
    BY <2>1, <2>2, FollowsTyped
  <2> QED
    BY <1>12, <2>1, <2>2, <2>3, <2>4, GoesOn DEF Typing, ServerTypes, Opened
<1>5. CASE Acquire(r)
  <2>0. pc[r] \in Openers /\ Become(r, "recheck") /\ phase' = [phase EXCEPT ![att[r]] = "opening"]
    BY <1>5 DEF Acquire, Phase
  <2>1. att[r] \in Tokens /\ tries[r] < MaxTries
    BY <2>0, OpenerHas
  <2>2. lease' \in Tokens \cup {NoToken} /\ owned' \subseteq Tokens
        /\ UNCHANGED <<fills, opening, at, body, future, written, error, partial, paths, marker, stored, row, crashes, home>>
    BY <1>5, <2>1 DEF Acquire, process, volume, world, Typing, ServerTypes
  <2>3. ServerTypes'
    BY <1>2, <2>0, <2>1, <2>2 DEF Typing, ServerTypes
  <2>4. RequestTypes' /\ Others(r) /\ Fits(r)'
    BY <2>0, <2>1, <2>2, BecomesTyped DEF Steps
  <2> QED
    BY <1>12, <2>0, <2>1, <2>2, <2>3, <2>4, GoesOn DEF Typing, ServerTypes, Opened
<1>6. CASE AcquireRefused(r)
  <2>0. pc[r] \in Openers /\ Become(r, "peer") /\ phase' = [phase EXCEPT ![att[r]] = "gone"] /\ Settle(att[r], "peer")
    BY <1>6 DEF AcquireRefused, Phase
  <2>1. att[r] \in Tokens /\ at[att[r]] \in Replicas /\ tries[r] < MaxTries
    BY <2>0, OpenerHas
  <2>2. UNCHANGED <<fills, lease, owned, at, body, written, error, partial, paths, marker, stored, row, crashes, home>>
    BY <1>6 DEF AcquireRefused, leases, volume, world
  <2>3. ServerTypes'
    BY <1>1, <1>2, <2>0, <2>1, <2>2 DEF Typing, ServerTypes, Settle
  <2>4. RequestTypes' /\ Others(r) /\ Fits(r)'
    BY <2>0, <2>1, <2>2, BecomesTyped DEF Steps
  <2>5. \A t \in Tokens : future'[t] = "fill" => future[t] = "fill"
    BY <2>0, <2>1 DEF Settle, Typing, ServerTypes
  <2> QED
    BY <1>12, <2>0, <2>1, <2>2, <2>3, <2>4, <2>5, GoesOn DEF Typing, ServerTypes, Opened
<1>7. CASE RecheckCached(r)
  <2>0. pc[r] \in Openers /\ Become(r, "refresh") /\ phase' = [phase EXCEPT ![att[r]] = "gone"] /\ Settle(att[r], "cached")
        /\ Release(att[r])
    BY <1>7 DEF RecheckCached, Phase
  <2>1. att[r] \in Tokens /\ at[att[r]] \in Replicas /\ tries[r] < MaxTries
    BY <2>0, OpenerHas
  <2>2. UNCHANGED <<fills, at, body, written, error, partial, paths, marker, stored, row, crashes, home>>
    BY <1>7 DEF RecheckCached, volume, world
  <2>3. ServerTypes'
    BY <1>1, <1>2, <1>3, <2>0, <2>1, <2>2 DEF Typing, ServerTypes, Settle
  <2>4. RequestTypes' /\ Others(r) /\ Fits(r)'
    BY <2>0, <2>1, <2>2, BecomesTyped DEF Steps
  <2>5. \A t \in Tokens : future'[t] = "fill" => future[t] = "fill"
    BY <2>0, <2>1 DEF Settle, Typing, ServerTypes
  <2> QED
    BY <1>12, <2>0, <2>1, <2>2, <2>3, <2>4, <2>5, GoesOn DEF Typing, ServerTypes, Opened
<1>8. CASE OpenUpstream(r)
  <2>0. pc[r] \in Openers /\ Become(r, "following") /\ phase' = [phase EXCEPT ![att[r]] = "down"] /\ Settle(att[r], "fill")
        /\ paths' = Touched(att[r]) /\ fills' = [fills EXCEPT ![at[att[r]]] = att[r]]
    BY <1>8 DEF OpenUpstream, Phase
  <2>1. att[r] \in Tokens /\ at[att[r]] \in Replicas /\ tries[r] < MaxTries
    BY <2>0, OpenerHas
  <2>2. UNCHANGED <<lease, owned, at, written, error, partial, marker, stored, row, crashes, home>>
    BY <1>8 DEF OpenUpstream, leases, world
  <2>3. PICK b \in Bodies : body' = [body EXCEPT ![att[r]] = b]
    BY <1>8 DEF OpenUpstream
  <2>4. body' \in [Tokens -> Bodies \cup {NoBody}] /\ body'[att[r]] \in Bodies /\ \A t \in Tokens : t # att[r] => body'[t] = body[t]
    BY <2>1, <2>3 DEF Typing, ServerTypes
  <2>5. paths' \in Seq(Tokens)
    BY <2>0, <2>1, PathsTyped DEF Typing, ServerTypes
  <2>6. ServerTypes'
    BY <1>1, <1>2, <2>0, <2>1, <2>2, <2>4, <2>5 DEF Typing, ServerTypes, Settle
  <2>7. /\ pc' \in [Requests -> Steps] /\ pc'[r] = "following" /\ \A s \in Requests : s # r => pc'[s] = pc[s]
        /\ UNCHANGED <<att, tries, promised, sent, held>>
    BY <2>0, OneMoves DEF Become, Typing, Steps
  <2>8. RequestTypes' /\ Others(r) /\ Fits(r)'
    BY <2>1, <2>4, <2>7 DEF Typing, RequestTypes, Others, Fits
  <2>9. \A p \in Replicas : fills'[p] \in {NoToken, fills[p]} \/ body'[fills'[p]] \in Bodies
    BY <2>0, <2>1, <2>4 DEF Typing, ServerTypes
  <2>10. \A t \in Tokens : body[t] \in Bodies => body'[t] \in Bodies
    BY <2>4
  <2>11. \A t \in Tokens : future'[t] = "fill" => future[t] = "fill" \/ body'[t] \in Bodies
    BY <2>0, <2>1, <2>4 DEF Settle, Typing, ServerTypes
  <2>12. \A t \in Tokens : phase'[t] \in Running => phase[t] \in Running \/ body'[t] \in Bodies
    BY <2>0, <2>1, <2>4 DEF Typing, ServerTypes
  <2> QED
    BY <2>6, <2>8, <2>9, <2>10, <2>11, <2>12, GoesOn
<1>9. CASE OpenFails(r)
  <2>0. pc[r] \in Openers /\ Quit(r, "error") /\ phase' = [phase EXCEPT ![att[r]] = "gone"] /\ Settle(att[r], "error")
        /\ Release(att[r])
    BY <1>9 DEF OpenFails, Phase
  <2>1. att[r] \in Tokens /\ at[att[r]] \in Replicas
    BY <2>0, OpenerHas
  <2>2. UNCHANGED <<fills, at, body, written, error, partial, paths, marker, stored, row, crashes, home>>
    BY <1>9 DEF OpenFails, volume, world
  <2>3. ServerTypes'
    BY <1>1, <1>2, <1>3, <2>0, <2>1, <2>2 DEF Typing, ServerTypes, Settle
  <2>4. RequestTypes' /\ Others(r) /\ Fits(r)'
    BY <2>0, QuitsTyped
  <2>5. \A t \in Tokens : future'[t] = "fill" => future[t] = "fill"
    BY <2>0, <2>1 DEF Settle, Typing, ServerTypes
  <2> QED
    BY <1>12, <2>0, <2>1, <2>2, <2>3, <2>4, <2>5, GoesOn DEF Typing, ServerTypes, Opened
<1>10. CASE CancelAsking(r)
  <2>0. pc[r] \in Openers /\ Quit(r, "gone") /\ phase' = [phase EXCEPT ![att[r]] = "gone"] /\ Settle(att[r], "error")
    BY <1>10 DEF CancelAsking, Phase
  <2>1. att[r] \in Tokens /\ at[att[r]] \in Replicas
    BY <2>0, OpenerHas
  <2>2. lease' \in Tokens \cup {NoToken}
        /\ UNCHANGED <<fills, owned, at, body, written, error, partial, paths, marker, stored, row, crashes, home>>
    BY <1>10, <2>1 DEF CancelAsking, volume, world, Typing, ServerTypes
  <2>3. ServerTypes'
    BY <1>1, <1>2, <2>0, <2>1, <2>2 DEF Typing, ServerTypes, Settle
  <2>4. RequestTypes' /\ Others(r) /\ Fits(r)'
    BY <2>0, QuitsTyped
  <2>5. \A t \in Tokens : future'[t] = "fill" => future[t] = "fill"
    BY <2>0, <2>1 DEF Settle, Typing, ServerTypes
  <2> QED
    BY <1>12, <2>0, <2>1, <2>2, <2>3, <2>4, <2>5, GoesOn DEF Typing, ServerTypes, Opened
<1> QED
  BY <1>4, <1>5, <1>6, <1>7, <1>8, <1>9, <1>10

\* Where they leave the request, and that no other request moves.
LEMMA OpenerMoves ==
    ASSUME Typing, NEW r \in Requests
    PROVE  /\ StartOpening(r) => /\ Others(r) /\ pc'[r] = "asking"
                                 /\ UNCHANGED <<fills, leases, body, future, written, error, volume, row, world>>
           /\ Acquire(r) => Others(r) /\ pc'[r] = "recheck"
           /\ OpenUpstream(r) => Others(r) /\ pc'[r] = "following"
<1>1. ASSUME NEW step \in {"asking", "recheck", "following"}, Goto(r, step) PROVE pc'[r] = step
  BY <1>1, OneMoves DEF Typing, Steps
<1>2. ASSUME StartOpening(r) PROVE Goto(r, "asking") /\ UNCHANGED <<fills, leases, body, future, written, error, volume, row, world>>
  BY <1>2 DEF StartOpening, Claim, Follow
<1>3. /\ Acquire(r) => Goto(r, "recheck")
      /\ OpenUpstream(r) => Goto(r, "following")
  BY DEF Acquire, OpenUpstream, Become
<1> QED
  BY <1>1, <1>2, <1>3, OpeningTyped

\* The download's own steps, the clean-up and the lapse of a lease leave the
\* requests alone.
LEMMA FillTyped ==
    ASSUME Typing,
           (\E t \in Tokens : RunFill(t) \/ CleanupTmp(t)) \/ Lapse
    PROVE  Typing' /\ UNCHANGED <<request, body, home, opening, at, crashes>>
<1>1. UNCHANGED <<request, body, future, home, opening, at, crashes>>
  BY DEF RunFill, Write, Advance, Adopt, Adopted, Fail, Record, Finish, FinishRelease, CleanupTmp, Lapse,
         process, leases, download, volume, world
<1>2. /\ fills' \in [Replicas -> Tokens \cup {NoToken}]
      /\ \A p \in Replicas : fills'[p] \in {NoToken, fills[p]}
  <2>1. UNCHANGED fills \/ \E t \in Tokens : fills' = [fills EXCEPT ![at[t]] = IF @ = t THEN NoToken ELSE @]
    BY DEF RunFill, Write, Advance, Adopt, Adopted, Fail, Record, Finish, FinishRelease, CleanupTmp, Lapse,
           process
  <2> QED
    <3>1. CASE UNCHANGED fills
      BY <3>1 DEF Typing, ServerTypes
    <3>2. ASSUME NEW t \in Tokens, fills' = [fills EXCEPT ![at[t]] = IF @ = t THEN NoToken ELSE @]
          PROVE  /\ fills' \in [Replicas -> Tokens \cup {NoToken}]
                 /\ \A p \in Replicas : fills'[p] \in {NoToken, fills[p]}
      BY <3>2 DEF Typing, ServerTypes
    <3> QED
      BY <2>1, <3>1, <3>2
<1>3. phase' \in [Tokens -> {"unused", "asking", "opening", "over", "gone"} \cup Running]
  <2>1. UNCHANGED phase \/ \E t \in Tokens : \E step \in {"recording", "failed", "stuck", "recorded", "over", "gone"} :
                               phase' = [phase EXCEPT ![t] = step]
    BY DEF RunFill, Write, Advance, Adopt, Adopted, Fail, Record, Finish, FinishRelease, CleanupTmp, Lapse,
           download, Phase
  <2> QED
    BY <2>1 DEF Typing, ServerTypes, Running
<1>4. lease' \in Tokens \cup {NoToken} /\ owned' \subseteq Tokens
  BY DEF RunFill, Write, Advance, Adopt, Adopted, Fail, Record, Finish, FinishRelease, CleanupTmp, Lapse,
         leases, Release, Typing, ServerTypes
<1>5. paths' \in Seq(Tokens)
  <2>1. UNCHANGED paths \/ \E t \in Tokens : paths' \in {Unlinked(t), Touched(t)}
    BY DEF RunFill, Write, Advance, Adopt, Adopted, Fail, Record, Finish, FinishRelease, CleanupTmp, Lapse, volume
  <2> QED
    BY <2>1, PathsTyped DEF Typing, ServerTypes
<1>6. /\ partial' \in [Tokens -> Nat] /\ written' \in [Tokens -> Nat]
      /\ \A t \in Tokens : written'[t] <= partial'[t]
  <2>1. \/ UNCHANGED <<partial, written>>
        \/ \E t \in Tokens : partial' = [partial EXCEPT ![t] = @ + 1] /\ UNCHANGED written
        \/ \E t \in Tokens : written' = [written EXCEPT ![t] = partial[t]] /\ UNCHANGED partial
    BY DEF RunFill, Write, Advance, Adopt, Adopted, Fail, Record, Finish, FinishRelease, CleanupTmp, Lapse,
           download, volume
  <2>2. CASE \E t \in Tokens : partial' = [partial EXCEPT ![t] = @ + 1] /\ UNCHANGED written
    <3>1. PICK t \in Tokens : partial' = [partial EXCEPT ![t] = @ + 1] /\ UNCHANGED written
      BY <2>2
    <3>2. partial[t] \in Nat /\ \A u \in Tokens : partial[u] \in Nat /\ written[u] \in Nat /\ written[u] <= partial[u]
      BY DEF Typing, ServerTypes
    <3> QED
      BY <3>1, <3>2 DEF Typing, ServerTypes
  <2>3. CASE \E t \in Tokens : written' = [written EXCEPT ![t] = partial[t]] /\ UNCHANGED partial
    BY <2>3 DEF Typing, ServerTypes
  <2>4. CASE UNCHANGED <<partial, written>>
    BY <2>4 DEF Typing, ServerTypes
  <2> QED
    BY <2>1, <2>2, <2>3, <2>4
<1>7. marker' \in [Tokens -> {"none", "ok", "failed"}]
  <2>1. UNCHANGED marker \/ \E t \in Tokens : \E m \in {"none", "ok", "failed"} : marker' = [marker EXCEPT ![t] = m]
    BY DEF RunFill, Write, Advance, Adopt, Adopted, Fail, Record, Finish, FinishRelease, CleanupTmp, Lapse, volume
  <2> QED
    BY <2>1 DEF Typing, ServerTypes
<1>8. error' \subseteq Tokens
  BY DEF RunFill, Write, Advance, Adopt, Adopted, Fail, Record, Finish, FinishRelease, CleanupTmp, Lapse,
         download, Typing, ServerTypes
<1>9. stored' \subseteq Bodies /\ row' \in Bodies \cup {NoBody}
  <2>1. \/ UNCHANGED <<stored, row>>
        \/ UNCHANGED row /\ \E t \in Tokens : stored' = stored \cup {body[t]} /\ body[t].good /\ written[t] = body[t].len
                                            /\ phase[t] = "down"
        \/ UNCHANGED stored /\ \E t \in Tokens : row' = body[t]
    BY DEF RunFill, Write, Advance, Adopt, Adopted, Fail, Record, Finish, FinishRelease, CleanupTmp, Lapse, volume
  <2> QED
    BY <2>1 DEF Typing, ServerTypes, Opened, Running
<1>10. \A t \in Tokens : phase'[t] \in Running => phase[t] \in Running
  <2>1. UNCHANGED phase \/ \E t \in Tokens : \E step \in {"recording", "failed", "stuck", "recorded", "over", "gone"} :
                               phase' = [phase EXCEPT ![t] = step] /\ (step \in Running => phase[t] \in Running)
    BY DEF RunFill, Write, Advance, Adopt, Adopted, Fail, Record, Finish, FinishRelease, CleanupTmp, Lapse,
           download, Phase, Running
  <2> QED
    BY <2>1 DEF Typing, ServerTypes
<1>11. ServerTypes' /\ RequestTypes'
  BY <1>1, <1>2, <1>3, <1>4, <1>5, <1>6, <1>7, <1>8, <1>9 DEF Typing, ServerTypes, RequestTypes, request
<1>12. PcInv' /\ Opened'
  BY <1>1, <1>2, <1>10 DEF Typing, PcInv, Opened, request, ServerTypes
<1> QED
  BY <1>1, <1>11, <1>12 DEF Typing

\* A process dies with its downloads and its requests; what the volume, the
\* cache and the database hold outlives it.
LEMMA CrashTyped ==
    ASSUME Typing, NEW p \in Replicas, Crash(p)
    PROVE  /\ Typing'
           /\ \A r \in Requests :
                \/ /\ pc'[r] = pc[r] /\ att'[r] = att[r] /\ tries'[r] = tries[r] /\ promised'[r] = promised[r]
                   /\ sent'[r] = sent[r] /\ held'[r] = held[r]
                   /\ home[r] # p \/ pc[r] \in {"idle"} \cup Ended
                \/ /\ home[r] = p /\ pc'[r] = "gone" /\ promised'[r] = Unknown /\ sent'[r] = 0 /\ held'[r] = 0
           /\ UNCHANGED <<lease, owned, at, body, future, written, error, partial, paths, marker, stored, row, home>>
           /\ \A t \in Tokens : phase'[t] = IF phase[t] # "unused" /\ at[t] = p THEN "gone" ELSE phase[t]
           /\ \A q \in Replicas : /\ fills'[q] = IF q = p THEN NoToken ELSE fills[q]
                                  /\ opening'[q] = IF q = p THEN NoToken ELSE opening[q]
<1> DEFINE dying == {r \in Requests : home[r] = p /\ pc[r] \notin {"idle"} \cup Ended}
<1>1. /\ crashes' = crashes + 1 /\ fills' = [fills EXCEPT ![p] = NoToken] /\ opening' = [opening EXCEPT ![p] = NoToken]
      /\ phase' = [t \in Tokens |-> IF phase[t] # "unused" /\ at[t] = p THEN "gone" ELSE phase[t]]
      /\ pc' = [r \in Requests |-> IF r \in dying THEN "gone" ELSE pc[r]] /\ Forgets(dying)
      /\ UNCHANGED <<lease, owned, at, body, future, written, error, partial, paths, marker, stored, row, home>>
  BY DEF Crash, leases, volume
<1>2. ServerTypes'
  BY <1>1 DEF Typing, ServerTypes
<1>3. \A r \in Requests :
                \/ /\ pc'[r] = pc[r] /\ att'[r] = att[r] /\ tries'[r] = tries[r] /\ promised'[r] = promised[r]
                   /\ sent'[r] = sent[r] /\ held'[r] = held[r]
                   /\ home[r] # p \/ pc[r] \in {"idle"} \cup Ended
                \/ /\ home[r] = p /\ pc'[r] = "gone" /\ promised'[r] = Unknown /\ sent'[r] = 0 /\ held'[r] = 0
  BY <1>1 DEF Forgets
<1>4. RequestTypes'
  BY <1>1, FillAssumption DEF Typing, RequestTypes, Forgets, Steps, Ended
<1>5. PcInv'
  BY <1>3 DEF Typing, PcInv, Openers, Local, PeerReaders, Headed, Ended
<1>6. Opened'
  BY <1>1, <1>3 DEF Typing, Opened, ServerTypes, Local, Running
<1>7. \A q \in Replicas : /\ fills'[q] = IF q = p THEN NoToken ELSE fills[q]
                          /\ opening'[q] = IF q = p THEN NoToken ELSE opening[q]
  BY <1>1 DEF Typing, ServerTypes
<1> QED
  BY <1>1, <1>2, <1>3, <1>4, <1>5, <1>6, <1>7 DEF Typing

\* A step is one of a request that only reads, of one that opens a download, of
\* a download, a lapse or a clean-up, or a crash.
LEMMA Kinds ==
    ASSUME Next
    PROVE  \/ \E r \in Requests : Reads(r)
           \/ \E r \in Requests : StartOpening(r) \/ Acquire(r) \/ AcquireRefused(r) \/ RecheckCached(r)
                                      \/ OpenUpstream(r) \/ OpenFails(r) \/ CancelAsking(r)
           \/ (\E t \in Tokens : RunFill(t) \/ CleanupTmp(t)) \/ Lapse
           \/ \E p \in Replicas : Crash(p)
<1>1. ASSUME NEW r \in Requests, Arrive(r) \/ Serve(r) \/ CancelAsking(r) \/ Leave(r)
      PROVE  Reads(r) \/ StartOpening(r) \/ Acquire(r) \/ AcquireRefused(r) \/ RecheckCached(r)
                 \/ OpenUpstream(r) \/ OpenFails(r) \/ CancelAsking(r)
  BY <1>1 DEF Serve, Reads
<1> QED
  BY <1>1 DEF Next

\* Every step leaves every variable in its type.
LEMMA StepTyped == Typing /\ [Next]_vars => Typing'
<1> SUFFICES ASSUME Typing, [Next]_vars PROVE Typing'
  OBVIOUS
<1>1. CASE UNCHANGED vars
  BY <1>1 DEF Typing, ServerTypes, RequestTypes, PcInv, Opened, vars, server, process, leases, download, volume, world, request
<1>2. CASE Next
  BY <1>2, Kinds, ReadTyped, OpeningTyped, FillTyped, CrashTyped
<1> QED
  BY <1>1, <1>2

\* Every variable keeps its type, and no attempt reports more bytes to its
\* readers than are in its partial file (_run_fill writes and flushes before
\* fill.advance).
THEOREM Typed == Spec => []TypeOK
<1>1. Typing => TypeOK
  BY DEF Typing, ServerTypes, RequestTypes, TypeOK, Steps
<1> QED
  BY InitTyped, StepTyped, <1>1, PTL DEF Spec

-----------------------------------------------------------------------------
(* One download per process.                                               *)

\* The maps of each process name its one attempt, which is being opened or
\* running, and an attempt being opened has one request that opens it.
Maps ==
    /\ \A p \in Replicas : opening[p] # NoToken =>
          at[opening[p]] = p /\ phase[opening[p]] \in {"asking", "opening"} /\ future[opening[p]] = "pending"
    /\ \A p \in Replicas : fills[p] # NoToken => at[fills[p]] = p /\ phase[fills[p]] \in Running
    /\ \A p \in Replicas : fills[p] = NoToken \/ opening[p] = NoToken
    /\ \A t \in Tokens : phase[t] = "unused" => future[t] = "pending"
    /\ \A t \in Tokens : phase[t] \in {"asking", "opening"} => opening[at[t]] = t
    /\ \A t \in Tokens : phase[t] \in Running => fills[at[t]] = t

OneOpener ==
    /\ \A r \in Requests : pc[r] = "asking" => phase[att[r]] = "asking" /\ at[att[r]] = home[r]
    /\ \A r \in Requests : pc[r] \in {"recheck", "connect"} => phase[att[r]] = "opening" /\ at[att[r]] = home[r]
    /\ \A r, s \in Requests : pc[r] \in Openers /\ pc[s] \in Openers /\ att[r] = att[s] => r = s

OneInv == Maps /\ OneOpener

\* At the start there is no attempt.
LEMMA InitOne == Init => OneInv
  BY DEF Init, OneInv, Maps, OneOpener, Running, Openers

\* What a download's own step does to the maps and the phases.
LEMMA FillPhases ==
    ASSUME Typing, (\E t \in Tokens : RunFill(t) \/ CleanupTmp(t)) \/ Lapse
    PROVE  /\ UNCHANGED <<request, opening, at, future, home, body, tries, promised, sent, held, pc, att, crashes>>
           /\ \/ UNCHANGED <<phase, fills>>
              \/ \E t \in Tokens : /\ UNCHANGED fills /\ phase[t] \in Running
                                   /\ \E step \in Running : phase' = [phase EXCEPT ![t] = step]
              \/ \E t \in Tokens : /\ fills' = [fills EXCEPT ![at[t]] = IF @ = t THEN NoToken ELSE @]
                                   /\ phase[t] \in Running /\ phase' = [phase EXCEPT ![t] = "over"]
              \/ \E t \in Tokens : /\ UNCHANGED fills /\ phase[t] = "over" /\ phase' = [phase EXCEPT ![t] = "gone"]
<1>1. UNCHANGED <<request, opening, at, future, home, body, tries, promised, sent, held, pc, att, crashes>>
  BY DEF RunFill, Write, Advance, Adopt, Adopted, Fail, Record, Finish, FinishRelease, CleanupTmp, Lapse,
         process, leases, download, volume, world, request
<1>2. CASE Lapse \/ \E t \in Tokens : Write(t) \/ Advance(t) \/ CleanupTmp(t)
  BY <1>1, <1>2 DEF Write, Advance, CleanupTmp, Lapse, process, download
<1>3. CASE \E t \in Tokens : Adopt(t) \/ Fail(t) \/ Record(t)
  BY <1>1, <1>3 DEF Adopt, Adopted, Fail, Record, process, Phase, Running
<1>4. CASE \E t \in Tokens : Finish(t)
  BY <1>1, <1>4 DEF Finish, Phase, Running
<1>5. CASE \E t \in Tokens : FinishRelease(t)
  BY <1>1, <1>5 DEF FinishRelease, process, Phase
<1> QED
  BY <1>2, <1>3, <1>4, <1>5 DEF RunFill

\* The maps stay what they are through every step.
LEMMA StepOne == Typing /\ OneInv /\ [Next]_vars => OneInv'
<1> SUFFICES ASSUME Typing, OneInv, [Next]_vars PROVE OneInv'
  OBVIOUS
<1> DEFINE TokenTypes == /\ fills \in [Replicas -> Tokens \cup {NoToken}] /\ opening \in [Replicas -> Tokens \cup {NoToken}]
                         /\ phase \in [Tokens -> {"unused", "asking", "opening", "over", "gone"} \cup Running]
                         /\ at \in [Tokens -> Replicas] /\ home \in [Requests -> Replicas]
                         /\ future \in [Tokens -> {"pending", "error", "peer", "cached", "fill"}]
                         /\ NoToken \notin Tokens
<1>0. TokenTypes
  BY FillAssumption DEF Typing, ServerTypes
<1> HIDE DEF TokenTypes
<1>1. CASE UNCHANGED vars
  BY <1>1 DEF OneInv, Maps, OneOpener, vars, server, process, download, world, request
<1>2. ASSUME NEW r \in Requests, Reads(r) PROVE OneInv'
  <2>1. UNCHANGED <<fills, opening, phase, at, future, home>> /\ Others(r) /\ Leads(r)
    BY <1>2, ReadTyped DEF server, process, download, world
  <2>2. Maps'
    BY <2>1 DEF OneInv, Maps
  <2>3. pc'[r] \in Openers => pc[r] = "recheck" /\ pc'[r] = "connect" /\ att'[r] = att[r]
    BY <2>1 DEF Leads
  <2>4. OneOpener'
    BY <2>1, <2>3 DEF OneInv, OneOpener, Others, Openers
  <2> QED
    BY <2>2, <2>4 DEF OneInv
<1>3. ASSUME NEW r \in Requests, StartOpening(r) PROVE OneInv'
  <2>1. PICK t \in Tokens : /\ phase[t] = "unused"
                            /\ opening' = [opening EXCEPT ![home[r]] = t] /\ at' = [at EXCEPT ![t] = home[r]]
                            /\ phase' = [phase EXCEPT ![t] = "asking"] /\ Follow(r, "asking", t)
    BY <1>3 DEF StartOpening, Claim, Phase
  <2>2. pc[r] = "choose" /\ fills[home[r]] = NoToken /\ opening[home[r]] = NoToken /\ UNCHANGED <<fills, future, home>> /\ Others(r)
    BY <1>3, OpeningTyped DEF StartOpening, Claim, world
  <2>3. pc'[r] = "asking" /\ att'[r] = t
    BY <2>1, OneMoves DEF Follow, Typing, Steps
  <2>4. Maps'
    BY <1>0, <2>1, <2>2 DEF OneInv, Maps, TokenTypes, Running
  <2>5. \A s \in Requests : pc[s] \in Openers => att[s] # t /\ att[s] \in Tokens
    BY <2>1, OpenerHas DEF OneInv, OneOpener, Openers
  <2>6. OneOpener'
    BY <1>0, <2>1, <2>2, <2>3, <2>5 DEF OneInv, OneOpener, TokenTypes, Others, Openers
  <2> QED
    BY <2>4, <2>6 DEF OneInv
<1>4. ASSUME NEW r \in Requests, Acquire(r) PROVE OneInv'
  <2>1. pc[r] = "asking" /\ phase' = [phase EXCEPT ![att[r]] = "opening"] /\ Become(r, "recheck") /\ UNCHANGED <<fills, opening, at, future, home>>
    BY <1>4 DEF Acquire, process, world, Phase
  <2>2. att[r] \in Tokens /\ Others(r)
    BY <1>4, <2>1, OpenerHas, OpeningTyped DEF Openers
  <2>3. pc'[r] = "recheck" /\ att' = att
    BY <2>1, OneMoves DEF Become, Typing, Steps
  <2>4. phase[att[r]] = "asking" /\ at[att[r]] = home[r] /\ \A s \in Requests : pc[s] \in Openers /\ att[s] = att[r] => s = r
    BY <2>1 DEF OneInv, OneOpener, Openers
  <2>5. Maps'
    BY <1>0, <2>1, <2>2, <2>4 DEF OneInv, Maps, TokenTypes, Running
  <2>6. OneOpener'
    BY <1>0, <2>1, <2>2, <2>3, <2>4, OpenerHas DEF OneInv, OneOpener, TokenTypes, Others, Openers
  <2> QED
    BY <2>5, <2>6 DEF OneInv
<1>5. ASSUME NEW r \in Requests, AcquireRefused(r) \/ RecheckCached(r) \/ OpenFails(r) \/ CancelAsking(r) PROVE OneInv'
  <2>1. /\ pc[r] \in Openers /\ phase' = [phase EXCEPT ![att[r]] = "gone"] /\ UNCHANGED <<fills, at, home>>
        /\ opening' = [opening EXCEPT ![at[att[r]]] = NoToken]
        /\ \E outcome \in {"error", "peer", "cached"} : future' = [future EXCEPT ![att[r]] = outcome]
    BY <1>5 DEF AcquireRefused, RecheckCached, OpenFails, CancelAsking, Settle, Phase, Openers, world
  <2>2. att[r] \in Tokens /\ Others(r)
    BY <1>5, <2>1, OpenerHas, OpeningTyped
  <2>3. pc'[r] \in {"peer", "refresh", "error", "gone"}
    BY <1>5, OneMoves DEF AcquireRefused, RecheckCached, OpenFails, CancelAsking, Become, Quit, Typing, Steps, Ended
  <2>4. phase[att[r]] \in {"asking", "opening"} /\ \A s \in Requests : pc[s] \in Openers /\ att[s] = att[r] => s = r
    BY <2>1 DEF OneInv, OneOpener, Openers
  <2>5. Maps'
    BY <1>0, <2>1, <2>2, <2>4 DEF OneInv, Maps, TokenTypes, Running
  <2>6. OneOpener'
    BY <1>0, <2>1, <2>2, <2>3, <2>4, OpenerHas DEF OneInv, OneOpener, TokenTypes, Others, Openers
  <2> QED
    BY <2>5, <2>6 DEF OneInv
<1>6. ASSUME NEW r \in Requests, OpenUpstream(r) PROVE OneInv'
  <2>1. /\ pc[r] = "connect" /\ phase' = [phase EXCEPT ![att[r]] = "down"] /\ UNCHANGED <<at, home>>
        /\ fills' = [fills EXCEPT ![at[att[r]]] = att[r]]
        /\ opening' = [opening EXCEPT ![at[att[r]]] = NoToken] /\ future' = [future EXCEPT ![att[r]] = "fill"]
        /\ Become(r, "following")
    BY <1>6 DEF OpenUpstream, Settle, Phase, world
  <2>2. att[r] \in Tokens /\ Others(r)
    BY <1>6, <2>1, OpenerHas, OpeningTyped DEF Openers
  <2>3. pc'[r] = "following"
    BY <2>1, OneMoves DEF Become, Typing, Steps
  <2>4. phase[att[r]] = "opening" /\ at[att[r]] = home[r] /\ \A s \in Requests : pc[s] \in Openers /\ att[s] = att[r] => s = r
    BY <2>1 DEF OneInv, OneOpener, Openers
  <2>5. Maps'
    BY <1>0, <2>1, <2>2, <2>4 DEF OneInv, Maps, TokenTypes, Running
  <2>6. OneOpener'
    BY <1>0, <2>1, <2>2, <2>3, <2>4, OpenerHas DEF OneInv, OneOpener, TokenTypes, Others, Openers
  <2> QED
    BY <2>5, <2>6 DEF OneInv
<1>7. CASE (\E t \in Tokens : RunFill(t) \/ CleanupTmp(t)) \/ Lapse
  <2>1. /\ UNCHANGED <<opening, at, future, home, pc, att>>
        /\ \/ UNCHANGED <<phase, fills>>
           \/ \E t \in Tokens : /\ UNCHANGED fills /\ phase[t] \in Running
                                /\ \E step \in Running : phase' = [phase EXCEPT ![t] = step]
           \/ \E t \in Tokens : /\ fills' = [fills EXCEPT ![at[t]] = IF @ = t THEN NoToken ELSE @]
                                /\ phase[t] \in Running /\ phase' = [phase EXCEPT ![t] = "over"]
           \/ \E t \in Tokens : /\ UNCHANGED fills /\ phase[t] = "over" /\ phase' = [phase EXCEPT ![t] = "gone"]
    BY <1>7, FillPhases
  <2>2. Maps'
    BY <1>0, <2>1 DEF OneInv, Maps, TokenTypes, Running
  <2>3. \A t \in Tokens : phase[t] \in {"asking", "opening"} => phase'[t] = phase[t]
    BY <1>0, <2>1 DEF TokenTypes, Running
  <2>4. OneOpener'
    BY <2>1, <2>3, OpenerHas DEF OneInv, OneOpener, Openers
  <2> QED
    BY <2>2, <2>4 DEF OneInv
<1>8. ASSUME NEW p \in Replicas, Crash(p) PROVE OneInv'
  <2>1. /\ UNCHANGED <<at, future, home>>
        /\ \A t \in Tokens : phase'[t] = IF phase[t] # "unused" /\ at[t] = p THEN "gone" ELSE phase[t]
        /\ \A q \in Replicas : /\ fills'[q] = IF q = p THEN NoToken ELSE fills[q]
                               /\ opening'[q] = IF q = p THEN NoToken ELSE opening[q]
    BY <1>8, CrashTyped
  <2>2. \A r \in Requests : \/ pc'[r] = pc[r] /\ att'[r] = att[r] /\ (home[r] # p \/ pc[r] \in {"idle"} \cup Ended)
                            \/ pc'[r] = "gone"
    BY <1>8, CrashTyped
  <2>3. Maps'
    BY <1>0, <2>1 DEF OneInv, Maps, TokenTypes, Running
  <2>4. \A r \in Requests : pc'[r] \in Openers => pc'[r] = pc[r] /\ att'[r] = att[r] /\ home[r] # p
    BY <2>2 DEF Openers, Ended
  <2>5. OneOpener'
    BY <1>0, <2>1, <2>4, OpenerHas DEF OneInv, OneOpener, Openers
  <2> QED
    BY <2>3, <2>5 DEF OneInv
<1> QED
  BY <1>1, <1>2, <1>3, <1>4, <1>5, <1>6, <1>7, <1>8, Kinds

\* The requests of a process share one download of a file, whatever crashes,
\* leaves or lapses (_start_or_join with _fills and _opening).
THEOREM Shared == Spec => []OneFillPerProcess
<1>1. Typing /\ OneInv => OneFillPerProcess
  <2> SUFFICES ASSUME Typing, OneInv, NEW t \in Tokens, NEW u \in Tokens, {phase[t], phase[u]} \subseteq Attempting, at[t] = at[u]
               PROVE  t = u
    BY DEF OneFillPerProcess
  <2>1. at[t] \in Replicas /\ t # NoToken /\ u # NoToken
    BY FillAssumption DEF Typing, ServerTypes
  <2> QED
    BY <2>1 DEF OneInv, Maps, Attempting
<1> QED
  BY InitTyped, StepTyped, InitOne, StepOne, <1>1, PTL DEF Spec

-----------------------------------------------------------------------------
(* Who is told that the file is cached finds it so.                        *)

\* The bytes of the attempt are in the store, whole and checked.
Verified(t) == body[t] \in stored /\ body[t].good /\ partial[t] = body[t].len

\* What an attempt has shown by the time it says so.
Sound ==
    /\ \A t \in Tokens : phase[t] \in {"unused", "asking", "opening"} => body[t] = NoBody /\ partial[t] = 0
    /\ \A t \in Tokens : body[t] \in Bodies => partial[t] <= body[t].len
    /\ \A t \in Tokens : phase[t] \in {"recording", "recorded"} => Verified(t)
    /\ \A t \in Tokens : marker[t] = "ok" => Verified(t)
    /\ \A t \in Tokens : phase[t] = "recorded" => Cached
    /\ \A t \in Tokens : phase[t] = "over" /\ t \notin error => Verified(t) /\ Cached
    /\ \A t \in Tokens : future[t] = "cached" => Cached

\* A request follows an attempt of its own process, which has been opened by
\* the time the request goes by its outcome.
Followers ==
    /\ \A r \in Requests : pc[r] \in Local \cup {"joining"} => phase[att[r]] # "unused" /\ at[att[r]] = home[r]
    /\ \A r \in Requests : pc[r] \in Local \/ (pc[r] = "joining" /\ future[att[r]] = "fill") =>
          /\ phase[att[r]] \in Running \cup {"over", "gone"}
          /\ Done(att[r]) /\ att[r] \notin error => Verified(att[r]) /\ Cached
    /\ \A r \in Requests : pc[r] = "refresh" /\ tries[r] < MaxTries => Cached

FoundInv == Sound /\ Followers

\* At the start nothing has been said.
LEMMA InitFound == Init => FoundInv
  BY FillAssumption DEF Init, FoundInv, Sound, Followers, Local

\* The steps of a download in terms of what is stored and what is recorded.
LEMMA FillStores ==
    ASSUME Typing, (\E t \in Tokens : RunFill(t) \/ CleanupTmp(t)) \/ Lapse
    PROVE  \/ UNCHANGED <<stored, row>> /\ \E t \in Tokens : /\ phase[t] = "down" /\ partial[t] < body[t].len
                                                             /\ partial' = [partial EXCEPT ![t] = @ + 1]
           \/ UNCHANGED <<row, partial>> /\ stored \subseteq stored'
           \/ UNCHANGED <<stored, partial>> /\ \E t \in Tokens : phase[t] = "recording" /\ row' = body[t]
<1>1. CASE \E t \in Tokens : Write(t)
  BY <1>1 DEF Write
<1>2. CASE Lapse \/ \E t \in Tokens : Advance(t) \/ CleanupTmp(t) \/ Fail(t) \/ Finish(t) \/ FinishRelease(t)
  BY <1>2 DEF Advance, CleanupTmp, Fail, Finish, FinishRelease, Lapse, volume
<1>3. CASE \E t \in Tokens : Adopt(t)
  BY <1>3 DEF Adopt, Adopted
<1>4. CASE \E t \in Tokens : Record(t)
  BY <1>4 DEF Record, volume
<1> QED
  BY <1>1, <1>2, <1>3, <1>4 DEF RunFill

\* What is cached and what is verified stays so.
LEMMA Keeps ==
    ASSUME Typing, OneInv, Sound, Next
    PROVE  /\ Cached => Cached'
           /\ \A t \in Tokens : Verified(t) => Verified(t)'
           /\ \A t \in Tokens : body[t] \in Bodies => body'[t] = body[t]
<1>0. /\ stored \subseteq Bodies /\ NoBody \notin Bodies /\ body \in [Tokens -> Bodies \cup {NoBody}] /\ partial \in [Tokens -> Nat]
  BY FillAssumption DEF Typing, ServerTypes
<1>1. ASSUME NEW r \in Requests, Reads(r)
      PROVE  UNCHANGED <<stored, row, body, partial>>
  BY <1>1, ReadTyped DEF server, download, volume
<1>2. ASSUME NEW r \in Requests,
             StartOpening(r) \/ Acquire(r) \/ AcquireRefused(r) \/ RecheckCached(r) \/ OpenFails(r) \/ CancelAsking(r)
      PROVE  UNCHANGED <<stored, row, body, partial>>
  BY <1>2 DEF StartOpening, Claim, Acquire, AcquireRefused, RecheckCached, OpenFails, CancelAsking, volume
<1>3. ASSUME NEW r \in Requests, OpenUpstream(r)
      PROVE  /\ UNCHANGED <<stored, row, partial>>
             /\ \A t \in Tokens : body[t] \in Bodies => body'[t] = body[t]
  <2>1. UNCHANGED <<stored, row, partial>> /\ pc[r] = "connect" /\ \E b \in Bodies : body' = [body EXCEPT ![att[r]] = b]
    BY <1>3 DEF OpenUpstream
  <2>2. att[r] \in Tokens /\ phase[att[r]] = "opening"
    BY <2>1, OpenerHas DEF OneInv, OneOpener, Openers
  <2>3. body[att[r]] = NoBody
    BY <2>2 DEF Sound
  <2> QED
    BY <1>0, <2>1, <2>2, <2>3
<1>4. ASSUME UNCHANGED <<stored, row, partial>>, \A t \in Tokens : body[t] \in Bodies => body'[t] = body[t]
      PROVE  (Cached => Cached') /\ \A t \in Tokens : Verified(t) => Verified(t)'
  BY <1>0, <1>4 DEF Cached, Verified
<1>5. ASSUME (\E t \in Tokens : RunFill(t) \/ CleanupTmp(t)) \/ Lapse
      PROVE  (Cached => Cached') /\ (\A t \in Tokens : Verified(t) => Verified(t)') /\ UNCHANGED body
  <2>1. UNCHANGED body
    BY <1>5, FillPhases
  <2>2. CASE UNCHANGED <<stored, row>> /\ \E t \in Tokens : /\ phase[t] = "down" /\ partial[t] < body[t].len
                                                            /\ partial' = [partial EXCEPT ![t] = @ + 1]
    <3>1. PICK t \in Tokens : partial[t] < body[t].len /\ partial' = [partial EXCEPT ![t] = @ + 1]
      BY <2>2
    <3>2. ~Verified(t)
      <4>1. SUFFICES ASSUME Verified(t) PROVE FALSE
        OBVIOUS
      <4>2. partial[t] = body[t].len /\ partial[t] \in Nat
        BY <1>0, <4>1 DEF Verified
      <4> QED
        BY <3>1, <4>2
    <3>3. \A u \in Tokens : u # t => partial'[u] = partial[u]
      BY <1>0, <3>1
    <3>4. \A u \in Tokens : Verified(u) => Verified(u)'
      BY <2>1, <2>2, <3>2, <3>3 DEF Verified
    <3> QED
      BY <2>1, <2>2, <3>4 DEF Cached
  <2>3. CASE UNCHANGED <<row, partial>> /\ stored \subseteq stored'
    BY <2>1, <2>3 DEF Cached, Verified
  <2>4. CASE UNCHANGED <<stored, partial>> /\ \E t \in Tokens : phase[t] = "recording" /\ row' = body[t]
    <3>1. \A t \in Tokens : phase[t] = "recording" => body[t] \in stored
      BY DEF Sound, Verified
    <3> QED
      BY <1>0, <2>1, <2>4, <3>1 DEF Cached, Verified
  <2> QED
    BY <1>5, <2>1, <2>2, <2>3, <2>4, FillStores
<1>6. ASSUME NEW p \in Replicas, Crash(p)
      PROVE  UNCHANGED <<stored, row, body, partial>>
  BY <1>6, CrashTyped
<1> QED
  BY <1>1, <1>2, <1>3, <1>4, <1>5, <1>6, Kinds

\* No step says more than has been shown.
LEMMA StepSound == Typing /\ OneInv /\ Sound /\ Next => Sound'
<1> SUFFICES ASSUME Typing, OneInv, Sound, Next PROVE Sound'
  OBVIOUS
<1> DEFINE TokenTypes == /\ phase \in [Tokens -> {"unused", "asking", "opening", "over", "gone"} \cup Running]
                         /\ body \in [Tokens -> Bodies \cup {NoBody}] /\ partial \in [Tokens -> Nat]
                         /\ future \in [Tokens -> {"pending", "error", "peer", "cached", "fill"}]
                         /\ marker \in [Tokens -> {"none", "ok", "failed"}]
                         /\ NoBody \notin Bodies /\ \A b \in Bodies : b.len \in Nat
           Kept == (Cached => Cached') /\ \A t \in Tokens : Verified(t) => Verified(t)'
<1>0. TokenTypes
  BY FillAssumption DEF Typing, ServerTypes
<1>k. Kept
  BY Keeps
<1> HIDE DEF TokenTypes, Kept
<1>1. ASSUME NEW r \in Requests, Reads(r) PROVE Sound'
  <2>1. UNCHANGED <<phase, body, partial, marker, future, error, stored, row>>
    BY <1>1, ReadTyped DEF server, download, volume
  <2> QED
    BY <2>1 DEF Sound, Verified, Cached
<1>2. ASSUME NEW r \in Requests, StartOpening(r) PROVE Sound'
  <2>1. PICK t \in Tokens : phase[t] = "unused" /\ phase' = [phase EXCEPT ![t] = "asking"]
    BY <1>2 DEF StartOpening, Claim, Phase
  <2>2. UNCHANGED <<body, partial, marker, future, error>>
    BY <1>2 DEF StartOpening, Claim, volume
  <2> QED
    BY <1>0, <1>k, <2>1, <2>2 DEF Sound, TokenTypes, Kept, Running
<1>3. ASSUME NEW r \in Requests, Acquire(r) PROVE Sound'
  <2>1. pc[r] = "asking" /\ phase' = [phase EXCEPT ![att[r]] = "opening"] /\ UNCHANGED <<body, partial, marker, future, error>>
    BY <1>3 DEF Acquire, Phase, volume
  <2>2. att[r] \in Tokens /\ phase[att[r]] = "asking"
    BY <2>1, OpenerHas DEF OneInv, OneOpener, Openers
  <2> QED
    BY <1>0, <1>k, <2>1, <2>2 DEF Sound, TokenTypes, Kept, Running
<1>4. ASSUME NEW r \in Requests, AcquireRefused(r) \/ RecheckCached(r) \/ OpenFails(r) \/ CancelAsking(r) PROVE Sound'
  <2>1. /\ pc[r] \in Openers /\ phase' = [phase EXCEPT ![att[r]] = "gone"] /\ UNCHANGED <<body, partial, marker, error>>
        /\ \E outcome \in {"error", "peer", "cached"} :
              future' = [future EXCEPT ![att[r]] = outcome] /\ (outcome = "cached" => Cached)
    BY <1>4 DEF AcquireRefused, RecheckCached, OpenFails, CancelAsking, Settle, Phase, Openers, volume
  <2>2. att[r] \in Tokens
    BY <2>1, OpenerHas
  <2> QED
    BY <1>0, <1>k, <2>1, <2>2 DEF Sound, TokenTypes, Kept, Running
<1>5. ASSUME NEW r \in Requests, OpenUpstream(r) PROVE Sound'
  <2>1. /\ pc[r] = "connect" /\ phase' = [phase EXCEPT ![att[r]] = "down"] /\ UNCHANGED <<partial, marker, error>>
        /\ future' = [future EXCEPT ![att[r]] = "fill"] /\ \E b \in Bodies : body' = [body EXCEPT ![att[r]] = b]
    BY <1>5 DEF OpenUpstream, Settle, Phase
  <2>2. att[r] \in Tokens /\ phase[att[r]] = "opening"
    BY <2>1, OpenerHas DEF OneInv, OneOpener, Openers
  <2>3. partial[att[r]] = 0 /\ \A t \in Tokens : partial[t] \in Nat
    BY <1>0, <2>2 DEF Sound, TokenTypes
  <2>4. \A t \in Tokens : body'[t] \in Bodies => partial'[t] <= body'[t].len
    BY <1>0, <2>1, <2>2, <2>3 DEF Sound, TokenTypes
  <2> QED
    BY <1>0, <1>k, <2>1, <2>2, <2>4 DEF Sound, TokenTypes, Kept, Running
<1>6. ASSUME NEW t \in Tokens, Write(t) PROVE Sound'
  <2>1. /\ phase[t] = "down" /\ partial[t] < body[t].len /\ partial' = [partial EXCEPT ![t] = @ + 1]
        /\ UNCHANGED <<phase, body, marker, future, error>>
    BY <1>6 DEF Write, download
  <2>2. \A u \in Tokens : body'[u] \in Bodies => partial'[u] <= body'[u].len
    BY <1>0, <2>1 DEF Sound, TokenTypes
  <2> QED
    BY <1>0, <1>k, <2>1, <2>2 DEF Sound, TokenTypes, Kept
<1>7. ASSUME NEW t \in Tokens, Advance(t) PROVE Sound'
  <2>1. UNCHANGED <<phase, body, marker, future, error, partial>>
    BY <1>7 DEF Advance, volume
  <2> QED
    BY <1>k, <2>1 DEF Sound, Kept
<1>8. CASE Lapse
  <2>1. UNCHANGED <<phase, body, marker, future, error, partial>>
    BY <1>8 DEF Lapse, download, volume
  <2> QED
    BY <1>k, <2>1 DEF Sound, Kept
<1>9. ASSUME NEW t \in Tokens, Adopt(t) PROVE Sound'
  <2>1. /\ phase[t] = "down" /\ written[t] = body[t].len /\ body[t].good /\ stored' = stored \cup {body[t]}
        /\ phase' = [phase EXCEPT ![t] = "recording"] /\ UNCHANGED <<body, marker, future, error, partial>>
    BY <1>9 DEF Adopt, Adopted, Phase
  <2>2. body[t] \in Bodies
    BY <2>1 DEF Typing, Opened, Running
  <2>3. partial[t] = body[t].len
    <3>1. partial[t] <= body[t].len /\ written[t] <= partial[t]
      BY <2>2 DEF Sound, Typing, ServerTypes
    <3> QED
      BY <1>0, <2>1, <2>2, <3>1 DEF TokenTypes
  <2>4. Verified(t)'
    BY <2>1, <2>3 DEF Verified
  <2> QED
    BY <1>0, <1>k, <2>1, <2>4 DEF Sound, TokenTypes, Kept, Running
<1>10. ASSUME NEW t \in Tokens, Fail(t) PROVE Sound'
  <2>1. /\ phase[t] \in {"down", "recording"} /\ (\E step \in {"failed", "stuck"} : phase' = [phase EXCEPT ![t] = step])
        /\ UNCHANGED <<body, marker, future, error, partial>>
    BY <1>10 DEF Fail, Phase
  <2> QED
    BY <1>0, <1>k, <2>1 DEF Sound, TokenTypes, Kept, Running
<1>11. ASSUME NEW t \in Tokens, Record(t) PROVE Sound'
  <2>1. /\ phase[t] = "recording" /\ row' = body[t] /\ phase' = [phase EXCEPT ![t] = "recorded"]
        /\ UNCHANGED <<body, marker, future, error, partial, stored>>
    BY <1>11 DEF Record, Phase, volume
  <2>2. Verified(t) /\ body[t] \in Bodies
    BY <2>1 DEF Sound, Typing, Opened, Running
  <2>3. Cached'
    BY <1>0, <2>1, <2>2 DEF Cached, Verified, TokenTypes
  <2> QED
    BY <1>0, <1>k, <2>1, <2>2, <2>3 DEF Sound, TokenTypes, Kept, Running
<1>12. ASSUME NEW t \in Tokens, Finish(t) PROVE Sound'
  <2>1. /\ phase[t] \in {"recorded", "failed"} /\ phase' = [phase EXCEPT ![t] = "over"]
        /\ \E m \in {"ok", "failed"} : marker' = [marker EXCEPT ![t] = m] /\ (m = "ok" => phase[t] = "recorded")
        /\ error \subseteq error' /\ (phase[t] = "failed" => t \in error')
        /\ UNCHANGED <<body, future, partial>>
    BY <1>12 DEF Finish, Phase
  <2>2. phase[t] = "recorded" => Verified(t) /\ Cached
    BY DEF Sound
  <2> QED
    BY <1>0, <1>k, <2>1, <2>2 DEF Sound, TokenTypes, Kept, Running
<1>13. ASSUME NEW t \in Tokens, FinishRelease(t) PROVE Sound'
  <2>1. phase' = [phase EXCEPT ![t] = "gone"] /\ UNCHANGED <<body, marker, future, error, partial>>
    BY <1>13 DEF FinishRelease, Phase, volume
  <2> QED
    BY <1>0, <1>k, <2>1 DEF Sound, TokenTypes, Kept, Running
<1>14. ASSUME NEW t \in Tokens, CleanupTmp(t) PROVE Sound'
  <2>1. marker' = [marker EXCEPT ![t] = "none"] /\ UNCHANGED <<phase, body, future, error, partial>>
    BY <1>14 DEF CleanupTmp, download
  <2> QED
    BY <1>0, <1>k, <2>1 DEF Sound, TokenTypes, Kept
<1>15. ASSUME NEW p \in Replicas, Crash(p) PROVE Sound'
  <2>1. /\ UNCHANGED <<body, marker, future, error, partial>>
        /\ \A t \in Tokens : phase'[t] \in {phase[t], "gone"}
    BY <1>15, CrashTyped
  <2> QED
    BY <1>0, <1>k, <2>1 DEF Sound, TokenTypes, Kept, Running
<1> QED
  BY <1>1, <1>2, <1>3, <1>4, <1>5, <1>6, <1>7, <1>8, <1>9, <1>10, <1>11, <1>12, <1>13, <1>14, <1>15, Kinds DEF RunFill

\* Followers stay with an attempt that was opened, and learn of a success only
\* when the file is cached.
LEMMA StepFollowers == Typing /\ OneInv /\ FoundInv /\ Next => Followers'
<1> SUFFICES ASSUME Typing, OneInv, FoundInv, Next PROVE Followers'
  OBVIOUS
<1> DEFINE TokenTypes == /\ phase \in [Tokens -> {"unused", "asking", "opening", "over", "gone"} \cup Running]
                         /\ at \in [Tokens -> Replicas] /\ home \in [Requests -> Replicas]
                         /\ future \in [Tokens -> {"pending", "error", "peer", "cached", "fill"}]
                         /\ NoToken \notin Tokens
           Kept == (Cached => Cached') /\ \A t \in Tokens : Verified(t) => Verified(t)'
           Following(s) == pc[s] \in Local \/ (pc[s] = "joining" /\ future[att[s]] = "fill")
<1>0. TokenTypes
  BY FillAssumption DEF Typing, ServerTypes
<1>k. Kept
  BY Keeps DEF FoundInv
<1>f. \A s \in Requests : pc[s] \in Local \cup {"joining"} => att[s] \in Tokens
  BY DEF Typing, PcInv
<1> HIDE DEF TokenTypes, Kept
<1> USE DEF FoundInv
<1>1. ASSUME NEW r \in Requests, Reads(r) PROVE Followers'
  <2>1. /\ UNCHANGED <<phase, body, partial, marker, future, error, stored, row, at, home, fills, opening>> /\ Others(r) /\ Leads(r)
        /\ pc'[r] \in Local => pc'[r] # "joining"
    BY <1>1, ReadTyped DEF server, process, download, volume, world, Local
  <2>2. home[r] \in Replicas
    BY <1>0 DEF TokenTypes
  <2>3. pc'[r] = "joining" => /\ phase[att'[r]] \in {"asking", "opening"} /\ at[att'[r]] = home[r]
                              /\ future[att'[r]] = "pending" 
    BY <1>0, <2>1, <2>2 DEF Leads, OneInv, Maps, TokenTypes
  <2>4. pc'[r] \in Local => /\ att'[r] \in Tokens /\ at[att'[r]] = home[r] /\ phase[att'[r]] \in Running \cup {"over", "gone"}
                            /\ Done(att'[r]) /\ att'[r] \notin error => Verified(att'[r]) /\ Cached
    <3>1. CASE att'[r] = fills[home[r]] /\ att'[r] \in Tokens
      BY <1>0, <2>2, <3>1 DEF OneInv, Maps, Done, Running, TokenTypes
    <3>2. CASE att'[r] = att[r] /\ (pc[r] \in Local \/ (pc[r] = "joining" /\ future[att[r]] = "fill"))
      BY <1>f, <3>2 DEF Followers
    <3> QED
      BY <2>1, <3>1, <3>2 DEF Leads
  <2>5. pc'[r] = "refresh" /\ tries'[r] < MaxTries => Cached
    <3>1. CASE pc[r] = "joining" /\ future[att[r]] = "cached"
      BY <1>f, <3>1 DEF Sound
    <3>2. CASE pc[r] = "following" /\ Done(att[r]) /\ att[r] \notin error
      BY <3>2 DEF Followers, Local
    <3>3. tries'[r] \in 0..MaxTries /\ MaxTries \in Nat
      BY <1>1, ReadTyped, FillAssumption DEF Typing, RequestTypes
    <3> QED
      BY <2>1, <3>1, <3>2, <3>3 DEF Leads
  <2>6. "joining" \notin Local /\ "refresh" \notin Local
    BY DEF Local
  <2>7. \A t \in Tokens : UNCHANGED <<Done(t), Verified(t), Cached>>
    BY <2>1 DEF Done, Verified, Cached
  <2> QED
    BY <2>1, <2>3, <2>4, <2>5, <2>6, <2>7, <1>f DEF Followers, Others, Done, Verified, Cached, Running
<1>2. ASSUME UNCHANGED home,
             \A t \in Tokens : phase[t] # "unused" => phase'[t] # "unused" /\ at'[t] = at[t],
             \A t \in Tokens : phase[t] \in Running \cup {"over", "gone"} =>
                /\ phase'[t] \in Running \cup {"over", "gone"}
                /\ Done(t)' /\ t \notin error' => (Done(t) /\ t \notin error) \/ (Verified(t)' /\ Cached'),
             \A t \in Tokens : future'[t] = "fill" => future[t] = "fill" \/ phase'[t] = "down",
             \A s \in Requests :
                \/ pc'[s] = pc[s] /\ att'[s] = att[s] /\ tries'[s] = tries[s]
                \/ pc'[s] \notin Local \cup {"joining"} /\ (pc'[s] = "refresh" => Cached)
                \/ pc'[s] = "following" /\ att'[s] \in Tokens /\ phase'[att'[s]] = "down" /\ at'[att'[s]] = home[s]
      PROVE  Followers'
  <2>1. ASSUME NEW s \in Requests, pc'[s] \in Local \cup {"joining"}
        PROVE  phase'[att'[s]] # "unused" /\ at'[att'[s]] = home'[s]
    BY <1>2, <2>1, <1>f DEF Followers
  <2>2. ASSUME NEW s \in Requests, pc'[s] \in Local \/ (pc'[s] = "joining" /\ future'[att'[s]] = "fill")
        PROVE  /\ phase'[att'[s]] \in Running \cup {"over", "gone"}
               /\ Done(att[s])' /\ att'[s] \notin error' => Verified(att[s])' /\ Cached'
    <3>0. phase'[att'[s]] = "down" => /\ phase'[att'[s]] \in Running \cup {"over", "gone"} /\ ~(Done(att[s])')
      BY DEF Running, Done
    <3>1. CASE pc'[s] = pc[s] /\ att'[s] = att[s]
      <4>1. pc[s] \in Local \/ pc[s] = "joining"
        BY <2>2, <3>1
      <4>t. PICK t \in Tokens : t = att[s] /\ t = att'[s]
        BY <1>f, <3>1, <4>1
      <4>2. CASE pc[s] \in Local \/ future[t] = "fill"
        <5>1. /\ phase[t] \in Running \cup {"over", "gone"}
              /\ Done(t) /\ t \notin error => Verified(t) /\ Cached
          BY <4>1, <4>t, <4>2 DEF Followers
        <5>2. /\ phase'[t] \in Running \cup {"over", "gone"}
              /\ (phase'[t] \in {"over", "gone"} /\ t \notin error') => Verified(t)' /\ Cached'
          BY <1>2, <1>k, <5>1 DEF Kept, Done
        <5> QED
          BY <4>t, <5>2 DEF Done, Verified
      <4>3. CASE pc[s] = "joining" /\ future[t] # "fill"
        <5>1. future'[t] = "fill" /\ phase'[t] = "down"
          BY <1>2, <2>2, <3>1, <4>t, <4>3 DEF Local
        <5> QED
          BY <3>0, <4>t, <5>1
      <4> QED
        BY <4>1, <4>t, <4>2, <4>3
    <3>2. CASE pc'[s] = "following" /\ phase'[att'[s]] = "down"
      BY <3>0, <3>2
    <3> QED
      BY <1>2, <2>2, <3>1, <3>2
  <2>3. ASSUME NEW s \in Requests, pc'[s] = "refresh", tries'[s] < MaxTries
        PROVE  Cached'
    BY <1>2, <1>k, <2>3 DEF Followers, Kept
  <2> QED
    BY <2>1, <2>2, <2>3 DEF Followers
<1>3. ASSUME NEW r \in Requests, StartOpening(r) PROVE Followers'
  <2>1. PICK t \in Tokens : /\ phase[t] = "unused" /\ at' = [at EXCEPT ![t] = home[r]]
                            /\ phase' = [phase EXCEPT ![t] = "asking"] /\ Follow(r, "asking", t)
    BY <1>3 DEF StartOpening, Claim, Phase
  <2>2. UNCHANGED <<future, error, home>> /\ Others(r) /\ pc'[r] = "asking"
    BY <1>3, OpenerMoves DEF world
  <2> HIDE DEF FoundInv
  <2> QED
    BY <1>0, <1>2, <2>1, <2>2 DEF TokenTypes, Others, Local, Done, Running
<1>4. ASSUME NEW r \in Requests, Acquire(r) PROVE Followers'
  <2>1. pc[r] = "asking" /\ phase' = [phase EXCEPT ![att[r]] = "opening"] /\ UNCHANGED <<at, future, error, home>>
    BY <1>4 DEF Acquire, Phase, world
  <2>2. Others(r) /\ pc'[r] = "recheck" /\ att[r] \in Tokens /\ phase[att[r]] = "asking"
    BY <1>4, <2>1, OpenerMoves, OpenerHas DEF Openers, OneInv, OneOpener
  <2> QED
    BY <1>0, <1>2, <2>1, <2>2 DEF TokenTypes, Others, Local, Done, Running
<1>5. ASSUME NEW r \in Requests, AcquireRefused(r) \/ RecheckCached(r) \/ OpenFails(r) \/ CancelAsking(r) PROVE Followers'
  <2>1. /\ pc[r] \in Openers /\ phase' = [phase EXCEPT ![att[r]] = "gone"] /\ UNCHANGED <<at, error, home>>
        /\ \E outcome \in {"error", "peer", "cached"} : future' = [future EXCEPT ![att[r]] = outcome]
    BY <1>5 DEF AcquireRefused, RecheckCached, OpenFails, CancelAsking, Settle, Phase, Openers, world
  <2>2. Others(r) /\ att[r] \in Tokens /\ phase[att[r]] \in {"asking", "opening"}
    BY <1>5, <2>1, OpeningTyped, OpenerHas DEF OneInv, OneOpener, Openers
  <2>3. pc'[r] \in {"peer", "refresh", "error", "gone"} /\ (pc'[r] = "refresh" => Cached)
    <3>1. CASE RecheckCached(r)
      BY <3>1, OneMoves DEF RecheckCached, Become, Typing, Steps
    <3>2. CASE AcquireRefused(r)
      <4>1. Goto(r, "peer")
        BY <3>2 DEF AcquireRefused, Become
      <4>2. "peer" \in Steps /\ RequestTypes
        BY DEF Typing, Steps
      <4>3. pc'[r] = "peer"
        BY <4>1, <4>2, OneMoves
      <4> QED
        BY <4>3
    <3>3. CASE OpenFails(r) \/ CancelAsking(r)
      BY <3>3, OneMoves DEF OpenFails, CancelAsking, Quit, Typing, Steps, Ended
    <3> QED
      BY <1>5, <3>1, <3>2, <3>3
  <2>4. \A t \in Tokens : future'[t] = "fill" => future[t] = "fill"
    BY <1>0, <2>1, <2>2 DEF TokenTypes
  <2>5. \A s \in Requests :
                \/ pc'[s] = pc[s] /\ att'[s] = att[s] /\ tries'[s] = tries[s]
                \/ pc'[s] \notin Local \cup {"joining"} /\ (pc'[s] = "refresh" => Cached)
    BY <2>2, <2>3 DEF Others, Local
  <2>6. \A t \in Tokens : phase[t] \in Running \cup {"over", "gone"} => phase'[t] = phase[t]
    BY <1>0, <2>1, <2>2 DEF TokenTypes, Running
  <2>7. \A t \in Tokens : phase[t] # "unused" => phase'[t] # "unused"
    BY <1>0, <2>1 DEF TokenTypes
  <2> QED
    BY <1>2, <2>1, <2>4, <2>5, <2>6, <2>7 DEF Done
<1>6. ASSUME NEW r \in Requests, OpenUpstream(r) PROVE Followers'
  <2>1. /\ pc[r] = "connect" /\ phase' = [phase EXCEPT ![att[r]] = "down"] /\ UNCHANGED <<at, error, home, att>>
        /\ future' = [future EXCEPT ![att[r]] = "fill"]
    BY <1>6 DEF OpenUpstream, Settle, Phase, world, Become
  <2>2. Others(r) /\ pc'[r] = "following" /\ att[r] \in Tokens /\ phase[att[r]] = "opening" /\ at[att[r]] = home[r]
    BY <1>6, <2>1, OpenerMoves, OpenerHas DEF Openers, OneInv, OneOpener
  <2>3. /\ phase'[att[r]] = "down"
        /\ \A t \in Tokens : future'[t] = "fill" => future[t] = "fill" \/ phase'[t] = "down"
        /\ \A t \in Tokens : phase[t] \in Running \cup {"over", "gone"} => phase'[t] = phase[t]
        /\ \A t \in Tokens : phase[t] # "unused" => phase'[t] # "unused"
    BY <1>0, <2>1, <2>2 DEF TokenTypes, Running
  <2>4. \A s \in Requests :
                \/ pc'[s] = pc[s] /\ att'[s] = att[s] /\ tries'[s] = tries[s]
                \/ pc'[s] = "following" /\ att'[s] \in Tokens /\ phase'[att'[s]] = "down" /\ at'[att'[s]] = home[s]
    BY <2>1, <2>2, <2>3 DEF Others
  <2> QED
    BY <1>2, <2>1, <2>3, <2>4 DEF Done
<1>7. CASE (\E t \in Tokens : RunFill(t) \/ CleanupTmp(t)) \/ Lapse
  <2>1. UNCHANGED <<pc, att, tries, at, future, home>>
    BY <1>7, FillPhases
  <2>2. \/ UNCHANGED phase /\ error' = error
        \/ \E t \in Tokens : /\ phase[t] \in Running /\ (\E step \in Running : phase' = [phase EXCEPT ![t] = step]) /\ error' = error
        \/ \E t \in Tokens : /\ phase[t] \in {"recorded", "failed"} /\ phase' = [phase EXCEPT ![t] = "over"]
                             /\ error \subseteq error' /\ (phase[t] = "failed" => t \in error')
        \/ \E t \in Tokens : phase[t] = "over" /\ phase' = [phase EXCEPT ![t] = "gone"] /\ error' = error
    <3>1. CASE Lapse \/ \E t \in Tokens : Write(t) \/ Advance(t) \/ CleanupTmp(t)
      BY <3>1 DEF Write, Advance, CleanupTmp, Lapse, download
    <3>2. CASE \E t \in Tokens : Adopt(t) \/ Fail(t) \/ Record(t)
      BY <3>2 DEF Adopt, Adopted, Fail, Record, Phase, Running
    <3>3. CASE \E t \in Tokens : Finish(t)
      BY <3>3 DEF Finish, Phase
    <3>4. CASE \E t \in Tokens : FinishRelease(t)
      BY <3>4 DEF FinishRelease, Phase
    <3> QED
      BY <1>7, <3>1, <3>2, <3>3, <3>4 DEF RunFill
  <2>3. \A t \in Tokens : phase[t] # "unused" => phase'[t] # "unused"
    BY <1>0, <2>2 DEF TokenTypes, Running
  <2>4. \A t \in Tokens : phase[t] = "recorded" => Verified(t)' /\ Cached'
    BY <1>k DEF Sound, Kept
  <2>5. \A t \in Tokens : phase[t] \in Running \cup {"over", "gone"} =>
                /\ phase'[t] \in Running \cup {"over", "gone"}
                /\ phase'[t] \in {"over", "gone"} /\ t \notin error' =>
                       (phase[t] \in {"over", "gone"} /\ t \notin error) \/ phase[t] = "recorded"
    BY <1>0, <2>2 DEF TokenTypes, Running
  <2>6. \A t \in Tokens : phase[t] \in Running \cup {"over", "gone"} =>
                /\ phase'[t] \in Running \cup {"over", "gone"}
                /\ Done(t)' /\ t \notin error' => (Done(t) /\ t \notin error) \/ (Verified(t)' /\ Cached')
    BY <2>4, <2>5 DEF Done
  <2> QED
    BY <1>2, <2>1, <2>3, <2>6
<1>8. ASSUME NEW p \in Replicas, Crash(p) PROVE Followers'
  <2>1. /\ UNCHANGED <<at, future, home, error>>
        /\ \A t \in Tokens : phase'[t] = IF phase[t] # "unused" /\ at[t] = p THEN "gone" ELSE phase[t]
    BY <1>8, CrashTyped
  <2>2. \A r \in Requests : \/ /\ pc'[r] = pc[r] /\ att'[r] = att[r] /\ tries'[r] = tries[r]
                               /\ home[r] # p \/ pc[r] \in {"idle"} \cup Ended
                            \/ pc'[r] = "gone"
    BY <1>8, CrashTyped
  <2>3. \A r \in Requests : pc'[r] \in Local \cup {"joining"} =>
          /\ pc'[r] = pc[r] /\ att'[r] = att[r] /\ att[r] \in Tokens /\ at[att[r]] # p /\ at[att[r]] = home[r]
          /\ phase'[att[r]] = phase[att[r]]
    BY <2>1, <2>2, <1>f DEF Followers, Local, Ended
  <2>4. \A r \in Requests : pc'[r] = "refresh" /\ tries'[r] < MaxTries => Cached'
    BY <1>k, <2>2 DEF Followers, Kept
  <2>5. ASSUME NEW r \in Requests, pc'[r] \in Local \/ (pc'[r] = "joining" /\ future'[att'[r]] = "fill")
        PROVE  /\ phase'[att'[r]] \in Running \cup {"over", "gone"}
               /\ Done(att[r])' /\ att'[r] \notin error' => Verified(att[r])' /\ Cached'
    <3>1. PICK t \in Tokens : t = att[r] /\ t = att'[r] /\ pc'[r] = pc[r] /\ phase'[t] = phase[t]
      BY <2>3, <2>5
    <3>2. /\ phase[t] \in Running \cup {"over", "gone"}
          /\ Done(t) /\ t \notin error => Verified(t) /\ Cached
      BY <2>1, <2>5, <3>1 DEF Followers
    <3>3. /\ phase'[t] \in Running \cup {"over", "gone"}
          /\ phase'[t] \in {"over", "gone"} /\ t \notin error' => Verified(t)' /\ Cached'
      BY <1>k, <2>1, <3>1, <3>2 DEF Done, Kept
    <3> QED
      BY <3>1, <3>3 DEF Done, Verified
  <2> QED
    BY <2>1, <2>3, <2>4, <2>5 DEF Followers
<1> QED
  BY <1>1, <1>3, <1>4, <1>5, <1>6, <1>7, <1>8, Kinds

\* What an attempt says has been shown.
LEMMA StepFound == Typing /\ OneInv /\ FoundInv /\ [Next]_vars => FoundInv'
<1>1. Typing /\ OneInv /\ FoundInv /\ Next => FoundInv'
  BY StepSound, StepFollowers DEF FoundInv
<1>2. FoundInv /\ UNCHANGED vars => FoundInv'
  BY DEF FoundInv, Sound, Followers, Verified, Cached, Done, vars, server, download, volume, world, request
<1> QED
  BY <1>1, <1>2

\* A request that was told the file is cached finds it so, whatever crashes or
\* fails: the download records the blob before it says it is over
\* (fill.finish after the transaction of _run_fill).
THEOREM Found == Spec => []FollowersFindIt
<1>1. FoundInv => FollowersFindIt
  BY DEF FoundInv, Followers, FollowersFindIt
<1> QED
  BY InitTyped, StepTyped, InitOne, StepOne, InitFound, StepFound, <1>1, PTL DEF Spec

-----------------------------------------------------------------------------
(* While the lease works, one download in the deployment.                  *)

\* The attempt that is opened or runs holds the lease, and nobody asks the
\* upstream for what is cached.
Holding == {"opening", "over"} \cup Running
LeaseInv ==
    /\ \A t \in Tokens : phase[t] \in Holding => lease = t /\ t \in owned
    /\ \A r \in Requests : pc[r] = "connect" => ~Cached

\* At the start nobody holds it.
LEMMA InitLease == Init => LeaseInv
  BY DEF Init, LeaseInv, Holding, Running

\* A lease that never fails and is renewed in time stays with its attempt.
LEMMA StepLease == ~CacheMayFail /\ ~LeaseMayLapse /\ Typing /\ OneInv /\ LeaseInv /\ [Next]_vars => LeaseInv'
<1> SUFFICES ASSUME ~CacheMayFail, ~LeaseMayLapse, Typing, OneInv, LeaseInv, [Next]_vars PROVE LeaseInv'
  OBVIOUS
<1> DEFINE TokenTypes == /\ phase \in [Tokens -> {"unused", "asking", "opening", "over", "gone"} \cup Running]
                         /\ lease \in Tokens \cup {NoToken} /\ NoToken \notin Tokens
<1>0. TokenTypes
  BY FillAssumption DEF Typing, ServerTypes
<1>a. \A r \in Requests : pc[r] = "connect" => att[r] \in Tokens /\ phase[att[r]] = "opening"
  BY OpenerHas DEF Openers, OneInv, OneOpener
<1>b. \A t, u \in Tokens : phase[t] \in Holding /\ phase[u] \in Holding => t = u
  BY DEF LeaseInv
<1> HIDE DEF TokenTypes
<1>1. CASE UNCHANGED vars
  BY <1>1 DEF LeaseInv, Cached, vars, server, leases, download, volume, request
<1>2. ASSUME NEW r \in Requests, Reads(r) PROVE LeaseInv'
  <2>1. UNCHANGED <<phase, lease, owned, stored, row>> /\ Others(r) /\ Leads(r)
    BY <1>2, ReadTyped DEF server, leases, download, volume
  <2>2. pc'[r] = "connect" => ~Cached
    BY <2>1 DEF Leads, Openers
  <2> QED
    BY <2>1, <2>2 DEF LeaseInv, Cached, Others
<1>3. ASSUME NEW r \in Requests, StartOpening(r) PROVE LeaseInv'
  <2>1. PICK t \in Tokens : phase[t] = "unused" /\ phase' = [phase EXCEPT ![t] = "asking"] /\ Follow(r, "asking", t)
    BY <1>3 DEF StartOpening, Claim, Phase
  <2>2. UNCHANGED <<lease, owned, stored, row>> /\ Others(r) /\ pc'[r] = "asking"
    BY <1>3, OpenerMoves DEF leases, volume
  <2> QED
    BY <1>0, <2>1, <2>2 DEF LeaseInv, Cached, Others, TokenTypes, Holding, Running
<1>4. ASSUME NEW r \in Requests, Acquire(r) PROVE LeaseInv'
  <2>1. /\ pc[r] = "asking" /\ phase' = [phase EXCEPT ![att[r]] = "opening"] /\ UNCHANGED <<stored, row>>
        /\ lease = NoToken /\ lease' = att[r] /\ owned' = owned \cup {att[r]} /\ Goto(r, "recheck")
    BY <1>4 DEF Acquire, Phase, volume, Become
  <2>2. Others(r) /\ pc'[r] = "recheck" /\ att[r] \in Tokens
    <3>1. "recheck" \in Steps /\ RequestTypes
      BY DEF Typing, Steps
    <3> QED
      BY <1>4, <2>1, <3>1, OpeningTyped, OpenerHas, OneMoves DEF Openers
  <2>3. \A t \in Tokens : phase[t] \notin Holding
    BY <1>0, <2>1 DEF LeaseInv, TokenTypes
  <2> QED
    BY <1>0, <2>1, <2>2, <2>3 DEF LeaseInv, Cached, Others, TokenTypes
<1>5. ASSUME NEW r \in Requests, AcquireRefused(r) \/ CancelAsking(r) PROVE LeaseInv'
  <2>1. /\ pc[r] = "asking" /\ phase' = [phase EXCEPT ![att[r]] = "gone"] /\ UNCHANGED <<stored, row, owned>>
        /\ lease # NoToken => lease' = lease
        /\ \E step \in {"peer", "gone"} : Goto(r, step)
    BY <1>5 DEF AcquireRefused, CancelAsking, Phase, volume, leases, Become, Quit
  <2>2. Others(r) /\ pc'[r] \in {"peer", "gone"} /\ att[r] \in Tokens
    <3>1. {"peer", "gone"} \subseteq Steps /\ RequestTypes
      BY DEF Typing, Steps, Ended
    <3> QED
      BY <1>5, <2>1, <3>1, OpeningTyped, OpenerHas, OneMoves DEF Openers
  <2>3. \A t \in Tokens : phase'[t] \in Holding => phase[t] \in Holding
    BY <1>0, <2>1, <2>2 DEF TokenTypes, Holding, Running
  <2> QED
    BY <1>0, <2>1, <2>2, <2>3 DEF LeaseInv, Cached, Others, TokenTypes
<1>6. ASSUME NEW r \in Requests, RecheckCached(r) \/ OpenFails(r) PROVE LeaseInv'
  <2>1. /\ pc[r] \in {"recheck", "connect"} /\ phase' = [phase EXCEPT ![att[r]] = "gone"] /\ UNCHANGED <<stored, row>>
        /\ Release(att[r])
        /\ \E step \in {"refresh", "error"} : Goto(r, step)
    BY <1>6 DEF RecheckCached, OpenFails, Phase, volume, Become, Quit
  <2>2. Others(r) /\ pc'[r] \in {"refresh", "error"} /\ att[r] \in Tokens
    <3>1. {"refresh", "error"} \subseteq Steps /\ RequestTypes
      BY DEF Typing, Steps, Ended
    <3> QED
      BY <1>6, <2>1, <3>1, OpeningTyped, OpenerHas, OneMoves DEF Openers
  <2>3. phase[att[r]] = "opening"
    BY <2>1, OpenerHas DEF Openers, OneInv, OneOpener
  <2>4. \A t \in Tokens : phase'[t] \notin Holding
    <3>1. phase[att[r]] \in Holding
      BY <2>3 DEF Holding
    <3> QED
      BY <1>0, <1>b, <2>1, <2>2, <3>1 DEF TokenTypes, Holding, Running
  <2> QED
    BY <2>1, <2>2, <2>4 DEF LeaseInv, Cached, Others
<1>7. ASSUME NEW r \in Requests, OpenUpstream(r) PROVE LeaseInv'
  <2>1. /\ pc[r] = "connect" /\ phase' = [phase EXCEPT ![att[r]] = "down"] /\ UNCHANGED <<stored, row, lease, owned>>
        /\ Goto(r, "following")
    BY <1>7 DEF OpenUpstream, Phase, leases, Become
  <2>2. Others(r) /\ pc'[r] = "following"
    <3>1. "following" \in Steps /\ RequestTypes
      BY DEF Typing, Steps
    <3> QED
      BY <1>7, <2>1, <3>1, OpeningTyped, OneMoves
  <2>3. \A t \in Tokens : phase'[t] \in Holding => phase[t] \in Holding
    BY <1>0, <1>a, <2>1 DEF TokenTypes, Holding
  <2> QED
    BY <2>1, <2>2, <2>3 DEF LeaseInv, Cached, Others
<1>8. ASSUME NEW t \in Tokens, RunFill(t) \/ CleanupTmp(t) PROVE LeaseInv'
  <2>1. UNCHANGED pc
    BY <1>8, FillPhases
  <2>2. \/ UNCHANGED <<phase, lease, owned, stored, row>>
        \/ /\ phase[t] \in Running /\ (\E step \in Running \cup {"over"} : phase' = [phase EXCEPT ![t] = step])
           /\ UNCHANGED <<lease, owned>>
        \/ phase[t] = "over" /\ phase' = [phase EXCEPT ![t] = "gone"] /\ UNCHANGED <<stored, row>> /\ Release(t)
    <3>1. CASE Write(t) \/ Advance(t) \/ CleanupTmp(t)
      BY <3>1 DEF Write, Advance, CleanupTmp, download, leases, volume
    <3>2. CASE Adopt(t) \/ Fail(t) \/ Record(t)
      BY <3>2 DEF Adopt, Adopted, Fail, Record, Phase, Running, leases
    <3>3. CASE Finish(t)
      BY <3>3 DEF Finish, Phase, leases, Running
    <3>4. CASE FinishRelease(t)
      BY <3>4 DEF FinishRelease, Phase, volume
    <3> QED
      BY <1>8, <3>1, <3>2, <3>3, <3>4 DEF RunFill
  <2>3. CASE UNCHANGED <<phase, lease, owned, stored, row>>
    BY <2>1, <2>3 DEF LeaseInv, Cached
  <2>4. CASE /\ phase[t] \in Running /\ (\E step \in Running \cup {"over"} : phase' = [phase EXCEPT ![t] = step])
             /\ UNCHANGED <<lease, owned>>
    <3>1. phase[t] \in Holding /\ t \notin {u \in Tokens : phase[u] = "opening"}
      BY <2>4 DEF Holding, Running
    <3>2. \A r \in Requests : pc[r] # "connect"
      BY <1>a, <1>b, <3>1 DEF Holding
    <3>3. \A u \in Tokens : phase'[u] \in Holding => phase[u] \in Holding
      BY <1>0, <2>4, <3>1 DEF TokenTypes
    <3> QED
      BY <2>1, <2>4, <3>2, <3>3 DEF LeaseInv
  <2>5. CASE phase[t] = "over" /\ phase' = [phase EXCEPT ![t] = "gone"] /\ UNCHANGED <<stored, row>>
    <3>1. phase[t] \in Holding /\ "gone" \notin Holding
      BY <2>5 DEF Holding, Running
    <3>2. \A u \in Tokens : phase'[u] \notin Holding
      BY <1>0, <1>b, <2>5, <3>1 DEF TokenTypes
    <3> QED
      BY <2>1, <2>5, <3>2 DEF LeaseInv, Cached
  <2> QED
    BY <2>2, <2>3, <2>4, <2>5
<1>9. CASE Lapse
  <2>1. UNCHANGED <<pc, phase, owned, stored, row>> /\ ~Renewed
    BY <1>9 DEF Lapse, download, volume, request
  <2>2. \A t \in Tokens : phase[t] \notin Holding
    BY <2>1 DEF Renewed, LeaseInv, Holding
  <2> QED
    BY <2>1, <2>2 DEF LeaseInv, Cached
<1>10. ASSUME NEW p \in Replicas, Crash(p) PROVE LeaseInv'
  <2>1. /\ UNCHANGED <<lease, owned, stored, row>> /\ \A t \in Tokens : phase'[t] \in {phase[t], "gone"}
    BY <1>10, CrashTyped
  <2>2. \A r \in Requests : pc'[r] \in {pc[r], "gone"}
    BY <1>10, CrashTyped
  <2> QED
    BY <2>1, <2>2 DEF LeaseInv, Cached, Holding, Running
<1> QED
  BY <1>1, <1>2, <1>3, <1>4, <1>5, <1>6, <1>7, <1>8, <1>9, <1>10, Kinds

\* While cache commands work and renewals arrive, replicas share one download,
\* and nobody asks the upstream for a file that has become cached: the second
\* look of _start_or_join is under the lease.
THEOREM OnlyDownload == ASSUME ~CacheMayFail, ~LeaseMayLapse PROVE Spec => []OneDownload
<1>1. LeaseInv => OneDownload
  BY DEF LeaseInv, OneDownload, Attempting, Holding
<1>2. Typing /\ OneInv /\ LeaseInv /\ [Next]_vars => LeaseInv'
  BY StepLease
<1> QED
  BY InitTyped, StepTyped, InitOne, StepOne, InitLease, <1>1, <1>2, PTL DEF Spec

-----------------------------------------------------------------------------
(* No body is complete before it is verified.                              *)

\* No answer is empty by announcement or longer than its readers are promised,
\* and no verified one is longer than the size in its row.
NoLonger ==
    \A b \in Bodies :
        LET size == IF b.declared # Unknown THEN b.declared ELSE RowSize
        IN  /\ size # Unknown => 0 < size /\ b.len <= size
            /\ b.good /\ RowSize \notin {Unknown, 0} => b.len <= RowSize

Reading == {"read", "wait", "peerread", "peermark"}

\* What a request has promised, what it has passed on of it, and that what it
\* has passed on in full is in the store.
Told(r) ==
    /\ pc[r] \in Local \ {"following"} => promised[r] = Size(att[r])
    /\ pc[r] \in PeerReaders \cup {"look"} => promised[r] = RowSize
    /\ pc[r] \in Headed => promised[r] > 0
    /\ pc[r] \notin Headed \cup Ended => promised[r] = Unknown
Passed(r) ==
    /\ pc[r] \notin Reading \cup Ended => sent[r] = 0 /\ held[r] = 0
    /\ pc[r] \in Reading => /\ sent[r] <= promised[r] /\ sent[r] <= partial[att[r]]
                            /\ held[r] = 0 => sent[r] = 0
Backed(r) ==
    promised[r] # Unknown /\ Delivered(r) >= promised[r] =>
        att[r] \in Tokens /\ body[att[r]] \in stored /\ body[att[r]].len = promised[r]

ReadInv == \A r \in Requests : Told(r) /\ Passed(r) /\ Backed(r)

\* At the start nothing is promised.
LEMMA InitRead == Init => ReadInv
  BY DEF Init, ReadInv, Told, Passed, Backed, Local, PeerReaders, Headed, Reading, Ended

\* What is stored stays, and partial files only grow.
LEMMA Grows ==
    ASSUME Typing, OneInv, Sound, Next
    PROVE  /\ stored \subseteq stored' /\ \A t \in Tokens : partial[t] <= partial'[t]
           /\ \A t \in Tokens : body[t] \in Bodies => body'[t] = body[t]
<1>0. partial \in [Tokens -> Nat]
  BY DEF Typing, ServerTypes
<1>1. \A t \in Tokens : body[t] \in Bodies => body'[t] = body[t]
  BY Keeps
<1>2. CASE UNCHANGED <<stored, partial>>
  BY <1>0, <1>1, <1>2
<1>3. ASSUME NEW r \in Requests, Reads(r) PROVE UNCHANGED <<stored, partial>>
  BY <1>3, ReadTyped DEF server, volume
<1>4. ASSUME NEW r \in Requests,
             StartOpening(r) \/ Acquire(r) \/ AcquireRefused(r) \/ RecheckCached(r) \/ OpenUpstream(r) \/ OpenFails(r)
               \/ CancelAsking(r)
      PROVE  UNCHANGED <<stored, partial>>
  BY <1>4 DEF StartOpening, Claim, Acquire, AcquireRefused, RecheckCached, OpenUpstream, OpenFails, CancelAsking, volume
<1>5. CASE (\E t \in Tokens : RunFill(t) \/ CleanupTmp(t)) \/ Lapse
  <2>1. stored \subseteq stored'
    BY <1>5, FillStores
  <2>2. UNCHANGED partial \/ \E t \in Tokens : partial' = [partial EXCEPT ![t] = @ + 1]
    BY <1>5, FillStores
  <2>3. \A t \in Tokens : partial[t] <= partial'[t]
    BY <1>0, <2>2
  <2> QED
    BY <1>1, <2>1, <2>3
<1>6. ASSUME NEW p \in Replicas, Crash(p) PROVE UNCHANGED <<stored, partial>>
  BY <1>6, CrashTyped
<1> QED
  BY <1>2, <1>3, <1>4, <1>5, <1>6, Kinds

\* A request that did not move keeps its promise.
LEMMA Unmoved ==
    ASSUME Typing, OneInv, Sound, Next, NEW r \in Requests, Told(r) /\ Passed(r) /\ Backed(r),
           pc'[r] = pc[r], att'[r] = att[r], promised'[r] = promised[r], sent'[r] = sent[r], held'[r] = held[r]
    PROVE  Told(r)' /\ Passed(r)' /\ Backed(r)'
<1>1. /\ stored \subseteq stored' /\ \A t \in Tokens : partial[t] <= partial'[t]
      /\ \A t \in Tokens : body[t] \in Bodies => body'[t] = body[t]
  BY Grows
<1>2. /\ stored \subseteq Bodies
      /\ \A t \in Tokens : partial[t] \in Nat /\ partial'[t] \in Nat
      /\ sent[r] \in Nat /\ promised[r] \in Nat \cup {Unknown}
      /\ pc[r] \in Local => att[r] \in Tokens /\ body[att[r]] \in Bodies
      /\ pc[r] \in Reading => att[r] \in Tokens
  BY StepTyped DEF Typing, ServerTypes, RequestTypes, PcInv, Opened, Local, PeerReaders, Reading
<1>3. Told(r)'
  BY <1>1, <1>2 DEF Told, Size
<1>4. Passed(r)'
  <2>1. pc[r] \in Reading => sent'[r] <= partial'[att[r]]
    BY <1>1, <1>2 DEF Passed
  <2> QED
    BY <2>1 DEF Passed
<1>5. Backed(r)'
  BY <1>1, <1>2 DEF Backed, Delivered
<1> QED
  BY <1>3, <1>4, <1>5

\* A request that has promised nothing owes nothing.
LEMMA Fresh ==
    ASSUME NEW r \in Requests, pc'[r] \notin Headed, promised'[r] = Unknown, sent'[r] = 0, held'[r] = 0
    PROVE  Told(r)' /\ Passed(r)' /\ Backed(r)'
  BY DEF Told, Passed, Backed, Headed, Local, PeerReaders, Reading

\* Before the end a client lacks at least one promised byte.
LEMMA Short ==
    ASSUME Typing, NEW r \in Requests, Told(r), Passed(r), pc[r] \in Headed
    PROVE  /\ promised[r] \in Nat /\ promised[r] > 0 /\ sent[r] \in Nat /\ held[r] \in Nat
           /\ sent[r] - held[r] < promised[r] /\ sent[r] <= promised[r] /\ (held[r] = 0 => sent[r] = 0)
<1>1. promised[r] \in Nat /\ promised[r] > 0 /\ sent[r] \in Nat /\ held[r] \in Nat /\ pc[r] \notin Ended
  BY DEF Typing, RequestTypes, PcInv, Told, Headed, PeerReaders, Ended
<1>2. sent[r] <= promised[r] /\ (held[r] = 0 => sent[r] = 0)
  BY <1>1 DEF Passed
<1> QED
  BY <1>1, <1>2

\* A reader that moves on with what it has still owes the same.
LEMMA MovesOn ==
    ASSUME Typing, NEW r \in Requests, Told(r), Passed(r), UNCHANGED server, pc[r] \in Headed, pc'[r] \in Headed,
           promised'[r] = promised[r], sent'[r] = sent[r], held'[r] = held[r],
           pc'[r] \in Local => pc[r] \in Local /\ att'[r] = att[r],
           pc'[r] \in PeerReaders => pc[r] \in PeerReaders \cup {"look"},
           pc'[r] # "look",
           pc'[r] \in Reading => att'[r] = att[r] /\ att[r] \in Tokens,
           pc[r] \in Reading => pc'[r] \in Reading
    PROVE  Told(r)' /\ Passed(r)' /\ Backed(r)'
<1>1. UNCHANGED <<body, partial>>
  BY DEF server, download, volume
<1>2. /\ promised[r] \in Nat /\ promised[r] > 0 /\ sent[r] \in Nat /\ held[r] \in Nat
      /\ sent[r] - held[r] < promised[r] /\ sent[r] <= promised[r] /\ (held[r] = 0 => sent[r] = 0)
  BY Short
<1>3. Told(r)'
  BY <1>1, <1>2 DEF Told, Size, Headed, Local, PeerReaders
<1>4. pc'[r] \in Reading => sent'[r] <= partial'[att'[r]]
  <2>1. pc'[r] \in Reading => partial[att[r]] \in Nat /\ pc[r] \notin Ended
    BY DEF Typing, ServerTypes, Headed, PeerReaders, Ended
  <2> QED
    BY <1>1, <1>2, <2>1 DEF Passed
<1>5. Passed(r)'
  BY <1>2, <1>4 DEF Passed, Headed, PeerReaders, Reading, Ended
<1>6. Backed(r)'
  BY <1>2 DEF Backed, Delivered
<1> QED
  BY <1>3, <1>5, <1>6

\* A response that ends backed by the store, or short of its length.
LEMMA EndsWell ==
    ASSUME NEW r \in Requests, pc'[r] \in Ended, promised'[r] \in Nat, sent'[r] \in Nat, held'[r] \in Nat,
           \/ sent'[r] - held'[r] < promised'[r]
           \/ att'[r] \in Tokens /\ body'[att'[r]] \in stored' /\ body'[att'[r]].len = promised'[r]
    PROVE  Told(r)' /\ Passed(r)' /\ Backed(r)'
  BY DEF Told, Passed, Backed, Delivered, Headed, Local, PeerReaders, Reading, Ended

\* The steps of a reader keep its promise.
LEMMA ReaderKeeps ==
    ASSUME NoLonger, Typing, OneInv, FoundInv, NEW r \in Requests, Reads(r), Told(r) /\ Passed(r) /\ Backed(r)
    PROVE  Told(r)' /\ Passed(r)' /\ Backed(r)'
<1> USE DEF Local, PeerReaders, Headed, Reading
<1>1. /\ UNCHANGED server /\ UNCHANGED <<body, partial, stored, marker, phase, error>> /\ RequestTypes'
  BY ReadTyped DEF server, download, volume, Typing
<1>2. /\ pc[r] \in {"joining"} \cup Local \cup PeerReaders => att[r] \in Tokens
      /\ pc[r] \in Headed => promised[r] \in Nat
      /\ pc[r] \in Local => body[att[r]] \in Bodies
      /\ sent'[r] \in Nat /\ held'[r] \in Nat /\ sent[r] \in Nat /\ held[r] \in Nat
  BY <1>1 DEF Typing, PcInv, Opened, RequestTypes
<1>3. ASSUME NEW step \in Ended, Quit(r, step) PROVE Told(r)' /\ Passed(r)' /\ Backed(r)'
  <2>1. pc'[r] \notin Headed /\ promised'[r] = Unknown /\ sent'[r] = 0 /\ held'[r] = 0
    BY <1>3, QuitsTyped DEF Ended
  <2> QED
    BY <2>1, Fresh
<1>4. ASSUME pc[r] \notin Headed \cup Ended, pc'[r] \notin Headed,
             promised'[r] = promised[r], sent'[r] = sent[r], held'[r] = held[r]
      PROVE  Told(r)' /\ Passed(r)' /\ Backed(r)'
  <2>1. promised'[r] = Unknown /\ sent'[r] = 0 /\ held'[r] = 0
    BY <1>4 DEF Told, Passed
  <2> QED
    BY <1>4, <2>1, Fresh
<1>5. ASSUME NEW step \in Steps, Become(r, step) \/ \E t \in Tokens : Follow(r, step, t)
      PROVE  pc'[r] = step /\ promised'[r] = promised[r] /\ sent'[r] = sent[r] /\ held'[r] = held[r]
             /\ (Become(r, step) => att'[r] = att[r])
  BY <1>5, OneMoves DEF Become, Follow, Typing
<1>6. CASE Arrive(r)
  <2>1. PICK step \in {"served", "choose"} : pc[r] = "idle" /\ Become(r, step)
    BY <1>6 DEF Arrive
  <2> QED
    BY <1>4, <1>5, <2>1 DEF Steps, Ended
<1>7. CASE Join(r)
  <2>1. pc[r] = "choose" /\ home[r] \in Replicas
    BY <1>7 DEF Join, Typing, ServerTypes
  <2>2. \E step \in {"following", "joining"} : \E t \in Tokens : Follow(r, step, t)
    BY <1>7, <2>1 DEF Join, Typing, ServerTypes
  <2> QED
    BY <1>4, <1>5, <2>1, <2>2 DEF Steps, Ended
<1>8. CASE RecheckMissing(r) \/ Joined(r)
  <2>1. pc[r] \in {"recheck", "joining"} /\ \E step \in {"connect", "choose", "peer", "refresh", "following"} : Become(r, step)
    <3>1. pc[r] = "joining" => future[att[r]] \in {"pending", "error", "peer", "cached", "fill"}
      BY <1>2 DEF Typing, ServerTypes
    <3> QED
      BY <1>8, <3>1 DEF RecheckMissing, Joined
  <2> QED
    BY <1>4, <1>5, <2>1 DEF Steps, Ended
<1>9. CASE Followed(r)
  <2>1. CASE Quit(r, "error")
    BY <1>3, <2>1 DEF Ended
  <2>2. CASE Become(r, "refresh") /\ pc[r] = "following"
    BY <1>4, <1>5, <2>2 DEF Steps, Ended
  <2> QED
    BY <1>9, <2>1, <2>2 DEF Followed
<1>10. CASE WaitTimesOut(r) \/ Refresh(r) \/ Leave(r)
  <2>1. \E step \in Ended : Quit(r, step)
    BY <1>10 DEF WaitTimesOut, Refresh, Leave, Ended
  <2> QED
    BY <1>3, <2>1
<1>11. CASE WaitForPeer(r)
  <2>1. pc[r] = "peer" /\ UNCHANGED <<promised, sent, held>>
        /\ Goto(r, IF tries[r] + 1 < MaxTries THEN "choose" ELSE "refresh")
    BY <1>11 DEF WaitForPeer
  <2>2. pc'[r] \in {"choose", "refresh"}
    BY <2>1, OneMoves DEF Typing, Steps
  <2> QED
    BY <1>4, <2>1, <2>2 DEF Ended
<1>12. CASE StartTail(r)
  <2>1. pc[r] = "following" /\ Promise(r, "tail", Size(att[r])) /\ Size(att[r]) # Unknown
    BY <1>12 DEF StartTail
  <2>2. Size(att[r]) \in Nat /\ Size(att[r]) > 0 /\ Size(att[r])' = Size(att[r]) /\ tries[r] < MaxTries
    <3>1. Size(att[r])' = Size(att[r])
      BY <1>1, <2>1 DEF Size, Promise
    <3>2. tries[r] < MaxTries
      BY <2>1 DEF Typing, PcInv, Ended
    <3> QED
      BY <1>2, <2>1, <3>1, <3>2, FillAssumption DEF Size, NoLonger
  <2>3. pc'[r] = "tail" /\ promised'[r] = Size(att[r]) /\ UNCHANGED <<sent, held>>
    BY <1>2, <2>1, <2>2, PromisesTyped
  <2>4. sent'[r] = 0 /\ held'[r] = 0
    BY <2>1, <2>3 DEF Passed, Ended
  <2> QED
    BY <2>2, <2>3, <2>4 DEF Told, Passed, Backed, Delivered, Ended
<1>13. CASE StartTailPeer(r)
  <2>1. pc[r] = "peer" /\ Promise(r, "look", RowSize) /\ RowSize \in Nat /\ RowSize > 0 /\ tries[r] < MaxTries
    BY <1>13, FillAssumption DEF StartTailPeer, Typing, PcInv, Ended
  <2>2. pc'[r] = "look" /\ promised'[r] = RowSize /\ UNCHANGED <<sent, held>>
    BY <2>1, PromisesTyped
  <2>3. sent'[r] = 0 /\ held'[r] = 0
    BY <2>1, <2>2 DEF Passed, Ended
  <2> QED
    BY <2>1, <2>2, <2>3 DEF Told, Passed, Backed, Delivered, Ended
<1>14. CASE TailOpen(r) \/ TailEnd(r) \/ TailWake(r)
  <2>1. PICK step \in {"read", "finish", "wait"} : /\ Become(r, step) /\ pc[r] \in {"tail", "read", "wait"}
                                                   /\ pc[r] \in Reading => step \in Reading
    BY <1>14 DEF TailOpen, TailEnd, TailWake
  <2>2. pc'[r] = step /\ promised'[r] = promised[r] /\ sent'[r] = sent[r] /\ held'[r] = held[r] /\ att'[r] = att[r]
    BY <1>5, <2>1 DEF Steps
  <2>3. att[r] \in Tokens
    BY <1>2, <2>1
  <2> QED
    BY <1>1, <2>1, <2>2, <2>3, MovesOn
<1>15. CASE PeerOpen(r) \/ PeerEnd(r) \/ PeerAgain(r)
  <2>1. PICK step \in {"peerread", "peerblob", "peermark"} : /\ Become(r, step) /\ pc[r] \in {"peeropen", "peerread", "peermark"}
                                                             /\ pc[r] \in Reading => step \in Reading
    BY <1>15 DEF PeerOpen, PeerEnd, PeerAgain
  <2>2. pc'[r] = step /\ promised'[r] = promised[r] /\ sent'[r] = sent[r] /\ held'[r] = held[r] /\ att'[r] = att[r]
    BY <1>5, <2>1 DEF Steps
  <2>3. att[r] \in Tokens
    BY <1>2, <2>1
  <2> QED
    BY <1>1, <2>1, <2>2, <2>3, MovesOn
<1>16. CASE PeerPick(r)
  <2>1. pc[r] = "look" /\ \E t \in Tokens : Follow(r, "peeropen", t)
    BY <1>16 DEF PeerPick, PartialsFor, Typing, ServerTypes
  <2>2. pc'[r] = "peeropen" /\ promised'[r] = promised[r] /\ sent'[r] = sent[r] /\ held'[r] = held[r]
    BY <1>5, <2>1 DEF Steps
  <2> QED
    BY <1>1, <2>1, <2>2, MovesOn
<1>17. ASSUME Become(r, "cut"), pc[r] \in Headed PROVE Told(r)' /\ Passed(r)' /\ Backed(r)'
  <2>1. pc'[r] = "cut" /\ promised'[r] = promised[r] /\ sent'[r] = sent[r] /\ held'[r] = held[r]
    BY <1>5, <1>17 DEF Steps, Ended
  <2> QED
    BY <1>17, <2>1, Short, EndsWell DEF Ended
<1>18. ASSUME NEW t \in Tokens, FromBlob(r, t), pc[r] \in Headed \ Reading, body[t] \in stored
       PROVE  Told(r)' /\ Passed(r)' /\ Backed(r)'
  <2>1. promised[r] \in Nat /\ promised[r] > 0 /\ held[r] = 0
    BY <1>18, Short DEF Passed, Ended
  <2>2. /\ promised'[r] = promised[r] /\ held'[r] = 0 /\ att'[r] = t
        /\ \/ pc'[r] = "complete" /\ body[t].len = promised[r]
           \/ pc'[r] = "cut" /\ sent'[r] = 0
    BY <1>18, <2>1, BlobTyped
  <2> QED
    BY <1>1, <1>2, <1>18, <2>1, <2>2, EndsWell DEF Ended
<1>19. ASSUME pc[r] \in {"wait", "peermark"}, NEW ok \in BOOLEAN, LastReads(r, ok), partial[att[r]] <= promised[r],
              ok => Verified(att[r])
       PROVE  Told(r)' /\ Passed(r)' /\ Backed(r)'
  <2>1. /\ promised[r] \in Nat /\ promised[r] > 0 /\ sent[r] - held[r] < promised[r] /\ (held[r] = 0 => sent[r] = 0)
    BY <1>19, Short
  <2>2. att[r] \in Tokens /\ partial[att[r]] \in Nat /\ sent[r] <= partial[att[r]]
    BY <1>2, <1>19 DEF Typing, ServerTypes, Passed
  <2>3. /\ UNCHANGED <<att, promised>> /\ sent'[r] = partial[att[r]]
        /\ \/ pc'[r] = "complete" /\ ok /\ partial[att[r]] = promised[r]
           \/ /\ pc'[r] = "cut"
              /\ partial[att[r]] > sent[r] => held'[r] > 0
              /\ partial[att[r]] <= sent[r] => held'[r] = held[r]
    BY <1>19, LastTyped
  <2>4. CASE pc'[r] = "complete" /\ ok /\ partial[att[r]] = promised[r]
    BY <1>1, <1>2, <1>19, <2>1, <2>2, <2>3, <2>4, EndsWell DEF Ended, Verified
  <2>5. CASE /\ pc'[r] = "cut"
             /\ partial[att[r]] > sent[r] => held'[r] > 0
             /\ partial[att[r]] <= sent[r] => held'[r] = held[r]
    <3>1. sent'[r] - held'[r] < promised'[r]
      BY <1>2, <1>19, <2>1, <2>2, <2>3, <2>5
    <3> QED
      BY <1>2, <2>1, <2>3, <2>5, <3>1, EndsWell DEF Ended
  <2> QED
    BY <2>3, <2>4, <2>5
<1>20. CASE TailFinished(r)
  <2>1. pc[r] = "finish" /\ Done(att[r])
    BY <1>20 DEF TailFinished
  <2>2. CASE att[r] \in error
    BY <1>17, <1>20, <2>1, <2>2 DEF TailFinished
  <2>3. CASE att[r] \notin error
    <3>1. body[att[r]] \in stored
      BY <2>1, <2>3 DEF FoundInv, Followers, Verified
    <3> QED
      BY <1>2, <1>18, <1>20, <2>1, <2>3, <3>1 DEF TailFinished
  <2> QED
    BY <2>2, <2>3
<1>21. CASE TailDone(r)
  <2>1. pc[r] = "wait" /\ Done(att[r]) /\ LastReads(r, att[r] \notin error)
    BY <1>21 DEF TailDone
  <2>2. att[r] \notin error => Verified(att[r])
    BY <2>1 DEF FoundInv, Followers
  <2>3. partial[att[r]] <= promised[r]
    <3>1. promised[r] = Size(att[r]) /\ promised[r] \in Nat /\ body[att[r]] \in Bodies /\ att[r] \in Tokens
      BY <1>2, <2>1 DEF Told
    <3>2. partial[att[r]] <= body[att[r]].len /\ partial[att[r]] \in Nat
      BY <3>1 DEF FoundInv, Sound, Typing, ServerTypes
    <3>3. body[att[r]].len \in Nat /\ body[att[r]].len <= promised[r]
      BY <3>1, FillAssumption DEF NoLonger, Size, Unknown
    <3> QED
      BY <3>1, <3>2, <3>3
  <2> QED
    BY <1>19, <2>1, <2>2, <2>3
<1>22. CASE PeerOutcome(r)
  <2>1. pc[r] \in {"peermark", "peerblob"} /\ marker[att[r]] \in {"ok", "failed"} /\ att[r] \in Tokens
    BY <1>2, <1>22 DEF PeerOutcome, Typing, ServerTypes
  <2>2. CASE marker[att[r]] = "failed"
    <3>1. Become(r, "cut")
      BY <1>22, <2>2 DEF PeerOutcome
    <3> QED
      BY <1>17, <2>1, <3>1
  <2>3. CASE marker[att[r]] = "ok"
    <3>1. Verified(att[r])
      BY <2>1, <2>3 DEF FoundInv, Sound
    <3>2. CASE pc[r] = "peermark"
      <4>1. LastReads(r, TRUE)
        BY <1>22, <2>3, <3>2 DEF PeerOutcome
      <4>2. promised[r] = RowSize /\ promised[r] \in Nat /\ promised[r] > 0
        BY <1>2, <3>2 DEF Told
      <4>3. body[att[r]] \in Bodies /\ body[att[r]].good /\ partial[att[r]] = body[att[r]].len
        BY <3>1 DEF Verified, Typing, ServerTypes
      <4>4. body[att[r]].len <= RowSize
        BY <4>2, <4>3 DEF NoLonger, Unknown
      <4> QED
        BY <1>19, <3>1, <3>2, <4>1, <4>2, <4>3, <4>4
    <3>3. CASE pc[r] = "peerblob"
      <4>1. FromBlob(r, att[r])
        BY <1>22, <2>3, <3>3 DEF PeerOutcome
      <4> QED
        BY <1>18, <2>1, <3>1, <3>3, <4>1 DEF Verified
    <3> QED
      BY <2>1, <3>2, <3>3
  <2> QED
    BY <2>1, <2>2, <2>3
<1>23. CASE PeerFinished(r)
  BY <1>18, <1>23 DEF PeerFinished, FinishedFor
<1>24. CASE PeerNotStarted(r) \/ PeerStall(r)
  BY <1>17, <1>24 DEF PeerNotStarted, PeerStall
<1>25. CASE TailRead(r) \/ PeerRead(r)
  <2>1. PICK step \in {"read", "peerread"} : pc[r] = step /\ ReadChunk(r, step)
    BY <1>25 DEF TailRead, PeerRead
  <2>2. /\ UNCHANGED <<att, promised>>
        /\ \/ pc'[r] = "cut" /\ sent'[r] = sent[r] /\ held'[r] = held[r]
           \/ /\ pc'[r] = step
              /\ sent'[r] <= promised[r] /\ sent'[r] <= partial[att[r]] /\ 0 < held'[r]
    BY <2>1, ChunkTyped
  <2>3. CASE pc'[r] = "cut" /\ sent'[r] = sent[r] /\ held'[r] = held[r]
    BY <2>1, <2>2, <2>3, Short, EndsWell DEF Ended
  <2>4. CASE /\ pc'[r] = step
             /\ sent'[r] <= promised[r] /\ sent'[r] <= partial[att[r]] /\ 0 < held'[r]
    <3>1. Told(r)'
      BY <1>1, <2>1, <2>2, <2>4 DEF Told, Size, Ended
    <3>2. Passed(r)'
      BY <1>1, <1>2, <2>1, <2>2, <2>4 DEF Passed, Ended
    <3>3. sent'[r] - held'[r] < promised'[r]
      BY <1>2, <2>1, <2>2, <2>4
    <3>4. Backed(r)'
      BY <1>2, <2>1, <2>2, <3>3 DEF Backed, Delivered
    <3> QED
      BY <3>1, <3>2, <3>4
  <2> QED
    BY <2>2, <2>3, <2>4
<1> QED
  BY <1>6, <1>7, <1>8, <1>9, <1>10, <1>11, <1>12, <1>13, <1>14, <1>15, <1>16, <1>20, <1>21, <1>22, <1>23, <1>24, <1>25
     DEF Reads

\* Every step keeps every reader's promise.
LEMMA StepRead == NoLonger /\ Typing /\ OneInv /\ FoundInv /\ ReadInv /\ [Next]_vars => ReadInv'
<1> SUFFICES ASSUME NoLonger, Typing, OneInv, FoundInv, ReadInv, [Next]_vars PROVE ReadInv'
  OBVIOUS
<1>1. CASE UNCHANGED vars
  BY <1>1 DEF ReadInv, Told, Passed, Backed, Delivered, Size, vars, server, download, volume, request
<1>2. CASE Next
  <2>1. ASSUME NEW r \in Requests, pc'[r] = pc[r], att'[r] = att[r], promised'[r] = promised[r], sent'[r] = sent[r],
               held'[r] = held[r]
        PROVE  Told(r)' /\ Passed(r)' /\ Backed(r)'
    BY <1>2, <2>1, Unmoved DEF ReadInv, FoundInv
  <2>2. ASSUME NEW r \in Requests, Others(r), Told(r)' /\ Passed(r)' /\ Backed(r)' PROVE ReadInv'
    BY <2>1, <2>2 DEF Others, ReadInv
  <2>3. ASSUME NEW r \in Requests, Reads(r) PROVE ReadInv'
    BY <2>2, <2>3, ReadTyped, ReaderKeeps DEF ReadInv
  <2>4. ASSUME NEW r \in Requests,
               StartOpening(r) \/ Acquire(r) \/ AcquireRefused(r) \/ RecheckCached(r) \/ OpenUpstream(r)
        PROVE  ReadInv'
    <3>1. pc[r] \in {"choose"} \cup Openers
      BY <2>4 DEF StartOpening, Acquire, AcquireRefused, RecheckCached, OpenUpstream, Openers
    <3>2. /\ \E step \in {"asking", "recheck", "peer", "refresh", "following"} : Goto(r, step)
          /\ UNCHANGED <<promised, sent, held>>
      BY <2>4 DEF StartOpening, Claim, Acquire, AcquireRefused, RecheckCached, OpenUpstream, Follow, Become
    <3>3. pc'[r] \in {"asking", "recheck", "peer", "refresh", "following"}
      <4>1. RequestTypes /\ {"asking", "recheck", "peer", "refresh", "following"} \subseteq Steps
        BY DEF Typing, Steps
      <4> QED
        BY <3>2, <4>1, OneMoves
    <3>4. promised'[r] = Unknown /\ sent'[r] = 0 /\ held'[r] = 0
      BY <3>1, <3>2 DEF ReadInv, Told, Passed, Openers, Headed, PeerReaders, Reading, Ended
    <3>5. Told(r)' /\ Passed(r)' /\ Backed(r)'
      BY <3>3, <3>4, Fresh DEF Headed, PeerReaders
    <3> QED
      BY <2>2, <2>4, <3>5, OpeningTyped
  <2>5. ASSUME NEW r \in Requests, OpenFails(r) \/ CancelAsking(r) PROVE ReadInv'
    <3>1. \E step \in Ended : Quit(r, step)
      BY <2>5 DEF OpenFails, CancelAsking, Ended
    <3>2. pc'[r] \notin Headed /\ promised'[r] = Unknown /\ sent'[r] = 0 /\ held'[r] = 0
      BY <3>1, QuitsTyped DEF Ended, Headed, PeerReaders
    <3> QED
      BY <2>2, <2>5, <3>2, Fresh, OpeningTyped
  <2>6. CASE (\E t \in Tokens : RunFill(t) \/ CleanupTmp(t)) \/ Lapse
    BY <2>1, <2>6, FillPhases DEF ReadInv
  <2>7. ASSUME NEW p \in Replicas, Crash(p) PROVE ReadInv'
    <3>1. \A r \in Requests :
            \/ /\ pc'[r] = pc[r] /\ att'[r] = att[r] /\ promised'[r] = promised[r]
               /\ sent'[r] = sent[r] /\ held'[r] = held[r]
            \/ /\ pc'[r] = "gone" /\ promised'[r] = Unknown /\ sent'[r] = 0 /\ held'[r] = 0
      BY <2>7, CrashTyped
    <3>2. "gone" \notin Headed
      BY DEF Headed, PeerReaders
    <3> QED
      BY <2>1, <3>1, <3>2, Fresh DEF ReadInv
  <2> QED
    BY <1>2, <2>3, <2>4, <2>5, <2>6, <2>7, Kinds
<1> QED
  BY <1>1, <1>2

\* A client that has as many bytes as its response promised has a verified
\* artifact, whole: the last chunk waits for the verification (_tail and
\* _tail_peer), whatever fails, crashes or is cleaned up meanwhile.
THEOREM Whole == ASSUME NoLonger PROVE Spec => []NoUnverifiedBody
<1>1. ReadInv => NoUnverifiedBody
  BY DEF ReadInv, Backed, NoUnverifiedBody
<1>2. Typing /\ OneInv /\ FoundInv /\ ReadInv /\ [Next]_vars => ReadInv'
  BY StepRead
<1> QED
  BY InitTyped, StepTyped, InitOne, StepOne, InitFound, StepFound, InitRead, <1>1, <1>2, PTL DEF Spec

=============================================================================
