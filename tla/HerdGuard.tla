----------------------------- MODULE HerdGuard -----------------------------
(***************************************************************************)
(* herd_guard of core/cache.py: concurrent cold work for one key collapses *)
(* into one run at a time.  A process-local asyncio.Lock, found in a map   *)
(* of reference-counted entries, comes first; a lock in the shared cache,  *)
(* with a token and a time to live, keeps the replicas apart as far as it  *)
(* can.  The circuit breaker makes an unreachable cache answer nothing.    *)
(***************************************************************************)
EXTENDS Integers, Sequences, SequencesExt, FiniteSets

CONSTANTS
    Guards,         \* the uses of herd_guard for one key; each may come again
    Procs,          \* the processes (replicas)
    Home,           \* the process each guard runs in
    None,
    CancelInAwait   \* may a request be cancelled while it reconnects to the
                    \* cache or while it gives the cache's lock back?

ASSUME HomeAssumption ==
    /\ Home \in [Guards -> Procs] /\ IsFiniteSet(Guards)
    /\ None \notin Guards /\ None \notin Nat

VARIABLES
    pc,       \* where each guard is
    localMap, \* _local_locks: each process's entry for the key, or None
    users,    \* entry[1]: the guards holding or queued on the entry
    holder,   \* entry[0]: the guard that has the asyncio.Lock, or None
    waiters,  \* entry[0]._waiters
    entryOf,  \* self._entry
    heldRemote, \* self._held_remote
    remote,   \* the guard whose token the cache's lock key holds, or None
    lapsed,   \* guards whose lock the cache dropped while they relied on it
    up,       \* does the cache answer?
    client,   \* _redis: was the process ever connected?
    open      \* the process's breaker

vars == <<pc, localMap, users, holder, waiters, entryOf, heldRemote, remote,
          lapsed, up, client, open>>
localVars == <<localMap, users, holder, waiters, entryOf>>
remoteVars == <<heldRemote, remote, lapsed>>
netVars == <<up, client, open>>

Entries == 1..Cardinality(Guards)

TypeOK ==
    /\ pc \in [Guards -> {"idle", "queued", "linking", "asking", "body", "releasing", "lost"}]
    /\ localMap \in [Procs -> Entries \cup {None}]
    /\ users \in [Entries -> 0..Cardinality(Guards)]
    /\ holder \in [Entries -> Guards \cup {None}]
    /\ \A n \in Entries : waiters[n] \in Seq(Guards)
    /\ entryOf \in [Guards -> Entries \cup {None}]
    /\ heldRemote \subseteq Guards /\ lapsed \subseteq heldRemote
    /\ remote \in Guards \cup {None}
    /\ up \in BOOLEAN /\ client \in [Procs -> BOOLEAN] /\ open \in [Procs -> BOOLEAN]

\* A process starts with or without a connection (init_redis at boot).
Init ==
    /\ pc = [g \in Guards |-> "idle"]
    /\ localMap = [p \in Procs |-> None]
    /\ users = [n \in Entries |-> 0]
    /\ holder = [n \in Entries |-> None]
    /\ waiters = [n \in Entries |-> <<>>]
    /\ entryOf = [g \in Guards |-> None]
    /\ heldRemote = {} /\ lapsed = {} /\ remote = None
    /\ up \in BOOLEAN
    /\ client = [p \in Procs |-> up]
    /\ open = [p \in Procs |-> ~up]

------------------------------------------------------------------------------
(* The entry: looked up or made on entry, dropped when its last user goes. *)

FreshEntry == CHOOSE n \in Entries : /\ \A p \in Procs : localMap[p] # n
                                     /\ \A g \in Guards : entryOf[g] # n

EnterLocal(g) == IF localMap[Home[g]] # None THEN localMap[Home[g]] ELSE FreshEntry

\* Mutant: the entry is dropped as soon as its lock is free, which it is
\* between a release and the woken waiter taking it.
LeaveUnlocked(g, n, lockHolder) ==
    /\ users' = [users EXCEPT ![n] = @ - 1]
    /\ localMap' = [localMap EXCEPT ![Home[g]] = IF lockHolder = None /\ @ = n THEN None ELSE @]
    /\ entryOf' = [entryOf EXCEPT ![g] = None]

\* Mutant: a guard that leaves a second time is counted out a second time.
LeaveTwice(g, n, lockHolder) ==
    /\ users' = [users EXCEPT ![n] = @ - 2]
    /\ localMap' = [localMap EXCEPT ![Home[g]] = IF users[n] = 1 /\ @ = n THEN None ELSE @]
    /\ entryOf' = [entryOf EXCEPT ![g] = None]

LeaveLocal(g, n, lockHolder) ==
    /\ users' = [users EXCEPT ![n] = @ - 1]
    /\ localMap' = [localMap EXCEPT ![Home[g]] = IF users[n] = 1 /\ @ = n THEN None ELSE @]
    /\ entryOf' = [entryOf EXCEPT ![g] = None]

\* ensure_redis, as the guard that has just got the local lock meets it: the
\* breaker is open, or there is a client, or one has to be connected first.
AfterLock(g) == IF open[Home[g]] THEN "body" ELSE IF client[Home[g]] THEN "asking" ELSE "linking"

\* asyncio.Lock.acquire: taken at once when it is free and nobody waits.
Enter(g) ==
    /\ pc[g] = "idle"
    /\ LET n == EnterLocal(g)
           free == holder[n] = None /\ waiters[n] = <<>>
       IN /\ localMap' = [localMap EXCEPT ![Home[g]] = n]
          /\ users' = [users EXCEPT ![n] = IF localMap[Home[g]] = None THEN 1 ELSE @ + 1]
          /\ entryOf' = [entryOf EXCEPT ![g] = n]
          /\ holder' = IF free THEN [holder EXCEPT ![n] = g] ELSE holder
          /\ waiters' = IF free THEN waiters ELSE [waiters EXCEPT ![n] = Append(@, g)]
          /\ pc' = [pc EXCEPT ![g] = IF free THEN AfterLock(g) ELSE "queued"]
    /\ UNCHANGED <<remoteVars, netVars>>

\* The waiter a release woke runs again and takes the lock.
Wake(g) ==
    /\ pc[g] = "queued"
    /\ LET n == entryOf[g] IN
        /\ holder[n] = None /\ Head(waiters[n]) = g
        /\ holder' = [holder EXCEPT ![n] = g]
        /\ waiters' = [waiters EXCEPT ![n] = Tail(@)]
    /\ pc' = [pc EXCEPT ![g] = AfterLock(g)]
    /\ UNCHANGED <<localMap, users, entryOf, remoteVars, netVars>>

\* init_redis: a connection, or the breaker opens and the guard goes without.
Link(g) ==
    /\ pc[g] = "linking"
    /\ client' = [client EXCEPT ![Home[g]] = up]
    /\ open' = [open EXCEPT ![Home[g]] = ~up]
    /\ pc' = [pc EXCEPT ![g] = IF up THEN "asking" ELSE "body"]
    /\ UNCHANGED <<localVars, remoteVars, up>>

\* SET NX EX: the lock is ours, or it is another's and is asked for again
\* until the attempts run out, or the cache fails and the breaker opens.
Ask(g) ==
    /\ pc[g] = "asking"
    /\ IF up /\ remote = None
       THEN remote' = g /\ heldRemote' = heldRemote \cup {g}
       ELSE UNCHANGED <<remote, heldRemote>>
    /\ open' = IF up THEN open ELSE [open EXCEPT ![Home[g]] = TRUE]
    /\ pc' = [pc EXCEPT ![g] = "body"]
    /\ UNCHANGED <<localVars, lapsed, up, client>>

------------------------------------------------------------------------------
(* Leaving.                                                                *)

ReleaseLocal(g) ==
    LET n == entryOf[g] IN
    /\ holder' = [holder EXCEPT ![n] = None]
    /\ LeaveLocal(g, n, None)
    /\ UNCHANGED waiters

\* The body ends, in a result or an exception; a lock of the cache's is given
\* back only while redis_client answers, else it is left to its time to live.
Finish(g) ==
    /\ pc[g] = "body"
    /\ heldRemote' = heldRemote \ {g} /\ lapsed' = lapsed \ {g}
    /\ IF g \in heldRemote /\ client[Home[g]] /\ ~open[Home[g]]
       THEN pc' = [pc EXCEPT ![g] = "releasing"] /\ UNCHANGED localVars
       ELSE pc' = [pc EXCEPT ![g] = "idle"] /\ ReleaseLocal(g)
    /\ UNCHANGED <<remote, netVars>>

\* Mutant: the lock is deleted by its key, whoever's it is by now.
DeletedByKey(g) == None

\* _RELEASE_SCRIPT: deleted only if the token is still ours.
Deleted(g) == IF remote = g THEN None ELSE remote

Release(g) ==
    /\ pc[g] = "releasing"
    /\ remote' = IF up THEN Deleted(g) ELSE remote
    /\ pc' = [pc EXCEPT ![g] = "idle"]
    /\ ReleaseLocal(g)
    /\ UNCHANGED <<heldRemote, lapsed, netVars>>

\* Mutant: a cancelled waiter stays counted in its entry.
CancelCounted(g) ==
    /\ pc[g] = "queued"
    /\ waiters' = [waiters EXCEPT ![entryOf[g]] = RemoveFirst(@, g)]
    /\ entryOf' = [entryOf EXCEPT ![g] = None]
    /\ pc' = [pc EXCEPT ![g] = "idle"]
    /\ UNCHANGED <<holder, localMap, users, remoteVars, netVars>>

\* A request is cancelled in the line: acquire gives its place up.
CancelQueued(g) ==
    /\ pc[g] = "queued"
    /\ LET n == entryOf[g] IN
        /\ waiters' = [waiters EXCEPT ![n] = RemoveFirst(@, g)]
        /\ LeaveLocal(g, n, holder[n])
    /\ pc' = [pc EXCEPT ![g] = "idle"]
    /\ UNCHANGED <<holder, remoteVars, netVars>>

\* A request is cancelled while it talks to the cache.  While it asks for the
\* lock, __aexit__ gives the local one back; the command in flight may have
\* been carried out, and then its token stays until it lapses.  The two other
\* awaits, the reconnect of __aenter__ and the release script of __aexit__,
\* have no handler: the local lock and the entry's count stay taken.
CancelAwait(g) ==
    /\ pc[g] = "asking" \/ (CancelInAwait /\ pc[g] \in {"linking", "releasing"})
    /\ IF pc[g] = "asking"
       THEN /\ remote' \in {remote} \cup (IF up /\ remote = None THEN {g} ELSE {})
            /\ ReleaseLocal(g)
            /\ pc' = [pc EXCEPT ![g] = "idle"]
       ELSE /\ pc' = [pc EXCEPT ![g] = "lost"]
            /\ UNCHANGED <<localVars, remote>>
    /\ UNCHANGED <<heldRemote, lapsed, netVars>>

------------------------------------------------------------------------------
(* The cache.                                                              *)

\* The key's time to live ends.
Lapse ==
    /\ up /\ remote # None
    /\ remote' = None
    /\ lapsed' = lapsed \cup ({remote} \cap heldRemote)
    /\ UNCHANGED <<pc, localVars, heldRemote, netVars>>

\* The cache goes away, and comes back without its keys.
CacheFails == up /\ up' = FALSE /\ UNCHANGED <<pc, localVars, remoteVars, client, open>>
CacheReturns ==
    /\ ~up /\ up' = TRUE
    /\ remote' = None
    /\ lapsed' = lapsed \cup ({remote} \cap heldRemote)
    /\ UNCHANGED <<pc, localVars, heldRemote, client, open>>

\* _down_until passes: the next call tries the server again.
BreakerLapses(p) ==
    /\ open[p]
    /\ open' = [open EXCEPT ![p] = FALSE]
    /\ UNCHANGED <<pc, localVars, remoteVars, up, client>>

\* Another command of the process fails and trips the breaker.
Trip(p) ==
    /\ ~up /\ client[p] /\ ~open[p]
    /\ open' = [open EXCEPT ![p] = TRUE]
    /\ UNCHANGED <<pc, localVars, remoteVars, up, client>>

Cancel(g) == CancelQueued(g) \/ CancelAwait(g)
Step(g) == Enter(g) \/ Wake(g) \/ Link(g) \/ Ask(g) \/ Finish(g) \/ Release(g)

Next == \/ \E g \in Guards : Step(g) \/ Cancel(g)
        \/ \E p \in Procs : BreakerLapses(p) \/ Trip(p)
        \/ Lapse \/ CacheFails \/ CacheReturns

\* The event loop runs what is ready, commands answer or time out, and a body
\* is an upstream fetch with timeouts.  Nobody has to come.
Fairness == \A g \in Guards : /\ WF_vars(Wake(g)) /\ WF_vars(Link(g)) /\ WF_vars(Ask(g))
                              /\ WF_vars(Finish(g)) /\ WF_vars(Release(g))

Spec == Init /\ [][Next]_vars /\ Fairness

------------------------------------------------------------------------------
(* Properties.                                                             *)

\* The lock map with its dropped and remade entries, the woken waiter's gap
\* and the cancellations implement one line per process: first come, first
\* served, one body at a time, nobody forgotten (herd_guard's _enter_local,
\* _leave_local, __aenter__ and __aexit__).
LineOf(p) ==
    IF localMap[p] = None THEN <<>>
    ELSE (IF holder[localMap[p]] = None THEN <<>> ELSE <<holder[localMap[p]]>>)
         \o waiters[localMap[p]]

Queue == INSTANCE HerdQueue WITH line <- [p \in Procs |-> LineOf(p)],
                                 working <- {g \in Guards : pc[g] \in {"body", "releasing"}}

OneLine == Queue!Spec

\* Across replicas: of the guards that hold the cache's lock and have not
\* outrun its time to live, only one works.  A release deletes no lock but
\* the guard's own (_RELEASE_SCRIPT).
OneAcrossReplicas == Cardinality(heldRemote \ lapsed) <= 1

\* The map is no leak: with no guard of a process at work or in line, the
\* process keeps no entry for the key (_leave_local).
NoIdleEntry ==
    \A p \in Procs : (\A g \in Guards : Home[g] = p => pc[g] = "idle") => localMap[p] = None

\* A request that waits gets its turn, whatever others do: the guard proceeds
\* "rather than hang" (__aenter__).
WaiterEnters == \A g \in Guards : pc[g] = "queued" ~> pc[g] # "queued"
=============================================================================
