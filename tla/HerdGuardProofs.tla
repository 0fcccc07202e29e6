-------------------------- MODULE HerdGuardProofs --------------------------
(***************************************************************************)
(* What HerdGuard guarantees for any number of guards and processes: the   *)
(* cache's lock keeps the replicas apart, and the lock map implements the  *)
(* line of HerdQueue.                                                       *)
(***************************************************************************)
EXTENDS HerdGuard, FiniteSetTheorems, SequenceTheorems, TLAPS

Places == {"idle", "queued", "linking", "asking", "body", "releasing", "lost"}

----------------------------------------------------------------------------
(* The cache's lock.                                                       *)

\* A guard relies on the cache's lock in its body only, and while the lock
\* has not lapsed the key holds that guard's token.
RemoteInv ==
    /\ pc \in [Guards -> Places] /\ heldRemote \subseteq Guards /\ lapsed \subseteq heldRemote
    /\ remote \in Guards \cup {None}
    /\ up \in BOOLEAN /\ client \in [Procs -> BOOLEAN] /\ open \in [Procs -> BOOLEAN]
    /\ \A g \in heldRemote : pc[g] = "body"
    /\ heldRemote \ lapsed \subseteq {remote}

\* A guard that holds the Redis lock, its lease running, is the one the key names.
LEMMA RemoteInductive == Init /\ [][Next]_vars => []RemoteInv
<1>1. Init => RemoteInv
  BY DEF Init, RemoteInv, Places
<1>2. RemoteInv /\ [Next]_vars => RemoteInv'
  <2> SUFFICES ASSUME RemoteInv, [Next]_vars PROVE RemoteInv'
    OBVIOUS
  <2> USE HomeAssumption DEF RemoteInv, Places, AfterLock, remoteVars, netVars
  <2>1. ASSUME NEW g \in Guards, Enter(g) PROVE RemoteInv'
    BY <2>1 DEF Enter
  <2>2. ASSUME NEW g \in Guards, Wake(g) PROVE RemoteInv'
    BY <2>2 DEF Wake
  <2>3. ASSUME NEW g \in Guards, Link(g) PROVE RemoteInv'
    BY <2>3 DEF Link
  <2>4. ASSUME NEW g \in Guards, Ask(g) PROVE RemoteInv'
    <3>1. CASE up /\ remote = None
      BY <2>4, <3>1 DEF Ask
    <3>2. CASE ~(up /\ remote = None)
      BY <2>4, <3>2 DEF Ask
    <3> QED
      BY <3>1, <3>2
  <2>5. ASSUME NEW g \in Guards, Finish(g) PROVE RemoteInv'
    BY <2>5 DEF Finish
  <2>6. ASSUME NEW g \in Guards, Release(g) PROVE RemoteInv'
    BY <2>6 DEF Release, Deleted
  <2>7. ASSUME NEW g \in Guards, Cancel(g) PROVE RemoteInv'
    <3>1. CASE CancelQueued(g)
      BY <3>1 DEF CancelQueued
    <3>2. CASE CancelAwait(g)
      <4>1. heldRemote' = heldRemote /\ lapsed' = lapsed /\ g \notin heldRemote
        BY <3>2 DEF CancelAwait
      <4>2. pc' \in [Guards -> Places] /\ \A h \in Guards : h # g => pc'[h] = pc[h]
        BY <3>2 DEF CancelAwait
      <4>3. remote' = remote \/ (remote = None /\ remote' = g)
        BY <3>2 DEF CancelAwait
      <4>4. UNCHANGED <<up, client, open>>
        BY <3>2 DEF CancelAwait
      <4> QED
        BY <4>1, <4>2, <4>3, <4>4
    <3> QED
      BY <2>7, <3>1, <3>2 DEF Cancel
  <2>8. ASSUME NEW p \in Procs, BreakerLapses(p) \/ Trip(p) PROVE RemoteInv'
    BY <2>8 DEF BreakerLapses, Trip
  <2>9. CASE Lapse \/ CacheFails \/ CacheReturns
    BY <2>9 DEF Lapse, CacheFails, CacheReturns
  <2>10. CASE UNCHANGED vars
    BY <2>10 DEF vars
  <2> QED
    BY <2>1, <2>2, <2>3, <2>4, <2>5, <2>6, <2>7, <2>8, <2>9, <2>10 DEF Next, Step
<1> QED
  BY <1>1, <1>2, PTL

\* Of the guards whose lock in the cache still counts, at most one works, over
\* every outage, lapse and cancellation (_RELEASE_SCRIPT).
THEOREM ReplicasApart == Spec => []OneAcrossReplicas
<1>1. RemoteInv => OneAcrossReplicas
  <2> SUFFICES ASSUME RemoteInv PROVE Cardinality(heldRemote \ lapsed) <= 1
    BY DEF OneAcrossReplicas
  <2>1. IsFiniteSet({remote}) /\ Cardinality({remote}) = 1
    BY FS_Singleton
  <2> QED
    BY <2>1, FS_Subset DEF RemoteInv
<1> QED
  BY <1>1, RemoteInductive, PTL DEF Spec

----------------------------------------------------------------------------
(* Sequences without repetition: a line, and taking somebody out of it.    *)

Distinct(s) == \A i, j \in 1..Len(s) : s[i] = s[j] => i = j

\* asyncio's waiter takes itself out of the deque by value; nobody is in it
\* twice, so that is the removal of its place.
LEMMA RemovedPlace ==
    ASSUME NEW S, NEW s \in Seq(S), Distinct(s), NEW i \in 1..Len(s)
    PROVE  LET r == RemoveFirst(s, s[i])
           IN /\ r \in Seq(S) /\ Len(r) = Len(s) - 1
              /\ \A k \in 1..Len(r) : r[k] = IF k < i THEN s[k] ELSE s[k + 1]
<1>1. {k \in 1..Len(s) : s[k] = s[i]} = {i}
  BY DEF Distinct
<1>2. Min({i}) = i
  BY DEF Min
<1>3. RemoveFirst(s, s[i]) = SubSeq(s, 1, i - 1) \o SubSeq(s, i + 1, Len(s))
  BY <1>1, <1>2 DEF RemoveFirst, SelectInSeq, RemoveAt
<1> DEFINE before == SubSeq(s, 1, i - 1)
           after == SubSeq(s, i + 1, Len(s))
<1>4. /\ before \in Seq(S) /\ Len(before) = i - 1
      /\ \A k \in 1..(i - 1) : before[k] = s[k]
  OBVIOUS
<1>5. /\ after \in Seq(S) /\ Len(after) = Len(s) - i
      /\ \A k \in 1..(Len(s) - i) : after[k] = s[i + k]
  OBVIOUS
<1> HIDE DEF before, after
<1>6. before \o after \in Seq(S) /\ Len(before \o after) = Len(s) - 1
  BY <1>4, <1>5
<1>7. \A k \in 1..(Len(s) - 1) : (before \o after)[k] = IF k < i THEN s[k] ELSE s[k + 1]
  BY <1>4, <1>5
<1> QED
  BY <1>3, <1>6, <1>7 DEF before, after

\* The first of a line leaves: the rest is left.
LEMMA RemovedFirst ==
    ASSUME NEW S, NEW h \in S, NEW w \in Seq(S), Distinct(<<h>> \o w)
    PROVE  RemoveFirst(<<h>> \o w, h) = w
<1> DEFINE s == <<h>> \o w
<1>1. s \in Seq(S) /\ Len(s) = Len(w) + 1 /\ s[1] = h /\ \A k \in 1..Len(w) : s[k + 1] = w[k]
  OBVIOUS
<1> HIDE DEF s
<1>2. LET r == RemoveFirst(s, s[1])
      IN r \in Seq(S) /\ Len(r) = Len(s) - 1 /\ \A k \in 1..Len(r) : r[k] = IF k < 1 THEN s[k] ELSE s[k + 1]
  <2>1. 1 \in 1..Len(s) /\ Distinct(s)
    BY <1>1 DEF s
  <2> QED
    BY <1>1, <2>1, RemovedPlace
<1>3. LET r == RemoveFirst(s, h) IN r \in Seq(S) /\ Len(r) = Len(w) /\ \A k \in 1..Len(r) : r[k] = w[k]
  BY <1>1, <1>2
<1> QED
  BY <1>3 DEF s

Ahead(h, w) == <<h>> \o w

\* Somebody behind the first leaves.
LEMMA RemovedBehind ==
    ASSUME NEW S, NEW h \in S, NEW w \in Seq(S), Distinct(Ahead(h, w)), NEW i \in 1..Len(w)
    PROVE  RemoveFirst(Ahead(h, w), w[i]) = Ahead(h, RemoveFirst(w, w[i]))
<1> USE DEF Ahead
<1> DEFINE s == <<h>> \o w
           r == RemoveFirst(w, w[i])
           q == RemoveFirst(s, s[i + 1])
           t == <<h>> \o r
<1>1. s \in Seq(S) /\ Len(s) = Len(w) + 1 /\ s[1] = h /\ \A k \in 1..Len(w) : s[k + 1] = w[k]
  OBVIOUS
<1>2. Distinct(w)
  <2> SUFFICES ASSUME NEW a \in 1..Len(w), NEW b \in 1..Len(w), w[a] = w[b] PROVE a = b
    BY DEF Distinct
  <2>1. a + 1 \in 1..Len(s) /\ b + 1 \in 1..Len(s) /\ s[a + 1] = s[b + 1]
    BY <1>1
  <2>2. Distinct(s)
    OBVIOUS
  <2> HIDE DEF s
  <2> QED
    BY <2>1, <2>2 DEF Distinct
<1>3. r \in Seq(S) /\ Len(r) = Len(w) - 1 /\ \A k \in 1..Len(r) : r[k] = IF k < i THEN w[k] ELSE w[k + 1]
  BY <1>2, RemovedPlace
<1> HIDE DEF s, r, t
<1>4. q \in Seq(S) /\ Len(q) = Len(s) - 1 /\ \A k \in 1..Len(q) : q[k] = IF k < i + 1 THEN s[k] ELSE s[k + 1]
  <2>1. i + 1 \in 1..Len(s) /\ Distinct(s)
    BY <1>1 DEF s
  <2> HIDE DEF q
  <2> QED
    BY <1>1, <2>1, RemovedPlace DEF q
<1> HIDE DEF q
<1>5. t \in Seq(S) /\ Len(t) = Len(w) /\ (t)[1] = h
      /\ \A k \in 1..Len(r) : (t)[k + 1] = r[k]
  BY <1>3 DEF t
<1>6. ASSUME NEW k \in 1..Len(w) PROVE q[k] = (t)[k]
  <2>1. CASE k = 1
    BY <1>1, <1>4, <1>5, <2>1
  <2>2. CASE k > 1
    <3>1. k - 1 \in 1..Len(r) /\ k - 1 \in 1..Len(w) /\ k = (k - 1) + 1 /\ k \in 1..Len(q)
      BY <1>1, <1>3, <1>4, <2>2
    <3>2. (t)[k] = r[k - 1]
      BY <1>5, <3>1
    <3>3. r[k - 1] = IF k - 1 < i THEN w[k - 1] ELSE w[k]
      BY <1>3, <3>1
    <3>4. q[k] = IF k < i + 1 THEN s[k] ELSE s[k + 1]
      BY <1>4, <3>1
    <3>5. s[k] = w[k - 1] /\ s[k + 1] = w[k]
      BY <1>1, <3>1
    <3> QED
      BY <3>2, <3>3, <3>4, <3>5
  <2> QED
    BY <2>1, <2>2
<1>7. q = t
  <2>1. q \in Seq(S) /\ t \in Seq(S) /\ Len(q) = Len(t) /\ \A k \in 1..Len(q) : q[k] = t[k]
    BY <1>1, <1>4, <1>5, <1>6
  <2> QED
    BY <2>1, SeqEqual
<1> QED
  <2>1. s[i + 1] = w[i]
    BY <1>1
  <2>2. RemoveFirst(s, w[i]) = t
    BY <1>7, <2>1 DEF q
  <2> QED
    BY <2>2 DEF r, s, t

\* Nobody but the one who left is missing, and nobody is twice in what is left.
LEMMA RemovedRest ==
    ASSUME NEW S, NEW s \in Seq(S), Distinct(s), NEW e, \E i \in 1..Len(s) : s[i] = e
    PROVE  LET r == RemoveFirst(s, e)
           IN /\ r \in Seq(S) /\ Distinct(r)
              /\ \A k \in 1..Len(r) : r[k] # e /\ \E l \in 1..Len(s) : r[k] = s[l]
              /\ \A l \in 1..Len(s) : s[l] # e => \E k \in 1..Len(r) : r[k] = s[l]
<1> PICK i \in 1..Len(s) : s[i] = e
  OBVIOUS
<1> DEFINE r == RemoveFirst(s, s[i])
<1>1. r \in Seq(S) /\ Len(r) = Len(s) - 1 /\ \A k \in 1..Len(r) : r[k] = IF k < i THEN s[k] ELSE s[k + 1]
  BY RemovedPlace
<1> HIDE DEF r
<1>2. Distinct(r)
  BY <1>1 DEF Distinct
<1>3. \A k \in 1..Len(r) : r[k] # s[i] /\ \E l \in 1..Len(s) : r[k] = s[l]
  BY <1>1 DEF Distinct
<1>4. ASSUME NEW l \in 1..Len(s), s[l] # s[i] PROVE \E k \in 1..Len(r) : r[k] = s[l]
  <2>1. CASE l < i
    BY <1>1, <2>1
  <2>2. CASE l > i
    <3>1. l - 1 \in 1..Len(r) /\ r[l - 1] = s[l]
      BY <1>1, <2>2
    <3> QED
      BY <3>1
  <2> QED
    BY <1>4, <2>1, <2>2
<1> QED
  BY <1>1, <1>2, <1>3, <1>4, s[i] = e DEF r

----------------------------------------------------------------------------
(* The lock map.                                                           *)

Holding == {"linking", "asking", "body", "releasing", "lost"}
UsersOf(n) == {g \in Guards : entryOf[g] = n}

LocalType ==
    /\ pc \in [Guards -> Places]
    /\ localMap \in [Procs -> Entries \cup {None}]
    /\ users \in [Entries -> Nat]
    /\ holder \in [Entries -> Guards \cup {None}]
    /\ waiters \in [Entries -> Seq(Guards)]
    /\ entryOf \in [Guards -> Entries \cup {None}]

\* A guard that is not idle counts in the entry its process's map has, and the
\* map has an entry only while somebody counts in it.
EntryInv ==
    /\ \A g \in Guards : entryOf[g] = None <=> pc[g] = "idle"
    /\ \A g \in Guards : entryOf[g] # None => localMap[Home[g]] = entryOf[g]
    /\ \A p \in Procs : localMap[p] # None => \E g \in Guards : Home[g] = p /\ entryOf[g] = localMap[p]
    /\ \A g, h \in Guards : entryOf[g] = entryOf[h] /\ entryOf[g] # None => Home[g] = Home[h]
    /\ \A n \in Entries : users[n] = Cardinality(UsersOf(n))

\* Whoever is past the lock is its holder; whoever is queued has one place.
LockInv ==
    /\ \A n \in Entries : holder[n] # None => entryOf[holder[n]] = n /\ pc[holder[n]] \in Holding
    /\ \A g \in Guards : pc[g] \in Holding => holder[entryOf[g]] = g
    /\ \A n \in Entries : Distinct(waiters[n])
    /\ \A n \in Entries : \A i \in 1..Len(waiters[n]) :
          pc[waiters[n][i]] = "queued" /\ entryOf[waiters[n][i]] = n
    /\ \A g \in Guards : pc[g] = "queued" => \E i \in 1..Len(waiters[entryOf[g]]) : waiters[entryOf[g]][i] = g

LineInv == LocalType /\ EntryInv /\ LockInv

\* An entry is used by no more than the guards there are.
LEMMA UsersFinite == \A n : IsFiniteSet(UsersOf(n)) /\ Cardinality(UsersOf(n)) \in 0..Cardinality(Guards)
BY HomeAssumption, FS_Subset, FS_CardinalityType DEF UsersOf

\* No entry, nobody in line.
LEMMA InitLine == Init => LineInv
<1> SUFFICES ASSUME Init PROVE LineInv
  OBVIOUS
<1>1. \A n \in Entries : UsersOf(n) = {}
  BY HomeAssumption DEF Init, UsersOf, Entries
<1>2. Cardinality({}) = 0
  BY FS_EmptySet
<1>3. LocalType
  BY DEF Init, LocalType, Places
<1>4. EntryInv
  BY <1>1, <1>2 DEF Init, EntryInv
<1>5. LockInv
  BY DEF Init, LockInv, Distinct, Holding
<1> QED
  BY <1>3, <1>4, <1>5 DEF LineInv

\* There are as many entries as guards, so one that arrives finds one that
\* nobody counts in; and then no process has it in its map.
LEMMA FreshIsFree ==
    ASSUME LocalType, EntryInv, NEW g \in Guards, entryOf[g] = None
    PROVE  /\ FreshEntry \in Entries
           /\ \A p \in Procs : localMap[p] # FreshEntry
           /\ \A h \in Guards : entryOf[h] # FreshEntry
<1>1. \E n \in Entries : \A h \in Guards : entryOf[h] # n
  <2> SUFFICES ASSUME \A n \in Entries : \E h \in Guards : entryOf[h] = n PROVE FALSE
    OBVIOUS
  <2> DEFINE others == Guards \ {g}
  <2>1. IsFiniteSet(others) /\ Cardinality(others) = Cardinality(Guards) - 1 /\ Cardinality(Guards) \in Nat
    BY HomeAssumption, FS_RemoveElement, FS_CardinalityType
  <2>2. Cardinality(Entries) = Cardinality(Guards) /\ IsFiniteSet(Entries)
    BY <2>1, FS_Interval DEF Entries
  <2>3. \A n \in Entries : n # None
    BY <2>1, HomeAssumption DEF Entries
  <2> DEFINE owner == [n \in Entries |-> CHOOSE h \in others : entryOf[h] = n]
  <2>4. \A n \in Entries : owner[n] \in others /\ entryOf[owner[n]] = n
    BY <2>3
  <2>5. owner \in [Entries -> others]
    BY <2>4
  <2> HIDE DEF owner, others
  <2>6. \E m, n \in Entries : m # n /\ owner[m] = owner[n]
    BY <2>1, <2>2, <2>5, FS_PigeonHole
  <2> QED
    BY <2>4, <2>6
<1>2. \A n \in Entries : (\A h \in Guards : entryOf[h] # n) => \A p \in Procs : localMap[p] # n
  <2>1. \A n \in Entries : n # None
    BY HomeAssumption, FS_CardinalityType DEF Entries
  <2> QED
    BY <2>1 DEF EntryInv
<1> QED
  BY <1>1, <1>2 DEF FreshEntry

\* An entry nobody counts in has no holder and no waiters left in it.
LEMMA UnusedIsEmpty ==
    ASSUME LineInv, NEW n \in Entries, \A h \in Guards : entryOf[h] # n
    PROVE  holder[n] = None /\ waiters[n] = <<>>
<1>1. holder[n] = None
  BY DEF LineInv, LocalType, LockInv
<1>2. waiters[n] \in Seq(Guards)
  BY DEF LineInv, LocalType
<1>3. Len(waiters[n]) = 0
  BY <1>2 DEF LineInv, LockInv
<1> QED
  BY <1>1, <1>2, <1>3

\* A guard that leaves is counted out, and the entry goes with its last user.
LEMMA LeftEntry ==
    ASSUME LocalType, EntryInv, NEW g \in Guards, NEW n, n = entryOf[g], n # None, NEW lockHolder,
           LeaveLocal(g, n, lockHolder), pc' = [pc EXCEPT ![g] = "idle"]
    PROVE  /\ EntryInv'
           /\ pc' \in [Guards -> Places] /\ localMap' \in [Procs -> Entries \cup {None}]
           /\ users' \in [Entries -> Nat] /\ entryOf' \in [Guards -> Entries \cup {None}]
<1> USE HomeAssumption
<1>1. n \in Entries /\ Home[g] \in Procs /\ localMap[Home[g]] = n /\ g \in UsersOf(n)
  BY DEF LocalType, EntryInv, UsersOf
<1>2. /\ pc' \in [Guards -> Places] /\ localMap' \in [Procs -> Entries \cup {None}]
      /\ entryOf' \in [Guards -> Entries \cup {None}] /\ entryOf'[g] = None /\ pc'[g] = "idle"
      /\ \A h \in Guards : h # g => entryOf'[h] = entryOf[h] /\ pc'[h] = pc[h]
      /\ \A p \in Procs : localMap'[p] = IF p = Home[g] /\ users[n] = 1 THEN None ELSE localMap[p]
  BY <1>1 DEF LocalType, LeaveLocal, Places
<1>3. \A m \in Entries : users'[m] = IF m = n THEN users[n] - 1 ELSE users[m]
  BY <1>1 DEF LocalType, LeaveLocal
<1>4. \A m \in Entries : m # None
  BY FS_CardinalityType DEF Entries
<1>5. \A m \in Entries : UsersOf(m)' = IF m = n THEN UsersOf(n) \ {g} ELSE UsersOf(m)
  BY <1>2, <1>4 DEF UsersOf
<1>6. \A m \in Entries : users'[m] = Cardinality(UsersOf(m)')
  BY <1>1, <1>3, <1>5, UsersFinite, FS_RemoveElement DEF EntryInv
<1>7. users' \in [Entries -> Nat]
  <2>1. users' \in [Entries -> Int]
    BY <1>1 DEF LocalType, LeaveLocal
  <2>2. users[n] >= 1
    BY <1>1, UsersFinite, FS_EmptySet DEF EntryInv
  <2>3. users[n] \in Nat /\ \A m \in Entries : users[m] \in Nat
    BY <1>1 DEF LocalType
  <2>4. \A m \in Entries : users'[m] \in Nat
    BY <1>3, <2>2, <2>3
  <2> QED
    BY <2>1, <2>4
<1>8. CASE users[n] = 1
  <2>1. UsersOf(n) = {g}
    BY <1>1, <1>8, UsersFinite, FS_Singleton DEF EntryInv
  <2>2. \A h \in Guards : entryOf'[h] # n
    BY <1>2, <1>4, <1>1, <2>1 DEF UsersOf
  <2>3. \A h \in Guards : entryOf'[h] # None => Home[h] # Home[g]
    BY <1>1, <1>2, <2>2 DEF EntryInv
  <2>4. \A h \in Guards : entryOf'[h] # None => localMap'[Home[h]] = entryOf'[h]
    BY <1>2, <2>3 DEF EntryInv
  <2>5. \A p \in Procs : localMap'[p] # None => \E h \in Guards : Home[h] = p /\ entryOf'[h] = localMap'[p]
    BY <1>2, <1>8 DEF EntryInv
  <2> QED
    BY <1>2, <1>6, <1>7, <2>4, <2>5 DEF EntryInv
<1>9. CASE users[n] # 1
  <2>1. PICK h \in Guards : h # g /\ entryOf[h] = n
    <3>1. UsersOf(n) # {g}
      <4>1. Cardinality({g}) = 1 /\ users[n] = Cardinality(UsersOf(n))
        BY <1>1, FS_Singleton DEF EntryInv
      <4> QED
        BY <1>9, <4>1
    <3> QED
      BY <1>1, <3>1 DEF UsersOf
  <2>2. Home[h] = Home[g] /\ entryOf'[h] = n
    BY <1>2, <2>1 DEF EntryInv
  <2>3. \A p \in Procs : localMap'[p] # None => \E k \in Guards : Home[k] = p /\ entryOf'[k] = localMap'[p]
    <3> SUFFICES ASSUME NEW p \in Procs, localMap'[p] # None
                 PROVE  \E k \in Guards : Home[k] = p /\ entryOf'[k] = localMap'[p]
      OBVIOUS
    <3>1. localMap'[p] = localMap[p]
      BY <1>2, <1>9
    <3>2. PICK k \in Guards : Home[k] = p /\ entryOf[k] = localMap[p]
      BY <3>1 DEF EntryInv
    <3>3. CASE k = g
      BY <1>1, <2>1, <2>2, <3>1, <3>2, <3>3
    <3>4. CASE k # g
      BY <1>2, <3>1, <3>2, <3>4
    <3> QED
      BY <3>3, <3>4
  <2>4. \A k \in Guards : entryOf'[k] # None => localMap'[Home[k]] = entryOf'[k]
    BY <1>2, <1>9 DEF EntryInv
  <2>5. \A k, l \in Guards : entryOf'[k] = entryOf'[l] /\ entryOf'[k] # None => Home[k] = Home[l]
    BY <1>2 DEF EntryInv
  <2>6. \A k \in Guards : entryOf'[k] = None <=> pc'[k] = "idle"
    BY <1>2 DEF EntryInv
  <2> QED
    BY <1>2, <1>6, <1>7, <2>3, <2>4, <2>5, <2>6 DEF EntryInv
<1> QED
  BY <1>2, <1>7, <1>8, <1>9

\* Between the lock and the leaving a guard moves without touching the line.
LEMMA HeldOn ==
    ASSUME LineInv, NEW g \in Guards, pc[g] \in Holding, NEW place \in Holding,
           pc' = [pc EXCEPT ![g] = place], UNCHANGED localVars
    PROVE  LineInv'
<1> USE DEF LineInv, LocalType, localVars
<1>1. pc' \in [Guards -> Places] /\ \A h \in Guards : h # g => pc'[h] = pc[h]
  BY DEF Holding, Places
<1>2. pc'[g] \in Holding /\ pc'[g] # "idle" /\ pc'[g] # "queued" /\ pc[g] # "idle" /\ pc[g] # "queued"
  BY DEF Holding
<1>3. LocalType'
  BY <1>1
<1>4. EntryInv'
  <2>1. \A n : UsersOf(n)' = UsersOf(n)
    BY DEF UsersOf
  <2> QED
    BY <1>1, <1>2, <2>1 DEF EntryInv
<1>5. LockInv'
  BY <1>1, <1>2 DEF LockInv
<1> QED
  BY <1>3, <1>4, <1>5

\* The holder leaves: its lock is free, the waiters keep their places.
LEMMA HolderLeft ==
    ASSUME LineInv, NEW g \in Guards, pc[g] \in Holding,
           pc' = [pc EXCEPT ![g] = "idle"], ReleaseLocal(g)
    PROVE  LineInv'
<1> DEFINE n == entryOf[g]
<1>1. n # None /\ n \in Entries /\ holder[n] = g
  BY DEF LineInv, LocalType, EntryInv, LockInv, Holding
<1>2. holder' = [holder EXCEPT ![n] = None] /\ waiters' = waiters /\ LeaveLocal(g, n, None)
  BY DEF ReleaseLocal
<1> HIDE DEF n
<1>3. /\ EntryInv'
      /\ pc' \in [Guards -> Places] /\ localMap' \in [Procs -> Entries \cup {None}]
      /\ users' \in [Entries -> Nat] /\ entryOf' \in [Guards -> Entries \cup {None}]
  BY <1>1, <1>2, LeftEntry DEF LineInv, n
<1>4. LocalType'
  BY <1>1, <1>2, <1>3 DEF LineInv, LocalType
<1>5. \A h \in Guards : h # g => pc'[h] = pc[h] /\ entryOf'[h] = entryOf[h]
  BY <1>2, <1>3 DEF LeaveLocal, LineInv, LocalType
<1>6. pc'[g] = "idle" /\ pc[g] # "queued"
  BY DEF Holding, LineInv, LocalType
<1>7. \A m \in Entries : holder'[m] = IF m = n THEN None ELSE holder[m]
  BY <1>1, <1>2 DEF LineInv, LocalType
<1>8. \A m \in Entries : holder'[m] # None => entryOf'[holder'[m]] = m /\ pc'[holder'[m]] \in Holding
  BY <1>1, <1>5, <1>7 DEF LineInv, LocalType, LockInv, n
<1>9. \A h \in Guards : pc'[h] \in Holding => holder'[entryOf'[h]] = h
  <2> SUFFICES ASSUME NEW h \in Guards, pc'[h] \in Holding PROVE holder'[entryOf'[h]] = h
    OBVIOUS
  <2>1. h # g
    BY <1>6 DEF Holding
  <2>2. pc[h] \in Holding /\ entryOf'[h] = entryOf[h] /\ holder[entryOf[h]] = h
    BY <1>5, <2>1 DEF LineInv, LockInv
  <2>3. entryOf[h] \in Entries
    BY <2>2 DEF LineInv, LocalType, EntryInv, Holding
  <2> QED
    BY <1>1, <1>7, <2>1, <2>2, <2>3
<1>10. LockInv'
  <2>1. \A m \in Entries : \A i \in 1..Len(waiters[m]) : waiters[m][i] \in Guards /\ waiters[m][i] # g
    BY <1>6 DEF LineInv, LocalType, LockInv
  <2>2. \A m \in Entries : \A i \in 1..Len(waiters[m]) :
           pc'[waiters[m][i]] = "queued" /\ entryOf'[waiters[m][i]] = m
    BY <1>5, <2>1 DEF LineInv, LockInv
  <2>3. \A h \in Guards : pc'[h] = "queued" => \E i \in 1..Len(waiters[entryOf'[h]]) : waiters[entryOf'[h]][i] = h
    BY <1>5, <1>6 DEF LineInv, LockInv
  <2> QED
    BY <1>2, <1>8, <1>9, <2>2, <2>3 DEF LineInv, LockInv
<1> QED
  BY <1>3, <1>4, <1>10 DEF LineInv

\* A waiter gives its place up.
LEMMA WaiterLeft ==
    ASSUME LineInv, NEW g \in Guards, CancelQueued(g)
    PROVE  LineInv'
<1> DEFINE n == entryOf[g]
<1>1. n # None /\ n \in Entries /\ pc[g] = "queued"
  BY DEF LineInv, LocalType, EntryInv, CancelQueued
<1>2. /\ waiters' = [waiters EXCEPT ![n] = RemoveFirst(waiters[n], g)] /\ holder' = holder
      /\ LeaveLocal(g, n, holder[n]) /\ pc' = [pc EXCEPT ![g] = "idle"]
  BY DEF CancelQueued
<1> HIDE DEF n
<1>3. /\ EntryInv'
      /\ pc' \in [Guards -> Places] /\ localMap' \in [Procs -> Entries \cup {None}]
      /\ users' \in [Entries -> Nat] /\ entryOf' \in [Guards -> Entries \cup {None}]
  BY <1>1, <1>2, LeftEntry DEF LineInv, n
<1>4. PICK i \in 1..Len(waiters[n]) : waiters[n][i] = g
  BY <1>1 DEF LineInv, LockInv, n
<1>r. PICK r : r = RemoveFirst(waiters[n], g)
  OBVIOUS
<1>5. /\ r \in Seq(Guards) /\ Distinct(r)
      /\ \A k \in 1..Len(r) : r[k] # g /\ \E l \in 1..Len(waiters[n]) : r[k] = waiters[n][l]
      /\ \A l \in 1..Len(waiters[n]) : waiters[n][l] # g => \E k \in 1..Len(r) : r[k] = waiters[n][l]
  <2>1. waiters[n] \in Seq(Guards) /\ Distinct(waiters[n])
    BY <1>1 DEF LineInv, LocalType, LockInv
  <2>2. PICK w : w = waiters[n]
    OBVIOUS
  <2>3. w \in Seq(Guards) /\ Distinct(w) /\ r = RemoveFirst(w, g) /\ \E k \in 1..Len(w) : w[k] = g
    BY <1>4, <1>r, <2>1, <2>2, Zenon
  <2>4. LET q == RemoveFirst(w, g)
        IN /\ q \in Seq(Guards) /\ Distinct(q)
           /\ \A k \in 1..Len(q) : q[k] # g /\ \E l \in 1..Len(w) : q[k] = w[l]
           /\ \A l \in 1..Len(w) : w[l] # g => \E k \in 1..Len(q) : q[k] = w[l]
    BY <2>3, RemovedRest
  <2> QED
    BY <2>2, <2>3, <2>4, Zenon
<1>6. LocalType' /\ \A m \in Entries : waiters'[m] = IF m = n THEN r ELSE waiters[m]
  <2>1. waiters \in [Entries -> Seq(Guards)] /\ waiters' = [waiters EXCEPT ![n] = r]
    BY <1>2, <1>r DEF LineInv, LocalType
  <2>2. waiters' \in [Entries -> Seq(Guards)]
    BY <1>1, <1>5, <2>1
  <2> QED
    BY <1>1, <1>2, <1>3, <2>1, <2>2 DEF LineInv, LocalType
<1>7. \A h \in Guards : h # g => pc'[h] = pc[h] /\ entryOf'[h] = entryOf[h]
  BY <1>2, <1>3 DEF LeaveLocal, LineInv, LocalType
<1>8. pc'[g] = "idle"
  BY <1>2 DEF LineInv, LocalType
<1>9. \A m \in Entries : holder'[m] # None => entryOf'[holder'[m]] = m /\ pc'[holder'[m]] \in Holding
  BY <1>1, <1>2, <1>7 DEF LineInv, LocalType, LockInv, Holding
<1>10. \A h \in Guards : pc'[h] \in Holding => holder'[entryOf'[h]] = h
  BY <1>2, <1>7, <1>8 DEF LineInv, LockInv, Holding
<1>11. \A m \in Entries : Distinct(waiters'[m])
  BY <1>5, <1>6 DEF LineInv, LockInv
<1>12. \A m \in Entries : \A k \in 1..Len(waiters'[m]) :
          pc'[waiters'[m][k]] = "queued" /\ entryOf'[waiters'[m][k]] = m
  <2> SUFFICES ASSUME NEW m \in Entries, NEW k \in 1..Len(waiters'[m])
               PROVE  pc'[waiters'[m][k]] = "queued" /\ entryOf'[waiters'[m][k]] = m
    OBVIOUS
  <2>1. PICK l \in 1..Len(waiters[m]) : waiters'[m][k] = waiters[m][l]
    <3>1. CASE m = n
      <4>1. k \in 1..Len(r) /\ waiters'[m] = r
        BY <1>6, <3>1, Zenon
      <4> QED
        BY <1>5, <3>1, <4>1, Zenon
    <3>2. CASE m # n
      BY <1>6, <3>2
    <3> QED
      BY <3>1, <3>2
  <2>2. waiters[m][l] \in Guards /\ pc[waiters[m][l]] = "queued" /\ entryOf[waiters[m][l]] = m
    BY DEF LineInv, LocalType, LockInv
  <2>3. waiters[m][l] # g
    <3>1. CASE m = n
      BY <1>5, <1>6, <2>1, <3>1
    <3>2. CASE m # n
      BY <2>2, <3>2 DEF n
    <3> QED
      BY <3>1, <3>2
  <2> QED
    BY <1>7, <2>1, <2>2, <2>3
<1>13. \A h \in Guards : pc'[h] = "queued" => \E k \in 1..Len(waiters'[entryOf'[h]]) : waiters'[entryOf'[h]][k] = h
  <2> SUFFICES ASSUME NEW h \in Guards, pc'[h] = "queued"
               PROVE  \E k \in 1..Len(waiters'[entryOf'[h]]) : waiters'[entryOf'[h]][k] = h
    OBVIOUS
  <2>1. h # g /\ pc[h] = "queued" /\ entryOf'[h] = entryOf[h] /\ entryOf[h] \in Entries
    BY <1>7, <1>8 DEF LineInv, LocalType, EntryInv
  <2>2. PICK l \in 1..Len(waiters[entryOf[h]]) : waiters[entryOf[h]][l] = h
    BY <2>1 DEF LineInv, LockInv
  <2>3. CASE entryOf[h] = n
    <3>1. \E k \in 1..Len(r) : r[k] = h
      <4>1. l \in 1..Len(waiters[n]) /\ waiters[n][l] = h
        BY <2>2, <2>3, Zenon
      <4> QED
        BY <1>5, <2>1, <4>1, Zenon
    <3>2. waiters'[n] = r
      BY <1>1, <1>6
    <3> QED
      BY <2>1, <2>3, <3>1, <3>2
  <2>4. CASE entryOf[h] # n
    BY <1>6, <2>1, <2>2, <2>4
  <2> QED
    BY <2>3, <2>4
<1>14. LockInv'
  BY <1>9, <1>10, <1>11, <1>12, <1>13 DEF LockInv
<1> QED
  BY <1>3, <1>6, <1>14 DEF LineInv

\* A guard that comes is counted in the entry of its process, an old one or one
\* that nobody had.
LEMMA EnteredEntry ==
    ASSUME LineInv, NEW g \in Guards, Enter(g), NEW n, n = EnterLocal(g)
    PROVE  /\ EntryInv' /\ LocalType'
           /\ n \in Entries /\ entryOf[g] = None /\ entryOf'[g] = n /\ localMap'[Home[g]] = n
           /\ localMap[Home[g]] = None => holder[n] = None /\ waiters[n] = <<>> /\ \A h \in Guards : entryOf[h] # n
           /\ \A h \in Guards : h # g => entryOf'[h] = entryOf[h] /\ pc'[h] = pc[h]
           /\ \A p \in Procs : p # Home[g] => localMap'[p] = localMap[p] /\ localMap[p] # n
<1> USE HomeAssumption
<1>1. pc[g] = "idle" /\ entryOf[g] = None /\ Home[g] \in Procs
  BY DEF Enter, LineInv, EntryInv
<1>2. CASE localMap[Home[g]] = None
  <2>1. /\ n \in Entries /\ \A h \in Guards : entryOf[h] # n
        /\ \A p \in Procs : localMap[p] # n
    BY <1>1, <1>2, FreshIsFree DEF EnterLocal, LineInv
  <2>2. holder[n] = None /\ waiters[n] = <<>>
    BY <2>1, UnusedIsEmpty
  <2>3. /\ localMap' = [localMap EXCEPT ![Home[g]] = n] /\ users' = [users EXCEPT ![n] = 1]
        /\ entryOf' = [entryOf EXCEPT ![g] = n] /\ holder' = [holder EXCEPT ![n] = g] /\ waiters' = waiters
        /\ pc' = [pc EXCEPT ![g] = AfterLock(g)]
    BY <1>2, <2>2 DEF Enter
  <2>4. LocalType'
    BY <1>1, <2>1, <2>3 DEF LineInv, LocalType, AfterLock, Places
  <2>5. \A m \in Entries : UsersOf(m)' = IF m = n THEN {g} ELSE UsersOf(m)
    BY <1>1, <2>1, <2>3, FS_CardinalityType DEF UsersOf, LineInv, LocalType, Entries
  <2>6. \A m \in Entries : users'[m] = Cardinality(UsersOf(m)')
    <3>1. Cardinality({g}) = 1
      BY FS_Singleton
    <3>2. \A m \in Entries : users'[m] = IF m = n THEN 1 ELSE Cardinality(UsersOf(m))
      BY <2>1, <2>3 DEF LineInv, LocalType, EntryInv
    <3> SUFFICES ASSUME NEW m \in Entries PROVE users'[m] = Cardinality(UsersOf(m)')
      OBVIOUS
    <3>3. CASE m = n
      BY <2>5, <3>1, <3>2, <3>3
    <3>4. CASE m # n
      BY <2>5, <3>2, <3>4
    <3> QED
      BY <3>3, <3>4
  <2>7. n # None /\ AfterLock(g) # "idle"
    BY <2>1, FS_CardinalityType DEF Entries, AfterLock
  <2>8. EntryInv'
    <3>1. \A h \in Guards : entryOf'[h] = None <=> pc'[h] = "idle"
      BY <2>3, <2>7 DEF LineInv, LocalType, EntryInv
    <3>2. \A h \in Guards : entryOf'[h] # None => localMap'[Home[h]] = entryOf'[h]
      BY <1>1, <1>2, <2>3 DEF LineInv, LocalType, EntryInv
    <3>3. \A p \in Procs : localMap'[p] # None => \E h \in Guards : Home[h] = p /\ entryOf'[h] = localMap'[p]
      BY <1>1, <2>3 DEF LineInv, LocalType, EntryInv
    <3>4. \A h, k \in Guards : entryOf'[h] = entryOf'[k] /\ entryOf'[h] # None => Home[h] = Home[k]
      BY <2>1, <2>3 DEF LineInv, LocalType, EntryInv
    <3> QED
      BY <2>6, <3>1, <3>2, <3>3, <3>4 DEF EntryInv
  <2> QED
    BY <1>1, <2>1, <2>2, <2>3, <2>4, <2>8 DEF LineInv, LocalType
<1>3. CASE localMap[Home[g]] # None
  <2>1. n = localMap[Home[g]] /\ n \in Entries /\ n # None
    BY <1>1, <1>3 DEF EnterLocal, LineInv, LocalType
  <2>2. PICK k \in Guards : Home[k] = Home[g] /\ entryOf[k] = n
    BY <1>1, <2>1 DEF LineInv, EntryInv
  <2> DEFINE free == holder[n] = None /\ waiters[n] = <<>>
  <2>3. /\ localMap' = [localMap EXCEPT ![Home[g]] = n] /\ users' = [users EXCEPT ![n] = users[n] + 1]
        /\ entryOf' = [entryOf EXCEPT ![g] = n]
        /\ holder' = IF free THEN [holder EXCEPT ![n] = g] ELSE holder
        /\ waiters' = IF free THEN waiters ELSE [waiters EXCEPT ![n] = Append(waiters[n], g)]
        /\ pc' = [pc EXCEPT ![g] = IF free THEN AfterLock(g) ELSE "queued"]
    BY <1>3, <2>1 DEF Enter
  <2> HIDE DEF free
  <2>4. LocalType'
    BY <1>1, <2>1, <2>3 DEF LineInv, LocalType, AfterLock, Places
  <2>5. \A m \in Entries : UsersOf(m)' = IF m = n THEN UsersOf(n) \cup {g} ELSE UsersOf(m)
    BY <1>1, <2>1, <2>3, FS_CardinalityType DEF UsersOf, LineInv, LocalType, Entries
  <2>6. \A m \in Entries : users'[m] = Cardinality(UsersOf(m)')
    <3>1. g \notin UsersOf(n)
      BY <1>1, <2>1 DEF UsersOf
    <3>2. Cardinality(UsersOf(n) \cup {g}) = Cardinality(UsersOf(n)) + 1
      BY <3>1, UsersFinite, FS_AddElement
    <3>3. \A m \in Entries : users'[m] = IF m = n THEN Cardinality(UsersOf(n)) + 1 ELSE Cardinality(UsersOf(m))
      BY <2>1, <2>3 DEF LineInv, LocalType, EntryInv
    <3> SUFFICES ASSUME NEW m \in Entries PROVE users'[m] = Cardinality(UsersOf(m)')
      OBVIOUS
    <3>4. CASE m = n
      BY <2>5, <3>2, <3>3, <3>4
    <3>5. CASE m # n
      BY <2>5, <3>3, <3>5
    <3> QED
      BY <3>4, <3>5
  <2>7. AfterLock(g) # "idle"
    BY DEF AfterLock
  <2>8. EntryInv'
    <3>1. \A h \in Guards : entryOf'[h] = None <=> pc'[h] = "idle"
      BY <2>1, <2>3, <2>7 DEF LineInv, LocalType, EntryInv
    <3>2. \A h \in Guards : entryOf'[h] # None => localMap'[Home[h]] = entryOf'[h]
      BY <1>1, <2>1, <2>3 DEF LineInv, LocalType, EntryInv
    <3>3. \A p \in Procs : localMap'[p] # None => \E h \in Guards : Home[h] = p /\ entryOf'[h] = localMap'[p]
      BY <1>1, <2>1, <2>3 DEF LineInv, LocalType, EntryInv
    <3>4. \A h, l \in Guards : entryOf'[h] = entryOf'[l] /\ entryOf'[h] # None => Home[h] = Home[l]
      BY <2>1, <2>2, <2>3 DEF LineInv, LocalType, EntryInv
    <3> QED
      BY <2>6, <3>1, <3>2, <3>3, <3>4 DEF EntryInv
  <2>9. \A p \in Procs : p # Home[g] => localMap[p] # n
    BY <2>1, <2>2 DEF LineInv, EntryInv
  <2> QED
    BY <1>1, <1>3, <2>1, <2>3, <2>4, <2>8, <2>9 DEF LineInv, LocalType
<1> QED
  BY <1>2, <1>3

\* What Enter does to the lock of the entry it found.
LEMMA EnteredLock ==
    ASSUME LineInv, NEW g \in Guards, Enter(g), NEW n, n = EnterLocal(g)
    PROVE  \/ /\ holder[n] = None /\ waiters[n] = <<>> /\ pc'[g] = AfterLock(g) /\ AfterLock(g) \in Holding
              /\ holder' = [holder EXCEPT ![n] = g] /\ waiters' = waiters
           \/ /\ ~(holder[n] = None /\ waiters[n] = <<>>) /\ pc'[g] = "queued" /\ localMap[Home[g]] = n
              /\ holder' = holder /\ waiters' = [waiters EXCEPT ![n] = Append(waiters[n], g)]
<1>1. pc'[g] = IF holder[n] = None /\ waiters[n] = <<>> THEN AfterLock(g) ELSE "queued"
  BY DEF Enter, LineInv, LocalType
<1>2. AfterLock(g) \in Holding
  BY DEF AfterLock, Holding
<1>3. CASE holder[n] = None /\ waiters[n] = <<>>
  BY <1>1, <1>2, <1>3 DEF Enter
<1>4. CASE ~(holder[n] = None /\ waiters[n] = <<>>)
  <2>1. localMap[Home[g]] = n
    BY <1>4, EnteredEntry DEF EnterLocal
  <2> QED
    BY <1>1, <1>4, <2>1 DEF Enter
<1> QED
  BY <1>3, <1>4

\* Whoever comes gets the lock of the entry, or its last place (__aenter__).
LEMMA Entered ==
    ASSUME LineInv, NEW g \in Guards, Enter(g)
    PROVE  LineInv'
<1> DEFINE n == EnterLocal(g)
<1>1. /\ EntryInv' /\ LocalType'
      /\ n \in Entries /\ entryOf[g] = None /\ entryOf'[g] = n
      /\ \A h \in Guards : h # g => entryOf'[h] = entryOf[h] /\ pc'[h] = pc[h]
  BY EnteredEntry
<1>2. \/ /\ holder[n] = None /\ waiters[n] = <<>> /\ pc'[g] \in Holding
         /\ holder' = [holder EXCEPT ![n] = g] /\ waiters' = waiters
      \/ /\ pc'[g] = "queued" /\ holder' = holder /\ waiters' = [waiters EXCEPT ![n] = Append(waiters[n], g)]
  BY EnteredLock
<1> HIDE DEF n
<1>3. pc[g] = "idle"
  BY <1>1 DEF LineInv, EntryInv
<1>4. \A m \in Entries : \A i \in 1..Len(waiters[m]) : waiters[m][i] \in Guards /\ waiters[m][i] # g
  BY <1>3 DEF LineInv, LocalType, LockInv
<1>5. \A m \in Entries : holder[m] # g
  <2>1. g # None /\ pc[g] \notin Holding
    BY <1>3, HomeAssumption DEF Holding
  <2>2. \A m \in Entries : holder[m] # None => pc[holder[m]] \in Holding
    BY DEF LineInv, LockInv
  <2> QED
    BY <2>1, <2>2
<1>6. \A h \in Guards : pc[h] # "idle" => entryOf[h] \in Entries
  BY DEF LineInv, LocalType, EntryInv
<1>7. CASE /\ holder[n] = None /\ waiters[n] = <<>> /\ pc'[g] \in Holding
           /\ holder' = [holder EXCEPT ![n] = g] /\ waiters' = waiters
  <2>1. \A m \in Entries : holder'[m] = IF m = n THEN g ELSE holder[m]
    BY <1>1, <1>7 DEF LineInv, LocalType
  <2>2. \A m \in Entries : holder'[m] # None => entryOf'[holder'[m]] = m /\ pc'[holder'[m]] \in Holding
    BY <1>1, <1>5, <1>7, <2>1 DEF LineInv, LocalType, LockInv
  <2>3. \A h \in Guards : pc'[h] \in Holding => holder'[entryOf'[h]] = h
    <3> SUFFICES ASSUME NEW h \in Guards, pc'[h] \in Holding PROVE holder'[entryOf'[h]] = h
      OBVIOUS
    <3>1. CASE h = g
      BY <1>1, <2>1, <3>1
    <3>2. CASE h # g
      <4>1. pc[h] \in Holding /\ entryOf'[h] = entryOf[h] /\ holder[entryOf[h]] = h /\ entryOf[h] \in Entries
        BY <1>1, <1>6, <3>2 DEF LineInv, LockInv, Holding
      <4> QED
        BY <1>7, <2>1, <4>1, <3>2, HomeAssumption
    <3> QED
      BY <3>1, <3>2
  <2>4. \A m \in Entries : \A i \in 1..Len(waiters[m]) :
           pc'[waiters[m][i]] = "queued" /\ entryOf'[waiters[m][i]] = m
    BY <1>1, <1>4 DEF LineInv, LockInv
  <2>5. \A h \in Guards : pc'[h] = "queued" => \E i \in 1..Len(waiters[entryOf'[h]]) : waiters[entryOf'[h]][i] = h
    BY <1>1, <1>7 DEF LineInv, LockInv, Holding
  <2> QED
    BY <1>1, <1>7, <2>2, <2>3, <2>4, <2>5 DEF LineInv, LockInv
<1>8. CASE pc'[g] = "queued" /\ holder' = holder /\ waiters' = [waiters EXCEPT ![n] = Append(waiters[n], g)]
  <2> DEFINE w == Append(waiters[n], g)
  <2>1. waiters[n] \in Seq(Guards) /\ \A m \in Entries : waiters'[m] = IF m = n THEN w ELSE waiters[m]
    BY <1>1, <1>8 DEF LineInv, LocalType
  <2>2. /\ w \in Seq(Guards) /\ Len(w) = Len(waiters[n]) + 1 /\ w[Len(w)] = g
        /\ \A i \in 1..Len(waiters[n]) : w[i] = waiters[n][i]
    BY <2>1
  <2> HIDE DEF w
  <2>3. \A m \in Entries : Distinct(waiters'[m])
    <3>1. Distinct(w)
      <4>1. \A i \in 1..Len(waiters[n]) : w[i] # g
        BY <1>1, <1>4, <2>2
      <4>2. \A i, j \in 1..Len(waiters[n]) : w[i] = w[j] => i = j
        BY <1>1, <2>2 DEF LineInv, LockInv, Distinct
      <4>3. \A i \in 1..Len(w) : i = Len(w) \/ i \in 1..Len(waiters[n])
        BY <2>2
      <4> QED
        BY <2>2, <4>1, <4>2, <4>3 DEF Distinct
    <3> QED
      BY <2>1, <3>1 DEF LineInv, LockInv
  <2>4. \A m \in Entries : \A i \in 1..Len(waiters'[m]) :
           pc'[waiters'[m][i]] = "queued" /\ entryOf'[waiters'[m][i]] = m
    <3> SUFFICES ASSUME NEW m \in Entries, NEW i \in 1..Len(waiters'[m])
                 PROVE  pc'[waiters'[m][i]] = "queued" /\ entryOf'[waiters'[m][i]] = m
      OBVIOUS
    <3>1. CASE i \in 1..Len(waiters[m]) /\ waiters'[m][i] = waiters[m][i]
      BY <1>1, <1>4, <3>1 DEF LineInv, LockInv
    <3>2. CASE m = n /\ i = Len(w)
      BY <1>1, <1>8, <2>1, <2>2, <3>2
    <3> QED
      BY <2>1, <2>2, <3>1, <3>2
  <2>5. \A h \in Guards : pc'[h] = "queued" => \E i \in 1..Len(waiters'[entryOf'[h]]) : waiters'[entryOf'[h]][i] = h
    <3> SUFFICES ASSUME NEW h \in Guards, pc'[h] = "queued"
                 PROVE  \E i \in 1..Len(waiters'[entryOf'[h]]) : waiters'[entryOf'[h]][i] = h
      OBVIOUS
    <3>1. CASE h = g
      <4>1. waiters'[n] = w /\ entryOf'[h] = n /\ Len(w) \in 1..Len(w)
        BY <1>1, <2>1, <2>2, <3>1
      <4> QED
        BY <2>2, <3>1, <4>1
    <3>2. CASE h # g
      <4>1. pc[h] = "queued" /\ entryOf'[h] = entryOf[h] /\ entryOf[h] \in Entries
        BY <1>1, <1>6, <3>2
      <4>2. PICK i \in 1..Len(waiters[entryOf[h]]) : waiters[entryOf[h]][i] = h
        BY <4>1 DEF LineInv, LockInv
      <4>3. i \in 1..Len(waiters'[entryOf[h]]) /\ waiters'[entryOf[h]][i] = h
        BY <2>1, <2>2, <4>1, <4>2
      <4> QED
        BY <4>1, <4>3
    <3> QED
      BY <3>1, <3>2
  <2>6. \A m \in Entries : holder'[m] # None => entryOf'[holder'[m]] = m /\ pc'[holder'[m]] \in Holding
    BY <1>1, <1>5, <1>8 DEF LineInv, LocalType, LockInv
  <2>7. \A h \in Guards : pc'[h] \in Holding => holder'[entryOf'[h]] = h
    BY <1>1, <1>8 DEF LineInv, LockInv, Holding
  <2> QED
    BY <1>1, <2>3, <2>4, <2>5, <2>6, <2>7 DEF LineInv, LockInv
<1> QED
  BY <1>2, <1>7, <1>8

\* The first waiter takes the lock it was woken for.
LEMMA WokenFirst ==
    ASSUME LineInv, NEW g \in Guards, Wake(g), NEW n, n = entryOf[g]
    PROVE  /\ n \in Entries /\ n # None /\ holder[n] = None /\ pc[g] = "queued" /\ pc'[g] \in Holding
           /\ waiters[n] \in Seq(Guards) /\ Len(waiters[n]) > 0 /\ waiters[n][1] = g
           /\ holder' = [holder EXCEPT ![n] = g] /\ waiters' = [waiters EXCEPT ![n] = Tail(waiters[n])]
           /\ pc' = [pc EXCEPT ![g] = AfterLock(g)]
           /\ UNCHANGED <<localMap, users, entryOf>>
<1>1. /\ n \in Entries /\ n # None /\ holder[n] = None /\ pc[g] = "queued" /\ Head(waiters[n]) = g
      /\ holder' = [holder EXCEPT ![n] = g] /\ waiters' = [waiters EXCEPT ![n] = Tail(waiters[n])]
      /\ pc' = [pc EXCEPT ![g] = AfterLock(g)] /\ UNCHANGED <<localMap, users, entryOf>>
  BY DEF Wake, LineInv, LocalType, EntryInv
<1>2. pc'[g] \in Holding
  BY <1>1 DEF AfterLock, Holding, LineInv, LocalType
<1>3. waiters[n] \in Seq(Guards)
  BY <1>1 DEF LineInv, LocalType
<1>4. \E i \in 1..Len(waiters[n]) : waiters[n][i] = g
  BY <1>1 DEF LineInv, LockInv
<1> QED
  BY <1>1, <1>2, <1>3, <1>4

\* A release hands the lock to the first in line (asyncio.Lock).
LEMMA Woken ==
    ASSUME LineInv, NEW g \in Guards, Wake(g)
    PROVE  LineInv'
<1> DEFINE n == entryOf[g]
           w == Tail(waiters[n])
<1>1. /\ n \in Entries /\ n # None /\ holder[n] = None /\ pc[g] = "queued" /\ pc'[g] \in Holding
      /\ waiters[n] \in Seq(Guards) /\ Len(waiters[n]) > 0 /\ waiters[n][1] = g
      /\ holder' = [holder EXCEPT ![n] = g] /\ waiters' = [waiters EXCEPT ![n] = w]
      /\ pc' = [pc EXCEPT ![g] = AfterLock(g)]
      /\ UNCHANGED <<localMap, users, entryOf>>
  BY WokenFirst
<1>2. w \in Seq(Guards) /\ Len(w) = Len(waiters[n]) - 1 /\ \A i \in 1..Len(w) : w[i] = waiters[n][i + 1]
  BY <1>1
<1> HIDE DEF w
<1>3. LocalType'
  BY <1>1, <1>2 DEF LineInv, LocalType, AfterLock, Places
<1>4. \A h \in Guards : h # g => pc'[h] = pc[h]
  BY <1>1 DEF LineInv, LocalType
<1>5. \A m \in Entries : waiters'[m] = (IF m = n THEN w ELSE waiters[m]) /\ holder'[m] = (IF m = n THEN g ELSE holder[m])
  BY <1>1 DEF LineInv, LocalType
<1>6. pc'[g] # "idle" /\ pc'[g] # "queued"
  BY <1>1 DEF Holding
<1>7. EntryInv'
  <2>1. \A m : UsersOf(m)' = UsersOf(m)
    BY <1>1 DEF UsersOf
  <2>2. \A h \in Guards : entryOf'[h] = None <=> pc'[h] = "idle"
    BY <1>1, <1>4, <1>6 DEF LineInv, EntryInv
  <2> QED
    BY <1>1, <2>1, <2>2 DEF LineInv, EntryInv
<1>8. \A i, j \in 1..Len(waiters[n]) : waiters[n][i] = waiters[n][j] => i = j
  BY <1>1 DEF LineInv, LockInv, Distinct
<1>9. \A i \in 1..Len(w) : w[i] # g /\ i + 1 \in 1..Len(waiters[n])
  <2> SUFFICES ASSUME NEW i \in 1..Len(w) PROVE w[i] # g /\ i + 1 \in 1..Len(waiters[n])
    OBVIOUS
  <2>1. i + 1 \in 1..Len(waiters[n]) /\ 1 \in 1..Len(waiters[n]) /\ i + 1 # 1
    BY <1>1, <1>2
  <2>2. waiters[n][i + 1] # waiters[n][1]
    BY <1>8, <2>1
  <2> QED
    BY <1>1, <1>2, <2>1, <2>2
<1>10. \A m \in Entries : Distinct(waiters'[m])
  <2>1. Distinct(w)
    <3> SUFFICES ASSUME NEW i \in 1..Len(w), NEW j \in 1..Len(w), w[i] = w[j] PROVE i = j
      BY DEF Distinct
    <3>1. i + 1 = j + 1
      BY <1>2, <1>8, <1>9
    <3> QED
      BY <3>1
  <2> QED
    BY <1>5, <2>1 DEF LineInv, LockInv
<1>11. \A m \in Entries : \A i \in 1..Len(waiters'[m]) :
          pc'[waiters'[m][i]] = "queued" /\ entryOf'[waiters'[m][i]] = m
  <2> SUFFICES ASSUME NEW m \in Entries, NEW i \in 1..Len(waiters'[m])
               PROVE  pc'[waiters'[m][i]] = "queued" /\ entryOf'[waiters'[m][i]] = m
    OBVIOUS
  <2>1. PICK j \in 1..Len(waiters[m]) : waiters'[m][i] = waiters[m][j] /\ waiters[m][j] # g
    <3>1. CASE m = n
      BY <1>2, <1>5, <1>9, <3>1
    <3>2. CASE m # n
      <4>1. waiters[m][i] # g
        BY <1>5, <3>2 DEF LineInv, LockInv
      <4> QED
        BY <1>5, <3>2, <4>1
    <3> QED
      BY <3>1, <3>2
  <2>2. waiters[m][j] \in Guards /\ pc[waiters[m][j]] = "queued" /\ entryOf[waiters[m][j]] = m
    BY DEF LineInv, LocalType, LockInv
  <2> QED
    BY <1>1, <1>4, <2>1, <2>2
<1>12. \A h \in Guards : pc'[h] = "queued" => \E i \in 1..Len(waiters'[entryOf'[h]]) : waiters'[entryOf'[h]][i] = h
  <2> SUFFICES ASSUME NEW h \in Guards, pc'[h] = "queued"
               PROVE  \E i \in 1..Len(waiters'[entryOf'[h]]) : waiters'[entryOf'[h]][i] = h
    OBVIOUS
  <2>1. h # g /\ pc[h] = "queued" /\ entryOf'[h] = entryOf[h] /\ entryOf[h] \in Entries
    BY <1>1, <1>4, <1>6 DEF LineInv, LocalType, EntryInv
  <2>2. PICK l \in 1..Len(waiters[entryOf[h]]) : waiters[entryOf[h]][l] = h
    BY <2>1 DEF LineInv, LockInv
  <2>3. CASE entryOf[h] = n
    <3>1. l - 1 \in 1..Len(w) /\ l = (l - 1) + 1
      BY <1>1, <1>2, <2>1, <2>2, <2>3
    <3>2. w[l - 1] = h
      BY <1>2, <2>2, <2>3, <3>1
    <3> QED
      BY <1>5, <2>1, <2>3, <3>1, <3>2
  <2>4. CASE entryOf[h] # n
    BY <1>5, <2>1, <2>2, <2>4
  <2> QED
    BY <2>3, <2>4
<1>13. \A m \in Entries : holder'[m] # None => entryOf'[holder'[m]] = m /\ pc'[holder'[m]] \in Holding
  <2> SUFFICES ASSUME NEW m \in Entries, holder'[m] # None
               PROVE  entryOf'[holder'[m]] = m /\ pc'[holder'[m]] \in Holding
    OBVIOUS
  <2>1. CASE m = n
    BY <1>1, <1>5, <2>1
  <2>2. CASE m # n
    <3>1. holder'[m] = holder[m] /\ holder[m] \in Guards /\ entryOf[holder[m]] = m /\ pc[holder[m]] \in Holding
      BY <1>5, <2>2 DEF LineInv, LocalType, LockInv
    <3> QED
      BY <1>1, <1>4, <2>2, <3>1
  <2> QED
    BY <2>1, <2>2
<1>14. \A h \in Guards : pc'[h] \in Holding => holder'[entryOf'[h]] = h
  <2> SUFFICES ASSUME NEW h \in Guards, pc'[h] \in Holding PROVE holder'[entryOf'[h]] = h
    OBVIOUS
  <2>1. CASE h = g
    BY <1>1, <1>5, <2>1
  <2>2. CASE h # g
    <3>1. pc[h] \in Holding /\ holder[entryOf[h]] = h /\ entryOf[h] \in Entries
      BY <1>4, <2>2 DEF LineInv, LocalType, EntryInv, LockInv, Holding
    <3> QED
      BY <1>1, <1>5, <3>1, HomeAssumption
  <2> QED
    BY <2>1, <2>2
<1> QED
  BY <1>3, <1>7, <1>10, <1>11, <1>12, <1>13, <1>14 DEF LineInv, LockInv

\* A cancellation while the guard talks to the cache either gives the local lock
\* back or loses it.
LEMMA AwaitCancelled ==
    ASSUME LineInv, NEW g \in Guards, CancelAwait(g)
    PROVE  /\ pc[g] \in Holding
           /\ \/ pc[g] = "asking" /\ pc' = [pc EXCEPT ![g] = "idle"] /\ ReleaseLocal(g)
              \/ CancelInAwait /\ pc' = [pc EXCEPT ![g] = "lost"] /\ UNCHANGED localVars
BY DEF CancelAwait, Holding

\* Every step keeps entries, counts and lines in agreement.
LEMMA StepLine ==
    LineInv /\ [Next]_vars => LineInv'
<1> SUFFICES ASSUME LineInv, [Next]_vars PROVE LineInv'
  OBVIOUS
<1>1. ASSUME NEW g \in Guards, Link(g) PROVE LineInv'
  <2>1. pc[g] \in Holding /\ UNCHANGED localVars
    BY <1>1 DEF Link, Holding
  <2>2. PICK place \in Holding : pc' = [pc EXCEPT ![g] = place]
    BY <1>1 DEF Link, Holding
  <2> QED
    BY <2>1, <2>2, HeldOn
<1>2. ASSUME NEW g \in Guards, Ask(g) PROVE LineInv'
  <2>1. pc[g] \in Holding /\ pc' = [pc EXCEPT ![g] = "body"] /\ "body" \in Holding /\ UNCHANGED localVars
    BY <1>2 DEF Ask, Holding
  <2> QED
    BY <2>1, HeldOn
<1>3. ASSUME NEW g \in Guards, Finish(g) PROVE LineInv'
  <2>1. pc[g] \in Holding /\ "releasing" \in Holding
    BY <1>3 DEF Finish, Holding
  <2>2. \/ pc' = [pc EXCEPT ![g] = "releasing"] /\ UNCHANGED localVars
        \/ pc' = [pc EXCEPT ![g] = "idle"] /\ ReleaseLocal(g)
    BY <1>3 DEF Finish
  <2> QED
    BY <2>1, <2>2, HeldOn, HolderLeft
<1>4. ASSUME NEW g \in Guards, Release(g) PROVE LineInv'
  <2>1. pc[g] \in Holding /\ pc' = [pc EXCEPT ![g] = "idle"] /\ ReleaseLocal(g)
    BY <1>4 DEF Release, Holding
  <2> QED
    BY <2>1, HolderLeft
<1>5. ASSUME NEW g \in Guards, CancelAwait(g) PROVE LineInv'
  <2>1. "lost" \in Holding
    BY DEF Holding
  <2> QED
    BY <1>5, <2>1, AwaitCancelled, HeldOn, HolderLeft
<1>6. CASE UNCHANGED <<pc, localVars>>
  <2>1. \A n : UsersOf(n)' = UsersOf(n)
    BY <1>6 DEF UsersOf, localVars
  <2> QED
    BY <1>6, <2>1 DEF LineInv, LocalType, EntryInv, LockInv, localVars
<1>7. ASSUME NEW p \in Procs, BreakerLapses(p) \/ Trip(p) PROVE LineInv'
  BY <1>6, <1>7 DEF BreakerLapses, Trip
<1>8. CASE Lapse \/ CacheFails \/ CacheReturns
  BY <1>6, <1>8 DEF Lapse, CacheFails, CacheReturns
<1>9. CASE UNCHANGED vars
  BY <1>6, <1>9 DEF vars, localVars
<1> QED
  BY <1>1, <1>2, <1>3, <1>4, <1>5, <1>7, <1>8, <1>9, Entered, Woken, WaiterLeft DEF Next, Step, Cancel

\* So they always agree.
LEMMA LineInductive == Init /\ [][Next]_vars => []LineInv
BY InitLine, StepLine, PTL

\* The lock map and the lines in it are well formed and every count is that of
\* the guards that hold or wait (_enter_local, _leave_local).
THEOREM Typed == Spec => []TypeOK
<1>1. LineInv /\ RemoteInv => TypeOK
  BY UsersFinite DEF LineInv, LocalType, EntryInv, RemoteInv, TypeOK, Places
<1> QED
  BY <1>1, LineInductive, RemoteInductive, PTL DEF Spec

----------------------------------------------------------------------------
(* The lines of HerdQueue.                                                 *)

Line == [p \in Procs |-> LineOf(p)]
Working == {g \in Guards : pc[g] \in {"body", "releasing"}}

\* The holder is the first of its process's line, its waiters behind it.
LEMMA HolderFirst ==
    ASSUME LineInv, NEW g \in Guards, pc[g] \in Holding
    PROVE  /\ Home[g] \in Procs /\ entryOf[g] \in Entries /\ holder[entryOf[g]] = g /\ waiters[entryOf[g]] \in Seq(Guards)
           /\ LineOf(Home[g]) = <<g>> \o waiters[entryOf[g]]
           /\ Distinct(<<g>> \o waiters[entryOf[g]])
<1>1. /\ Home[g] \in Procs /\ entryOf[g] \in Entries /\ entryOf[g] # None /\ holder[entryOf[g]] = g
      /\ localMap[Home[g]] = entryOf[g]
  BY HomeAssumption DEF LineInv, LocalType, EntryInv, LockInv, Holding
<1> DEFINE w == waiters[entryOf[g]]
<1>2. w \in Seq(Guards) /\ \A i \in 1..Len(w) : w[i] # g
  BY <1>1 DEF LineInv, LocalType, LockInv, Holding
<1>3. Distinct(w)
  BY <1>1 DEF LineInv, LockInv
<1> HIDE DEF w
<1>4. Distinct(<<g>> \o w)
  <2> DEFINE s == <<g>> \o w
  <2>1. s \in Seq(Guards) /\ Len(s) = Len(w) + 1 /\ s[1] = g /\ \A k \in 2..Len(s) : s[k] = w[k - 1] /\ k - 1 \in 1..Len(w)
    BY <1>2
  <2> HIDE DEF s
  <2>2. \A i \in 1..Len(s) : i = 1 \/ i \in 2..Len(s)
    BY <2>1
  <2>3. \A i, j \in 2..Len(s) : s[i] = s[j] => i - 1 = j - 1
    BY <1>3, <2>1 DEF Distinct
  <2>4. \A i \in 2..Len(s) : s[i] # g
    BY <1>2, <2>1
  <2>5. Distinct(s)
    BY <2>1, <2>2, <2>3, <2>4 DEF Distinct
  <2> QED
    BY <2>5 DEF s
<1>5. LineOf(Home[g]) = <<g>> \o w
  BY <1>1, HomeAssumption DEF LineOf, w
<1> QED
  BY <1>1, <1>2, <1>4, <1>5 DEF w

\* Whoever is in a line counts in the entry, so a guard is in its own process's
\* line or in none.
LEMMA LineTyped ==
    ASSUME LineInv, NEW p \in Procs
    PROVE  /\ LineOf(p) \in Seq(Guards)
           /\ \A i \in 1..Len(LineOf(p)) : Home[LineOf(p)[i]] = p /\ pc[LineOf(p)[i]] # "idle"
<1>1. CASE localMap[p] = None
  BY <1>1 DEF LineOf
<1>2. CASE localMap[p] # None
  <2> DEFINE n == localMap[p]
             w == waiters[n]
  <2>1. n \in Entries /\ n # None /\ w \in Seq(Guards)
    BY <1>2 DEF LineInv, LocalType
  <2>2. \A h \in Guards : entryOf[h] = n => Home[h] = p /\ pc[h] # "idle"
    BY <1>2, <2>1 DEF LineInv, EntryInv
  <2>3. \A i \in 1..Len(w) : w[i] \in Guards /\ entryOf[w[i]] = n
    BY <2>1 DEF LineInv, LocalType, LockInv
  <2>4. holder[n] # None => holder[n] \in Guards /\ entryOf[holder[n]] = n
    BY <2>1 DEF LineInv, LocalType, LockInv
  <2>5. LineOf(p) = (IF holder[n] = None THEN <<>> ELSE <<holder[n]>>) \o w
    BY <1>2 DEF LineOf
  <2> HIDE DEF n, w
  <2>6. CASE holder[n] = None
    <3>1. LineOf(p) = w
      BY <2>1, <2>5, <2>6
    <3> QED
      BY <2>1, <2>2, <2>3, <3>1
  <2>7. CASE holder[n] # None
    <3> DEFINE s == <<holder[n]>> \o w
    <3>1. /\ s \in Seq(Guards) /\ s[1] = holder[n]
          /\ \A k \in 1..Len(s) : k = 1 \/ (s[k] = w[k - 1] /\ k - 1 \in 1..Len(w))
      BY <2>1, <2>4, <2>7
    <3>2. LineOf(p) = s
      BY <2>5, <2>7
    <3> HIDE DEF s
    <3> QED
      BY <2>2, <2>3, <2>4, <2>7, <3>1, <3>2
  <2> QED
    BY <2>6, <2>7
<1> QED
  BY <1>1, <1>2

\* A step on one entry is a step of its process's line only.
LEMMA LineMoves ==
    ASSUME LineInv, NEW g \in Guards, NEW n \in Entries, n = entryOf[g] \/ n = localMap'[Home[g]],
           \A p \in Procs : p # Home[g] => localMap'[p] = localMap[p] /\ localMap[p] # n,
           \A m \in Entries : m # n => holder'[m] = holder[m] /\ waiters'[m] = waiters[m]
    PROVE  Line' = [Line EXCEPT ![Home[g]] = LineOf(Home[g])']
<1>1. \A p \in Procs : p # Home[g] => LineOf(p)' = LineOf(p)
  <2> SUFFICES ASSUME NEW p \in Procs, p # Home[g] PROVE LineOf(p)' = LineOf(p)
    OBVIOUS
  <2>1. localMap'[p] = localMap[p] /\ localMap[p] # n
    OBVIOUS
  <2>2. CASE localMap[p] = None
    BY <2>1, <2>2 DEF LineOf
  <2>3. CASE localMap[p] # None
    <3>1. localMap[p] \in Entries
      BY <2>3 DEF LineInv, LocalType
    <3>2. holder'[localMap[p]] = holder[localMap[p]] /\ waiters'[localMap[p]] = waiters[localMap[p]]
      BY <2>1, <3>1
    <3> QED
      BY <2>1, <2>3, <3>2 DEF LineOf
  <2> QED
    BY <2>2, <2>3
<1>2. Home[g] \in Procs
  BY HomeAssumption
<1>3. Line' = [p \in Procs |-> LineOf(p)'] /\ Line = [p \in Procs |-> LineOf(p)]
  BY DEF Line
<1> QED
  BY <1>1, <1>2, <1>3

\* What counting a guard out does to the map: the entry goes when nobody else
\* is in the line.
LEMMA LeftMap ==
    ASSUME LineInv, NEW g \in Guards, NEW n \in Entries, n = entryOf[g], NEW lockHolder, LeaveLocal(g, n, lockHolder)
    PROVE  /\ localMap[Home[g]] = n
           /\ \A p \in Procs : p # Home[g] => localMap'[p] = localMap[p] /\ localMap[p] # n
           /\ \/ localMap'[Home[g]] = n
              \/ localMap'[Home[g]] = None /\ \A h \in Guards : entryOf[h] = n => h = g
<1>1. n # None /\ Home[g] \in Procs
  BY HomeAssumption, FS_CardinalityType DEF Entries
<1>2. localMap[Home[g]] = n
  BY <1>1 DEF LineInv, EntryInv
<1>3. \A p \in Procs : p # Home[g] => localMap'[p] = localMap[p] /\ localMap[p] # n
  <2>1. \A p \in Procs : p # Home[g] => localMap[p] # n
    BY <1>1 DEF LineInv, EntryInv
  <2>2. \A p \in Procs : p # Home[g] => localMap'[p] = localMap[p]
    BY DEF LineInv, LocalType, LeaveLocal
  <2> QED
    BY <2>1, <2>2
<1>4. localMap'[Home[g]] = IF users[n] = 1 THEN None ELSE n
  BY <1>1, <1>2 DEF LineInv, LocalType, LeaveLocal
<1>5. users[n] = 1 => \A h \in Guards : entryOf[h] = n => h = g
  <2> SUFFICES ASSUME users[n] = 1 PROVE \A h \in Guards : entryOf[h] = n => h = g
    OBVIOUS
  <2>1. Cardinality(UsersOf(n)) = 1 /\ IsFiniteSet(UsersOf(n))
    BY UsersFinite DEF LineInv, EntryInv
  <2>2. PICK x : UsersOf(n) = {x}
    BY <2>1, FS_Singleton
  <2> QED
    BY <2>2 DEF UsersOf
<1> QED
  BY <1>2, <1>3, <1>4, <1>5

\* The holder's leaving takes it, and nobody else, out of the line.
LEMMA HolderOut ==
    ASSUME LineInv, NEW g \in Guards, pc[g] \in Holding, ReleaseLocal(g)
    PROVE  Line' = [Line EXCEPT ![Home[g]] = RemoveFirst(LineOf(Home[g]), g)]
<1> DEFINE n == entryOf[g]
           w == waiters[n]
<1>1. /\ Home[g] \in Procs /\ n \in Entries /\ holder[n] = g /\ w \in Seq(Guards)
      /\ LineOf(Home[g]) = <<g>> \o w /\ Distinct(<<g>> \o w)
  BY HolderFirst
<1>2. holder' = [holder EXCEPT ![n] = None] /\ waiters' = waiters /\ LeaveLocal(g, n, None)
  BY DEF ReleaseLocal
<1>3. /\ localMap[Home[g]] = n
      /\ \A p \in Procs : p # Home[g] => localMap'[p] = localMap[p] /\ localMap[p] # n
      /\ \/ localMap'[Home[g]] = n
         \/ localMap'[Home[g]] = None /\ \A h \in Guards : entryOf[h] = n => h = g
  BY <1>1, <1>2, LeftMap
<1>4. RemoveFirst(LineOf(Home[g]), g) = w
  BY <1>1, RemovedFirst
<1>5. \A i \in 1..Len(w) : w[i] \in Guards /\ w[i] # g /\ entryOf[w[i]] = n
  BY <1>1 DEF LineInv, LocalType, LockInv, Holding
<1> HIDE DEF w, n
<1>6. LineOf(Home[g])' = w
  <2>1. CASE localMap'[Home[g]] = n
    <3>1. n # None /\ holder'[n] = None /\ waiters'[n] = w
      BY <1>1, <1>2, HomeAssumption, FS_CardinalityType DEF Entries, w, LineInv, LocalType
    <3>2. LineOf(Home[g])' = <<>> \o w
      BY <2>1, <3>1 DEF LineOf
    <3> QED
      BY <1>1, <3>2
  <2>2. CASE localMap'[Home[g]] = None /\ \A h \in Guards : entryOf[h] = n => h = g
    <3>1. Len(w) = 0
      BY <1>1, <1>5, <2>2
    <3> QED
      BY <1>1, <2>2, <3>1 DEF LineOf
  <2> QED
    BY <1>3, <2>1, <2>2
<1>7. \A m \in Entries : m # n => holder'[m] = holder[m] /\ waiters'[m] = waiters[m]
  BY <1>1, <1>2 DEF LineInv, LocalType
<1> QED
  BY <1>1, <1>3, <1>4, <1>6, <1>7, LineMoves DEF n

\* A queued guard is in its process's line, behind the holder if there is one.
LEMMA QueuedBehind ==
    ASSUME LineInv, NEW g \in Guards, pc[g] = "queued", NEW n, n = entryOf[g]
    PROVE  /\ Home[g] \in Procs /\ n \in Entries /\ n # None /\ localMap[Home[g]] = n
           /\ waiters[n] \in Seq(Guards) /\ Distinct(waiters[n]) /\ \E i \in 1..Len(waiters[n]) : waiters[n][i] = g
           /\ \A i \in 1..Len(waiters[n]) : entryOf[waiters[n][i]] = n
           /\ IF holder[n] = None THEN LineOf(Home[g]) = waiters[n]
              ELSE /\ holder[n] \in Guards /\ entryOf[holder[n]] = n /\ holder[n] # g
                   /\ LineOf(Home[g]) = <<holder[n]>> \o waiters[n] /\ Distinct(<<holder[n]>> \o waiters[n])
<1>1. /\ Home[g] \in Procs /\ n \in Entries /\ n # None /\ localMap[Home[g]] = n
      /\ waiters[n] \in Seq(Guards) /\ Distinct(waiters[n]) /\ \E i \in 1..Len(waiters[n]) : waiters[n][i] = g
      /\ \A i \in 1..Len(waiters[n]) : entryOf[waiters[n][i]] = n
  BY HomeAssumption DEF LineInv, LocalType, EntryInv, LockInv
<1>2. CASE holder[n] = None
  BY <1>1, <1>2 DEF LineOf
<1>3. CASE holder[n] # None
  <2> DEFINE h == holder[n]
  <2>1. h \in Guards /\ entryOf[h] = n /\ pc[h] \in Holding /\ h # g
    BY <1>1, <1>3 DEF LineInv, LocalType, LockInv, Holding
  <2>2. LineOf(Home[h]) = <<h>> \o waiters[n] /\ Distinct(<<h>> \o waiters[n])
    BY <2>1, HolderFirst
  <2>3. Home[h] = Home[g]
    BY <1>1, <2>1 DEF LineInv, EntryInv
  <2> QED
    BY <1>1, <1>3, <2>1, <2>2, <2>3
<1> QED
  BY <1>2, <1>3

\* So does a waiter's giving up.
LEMMA WaiterOut ==
    ASSUME LineInv, NEW g \in Guards, CancelQueued(g)
    PROVE  /\ Line' = [Line EXCEPT ![Home[g]] = RemoveFirst(LineOf(Home[g]), g)]
           /\ \E i \in 1..Len(LineOf(Home[g])) : LineOf(Home[g])[i] = g
<1> DEFINE n == entryOf[g]
           w == waiters[n]
           h == holder[n]
           r == RemoveFirst(w, g)
<1>1. pc[g] = "queued" /\ holder' = holder /\ waiters' = [waiters EXCEPT ![n] = r] /\ LeaveLocal(g, n, h)
  BY DEF CancelQueued
<1>2. /\ Home[g] \in Procs /\ n \in Entries /\ n # None /\ localMap[Home[g]] = n
      /\ w \in Seq(Guards) /\ Distinct(w)
      /\ \A i \in 1..Len(w) : entryOf[w[i]] = n
      /\ IF h = None THEN LineOf(Home[g]) = w
         ELSE h \in Guards /\ entryOf[h] = n /\ h # g /\ LineOf(Home[g]) = <<h>> \o w /\ Distinct(<<h>> \o w)
  BY <1>1, QueuedBehind
<1>3. PICK i \in 1..Len(w) : w[i] = g
  BY <1>1, QueuedBehind
<1>4. /\ \A p \in Procs : p # Home[g] => localMap'[p] = localMap[p] /\ localMap[p] # n
      /\ \/ localMap'[Home[g]] = n
         \/ localMap'[Home[g]] = None /\ \A k \in Guards : entryOf[k] = n => k = g
  BY <1>1, <1>2, LeftMap
<1>5. \A m \in Entries : m # n => holder'[m] = holder[m] /\ waiters'[m] = waiters[m]
  BY <1>1, <1>2 DEF LineInv, LocalType
<1>6. holder'[n] = h /\ waiters'[n] = r
  BY <1>1, <1>2 DEF LineInv, LocalType
<1>7. r \in Seq(Guards) /\ \A k \in 1..Len(r) : r[k] # g /\ \E l \in 1..Len(w) : r[k] = w[l]
  <2> HIDE DEF w
  <2> QED
    BY <1>2, <1>3, RemovedRest
<1> HIDE DEF w, n, h, r
<1>8. RemoveFirst(LineOf(Home[g]), g) = IF h = None THEN r ELSE <<h>> \o r
  <2>1. CASE h = None
    BY <1>2, <2>1 DEF r
  <2>2. CASE h # None
    <3>1. h \in Guards /\ w \in Seq(Guards) /\ Distinct(Ahead(h, w))
      BY <1>2, <2>2 DEF Ahead
    <3>2. RemoveFirst(Ahead(h, w), w[i]) = Ahead(h, RemoveFirst(w, w[i]))
      BY <3>1, RemovedBehind
    <3> QED
      BY <1>2, <1>3, <2>2, <3>2 DEF r, Ahead
  <2> QED
    BY <2>1, <2>2
<1>9. LineOf(Home[g])' = IF h = None THEN r ELSE <<h>> \o r
  <2>1. CASE localMap'[Home[g]] = n
    <3>1. LineOf(Home[g])' = (IF h = None THEN <<>> ELSE <<h>>) \o r
      BY <1>2, <1>6, <2>1 DEF LineOf
    <3> QED
      BY <1>7, <3>1
  <2>2. CASE localMap'[Home[g]] = None /\ \A k \in Guards : entryOf[k] = n => k = g
    <3>1. h = None
      BY <1>2, <2>2
    <3>2. r = <<>>
      <4>1. \A l \in 1..Len(w) : w[l] = g
        BY <1>2, <2>2
      <4>2. Len(r) = 0
        BY <1>7, <4>1
      <4> QED
        BY <1>7, <4>2
    <3> QED
      BY <2>2, <3>1, <3>2 DEF LineOf
  <2> QED
    BY <1>4, <2>1, <2>2
<1>10. Line' = [Line EXCEPT ![Home[g]] = RemoveFirst(LineOf(Home[g]), g)]
  BY <1>2, <1>4, <1>5, <1>8, <1>9, LineMoves DEF n
<1>11. \E k \in 1..Len(LineOf(Home[g])) : LineOf(Home[g])[k] = g
  <2>1. CASE h = None
    BY <1>2, <1>3, <2>1
  <2>2. CASE h # None
    <3>1. i + 1 \in 1..Len(<<h>> \o w) /\ (<<h>> \o w)[i + 1] = g
      BY <1>2, <1>3, <2>2
    <3> QED
      BY <1>2, <2>2, <3>1
  <2> QED
    BY <2>1, <2>2
<1> QED
  BY <1>10, <1>11

\* Waking moves nobody: the first waiter was the first of the line.
LEMMA WokenLine ==
    ASSUME LineInv, NEW g \in Guards, Wake(g)
    PROVE  Line' = Line /\ LineOf(Home[g]) # <<>> /\ LineOf(Home[g])[1] = g /\ Home[g] \in Procs
<1> DEFINE n == entryOf[g]
           w == waiters[n]
<1>1. /\ n \in Entries /\ n # None /\ holder[n] = None /\ pc[g] = "queued"
      /\ w \in Seq(Guards) /\ Len(w) > 0 /\ w[1] = g
      /\ holder' = [holder EXCEPT ![n] = g] /\ waiters' = [waiters EXCEPT ![n] = Tail(w)]
      /\ UNCHANGED <<localMap, users, entryOf>>
  BY WokenFirst
<1>2. Home[g] \in Procs /\ localMap[Home[g]] = n /\ LineOf(Home[g]) = w
  BY <1>1, QueuedBehind
<1> HIDE DEF n, w
<1>3. <<g>> \o Tail(w) = w
  BY <1>1
<1>4. LineOf(Home[g])' = w
  <2>1. localMap'[Home[g]] = n /\ holder'[n] = g /\ waiters'[n] = Tail(w) /\ g # None
    BY <1>1, <1>2, HomeAssumption DEF LineInv, LocalType
  <2> QED
    BY <1>1, <1>3, <2>1 DEF LineOf
<1>5. \A m \in Entries : m # n => holder'[m] = holder[m] /\ waiters'[m] = waiters[m]
  BY <1>1 DEF LineInv, LocalType
<1>6. \A p \in Procs : p # Home[g] => localMap'[p] = localMap[p] /\ localMap[p] # n
  BY <1>1, <1>2 DEF LineInv, EntryInv
<1>7. Line' = [Line EXCEPT ![Home[g]] = w]
  BY <1>1, <1>4, <1>5, <1>6, LineMoves DEF n
<1>8. Line' = Line
  BY <1>2, <1>7 DEF Line
<1>9. w # <<>>
  BY <1>1
<1> QED
  BY <1>1, <1>2, <1>8, <1>9

\* Whoever comes joins at the end, and is first when nobody was there.
LEMMA EnteredLine ==
    ASSUME LineInv, NEW g \in Guards, Enter(g)
    PROVE  /\ Line' = [Line EXCEPT ![Home[g]] = Append(LineOf(Home[g]), g)]
           /\ pc[g] = "idle"
           /\ pc'[g] # "releasing"
           /\ pc'[g] = "body" => LineOf(Home[g]) = <<>>
           /\ \A h \in Guards : h # g => pc'[h] = pc[h]
<1> DEFINE n == EnterLocal(g)
           w == waiters[n]
<1>1. /\ n \in Entries /\ entryOf[g] = None /\ localMap'[Home[g]] = n
      /\ localMap[Home[g]] = None => holder[n] = None /\ w = <<>>
      /\ \A h \in Guards : h # g => pc'[h] = pc[h]
      /\ \A p \in Procs : p # Home[g] => localMap'[p] = localMap[p] /\ localMap[p] # n
  BY EnteredEntry
<1>2. \/ /\ holder[n] = None /\ w = <<>> /\ pc'[g] = AfterLock(g)
         /\ holder' = [holder EXCEPT ![n] = g] /\ waiters' = waiters
      \/ /\ ~(holder[n] = None /\ w = <<>>) /\ pc'[g] = "queued" /\ localMap[Home[g]] = n
         /\ holder' = holder /\ waiters' = [waiters EXCEPT ![n] = Append(w, g)]
  BY EnteredLock
<1>3. pc[g] = "idle" /\ n # None /\ g # None
  BY <1>1, HomeAssumption, FS_CardinalityType DEF LineInv, EntryInv, Entries
<1>4. localMap[Home[g]] # None => localMap[Home[g]] = n
  BY DEF EnterLocal
<1>5. w \in Seq(Guards)
  BY <1>1 DEF LineInv, LocalType
<1> HIDE DEF n, w
<1>6. \A m \in Entries : m # n => holder'[m] = holder[m] /\ waiters'[m] = waiters[m]
  BY <1>1, <1>2 DEF LineInv, LocalType
<1>7. CASE /\ holder[n] = None /\ w = <<>> /\ pc'[g] = AfterLock(g)
           /\ holder' = [holder EXCEPT ![n] = g] /\ waiters' = waiters
  <2>1. LineOf(Home[g]) = <<>>
    BY <1>4, <1>7 DEF LineOf, w
  <2>2. holder'[n] = g /\ waiters'[n] = <<>>
    BY <1>1, <1>7 DEF LineInv, LocalType, w
  <2>3. LineOf(Home[g])' = <<g>> \o <<>>
    BY <1>1, <1>3, <2>2 DEF LineOf
  <2>4. LineOf(Home[g])' = Append(LineOf(Home[g]), g)
    BY <2>1, <2>3
  <2>5. pc'[g] # "releasing"
    BY <1>7 DEF AfterLock
  <2> QED
    BY <1>1, <1>3, <1>6, <2>1, <2>4, <2>5, LineMoves
<1>8. CASE /\ ~(holder[n] = None /\ w = <<>>) /\ pc'[g] = "queued" /\ localMap[Home[g]] = n
           /\ holder' = holder /\ waiters' = [waiters EXCEPT ![n] = Append(w, g)]
  <2>1. waiters'[n] = Append(w, g) /\ holder'[n] = holder[n]
    BY <1>1, <1>8 DEF LineInv, LocalType
  <2> DEFINE first == IF holder[n] = None THEN <<>> ELSE <<holder[n]>>
  <2>2. LineOf(Home[g]) = first \o w
    BY <1>3, <1>8 DEF LineOf, w
  <2>3. LineOf(Home[g])' = first \o Append(w, g)
    BY <1>1, <1>3, <2>1 DEF LineOf
  <2>4. first \in Seq(Guards)
    BY <1>1 DEF LineInv, LocalType
  <2> HIDE DEF first
  <2>5. LineOf(Home[g])' = Append(LineOf(Home[g]), g)
    BY <1>5, <2>2, <2>3, <2>4
  <2> QED
    BY <1>1, <1>3, <1>6, <1>8, <2>5, LineMoves
<1> QED
  BY <1>2, <1>7, <1>8

----------------------------------------------------------------------------
(* Every step is one of HerdQueue's, or none.                              *)

QueueStep == [Queue!Next]_(Queue!vars)

\* The queue's removal is the lock's.
LEMMA SameRemoval == \A s, e : Queue!RemoveFirst(s, e) = RemoveFirst(s, e)
BY DEF Queue!RemoveFirst, Queue!SelectInSeq, Queue!RemoveAt, Queue!Min, RemoveFirst, SelectInSeq, RemoveAt, Min

\* A step that moves nobody and starts or ends no body is none of the queue's.
LEMMA StaysInLine ==
    ASSUME Line' = Line, Working' = Working
    PROVE  QueueStep
<1>1. UNCHANGED Queue!vars
  BY DEF Queue!vars, Line, Working
<1> QED
  BY <1>1 DEF QueueStep

\* A guard that moves on behind the lock is the first of its line: its body
\* starts, or it goes on talking to the cache.
LEMMA FirstMovesOn ==
    ASSUME LineInv, NEW g \in Guards, Line' = Line, LineOf(Home[g]) # <<>>, LineOf(Home[g])[1] = g,
           pc[g] \notin {"body", "releasing"}, NEW place, pc' = [pc EXCEPT ![g] = place]
    PROVE  QueueStep
<1>1. Home[g] \in Procs /\ pc \in [Guards -> Places]
  BY HomeAssumption DEF LineInv, LocalType
<1>2. CASE place \in {"body", "releasing"}
  <2>1. Working' = Working \cup {g} /\ g \notin Working
    BY <1>1, <1>2 DEF Working
  <2>2. Queue!First(g)
    BY <1>1, LineTyped DEF Queue!First
  <2>3. Queue!Start(g)
    BY <2>1, <2>2 DEF Queue!Start, Line, Working
  <2> QED
    BY <2>3 DEF QueueStep, Queue!Next
<1>3. CASE place \notin {"body", "releasing"}
  <2>1. Working' = Working
    BY <1>1, <1>3 DEF Working
  <2> QED
    BY <2>1, StaysInLine
<1> QED
  BY <1>2, <1>3

\* A guard that leaves the line has finished its body or gives up.
LEMMA LeavesLine ==
    ASSUME LineInv, NEW g \in Guards, pc' = [pc EXCEPT ![g] = "idle"],
           Line' = [Line EXCEPT ![Home[g]] = RemoveFirst(LineOf(Home[g]), g)],
           \E i \in 1..Len(LineOf(Home[g])) : LineOf(Home[g])[i] = g
    PROVE  QueueStep
<1>1. Home[g] \in Procs /\ pc \in [Guards -> Places] /\ LineOf(Home[g]) \in Seq(Guards)
  BY HomeAssumption, LineTyped DEF LineInv, LocalType
<1>2. Line' = [Line EXCEPT ![Home[g]] = RemoveFirst(@, g)]
  BY <1>1 DEF Line
<1>3. Working' = Working \ {g}
  BY <1>1 DEF Working
<1>4. CASE g \in Working
  <2>1. Queue!Finish(g)
    BY <1>2, <1>3, <1>4, SameRemoval DEF Queue!Finish, Queue!Out, Line, Working
  <2> QED
    BY <2>1 DEF QueueStep, Queue!Next
<1>5. CASE g \notin Working
  <2>1. Working' = Working
    BY <1>3, <1>5
  <2>2. Queue!InLine(g)
    BY <1>1 DEF Queue!InLine
  <2>3. Queue!Abandon(g)
    BY <1>2, <1>5, <2>1, <2>2, SameRemoval DEF Queue!Abandon, Queue!Out, Line, Working
  <2> QED
    BY <2>3 DEF QueueStep, Queue!Next
<1> QED
  BY <1>4, <1>5

\* Enter is the queue's Join.
LEMMA EnterJoins ==
    ASSUME LineInv, NEW g \in Guards, Enter(g)
    PROVE  QueueStep
<1>1. Home[g] \in Procs /\ pc \in [Guards -> Places] /\ LineOf(Home[g]) \in Seq(Guards)
  BY HomeAssumption, LineTyped DEF LineInv, LocalType
<1>2. /\ Line' = [Line EXCEPT ![Home[g]] = Append(LineOf(Home[g]), g)]
      /\ pc[g] = "idle" /\ pc'[g] # "releasing"
      /\ pc'[g] = "body" => LineOf(Home[g]) = <<>>
      /\ \A h \in Guards : h # g => pc'[h] = pc[h]
  BY EnteredLine
<1>3. Line' = [Line EXCEPT ![Home[g]] = Append(@, g)]
  BY <1>1, <1>2 DEF Line
<1>4. ~Queue!InLine(g)
  <2>1. \A i \in 1..Len(LineOf(Home[g])) : LineOf(Home[g])[i] # g
    BY <1>1, <1>2, LineTyped
  <2>2. DOMAIN LineOf(Home[g]) = 1..Len(LineOf(Home[g]))
    BY <1>1
  <2> QED
    BY <1>1, <2>1, <2>2 DEF Queue!InLine
<1>5. IF pc'[g] = "body" THEN Working' = Working \cup {g} ELSE Working' = Working
  BY <1>2 DEF Working
<1>6. Line[Home[g]] = LineOf(Home[g])
  BY <1>1 DEF Line
<1>7. Working' \in {Working} \cup (IF Line[Home[g]] = <<>> THEN {Working \cup {g}} ELSE {})
  BY <1>2, <1>5, <1>6
<1>8. Queue!Join(g)
  BY <1>3, <1>4, <1>7 DEF Queue!Join, Line, Working
<1> QED
  BY <1>8 DEF QueueStep, Queue!Next

\* The holder is in its line, at its head.
LEMMA HolderInLine ==
    ASSUME LineInv, NEW g \in Guards, pc[g] \in Holding
    PROVE  /\ LineOf(Home[g]) # <<>> /\ LineOf(Home[g])[1] = g
           /\ \E i \in 1..Len(LineOf(Home[g])) : LineOf(Home[g])[i] = g
<1> DEFINE w == waiters[entryOf[g]]
<1>1. w \in Seq(Guards) /\ LineOf(Home[g]) = <<g>> \o w
  BY HolderFirst
<1> HIDE DEF w
<1>2. <<g>> \o w # <<>> /\ (<<g>> \o w)[1] = g /\ 1 \in 1..Len(<<g>> \o w)
  BY <1>1
<1> QED
  BY <1>1, <1>2

\* Every step is one of the abstract queue's, or none of its business.
LEMMA StepQueue ==
    ASSUME ~CancelInAwait, LineInv, [Next]_vars
    PROVE  QueueStep
<1>1. CASE UNCHANGED <<localMap, holder, waiters>> /\ UNCHANGED pc
  BY <1>1, StaysInLine DEF Line, LineOf, Working
<1>2. ASSUME UNCHANGED localVars PROVE Line' = Line
  BY <1>2 DEF Line, LineOf, localVars
<1>3. ASSUME NEW g \in Guards, Wake(g) PROVE QueueStep
  <2>1. pc' = [pc EXCEPT ![g] = AfterLock(g)] /\ pc[g] = "queued"
    BY <1>3 DEF Wake
  <2> QED
    BY <1>3, <2>1, WokenLine, FirstMovesOn
<1>4. ASSUME NEW g \in Guards, Link(g) \/ Ask(g) PROVE QueueStep
  <2>1. /\ pc[g] \in {"linking", "asking"} /\ UNCHANGED localVars
        /\ \E place : pc' = [pc EXCEPT ![g] = place]
    BY <1>4 DEF Link, Ask
  <2>2. pc[g] \in Holding
    BY <2>1 DEF Holding
  <2> QED
    BY <1>2, <2>1, <2>2, HolderInLine, FirstMovesOn
<1>5. ASSUME NEW g \in Guards, pc[g] \in Holding, ReleaseLocal(g), pc' = [pc EXCEPT ![g] = "idle"] PROVE QueueStep
  BY <1>5, HolderOut, HolderInLine, LeavesLine
<1>6. ASSUME NEW g \in Guards, Finish(g) PROVE QueueStep
  <2>1. pc[g] = "body" /\ pc[g] \in Holding
    BY <1>6 DEF Finish, Holding
  <2>2. CASE pc' = [pc EXCEPT ![g] = "releasing"] /\ UNCHANGED localVars
    <3>1. Working' = Working
      BY <2>1, <2>2 DEF Working, LineInv, LocalType
    <3> QED
      BY <1>2, <2>2, <3>1, StaysInLine
  <2>3. CASE pc' = [pc EXCEPT ![g] = "idle"] /\ ReleaseLocal(g)
    BY <1>5, <2>1, <2>3
  <2> QED
    BY <1>6, <2>2, <2>3 DEF Finish
<1>7. ASSUME NEW g \in Guards, Release(g) PROVE QueueStep
  BY <1>5, <1>7 DEF Release, Holding
<1>8. ASSUME NEW g \in Guards, CancelAwait(g) PROVE QueueStep
  BY <1>5, <1>8, AwaitCancelled
<1>9. ASSUME NEW g \in Guards, CancelQueued(g) PROVE QueueStep
  <2>1. pc' = [pc EXCEPT ![g] = "idle"]
    BY <1>9 DEF CancelQueued
  <2> QED
    BY <1>9, <2>1, WaiterOut, LeavesLine
<1>10. ASSUME NEW p \in Procs, BreakerLapses(p) \/ Trip(p) PROVE QueueStep
  BY <1>1, <1>10 DEF BreakerLapses, Trip, localVars
<1>11. CASE Lapse \/ CacheFails \/ CacheReturns
  BY <1>1, <1>11 DEF Lapse, CacheFails, CacheReturns, localVars
<1>12. CASE UNCHANGED vars
  BY <1>1, <1>12 DEF vars
<1> QED
  BY <1>3, <1>4, <1>6, <1>7, <1>8, <1>9, <1>10, <1>11, <1>12, EnterJoins DEF Next, Step, Cancel

\* herd_guard's lock map, with its entries dropped and made again, its woken
\* waiters and its cancellations, takes no step that the one line of each
\* process does not take: the safety part of OneLine.
THEOREM KeepsOneLine ==
    ASSUME ~CancelInAwait
    PROVE  Spec => Queue!Init /\ [][Queue!Next]_(Queue!vars)
<1>1. Init => Queue!Init
  BY DEF Init, Queue!Init, LineOf
<1>2. LineInv /\ [Next]_vars => [Queue!Next]_(Queue!vars)
  BY StepQueue DEF QueueStep
<1> QED
  BY <1>1, <1>2, LineInductive, PTL DEF Spec

\* A process with no request for the key keeps no entry for it (_leave_local).
THEOREM EntryDropped == Spec => []NoIdleEntry
<1>1. LineInv => NoIdleEntry
  BY HomeAssumption DEF LineInv, EntryInv, LocalType, NoIdleEntry
<1> QED
  BY <1>1, LineInductive, PTL DEF Spec
=============================================================================
