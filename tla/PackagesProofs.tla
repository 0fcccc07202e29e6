--------------------------- MODULE PackagesProofs ---------------------------
(***************************************************************************)
(* What Packages guarantees for any upstreams in any tiers, any number of  *)
(* requests, publishers and edits: no name is shadowed by a lower tier,    *)
(* what is published stays, what is withdrawn stays out, and validators    *)
(* and deletions leave nothing behind.                                     *)
(***************************************************************************)
EXTENDS Packages, WellFoundedInduction, TLAPS

----------------------------------------------------------------------------
(* The invariant.                                                          *)

Typing ==
    /\ TypeOK
    /\ has \in [Upstreams -> SUBSET Versions] /\ held \subseteq Upstreams /\ published \subseteq Versions
    /\ DOMAIN req = Requests
    /\ \A r \in Requests : req[r].pc = "ask" => req[r].val \in Validators

\* An answer under way: every version has a source, the validators are those of
\* the document, and nothing in it comes from below an upstream that had the
\* name all along.
Sourced(o) ==
    /\ DOMAIN o.doc \subseteq Versions /\ \A v \in DOMAIN o.doc : o.doc[v] \in Upstreams
    /\ o.val \in Validators
    /\ o.val # None => \A v \in o.val.snap : v \in DOMAIN o.doc /\ o.doc[v] = o.val.up
NotBelow(o) == \A u \in held : Alone(u) => \A v \in DOMAIN o.doc : Tier[o.doc[v]] <= Tier[u]
Answered(r) == req[r].pc = "apply" /\ req[r].out.kind = "answer"
Pending == \A r \in Requests : Answered(r) => Sourced(req[r].out) /\ NotBelow(req[r].out)

\* An upstream that had the name all along has it and may answer for it.
HeldInv ==
    /\ \A u \in held : has[u] # {} /\ u \in ClaimantsFor(ups, Enabled(ups))
    /\ admin # None /\ admin.op = "delete" => held = {}

\* Where such an upstream is, no publish of a new name is under way.
PublicInv ==
    (~Reserved /\ \E u \in held : Alone(u)) => (pkg = None \/ ~pkg.local) /\ \A p \in Publishers : pub[p] = None

\* While an upstream is being deleted, its rows are among those picked to go,
\* and nothing else is that would be missed.
Doomed ==
    admin # None /\ admin.op = "delete" =>
        /\ \A v \in Versions : row[v] = admin.up => v \in admin.doomed
        /\ \A v \in admin.doomed : row[v] \in {admin.up, Local, None}

\* The validators' versions are held from the upstream that issued them, unless
\* one was published over or withdrawn here.
Confirmed ==
    (pkg # None /\ pkg.etag # None) =>
        \A v \in pkg.etag.snap : row[v] \in {pkg.etag.up, Local} \/ v \in retired

\* One publish at a time: the version on its way was not published before.
Fresh ==
    \A p \in Publishers : pub[p] # None =>
        /\ pub[p].new => ~pub[p].extra
        /\ ~pub[p].extra => pub[p].version \notin published

----------------------------------------------------------------------------
(* The walk of the tiers.                                                  *)

\* Priorities and tiers are numbers, and among some there is a least.
LEMMA LeastNatural ==
    ASSUME NEW T, T \subseteq Nat, T # {}
    PROVE  \E n \in T : \A m \in T : n <= m
<1>1. PICK n \in T : \A m \in T : ~(<<m, n>> \in OpToRel(<, Nat))
  BY NatLessThanWellFounded, WFMin
<1>2. \A m \in T : ~(m < n)
  BY <1>1 DEF OpToRel
<1> QED
  BY <1>2

\* Min, as the walk uses it to find the first tier that ends it.
LEMMA LeastTier ==
    ASSUME NEW T, T \subseteq Nat, T # {}
    PROVE  Min(T) \in T /\ \A m \in T : Min(T) <= m
BY LeastNatural DEF Min

\* One of a group comes first in rank.
LEMMA FirstOf ==
    ASSUME NEW S, S \subseteq Upstreams, S # {}
    PROVE  \E u \in S : \A w \in S : Rank[u] <= Rank[w]
<1> DEFINE T == {Rank[u] : u \in S}
<1>1. T \subseteq Nat /\ T # {}
  BY ResolverAssumption
<1>2. PICK n \in T : \A m \in T : n <= m
  BY <1>1, LeastNatural
<1> QED
  BY <1>2

\* A tier whose only member had the name all along ends the walk (resolve,
\* TierUnavailable).
LEMMA HeldTierEnds ==
    ASSUME NEW u \in Upstreams, Alone(u), u \in ClaimantsFor(ups, Enabled(ups)),
           NEW broken, NEW found, u \in broken \/ u \in found
    PROVE  TierOutcome(ups, Tier[u], broken, found) # "miss"
<1>1. u \in Group(ups, Tier[u])
  BY DEF Group
<1>2. CASE u \in Candidates(ups, Tier[u])
  BY <1>2 DEF TierOutcome
<1>3. CASE u \notin Candidates(ups, Tier[u])
  <2>1. \A w \in Candidates(ups, Tier[u]) : w \in Upstreams /\ Tier[w] = Tier[u]
    BY DEF Candidates, Group, ClaimantsFor, Enabled
  <2>2. Candidates(ups, Tier[u]) = {}
    BY <1>3, <2>1 DEF Alone
  <2> QED
    BY <1>1, <2>2 DEF TierOutcome
<1> QED
  BY <1>2, <1>3

\* Where a walk ends: at a tier that did not say no, and at none below one of
\* an upstream that had the name all along.
LEMMA WalkEnds ==
    ASSUME NEW broken, NEW found, NEW t, t = EndsAt(ups, broken, found)
    PROVE  /\ t # None => t \in Tiers /\ t \in Nat /\ TierOutcome(ups, t, broken, found) # "miss"
           /\ \A u \in Upstreams :
                 TierOutcome(ups, Tier[u], broken, found) # "miss" => t # None /\ t <= Tier[u]
<1> DEFINE ends == {s \in Tiers : TierOutcome(ups, s, broken, found) # "miss"}
<1>1. Tiers \subseteq Nat
  BY ResolverAssumption DEF Tiers
<1>2. CASE ends = {}
  <2>1. t = None
    BY <1>2 DEF EndsAt
  <2> QED
    BY <1>2, <2>1 DEF Tiers
<1>3. CASE ends # {}
  <2>1. t = Min(ends) /\ ends \subseteq Nat
    BY <1>1, <1>3 DEF EndsAt
  <2>2. Min(ends) \in ends /\ \A s \in ends : Min(ends) <= s
    BY <1>3, <2>1, LeastTier
  <2>3. t \in Nat /\ t # None
    BY <2>1, <2>2, RowAssumption
  <2>4. \A u \in Upstreams : Tier[u] \in Tiers
    BY DEF Tiers
  <2> QED
    BY <1>3, <2>1, <2>2, <2>3, <2>4
<1> QED
  BY <1>2, <1>3

\* The merge of a tier's documents takes every version from one of them.
LEMMA MergeSourced ==
    ASSUME NEW ans, ans \subseteq Upstreams, NEW v, v \in DOMAIN Merge(ans, has)
    PROVE  Merge(ans, has)[v] \in ans /\ v \in has[Merge(ans, has)[v]]
<1> DEFINE S == {u \in ans : v \in has[u]}
<1>1. v \in UNION {has[u] : u \in ans}
  BY DEF Merge
<1>2. S # {} /\ S \subseteq Upstreams
  BY <1>1
<1>3. PICK u \in S : \A w \in S : Rank[u] <= Rank[w]
  BY <1>2, FirstOf
<1>4. \E x \in ans : v \in has[x] /\ \A w \in ans : v \in has[w] => Rank[x] <= Rank[w]
  BY <1>3
<1>5. Merge(ans, has)[v] = CHOOSE x \in ans : v \in has[x] /\ \A w \in ans : v \in has[w] => Rank[x] <= Rank[w]
  BY <1>1 DEF Merge
<1> QED
  BY <1>4, <1>5

\* One upstream's answer is its document, with its validators or unmodified.
LEMMA AnswerSourced ==
    ASSUME Typing, NEW u \in Upstreams, NEW t, NEW val, NEW cand, NEW o, o = Answer(u, t, val, cand),
           \A w \in held : Alone(w) => Tier[u] <= Tier[w]
    PROVE  o.kind # "none" /\ (o.kind = "answer" => Sourced(o) /\ NotBelow(o))
<1>1. CASE Unmodified(u, val, cand)
  BY <1>1 DEF Answer
<1>2. CASE ~Unmodified(u, val, cand)
  <2>1. /\ o.kind = "answer" /\ o.doc = [v \in has[u] |-> u]
        /\ o.val = [up |-> u, snap |-> has[u]]
    BY <1>2 DEF Answer, Sole
  <2>2. has[u] \in SUBSET Versions
    BY DEF Typing
  <2>3. o.val \in Validators
    BY <2>1, <2>2 DEF Validators
  <2>4. o.val.snap = has[u] /\ o.val.up = u
    BY <2>1
  <2> QED
    BY <2>1, <2>2, <2>3, <2>4 DEF Sourced, NotBelow
<1> QED
  BY <1>1, <1>2

\* What a walk comes out with: an answer names a source for every version,
\* none of them below an upstream that had the name all along, and where there
\* is such an upstream it never comes out with "not found".
LEMMA WalkResult ==
    ASSUME Typing, HeldInv, NEW val, NEW broken, NEW blank, broken \subseteq Upstreams, NEW x \in Walk(val, broken, blank)
    PROVE  /\ x.out.kind = "answer" => Sourced(x.out) /\ NotBelow(x.out)
           /\ x.out.kind = "none" => ~\E u \in held : Alone(u)
<1> DEFINE found == {u \in Upstreams \ broken : HasAnswer(u, blank)}
           t == EndsAt(ups, broken, found)
           cand == Candidates(ups, t)
           ans == cand \cap found
           first == CHOOSE u \in ans : \A w \in ans : Rank[u] <= Rank[w]
           above == AskedAbove(ups, t)
<1>1. \A u \in held : u \in Upstreams /\ u \in ClaimantsFor(ups, Enabled(ups)) /\ (u \in broken \/ u \in found)
  BY DEF Typing, HeldInv, HasAnswer
<1>2. \A u \in held : Alone(u) => t # None /\ t <= Tier[u]
  BY <1>1, HeldTierEnds, WalkEnds
<1>3. t # None => t \in Nat /\ TierOutcome(ups, t, broken, found) # "miss"
  BY WalkEnds
<1>4. \A u \in cand : u \in Upstreams /\ Tier[u] = t
  BY DEF Candidates, Group, ClaimantsFor, Enabled
<1>5. CASE t = None
  <2>1. x.out = [kind |-> "none"]
    BY <1>5 DEF Walk
  <2> QED
    BY <1>2, <1>5, <2>1
<1>6. CASE t # None /\ TierOutcome(ups, t, broken, found) = "unavailable"
  <2>1. x.out = [kind |-> "unavailable"]
    BY <1>6 DEF Walk
  <2> QED
    BY <2>1
<1>7. CASE t # None /\ TierOutcome(ups, t, broken, found) # "unavailable"
  <2>1. ans # {} /\ ans \subseteq Upstreams
    BY <1>3, <1>4, <1>7 DEF TierOutcome
  <2>2. first \in ans
    <3> HIDE DEF ans
    <3>1. \E u \in ans : \A w \in ans : Rank[u] <= Rank[w]
      BY <2>1, FirstOf
    <3> QED
      BY <3>1
  <2>3. \A u \in ans, w \in held : Alone(w) => Tier[u] <= Tier[w]
    BY <1>2, <1>4
  <2>4. CASE Merges /\ Cardinality(ans) > 1
    <3>1. /\ x.out.kind = "answer" /\ x.out.doc = Merge(ans, has) /\ x.out.val = None
      BY <1>7, <2>4 DEF Walk
    <3>2. \A v \in DOMAIN Merge(ans, has) : Merge(ans, has)[v] \in ans /\ v \in has[Merge(ans, has)[v]]
      BY <2>1, MergeSourced
    <3>3. DOMAIN Merge(ans, has) \subseteq Versions
      BY <2>1, <3>2 DEF Typing
    <3> HIDE DEF ans
    <3> QED
      BY <2>1, <2>3, <3>1, <3>2, <3>3 DEF Sourced, NotBelow, Validators
  <2>5. CASE ~(Merges /\ Cardinality(ans) > 1)
    <3>1. \E u \in ans : x.out = Answer(u, t, val, cand)
      <4>1. CASE Merges
        <5>1. x \in {[out |-> Answer(first, t, val, cand), asked |-> above \cup cand]}
          BY <1>7, <2>5, <4>1 DEF Walk
        <5> HIDE DEF ans, cand, t, above, first
        <5>2. x.out = Answer(first, t, val, cand)
          BY <5>1
        <5> QED
          BY <2>2, <5>2
      <4>2. CASE ~Merges
        <5>1. x \in {[out |-> Answer(u, t, val, cand), asked |-> above \cup {u} \cup others] :
                        u \in ans, others \in SUBSET (cand \ ans)}
          BY <1>7, <4>2 DEF Walk
        <5> HIDE DEF ans, cand, t, above
        <5> QED
          BY <5>1
      <4> QED
        BY <4>1, <4>2
    <3> HIDE DEF ans, cand, t
    <3> QED
      BY <2>1, <2>3, <3>1, AnswerSourced
  <2> QED
    BY <2>4, <2>5
<1> QED
  BY <1>5, <1>6, <1>7

----------------------------------------------------------------------------
(* The steps.                                                              *)

\* Only the health of the upstreams changes.
Alike ==
    /\ ups' \in [Upstreams -> UpstreamRow]
    /\ \A u \in Upstreams : ups'[u].status = ups[u].status /\ ups'[u].claims = ups[u].claims

\* _mark_failure and _mark_healthy leave what an upstream is.
LEMMA MarksKeep ==
    ASSUME NEW r \in UpstreamRow, NEW m, m \in {MarkFailure(r), MarkHealthy(r), AfterProbeInterval(r)}
    PROVE  m \in UpstreamRow /\ m.status = r.status /\ m.claims = r.claims
BY ResolverAssumption DEF MarkFailure, MarkHealthy, AfterProbeInterval, UpstreamRow

\* A probe or a test of one upstream changes its health only.
LEMMA OneMarked ==
    ASSUME Typing, NEW u \in Upstreams, NEW m, m \in {MarkFailure(ups[u]), MarkHealthy(ups[u]), AfterProbeInterval(ups[u])},
           ups' = [ups EXCEPT ![u] = m]
    PROVE  Alike
<1>1. ups \in [Upstreams -> UpstreamRow]
  BY DEF Typing, TypeOK
<1>2. m \in UpstreamRow /\ m.status = ups[u].status /\ m.claims = ups[u].claims
  BY <1>1, MarksKeep
<1> QED
  BY <1>1, <1>2 DEF Alike

\* So does a whole walk (resolve).
LEMMA CheckedAlike ==
    ASSUME Typing, NEW asked, NEW broken, ups' = Checked(asked, broken)
    PROVE  Alike
<1>1. ups \in [Upstreams -> UpstreamRow]
  BY DEF Typing, TypeOK
<1>2. ASSUME NEW u \in Upstreams
      PROVE  ups'[u] \in UpstreamRow /\ ups'[u].status = ups[u].status /\ ups'[u].claims = ups[u].claims
  <2>1. ups'[u] \in {ups[u], MarkFailure(ups[u]), MarkHealthy(ups[u])}
    BY DEF Checked
  <2>2. ups[u] \in UpstreamRow
    BY <1>1
  <2> QED
    BY <2>1, <2>2, MarksKeep
<1>3. ups' = [u \in Upstreams |-> ups'[u]]
  BY DEF Checked
<1> QED
  BY <1>2, <1>3 DEF Alike

\* Who may answer for the name does not depend on anyone's health.
LEMMA AlikeClaimants ==
    ASSUME Alike
    PROVE  ClaimantsFor(ups, Enabled(ups))' = ClaimantsFor(ups, Enabled(ups))
<1>1. Enabled(ups)' = Enabled(ups)
  BY DEF Enabled, Alike
<1>2. \A u \in Enabled(ups) : u \in Upstreams
  BY DEF Enabled
<1> HIDE DEF Enabled
<1> QED
  BY <1>1, <1>2 DEF ClaimantsFor, Alike

\* authorize_publish lets nobody have a name that an upstream with a tier of its
\* own had all along.
LEMMA AuthorizedWhere ==
    ASSUME Typing, HeldInv, NEW w \in Users, AuthorizePublish(w)
    PROVE  /\ Alike
           /\ (~Reserved /\ \E u \in held : Alone(u)) => pkg # None /\ pkg.local
<1>1. CASE pkg # None
  <2>1. MayPublish(w) /\ ups' = ups
    BY <1>1 DEF AuthorizePublish
  <2> QED
    BY <1>1, <2>1 DEF MayPublish, Alike, Typing, TypeOK
<1>2. CASE pkg = None /\ Reserved
  BY <1>2 DEF AuthorizePublish, Alike, Typing, TypeOK
<1>3. CASE pkg = None /\ ~Reserved
  <2>1. Resolve(None, ShadowFree)
    BY <1>3 DEF AuthorizePublish
  <2>2. PICK broken \in Failing, blank \in SUBSET {u \in Flaky : has[u] = {}} :
           \E x \in Walk(None, broken, blank) : ups' = Checked(x.asked, broken) /\ ShadowFree(x.out)
    BY <2>1 DEF Resolve
  <2>3. PICK x \in Walk(None, broken, blank) : ups' = Checked(x.asked, broken) /\ ShadowFree(x.out)
    BY <2>2
  <2>4. broken \subseteq Upstreams
    BY PackagesAssumption DEF Failing, Enabled
  <2>5. ~\E u \in held : Alone(u)
    BY <2>3, <2>4, WalkResult DEF ShadowFree
  <2> QED
    BY <2>3, <2>5, CheckedAlike
<1> QED
  BY <1>1, <1>2, <1>3

\* The answer fetch_package comes away with.
LEMMA AskedWhere ==
    ASSUME Typing, HeldInv, NEW r \in Requests, FetchAsk(r)
    PROVE  /\ Alike
           /\ \E o : /\ req' = [req EXCEPT ![r] = [pc |-> "apply", out |-> o]]
                     /\ o.kind = "answer" => Sourced(o) /\ NotBelow(o)
<1>1. PICK broken \in Failing, blank \in SUBSET {u \in Flaky : has[u] = {}} :
         \E x \in Walk(req[r].val, broken, blank) :
            ups' = Checked(x.asked, broken) /\ req' = [req EXCEPT ![r] = [pc |-> "apply", out |-> x.out]]
  BY DEF FetchAsk, Resolve
<1>2. PICK x \in Walk(req[r].val, broken, blank) :
         ups' = Checked(x.asked, broken) /\ req' = [req EXCEPT ![r] = [pc |-> "apply", out |-> x.out]]
  BY <1>1
<1>3. broken \subseteq Upstreams
  BY PackagesAssumption DEF Failing, Enabled
<1>4. x.out.kind = "answer" => Sourced(x.out) /\ NotBelow(x.out)
  BY <1>2, <1>3, WalkResult
<1> QED
  BY <1>2, <1>4, CheckedAlike

----------------------------------------------------------------------------
(* What a refresh does to the rows.                                        *)

\* An upstream's id is none of the column's other values.
LEMMA SourceKinds ==
    ASSUME NEW x \in Upstreams
    PROVE  x \in Sources /\ x # None /\ x # Local /\ x # Unsourced
BY RowAssumption DEF Sources

\* prune_unsourced drops upstreams' rows and nothing else.
LEMMA PrunedRows ==
    ASSUME NEW rows \in [Versions -> Sources], NEW present, NEW tier
    PROVE  /\ Pruned(rows, present, tier) \in [Versions -> Sources]
           /\ \A v \in Versions :
                 \/ Displaced(rows, v, present, tier) /\ rows[v] \in Upstreams /\ Pruned(rows, present, tier)[v] = None
                 \/ ~Displaced(rows, v, present, tier) /\ Pruned(rows, present, tier)[v] = rows[v]
BY DEF Pruned, Displaced, Sources

\* Validators are only forgotten, and outlive no row of their upstream.
LEMMA EtagOutcome ==
    ASSUME NEW etag, NEW rows, NEW present, NEW tier, NEW e, e = EtagAfter(etag, rows, present, tier)
    PROVE  /\ e \in {etag, None}
           /\ e # None => \A v \in Versions : rows[v] = etag.up => ~Displaced(rows, v, present, tier)
BY DEF EtagAfter

\* _settle: rows are only dropped, with the validators of whoever's they were.
LEMMA SettledRows ==
    ASSUME Typing, Settle
    PROVE  /\ row' \in [Versions -> Sources]
           /\ \A v \in Versions : row'[v] = row[v] \/ (row'[v] = None /\ row[v] \in Upstreams)
           /\ pkg' \in PackageRow \cup {None}
           /\ pkg' = None <=> pkg = None
           /\ pkg # None => /\ pkg'.local = pkg.local /\ pkg'.etag \in {pkg.etag, None}
                            /\ pkg'.etag # None => \A v \in Versions : row[v] = pkg.etag.up => row'[v] = row[v]
<1>1. row \in [Versions -> Sources] /\ pkg \in PackageRow \cup {None}
  BY DEF Typing, TypeOK
<1>2. row' = Pruned(row, {}, 0)
  BY DEF Settle
<1>3. /\ row' \in [Versions -> Sources]
      /\ \A v \in Versions : \/ Displaced(row, v, {}, 0) /\ row[v] \in Upstreams /\ row'[v] = None
                             \/ ~Displaced(row, v, {}, 0) /\ row'[v] = row[v]
  BY <1>1, <1>2, PrunedRows
<1>4. CASE pkg = None
  BY <1>3, <1>4 DEF Settle
<1>5. CASE pkg # None
  <2> DEFINE e == EtagAfter(pkg.etag, row, {}, 0)
  <2>1. e \in {pkg.etag, None} /\ (e # None => \A v \in Versions : row[v] = pkg.etag.up => ~Displaced(row, v, {}, 0))
    BY EtagOutcome
  <2>2. pkg' = [pkg EXCEPT !.etag = e] /\ pkg \in PackageRow
    BY <1>1, <1>5 DEF Settle
  <2> HIDE DEF e
  <2>3. pkg' \in PackageRow /\ pkg'.local = pkg.local /\ pkg'.etag = e
    BY <2>1, <2>2 DEF PackageRow, Validators
  <2>4. pkg' # None
    BY <2>3, RowAssumption
  <2> QED
    BY <1>3, <1>5, <2>1, <2>3, <2>4
<1> QED
  BY <1>4, <1>5

\* persist_remote_package and prune_unsourced: a local version stays, any other
\* row is as it was, gone, or from the answer; validators that stay stand for
\* rows that are there.
LEMMA AcceptedRows ==
    ASSUME Typing, NEW o, Sourced(o), Accept(o)
    PROVE  /\ row' \in [Versions -> Sources]
           /\ \A v \in Versions :
                 \/ row'[v] = row[v]
                 \/ row'[v] = None /\ row[v] # Local
                 \/ v \in DOMAIN o.doc /\ row'[v] = o.doc[v] /\ row[v] # Local /\ ups[o.doc[v]].status # "gone"
           /\ pkg' \in PackageRow \cup {None}
           /\ pkg' = None => pkg = None /\ row' = row
           /\ pkg' = pkg \/ (pkg' # None /\ pkg'.local = (pkg # None /\ pkg.local))
           /\ \/ pkg' = pkg /\ row' = row
              \/ pkg' # None /\ pkg'.etag = None
              \/ /\ pkg' # None /\ pkg'.etag = o.val
                 /\ \A v \in o.val.snap : row'[v] \in {o.val.up, Local}
<1>1. row \in [Versions -> Sources] /\ pkg \in PackageRow \cup {None}
  BY DEF Typing, TypeOK
<1> DEFINE rows == Persist(row, o.doc)
           base == IF pkg = None THEN NewPackage ELSE pkg
           e == EtagAfter(o.val, rows, DOMAIN o.doc, o.tier)
<1>2. CASE \E v \in DOMAIN o.doc : ups[o.doc[v]].status = "gone"
  BY <1>1, <1>2 DEF Accept
<1>3. CASE ~\E v \in DOMAIN o.doc : ups[o.doc[v]].status = "gone"
  <2>1. row' = Pruned(rows, DOMAIN o.doc, o.tier) /\ pkg' = [base EXCEPT !.etag = e]
    BY <1>3 DEF Accept
  <2>2. \A v \in Versions : rows[v] = IF v \in DOMAIN o.doc /\ row[v] # Local THEN o.doc[v] ELSE row[v]
    BY DEF Persist
  <2>3. rows \in [Versions -> Sources]
    BY <1>1, SourceKinds DEF Persist, Sourced
  <2>4. e \in {o.val, None} /\ (e # None => \A v \in Versions : rows[v] = o.val.up => ~Displaced(rows, v, DOMAIN o.doc, o.tier))
    BY EtagOutcome
  <2> HIDE DEF rows, e
  <2>5. /\ row' \in [Versions -> Sources]
        /\ \A v \in Versions :
              \/ Displaced(rows, v, DOMAIN o.doc, o.tier) /\ rows[v] \in Upstreams /\ row'[v] = None
              \/ ~Displaced(rows, v, DOMAIN o.doc, o.tier) /\ row'[v] = rows[v]
    BY <2>1, <2>3, PrunedRows
  <2>6. base \in PackageRow /\ base.local = (pkg # None /\ pkg.local)
    BY <1>1 DEF NewPackage, PackageRow, Validators
  <2> HIDE DEF base
  <2>7. pkg' \in PackageRow /\ pkg'.local = base.local /\ pkg'.etag = e
    BY <2>1, <2>4, <2>6 DEF PackageRow, Sourced, Validators
  <2>8. pkg' # None
    BY <2>7, RowAssumption
  <2>9. ASSUME NEW v \in Versions
        PROVE  \/ row'[v] = row[v]
               \/ row'[v] = None /\ row[v] # Local
               \/ v \in DOMAIN o.doc /\ row'[v] = o.doc[v] /\ row[v] # Local /\ ups[o.doc[v]].status # "gone"
    <3>1. rows[v] \in Upstreams => row[v] # Local
      BY <2>2, SourceKinds
    <3> QED
      BY <1>3, <2>2, <2>5, <3>1
  <2>10. CASE e = None
    BY <2>5, <2>6, <2>7, <2>8, <2>9, <2>10
  <2>11. CASE e # None
    <3>1. e = o.val /\ o.val # None
      BY <2>4, <2>11
    <3>2. ASSUME NEW v \in o.val.snap PROVE row'[v] \in {o.val.up, Local}
      <4>1. v \in DOMAIN o.doc /\ o.doc[v] = o.val.up /\ v \in Versions
        BY <3>1 DEF Sourced
      <4>2. rows[v] \in {o.val.up, Local}
        BY <2>2, <4>1
      <4>3. ~Displaced(rows, v, DOMAIN o.doc, o.tier)
        BY <2>4, <2>11, <4>1, <4>2, SourceKinds DEF Displaced
      <4> QED
        BY <2>5, <4>1, <4>2, <4>3
    <3> QED
      BY <2>5, <2>6, <2>7, <2>8, <2>9, <3>1, <3>2
  <2> QED
    BY <2>10, <2>11
<1> QED
  BY <1>2, <1>3

----------------------------------------------------------------------------
(* Types.                                                                  *)

\* The first state is of the kinds the others are.
LEMMA InitTyped == Init => Typing
<1> SUFFICES ASSUME Init PROVE Typing
  OBVIOUS
<1>1. changes \in [moves : 0..MaxMoves, edits : 0..MaxEdits]
  BY PackagesAssumption DEF Init
<1>2. has \in [Upstreams -> SUBSET Versions]
  BY DEF Init
<1>3. ups \in [Upstreams -> UpstreamRow]
  BY PackagesAssumption DEF Init
<1>4. \A r \in Requests : req[r].pc = "idle"
  BY DEF Init, Idle
<1>5. held \subseteq Upstreams
  BY DEF Init
<1> QED
  BY <1>1, <1>2, <1>3, <1>4, <1>5 DEF Init, Typing, TypeOK, Sources

\* A package row that is refused, indexed or forgetful is still one.
LEMMA RowKept ==
    ASSUME Typing
    PROVE  /\ NewPackage \in PackageRow /\ NewPackage # None
           /\ pkg # None => \A w \in Users :
                 LET new == [pkg EXCEPT !.local = TRUE, !.owner = IF @ = None THEN w ELSE @]
                 IN new \in PackageRow /\ new # None /\ new.local /\ new.etag = pkg.etag
           /\ \A who : /\ Forget(pkg, who) \in PackageRow \cup {None}
                       /\ Forget(pkg, who) = None <=> pkg = None
                       /\ pkg # None => /\ Forget(pkg, who).local = pkg.local
                                        /\ Forget(pkg, who).etag \in {pkg.etag, None}
                                        /\ pkg.etag # None /\ pkg.etag.up \in who => Forget(pkg, who).etag = None
<1>1. pkg \in PackageRow \cup {None}
  BY DEF Typing, TypeOK
<1>2. NewPackage \in PackageRow /\ NewPackage # None
  <2>1. NewPackage \in PackageRow
    BY DEF NewPackage, PackageRow, Validators
  <2> QED
    BY <2>1, RowAssumption
<1>3. ASSUME pkg # None, NEW w \in Users
      PROVE  LET new == [pkg EXCEPT !.local = TRUE, !.owner = IF @ = None THEN w ELSE @]
             IN new \in PackageRow /\ new # None /\ new.local /\ new.etag = pkg.etag
  <2> DEFINE new == [pkg EXCEPT !.local = TRUE, !.owner = IF @ = None THEN w ELSE @]
  <2>1. new \in PackageRow /\ new.local /\ new.etag = pkg.etag
    BY <1>1, <1>3 DEF PackageRow
  <2> QED
    BY <2>1, RowAssumption
<1>4. ASSUME NEW who
      PROVE  /\ Forget(pkg, who) \in PackageRow \cup {None}
             /\ Forget(pkg, who) = None <=> pkg = None
             /\ pkg # None => /\ Forget(pkg, who).local = pkg.local
                              /\ Forget(pkg, who).etag \in {pkg.etag, None}
                              /\ pkg.etag # None /\ pkg.etag.up \in who => Forget(pkg, who).etag = None
  <2>1. CASE pkg = None
    BY <2>1 DEF Forget
  <2>2. CASE pkg # None
    <3>1. [pkg EXCEPT !.etag = None] \in PackageRow
      BY <1>1, <2>2 DEF PackageRow, Validators
    <3> QED
      BY <1>1, <2>2, <3>1, RowAssumption DEF Forget, PackageRow
  <2> QED
    BY <2>1, <2>2
<1> QED
  BY <1>2, <1>3, <1>4

\* A publish under way, and its commit.
Granted(p, w, v) ==
    /\ AuthorizePublish(w) /\ NotRetired(v) /\ row[v] \in {None, Local}
    /\ pub[p] = None /\ pub' = [pub EXCEPT ![p] = Grant(w, v)]
    /\ UNCHANGED <<eco, has, pkg, row, retired, req, admin, changes, held, published>>
Committed(p) ==
    /\ pub[p] # None /\ pub' = [pub EXCEPT ![p] = None]
    /\ IF Fits(pub[p]) THEN Insert(pub[p]) ELSE UNCHANGED <<pkg, row, published>>
    /\ UNCHANGED <<eco, ups, has, retired, req, admin, changes, held>>

\* npm and PyPI publish alike, but for what their checks let in.
LEMMA PublishSteps ==
    /\ \A p, w, v : NpmPublish(p, w, v) \/ PypiUpload(p, w, v) => Granted(p, w, v)
    /\ \A p : NpmCommit(p) \/ PypiCommit(p) => Committed(p)
BY DEF NpmPublish, PypiUpload, NpmCommit, PypiCommit, Granted, Committed

\* What a publish that goes through leaves (_handle_publish, upload).
LEMMA InsertedRow ==
    ASSUME Typing, NEW g \in PublishGrant, Insert(g)
    PROVE  /\ pkg' \in PackageRow /\ pkg' # None /\ pkg'.local
           /\ pkg'.etag = IF pkg = None THEN None ELSE pkg.etag
           /\ row' = [row EXCEPT ![g.version] = Local] /\ row' \in [Versions -> Sources]
           /\ g.version \in Versions /\ published' = published \cup {g.version}
<1> DEFINE base == IF pkg = None THEN NewPackage ELSE pkg
<1>1. base \in PackageRow /\ base.etag = IF pkg = None THEN None ELSE pkg.etag
  BY RowKept DEF Typing, TypeOK, NewPackage
<1>2. g.user \in Users /\ g.version \in Versions
  BY DEF PublishGrant
<1>3. pkg' = [base EXCEPT !.local = TRUE, !.owner = IF @ = None THEN g.user ELSE @]
  BY DEF Insert
<1> HIDE DEF base
<1>4. pkg' \in PackageRow /\ pkg'.local /\ pkg'.etag = base.etag
  BY <1>1, <1>2, <1>3 DEF PackageRow
<1>5. row' = [row EXCEPT ![g.version] = Local] /\ published' = published \cup {g.version}
  BY DEF Insert
<1>6. row \in [Versions -> Sources] /\ Local \in Sources
  BY DEF Typing, TypeOK, Sources
<1> QED
  BY <1>1, <1>2, <1>4, <1>5, <1>6, RowAssumption

\* What authorize_publish grants is a grant for this version (PublishGrant).
LEMMA GrantTyped ==
    ASSUME Typing, NEW w \in Users, NEW v \in Versions
    PROVE  /\ Grant(w, v) \in PublishGrant /\ Grant(w, v) # None
           /\ Grant(w, v).version = v /\ Grant(w, v).new = (pkg = None) /\ Grant(w, v).extra = (row[v] = Local)
<1>1. Grant(w, v) \in PublishGrant
  BY DEF Grant, PublishGrant
<1>2. Grant(w, v) # None
  BY <1>1, RowAssumption
<1>3. Grant(w, v).version = v
  BY DEF Grant
<1>4. Grant(w, v).new = (pkg = None)
  BY Zenon DEF Grant
<1>5. Grant(w, v).extra = (row[v] = Local)
  BY Zenon DEF Grant
<1> QED
  BY <1>1, <1>2, <1>3, <1>4, <1>5

\* An edit or a deletion in progress names what it is about (update_upstream, delete_upstream).
LEMMA EditTyped ==
    ASSUME NEW u \in Upstreams, NEW f \in SUBSET Upstreams, NEW d \in SUBSET Versions
    PROVE  /\ [op |-> "update", up |-> u, forget |-> f] \in AdminEdit
           /\ [op |-> "delete", up |-> u, doomed |-> d] \in AdminEdit
BY DEF AdminEdit

\* The bounds on moves and edits are kept.
LEMMA ChangesTyped ==
    ASSUME Typing, Move \/ Edit
    PROVE  changes' \in [moves : 0..MaxMoves, edits : 0..MaxEdits]
<1>1. changes \in [moves : 0..MaxMoves, edits : 0..MaxEdits]
  BY DEF Typing, TypeOK
<1>2. CASE Move
  <2>1. changes.moves + 1 \in 0..MaxMoves /\ changes' = [changes EXCEPT !.moves = changes.moves + 1]
    BY <1>1, <1>2, PackagesAssumption DEF Move
  <2> QED
    BY <1>1, <2>1
<1>3. CASE Edit
  <2>1. changes.edits + 1 \in 0..MaxEdits /\ changes' = [changes EXCEPT !.edits = changes.edits + 1]
    BY <1>1, <1>3, PackagesAssumption DEF Edit
  <2> QED
    BY <1>1, <2>1
<1> QED
  BY <1>2, <1>3

\* An edited row, with its fresh verdict, is a row.
LEMMA EditedTyped ==
    ASSUME NEW r \in UpstreamRow, NEW new \in Edited(r)
    PROVE  MarkHealthy(new) \in UpstreamRow
<1>1. new \in UpstreamRow
  BY DEF Edited, UpstreamRow
<1> QED
  BY <1>1, MarksKeep

\* Every step leaves values of the same kinds.
LEMMA StepTyped ==
    ASSUME Typing, Pending, HeldInv, [Next]_vars
    PROVE  Typing'
<1> USE DEF Typing, TypeOK
<1>1. ASSUME NEW r \in Requests, FetchProbe(r) PROVE Typing'
  <2>1. (IF pkg = None THEN None ELSE pkg.etag) \in Validators
    BY DEF PackageRow, Validators
  <2> QED
    BY <1>1, <2>1 DEF FetchProbe
<1>2. ASSUME NEW r \in Requests, FetchAsk(r) PROVE Typing'
  <2>1. Alike /\ \E o : req' = [req EXCEPT ![r] = [pc |-> "apply", out |-> o]]
    BY <1>2, AskedWhere
  <2> QED
    BY <1>2, <2>1 DEF FetchAsk, Alike
<1>3. ASSUME NEW r \in Requests, FetchApply(r) PROVE Typing'
  <2>1. /\ row' \in [Versions -> Sources] /\ pkg' \in PackageRow \cup {None}
        /\ pkg' = None => \A v \in Versions : row'[v] = None
    <3>1. CASE req[r].out.kind = "answer"
      <4>1. Accept(req[r].out) /\ Sourced(req[r].out)
        BY <1>3, <3>1 DEF FetchApply, Pending, Answered
      <4> QED
        BY <4>1, AcceptedRows
    <3>2. CASE req[r].out.kind # "answer"
      <4>1. Settle
        BY <1>3, <3>2 DEF FetchApply
      <4>2. ASSUME pkg = None, NEW v \in Versions PROVE row'[v] = None
        BY <4>1, <4>2, SettledRows, RowAssumption
      <4> QED
        BY <4>1, <4>2, SettledRows
    <3> QED
      BY <3>1, <3>2
  <2>2. req' = [req EXCEPT ![r] = Idle] /\ UNCHANGED <<eco, ups, has, retired, pub, admin, changes, held, published>>
    BY <1>3 DEF FetchApply
  <2> QED
    BY <2>1, <2>2 DEF Idle
<1>4. ASSUME NEW u \in Upstreams, ProbeDue(u) \/ TestUpstream(u) PROVE Typing'
  <2>1. Alike
    BY <1>4, OneMarked DEF ProbeDue, TestUpstream
  <2> QED
    BY <1>4, <2>1 DEF ProbeDue, TestUpstream, Alike
<1>5. ASSUME NEW p \in Publishers, NEW w \in Users, NEW v \in Versions, Granted(p, w, v) PROVE Typing'
  <2>1. Alike
    BY <1>5, AuthorizedWhere DEF Granted
  <2>2. Grant(w, v) \in PublishGrant
    BY GrantTyped
  <2> QED
    BY <1>5, <2>1, <2>2 DEF Granted, Alike
<1>6. ASSUME NEW w \in Users, NEW v \in Versions, PypiRefused(w, v) PROVE Typing'
  <2>1. pkg' \in PackageRow /\ pkg' # None
    BY <1>6, RowKept DEF PypiRefused
  <2> QED
    BY <1>6, <2>1 DEF PypiRefused
<1>7. ASSUME NEW p \in Publishers, PublishBlocked(p) PROVE Typing'
  BY <1>7 DEF PublishBlocked
<1>8. ASSUME NEW p \in Publishers, Committed(p) PROVE Typing'
  <2>1. CASE Fits(pub[p])
    <3>1. pub[p] \in PublishGrant /\ Insert(pub[p])
      BY <1>8, <2>1 DEF Committed
    <3>2. /\ pkg' \in PackageRow /\ pkg' # None
          /\ row' \in [Versions -> Sources] /\ published' \subseteq Versions
      BY <3>1, InsertedRow
    <3> QED
      BY <1>8, <3>2 DEF Committed
  <2>2. CASE ~Fits(pub[p])
    BY <1>8, <2>2 DEF Committed
  <2> QED
    BY <2>1, <2>2
<1>9. ASSUME NEW vs \in SUBSET Versions, Withdraw(vs) PROVE Typing'
  <2>1. row' \in [Versions -> Sources] /\ \A v \in Versions : row[v] = None => row'[v] = None
    BY <1>9 DEF Withdraw, Sources
  <2>2. retired' \subseteq Versions
    BY <1>9 DEF Withdraw, Retire
  <2> QED
    BY <1>9, <2>1, <2>2 DEF Withdraw
<1>10. ASSUME NEW w \in Users, UnpublishPackage(w) PROVE Typing'
  <2>1. row' \in [Versions -> Sources] /\ \A v \in Versions : row'[v] = None
    BY <1>10 DEF UnpublishPackage, Sources
  <2>2. retired' \subseteq Versions
    BY <1>10 DEF UnpublishPackage, Retire
  <2> QED
    BY <1>10, <2>1, <2>2 DEF UnpublishPackage
<1>11. ASSUME NEW u \in Upstreams, UpstreamChanges(u) PROVE Typing'
  <2>1. has' \in [Upstreams -> SUBSET Versions]
    <3>1. PICK c \in Contents[u] : has' = [has EXCEPT ![u] = c]
      BY <1>11 DEF UpstreamChanges
    <3>2. c \in SUBSET Versions
      <4>1. Contents[u] \in SUBSET SUBSET Versions
        BY PackagesAssumption
      <4> QED
        BY <3>1, <4>1
    <3> QED
      BY <3>1, <3>2
  <2>2. changes' \in [moves : 0..MaxMoves, edits : 0..MaxEdits]
    BY <1>11, ChangesTyped DEF UpstreamChanges
  <2> QED
    BY <1>11, <2>1, <2>2 DEF UpstreamChanges
<1>12. ASSUME NEW u \in Upstreams, CreateUpstream(u) PROVE Typing'
  <2>1. PICK c \in {"pool", "ours"} : ups' = [ups EXCEPT ![u].status = "on", ![u].claims = c]
    BY <1>12 DEF CreateUpstream
  <2>2. ups' \in [Upstreams -> UpstreamRow]
    <3>1. \A x \in UpstreamRow : [x EXCEPT !.status = "on", !.claims = c] \in UpstreamRow
      BY DEF UpstreamRow
    <3>2. ups' = [ups EXCEPT ![u] = [ups[u] EXCEPT !.status = "on", !.claims = c]]
      BY <2>1
    <3> HIDE DEF UpstreamRow
    <3> QED
      BY <3>1, <3>2
  <2>3. changes' \in [moves : 0..MaxMoves, edits : 0..MaxEdits]
    BY <1>12, ChangesTyped DEF CreateUpstream
  <2> QED
    BY <1>12, <2>2, <2>3 DEF CreateUpstream
<1>13. ASSUME NEW u \in Upstreams, UpdateUpstream(u) PROVE Typing'
  <2>1. PICK new \in Edited(ups[u]) :
           /\ ups' = [ups EXCEPT ![u] = MarkHealthy(new)]
           /\ admin' = [op |-> "update", up |-> u, forget |-> IF new = ups[u] THEN {u} ELSE {}]
    BY <1>13 DEF UpdateUpstream
  <2>2. ups' \in [Upstreams -> UpstreamRow]
    BY <2>1, EditedTyped
  <2>3. admin' \in AdminEdit
    BY <2>1, EditTyped
  <2>4. changes' \in [moves : 0..MaxMoves, edits : 0..MaxEdits]
    BY <1>13, ChangesTyped DEF UpdateUpstream
  <2> QED
    BY <1>13, <2>2, <2>3, <2>4 DEF UpdateUpstream
<1>14. CASE FinishUpdate
  <2>1. pkg' \in PackageRow \cup {None} /\ (pkg' = None <=> pkg = None)
    BY <1>14, RowKept DEF FinishUpdate
  <2> QED
    BY <1>14, <2>1 DEF FinishUpdate
<1>15. ASSUME NEW u \in Upstreams, DeleteUpstream(u) PROVE Typing'
  <2>1. admin' \in AdminEdit
    BY <1>15, EditTyped DEF DeleteUpstream
  <2>2. changes' \in [moves : 0..MaxMoves, edits : 0..MaxEdits]
    BY <1>15, ChangesTyped DEF DeleteUpstream
  <2> QED
    BY <1>15, <2>1, <2>2 DEF DeleteUpstream
<1>16. CASE FinishDelete
  <2>1. pkg' \in PackageRow \cup {None} /\ (pkg' = None <=> pkg = None)
    BY <1>16, RowKept DEF FinishDelete
  <2>2. admin.up \in Upstreams
    BY <1>16 DEF FinishDelete, AdminEdit
  <2>3. row' \in [Versions -> Sources] /\ \A v \in Versions : row[v] = None => row'[v] = None
    <3>1. row' = Orphaned(row, admin.up, admin.doomed)
      BY <1>16 DEF FinishDelete
    <3>2. Unsourced \in Sources /\ None \in Sources /\ admin.up # None
      BY <2>2, RowAssumption DEF Sources
    <3> QED
      BY <3>1, <3>2 DEF Orphaned
  <2>4. ups' \in [Upstreams -> UpstreamRow]
    BY <1>16, <2>2 DEF FinishDelete, UpstreamRow
  <2> QED
    BY <1>16, <2>1, <2>3, <2>4 DEF FinishDelete
<1>17. ASSUME NEW u \in Upstreams, IndexUpstream(u) PROVE Typing'
  BY <1>17, RowKept DEF IndexUpstream
<1>18. CASE UNCHANGED vars
  BY <1>18 DEF vars
<1> QED
  <2> HIDE DEF Typing, TypeOK
  <2>1. ASSUME NEW p \in Publishers, NpmCommit(p) \/ PypiCommit(p) PROVE Typing'
    BY <1>8, <2>1, PublishSteps
  <2>2. ASSUME NEW p \in Publishers, NEW w \in Users, NEW v \in Versions, NpmPublish(p, w, v) \/ PypiUpload(p, w, v) PROVE Typing'
    BY <1>5, <2>2, PublishSteps
  <2>3. ASSUME NEW w \in Users, NEW v \in Versions, UnpublishVersion(w, v) PROVE Typing'
    BY <1>9, <2>3 DEF UnpublishVersion
  <2>4. ASSUME NEW w \in Users, NEW vs \in SUBSET Versions, UpdatePackument(w, vs) PROVE Typing'
    BY <1>9, <2>4 DEF UpdatePackument
  <2> QED
    BY <1>1, <1>2, <1>3, <1>4, <1>6, <1>7, <1>10, <1>11, <1>12, <1>13, <1>14, <1>15, <1>16, <1>17, <1>18,
       <2>1, <2>2, <2>3, <2>4 DEF Next

----------------------------------------------------------------------------
(* Who had the name all along.                                             *)

\* The upstream of another row is no rival: what it does leaves the claimants.
LEMMA AddedToPool ==
    ASSUME Typing, NEW u \in Upstreams, ups[u].status = "new",
           ups' = [ups EXCEPT ![u].status = "on", ![u].claims = "pool"],
           NEW w \in ClaimantsFor(ups, Enabled(ups))
    PROVE  w \in ClaimantsFor(ups, Enabled(ups))'
<1>1. ups \in [Upstreams -> UpstreamRow] /\ ups[u] \in UpstreamRow
  BY DEF Typing, TypeOK
<1>2. ups'[u].status = "on" /\ ups'[u].claims = "pool" /\ \A x \in Upstreams : x # u => ups'[x] = ups[x]
  BY <1>1 DEF UpstreamRow
<1>3. Enabled(ups)' = Enabled(ups) \cup {u} /\ u \notin Enabled(ups) /\ Enabled(ups) \subseteq Upstreams
  BY <1>1, <1>2 DEF Enabled
<1> DEFINE was == {x \in Enabled(ups) : ups[x].claims = "ours"}
           is == {x \in Enabled(ups) \cup {u} : ups'[x].claims = "ours"}
<1>4. is = was
  BY <1>2, <1>3
<1>5. CASE was # {}
  BY <1>3, <1>4, <1>5 DEF ClaimantsFor
<1>6. CASE was = {}
  <2>1. w \in Enabled(ups) /\ ups[w].claims = "pool"
    BY <1>6 DEF ClaimantsFor
  <2>2. w \in Enabled(ups) \cup {u} /\ ups'[w].claims = "pool"
    BY <1>2, <1>3, <2>1
  <2> QED
    BY <1>3, <1>4, <1>6, <2>2 DEF ClaimantsFor
<1> QED
  BY <1>5, <1>6

\* Nobody joins those that had the name all along, and they may still answer.
LEMMA StepHeld ==
    ASSUME Typing, HeldInv, [Next]_vars
    PROVE  HeldInv' /\ held' \subseteq held
<1>1. CASE Alike /\ UNCHANGED <<has, held>> /\ admin' \in {admin, None}
  BY <1>1, AlikeClaimants DEF HeldInv
<1>2. CASE UNCHANGED <<ups, has, held>> /\ admin' \in {admin, None}
  <2>1. Alike
    BY <1>2 DEF Alike, Typing, TypeOK
  <2> QED
    BY <1>1, <1>2, <2>1
<1>3. CASE held' = {}
  BY <1>3 DEF HeldInv
<1>4. ASSUME NEW r \in Requests, FetchAsk(r) PROVE HeldInv' /\ held' \subseteq held
  BY <1>1, <1>4, AskedWhere DEF FetchAsk
<1>5. ASSUME NEW r \in Requests, FetchProbe(r) \/ FetchApply(r) PROVE HeldInv' /\ held' \subseteq held
  BY <1>2, <1>5 DEF FetchProbe, FetchApply
<1>6. ASSUME NEW u \in Upstreams, ProbeDue(u) \/ TestUpstream(u) PROVE HeldInv' /\ held' \subseteq held
  <2>1. Alike
    BY <1>6, OneMarked DEF ProbeDue, TestUpstream
  <2> QED
    BY <1>1, <1>6, <2>1 DEF ProbeDue, TestUpstream
<1>7. ASSUME NEW p \in Publishers, NEW w \in Users, NEW v \in Versions, Granted(p, w, v) PROVE HeldInv' /\ held' \subseteq held
  BY <1>1, <1>7, AuthorizedWhere DEF Granted
<1>8. ASSUME NEW p \in Publishers, PublishBlocked(p) \/ Committed(p) PROVE HeldInv' /\ held' \subseteq held
  BY <1>2, <1>8 DEF PublishBlocked, Committed
<1>9. ASSUME NEW w \in Users, UnpublishPackage(w) \/ \E v \in Versions : PypiRefused(w, v) PROVE HeldInv' /\ held' \subseteq held
  BY <1>2, <1>9 DEF UnpublishPackage, PypiRefused
<1>10. ASSUME NEW vs \in SUBSET Versions, Withdraw(vs) PROVE HeldInv' /\ held' \subseteq held
  BY <1>2, <1>10 DEF Withdraw
<1>11. ASSUME NEW u \in Upstreams, UpstreamChanges(u) PROVE HeldInv' /\ held' \subseteq held
  <2>1. PICK c \in Contents[u] : has' = [has EXCEPT ![u] = c]
    BY <1>11 DEF UpstreamChanges
  <2>2. has'[u] = c /\ \A w \in Upstreams : w # u => has'[w] = has[w]
    BY <2>1 DEF Typing
  <2>3. held' = (IF c = {} THEN held \ {u} ELSE held) /\ UNCHANGED <<ups, admin>>
    BY <1>11, <2>2 DEF UpstreamChanges
  <2> QED
    BY <2>2, <2>3 DEF HeldInv, Typing
<1>12. ASSUME NEW u \in Upstreams, CreateUpstream(u) PROVE HeldInv' /\ held' \subseteq held
  <2>1. PICK c \in {"pool", "ours"} : ups' = [ups EXCEPT ![u].status = "on", ![u].claims = c]
    BY <1>12 DEF CreateUpstream
  <2>2. ups'[u].claims = c
    BY <2>1 DEF Typing, TypeOK, UpstreamRow
  <2>3. held' = (IF c = "ours" THEN {} ELSE held) /\ UNCHANGED <<has, admin>> /\ ups[u].status = "new" /\ admin = None
    BY <1>12, <2>2 DEF CreateUpstream
  <2>4. CASE c = "pool"
    BY <2>1, <2>3, <2>4, AddedToPool DEF HeldInv
  <2> QED
    BY <1>3, <2>3, <2>4
<1>13. ASSUME NEW u \in Upstreams, UpdateUpstream(u) \/ DeleteUpstream(u) PROVE HeldInv' /\ held' \subseteq held
  BY <1>3, <1>13 DEF UpdateUpstream, DeleteUpstream
<1>14. CASE FinishUpdate
  BY <1>2, <1>14 DEF FinishUpdate
<1>15. CASE FinishDelete
  BY <1>3, <1>15 DEF FinishDelete, HeldInv
<1>16. ASSUME NEW u \in Upstreams, IndexUpstream(u) PROVE HeldInv' /\ held' \subseteq held
  BY <1>2, <1>16 DEF IndexUpstream
<1>17. CASE UNCHANGED vars
  BY <1>2, <1>17 DEF vars
<1>18. ASSUME NEW p \in Publishers, NpmCommit(p) \/ PypiCommit(p) PROVE HeldInv' /\ held' \subseteq held
  BY <1>8, <1>18, PublishSteps
<1>19. ASSUME NEW p \in Publishers, NEW w \in Users, NEW v \in Versions, NpmPublish(p, w, v) \/ PypiUpload(p, w, v)
       PROVE HeldInv' /\ held' \subseteq held
  BY <1>7, <1>19, PublishSteps
<1>20. ASSUME NEW w \in Users, NEW v \in Versions, UnpublishVersion(w, v) PROVE HeldInv' /\ held' \subseteq held
  BY <1>10, <1>20 DEF UnpublishVersion
<1>21. ASSUME NEW w \in Users, NEW vs \in SUBSET Versions, UpdatePackument(w, vs) PROVE HeldInv' /\ held' \subseteq held
  BY <1>10, <1>21 DEF UpdatePackument
<1> QED
  BY <1>4, <1>5, <1>6, <1>8, <1>9, <1>11, <1>12, <1>13, <1>14, <1>15, <1>16, <1>17,
     <1>18, <1>19, <1>20, <1>21 DEF Next

\* A refresh's answer stays what it was until it is applied.
LEMMA StepPending ==
    ASSUME Typing, Pending, HeldInv, [Next]_vars
    PROVE  Pending'
<1>1. held' \subseteq held
  BY StepHeld
<1>2. \A o : NotBelow(o) => NotBelow(o)'
  BY <1>1 DEF NotBelow
<1>3. CASE UNCHANGED req
  BY <1>2, <1>3 DEF Pending, Answered
<1>4. ASSUME NEW r \in Requests, FetchProbe(r) \/ FetchApply(r) PROVE Pending'
  <2>1. \A x \in Requests : Answered(x)' => Answered(x) /\ req'[x] = req[x]
    BY <1>4 DEF FetchProbe, FetchApply, Answered, Idle, Typing
  <2> QED
    BY <1>2, <2>1 DEF Pending
<1>5. ASSUME NEW r \in Requests, FetchAsk(r) PROVE Pending'
  <2>1. PICK o : /\ req' = [req EXCEPT ![r] = [pc |-> "apply", out |-> o]]
                 /\ o.kind = "answer" => Sourced(o) /\ NotBelow(o)
    BY <1>5, AskedWhere
  <2>2. \A x \in Requests : x # r => req'[x] = req[x]
    BY <2>1
  <2>3. req'[r].out = o
    BY <2>1 DEF Typing
  <2> QED
    BY <1>2, <2>1, <2>2, <2>3 DEF Pending, Answered
<1> QED
  <2>1. ASSUME NEW r \in Requests, FetchProbe(r) \/ FetchAsk(r) \/ FetchApply(r) PROVE Pending'
    BY <1>4, <1>5, <2>1
  <2>2. CASE ~\E r \in Requests : FetchProbe(r) \/ FetchAsk(r) \/ FetchApply(r)
    <3>1. UNCHANGED req
      BY <2>2 DEF Next, vars, ProbeDue, TestUpstream, IndexUpstream, UpstreamChanges, CreateUpstream, UpdateUpstream,
                  DeleteUpstream, FinishUpdate, FinishDelete, PublishBlocked, NpmCommit, PypiCommit, NpmPublish, PypiUpload,
                  UnpublishPackage, PypiRefused, UnpublishVersion, UpdatePackument, Withdraw
    <3> QED
      BY <1>3, <3>1
  <2> QED
    BY <2>1, <2>2

----------------------------------------------------------------------------
(* What becomes of the rows.                                               *)

\* A step that leaves the versions alone: validators are forgotten at most, no
\* upstream goes, and a deletion that starts picks its upstream's rows.
Calm ==
    /\ UNCHANGED <<row, retired, published>>
    /\ pkg' # None /\ pkg'.etag # None => pkg # None /\ pkg'.etag = pkg.etag
    /\ \A u \in Upstreams : ups'[u].status = "gone" => ups[u].status = "gone"
    /\ admin' # None /\ admin'.op = "delete" =>
          admin' = admin \/ admin'.doomed = {v \in Versions : row[v] = admin'.up}

\* Only six kinds of step touch the versions, or what decides about them.
LEMMA RowSteps ==
    ASSUME Typing, HeldInv, [Next]_vars
    PROVE  \/ \E r \in Requests : FetchApply(r)
           \/ \E p \in Publishers : Committed(p)
           \/ \E vs \in SUBSET Versions : Withdraw(vs)
           \/ \E w \in Users : UnpublishPackage(w)
           \/ FinishDelete \/ Calm
<1>1. ASSUME UNCHANGED <<row, retired, published, pkg, ups, admin>> PROVE Calm
  BY <1>1 DEF Calm
<1>2. ASSUME Alike, UNCHANGED <<row, retired, published, pkg, admin>> PROVE Calm
  BY <1>2 DEF Calm, Alike
<1>3. ASSUME NEW r \in Requests, FetchAsk(r) PROVE Calm
  BY <1>2, <1>3, AskedWhere DEF FetchAsk
<1>4. ASSUME NEW u \in Upstreams, ProbeDue(u) \/ TestUpstream(u) PROVE Calm
  <2>1. Alike
    BY <1>4, OneMarked DEF ProbeDue, TestUpstream
  <2> QED
    BY <1>2, <1>4, <2>1 DEF ProbeDue, TestUpstream
<1>5. ASSUME NEW p \in Publishers, NEW w \in Users, NEW v \in Versions, Granted(p, w, v) PROVE Calm
  BY <1>2, <1>5, AuthorizedWhere DEF Granted
<1>6. ASSUME NEW w \in Users, NEW v \in Versions, PypiRefused(w, v) PROVE Calm
  BY <1>6, RowKept DEF PypiRefused, Calm
<1>7. ASSUME NEW u \in Upstreams, CreateUpstream(u) PROVE Calm
  <2>1. \A x \in Upstreams : ups'[x].status = "gone" => ups[x].status = "gone"
    BY <1>7 DEF CreateUpstream, Typing, TypeOK, UpstreamRow
  <2> QED
    BY <1>7, <2>1 DEF CreateUpstream, Calm
<1>8. ASSUME NEW u \in Upstreams, UpdateUpstream(u) PROVE Calm
  <2>1. PICK new \in Edited(ups[u]) : /\ ups' = [ups EXCEPT ![u] = MarkHealthy(new)]
                                      /\ admin' = [op |-> "update", up |-> u, forget |-> IF new = ups[u] THEN {u} ELSE {}]
    BY <1>8 DEF UpdateUpstream
  <2>2. ups[u] \in UpstreamRow /\ ups[u].status \in {"on", "off"}
    BY <1>8 DEF Typing, TypeOK, UpdateUpstream
  <2>3. new \in UpstreamRow /\ new.status # "gone"
    BY <2>1, <2>2 DEF Edited, UpstreamRow
  <2>4. MarkHealthy(new).status # "gone"
    BY <2>3, MarksKeep
  <2>5. \A x \in Upstreams : ups'[x].status = "gone" => ups[x].status = "gone"
    BY <2>1, <2>4 DEF Typing, TypeOK
  <2>6. admin'.op # "delete"
    BY <2>1
  <2> QED
    BY <1>8, <2>5, <2>6 DEF UpdateUpstream, Calm
<1>9. ASSUME FinishUpdate PROVE Calm
  BY <1>9, RowKept DEF FinishUpdate, Calm
<1>10. ASSUME NEW u \in Upstreams, DeleteUpstream(u) PROVE Calm
  BY <1>10 DEF DeleteUpstream, Calm
<1>11. ASSUME NEW u \in Upstreams, IndexUpstream(u) PROVE Calm
  BY <1>11 DEF IndexUpstream, Calm, NewPackage
<1>12. ASSUME NEW r \in Requests, FetchProbe(r) PROVE Calm
  BY <1>1, <1>12 DEF FetchProbe
<1>13. ASSUME NEW p \in Publishers, PublishBlocked(p) PROVE Calm
  BY <1>1, <1>13 DEF PublishBlocked
<1>14. ASSUME NEW u \in Upstreams, UpstreamChanges(u) PROVE Calm
  BY <1>1, <1>14 DEF UpstreamChanges
<1>15. CASE UNCHANGED vars
  BY <1>1, <1>15 DEF vars
<1>16. ASSUME NEW p \in Publishers, NEW w \in Users, NEW v \in Versions, NpmPublish(p, w, v) \/ PypiUpload(p, w, v) PROVE Calm
  BY <1>5, <1>16, PublishSteps
<1>17. ASSUME NEW w \in Users, NEW v \in Versions, UnpublishVersion(w, v) PROVE \E vs \in SUBSET Versions : Withdraw(vs)
  BY <1>17 DEF UnpublishVersion
<1>18. ASSUME NEW w \in Users, NEW vs \in SUBSET Versions, UpdatePackument(w, vs) PROVE Withdraw(vs)
  BY <1>18 DEF UpdatePackument
<1> QED
  BY <1>3, <1>4, <1>6, <1>7, <1>8, <1>9, <1>10, <1>11, <1>12, <1>13, <1>14, <1>15, <1>16, <1>17, <1>18, PublishSteps DEF Next

\* What a refresh does to one row: nothing, drops it, or puts in its place what
\* the answer says, from an upstream that is there; a local version it leaves.
LEMMA AppliedRows ==
    ASSUME Typing, Pending, NEW r \in Requests, FetchApply(r), NEW v \in Versions
    PROVE  /\ row[v] = Local => row'[v] = Local
           /\ \/ row'[v] = row[v] \/ row'[v] = None
              \/ /\ Answered(r) /\ v \in DOMAIN req[r].out.doc /\ row'[v] = req[r].out.doc[v]
                 /\ row'[v] \in Upstreams /\ ups[row'[v]].status # "gone"
<1>1. CASE req[r].out.kind = "answer"
  <2>1. Accept(req[r].out) /\ Answered(r) /\ Sourced(req[r].out)
    BY <1>1 DEF FetchApply, Pending, Answered
  <2> QED
    BY <2>1, AcceptedRows DEF Sourced
<1>2. CASE req[r].out.kind # "answer"
  <2>1. Settle
    BY <1>2 DEF FetchApply
  <2> QED
    BY <2>1, SettledRows, SourceKinds
<1> QED
  BY <1>1, <1>2

\* A local version leaves its row with a tombstone only.
LEMMA StepStands ==
    ASSUME Typing, Pending, HeldInv, LocalStands, [Next]_vars
    PROVE  LocalStands'
<1> SUFFICES ASSUME NEW v \in published' PROVE row'[v] = Local \/ v \in retired'
  BY DEF LocalStands
<1>1. ASSUME NEW r \in Requests, FetchApply(r) PROVE row'[v] = Local \/ v \in retired'
  BY <1>1, AppliedRows DEF FetchApply, LocalStands, Typing
<1>2. ASSUME NEW p \in Publishers, Committed(p) PROVE row'[v] = Local \/ v \in retired'
  <2>1. CASE Fits(pub[p])
    <3>1. pub[p] \in PublishGrant /\ Insert(pub[p]) /\ retired' = retired
      BY <1>2, <2>1 DEF Committed, Typing, TypeOK
    <3>2. row' = [row EXCEPT ![pub[p].version] = Local] /\ published' = published \cup {pub[p].version} /\ pub[p].version \in Versions
      BY <3>1, InsertedRow
    <3> QED
      BY <3>1, <3>2 DEF LocalStands, Typing, TypeOK
  <2>2. CASE ~Fits(pub[p])
    BY <1>2, <2>2 DEF Committed, LocalStands
  <2> QED
    BY <2>1, <2>2
<1>3. ASSUME NEW vs \in SUBSET Versions, Withdraw(vs) PROVE row'[v] = Local \/ v \in retired'
  BY <1>3 DEF Withdraw, Retire, LocalStands, Typing
<1>4. ASSUME NEW w \in Users, UnpublishPackage(w) PROVE row'[v] = Local \/ v \in retired'
  BY <1>4 DEF UnpublishPackage, Retire, LocalStands, Typing
<1>5. CASE FinishDelete
  <2>1. admin.up \in Upstreams
    BY <1>5 DEF FinishDelete, AdminEdit, Typing, TypeOK
  <2>2. \A x \in Versions : row[x] = Local => row'[x] = Local
    BY <1>5, <2>1, SourceKinds DEF FinishDelete, Orphaned
  <2> QED
    BY <1>5, <2>2 DEF FinishDelete, LocalStands, Typing
<1>6. CASE Calm
  BY <1>6 DEF Calm, LocalStands
<1> QED
  BY <1>1, <1>2, <1>3, <1>4, <1>5, <1>6, RowSteps

\* The rows that name an upstream did so before, or are a refresh's answer.
LEMMA NamedRows ==
    ASSUME Typing, Pending, HeldInv, [Next]_vars, NEW v \in Versions, row'[v] \in Upstreams
    PROVE  \/ row'[v] = row[v]
           \/ \E r \in Requests : /\ FetchApply(r) /\ Answered(r) /\ v \in DOMAIN req[r].out.doc
                                  /\ row'[v] = req[r].out.doc[v] /\ ups[row'[v]].status # "gone"
<1> USE SourceKinds
<1>1. ASSUME NEW r \in Requests, FetchApply(r)
      PROVE  \/ row'[v] = row[v]
             \/ /\ Answered(r) /\ v \in DOMAIN req[r].out.doc
                /\ row'[v] = req[r].out.doc[v] /\ ups[row'[v]].status # "gone"
  BY <1>1, AppliedRows
<1>2. ASSUME NEW p \in Publishers, Committed(p) PROVE row'[v] = row[v]
  <2>1. CASE Fits(pub[p])
    <3>1. pub[p] \in PublishGrant /\ Insert(pub[p])
      BY <1>2, <2>1 DEF Committed, Typing, TypeOK
    <3>2. row' = [row EXCEPT ![pub[p].version] = Local]
      BY <3>1, InsertedRow
    <3> QED
      BY <3>2 DEF Typing, TypeOK
  <2>2. CASE ~Fits(pub[p])
    BY <1>2, <2>2 DEF Committed
  <2> QED
    BY <2>1, <2>2
<1>3. ASSUME NEW vs \in SUBSET Versions, Withdraw(vs) PROVE row'[v] = row[v]
  BY <1>3 DEF Withdraw
<1>4. ASSUME NEW w \in Users, UnpublishPackage(w) PROVE row'[v] = row[v]
  BY <1>4 DEF UnpublishPackage
<1>5. CASE FinishDelete
  BY <1>5 DEF FinishDelete, Orphaned
<1>6. CASE Calm
  BY <1>6 DEF Calm
<1> QED
  BY <1>1, <1>2, <1>3, <1>4, <1>5, <1>6, RowSteps

\* Nothing from below an upstream that had the name all along comes to be held.
LEMMA StepShadow ==
    ASSUME Typing, Pending, HeldInv, NeverShadowed, [Next]_vars
    PROVE  NeverShadowed'
<1> SUFFICES ASSUME NEW u \in held', Alone(u), NEW v \in Versions, row'[v] \in Upstreams
             PROVE  Tier[row'[v]] <= Tier[u]
  BY DEF NeverShadowed, Alone
<1>1. u \in held
  BY StepHeld
<1>2. CASE row'[v] = row[v]
  BY <1>1, <1>2 DEF NeverShadowed
<1>3. ASSUME NEW r \in Requests, Answered(r), v \in DOMAIN req[r].out.doc, row'[v] = req[r].out.doc[v]
      PROVE  Tier[row'[v]] <= Tier[u]
  BY <1>1, <1>3 DEF Pending, NotBelow
<1> QED
  BY <1>2, <1>3, NamedRows

\* Where an upstream with a tier of its own had the name all along, no publish
\* of it is let through.
LEMMA StepPublic ==
    ASSUME Typing, Pending, HeldInv, PublicInv, [Next]_vars
    PROVE  PublicInv'
<1> SUFFICES ASSUME ~Reserved, NEW u \in held', Alone(u)
             PROVE  (pkg' = None \/ ~pkg'.local) /\ UNCHANGED pub
  BY StepHeld DEF PublicInv, Alone
<1>1. u \in held /\ (pkg = None \/ ~pkg.local) /\ \A p \in Publishers : pub[p] = None
  BY StepHeld DEF PublicInv
<1>2. ASSUME NEW r \in Requests, FetchApply(r) PROVE (pkg' = None \/ ~pkg'.local) /\ UNCHANGED pub
  <2>1. CASE req[r].out.kind = "answer"
    <3>1. Accept(req[r].out) /\ Sourced(req[r].out)
      BY <1>2, <2>1 DEF FetchApply, Pending, Answered
    <3>2. pkg' = pkg \/ (pkg' # None /\ pkg'.local = (pkg # None /\ pkg.local))
      BY <3>1, AcceptedRows
    <3> QED
      BY <1>1, <1>2, <3>2 DEF FetchApply
  <2>2. CASE req[r].out.kind # "answer"
    <3>1. Settle /\ UNCHANGED pub
      BY <1>2, <2>2 DEF FetchApply
    <3>2. (pkg' = None <=> pkg = None) /\ (pkg # None => pkg'.local = pkg.local)
      BY <3>1, SettledRows
    <3> QED
      BY <1>1, <3>1, <3>2
  <2> QED
    BY <2>1, <2>2
<1>3. ASSUME NEW p \in Publishers, NEW w \in Users, NEW v \in Versions PROVE ~(NpmPublish(p, w, v) \/ PypiUpload(p, w, v))
  BY <1>1, PublishSteps, AuthorizedWhere DEF Granted
<1>4. ASSUME NEW p \in Publishers PROVE ~(PublishBlocked(p) \/ NpmCommit(p) \/ PypiCommit(p))
  BY <1>1 DEF PublishBlocked, NpmCommit, PypiCommit
<1>5. ASSUME NEW w \in Users, NEW v \in Versions PROVE ~PypiRefused(w, v)
  BY <1>1 DEF PypiRefused, MayPublish
<1>6. CASE FinishUpdate \/ FinishDelete
  BY <1>1, <1>6, RowKept DEF FinishUpdate, FinishDelete
<1>7. ASSUME NEW x \in Upstreams, IndexUpstream(x) PROVE (pkg' = None \/ ~pkg'.local) /\ UNCHANGED pub
  BY <1>7 DEF IndexUpstream, NewPackage
<1>8. ASSUME NEW w \in Users, UnpublishPackage(w) PROVE (pkg' = None \/ ~pkg'.local) /\ UNCHANGED pub
  BY <1>8 DEF UnpublishPackage
<1>9. CASE UNCHANGED <<pkg, pub>>
  BY <1>1, <1>9
<1> QED
  BY <1>2, <1>3, <1>4, <1>5, <1>6, <1>7, <1>8, <1>9
     DEF Next, vars, FetchProbe, FetchAsk, ProbeDue, TestUpstream, UpstreamChanges, CreateUpstream, UpdateUpstream,
         DeleteUpstream, UnpublishVersion, UpdatePackument, Withdraw

----------------------------------------------------------------------------
(* Deletions and validators, no refresh committing while a deletion runs.  *)

\* A deletion misses no row of its upstream, and only those rows go.
LEMMA StepDoomed ==
    ASSUME ~DeleteOverlaps, Typing, Pending, HeldInv, Doomed, [Next]_vars
    PROVE  Doomed'
<1> USE SourceKinds
<1> SUFFICES ASSUME admin' # None, admin'.op = "delete"
             PROVE  /\ \A v \in Versions : row'[v] = admin'.up => v \in admin'.doomed
                    /\ \A v \in admin'.doomed : row'[v] \in {admin'.up, Local, None}
  BY DEF Doomed
<1> DEFINE Goal == /\ \A v \in Versions : row'[v] = admin'.up => v \in admin'.doomed
                   /\ \A v \in admin'.doomed : row'[v] \in {admin'.up, Local, None}
<1>1. admin' \in AdminEdit /\ admin'.up \in Upstreams /\ admin'.doomed \subseteq Versions
  BY StepTyped DEF Typing, TypeOK, AdminEdit
<1>2. CASE admin' = admin /\ \A v \in Versions : row'[v] \in {row[v], Local, None}
  BY <1>1, <1>2 DEF Doomed
<1>3. ASSUME NEW r \in Requests, FetchApply(r) PROVE Goal
  BY <1>3 DEF FetchApply
<1>4. ASSUME NEW p \in Publishers, Committed(p) PROVE Goal
  <2>1. CASE Fits(pub[p])
    <3>1. pub[p] \in PublishGrant /\ Insert(pub[p]) /\ admin' = admin
      BY <1>4, <2>1 DEF Committed, Typing, TypeOK
    <3>2. row' = [row EXCEPT ![pub[p].version] = Local]
      BY <3>1, InsertedRow
    <3> QED
      BY <1>2, <3>1, <3>2 DEF Typing, TypeOK
  <2>2. CASE ~Fits(pub[p])
    BY <1>2, <1>4, <2>2 DEF Committed
  <2> QED
    BY <2>1, <2>2
<1>5. ASSUME NEW vs \in SUBSET Versions, Withdraw(vs) PROVE Goal
  BY <1>2, <1>5 DEF Withdraw
<1>6. ASSUME NEW w \in Users, UnpublishPackage(w) PROVE Goal
  BY <1>2, <1>6 DEF UnpublishPackage
<1>7. CASE FinishDelete
  BY <1>7 DEF FinishDelete
<1>8. CASE Calm
  <2>1. UNCHANGED row /\ (admin' = admin \/ admin'.doomed = {v \in Versions : row[v] = admin'.up})
    BY <1>8 DEF Calm
  <2> QED
    BY <1>2, <2>1
<1> QED
  BY <1>3, <1>4, <1>5, <1>6, <1>7, <1>8, RowSteps

\* What FinishDelete leaves of a row: it is gone, or it was another's.
LEMMA DeletedRows ==
    ASSUME Typing, Doomed, FinishDelete, NEW v \in Versions
    PROVE  /\ admin.up \in Upstreams
           /\ row[v] = admin.up => row'[v] = None
           /\ row[v] # admin.up => row'[v] = row[v]
           /\ \A u \in Upstreams : u # admin.up => ups'[u] = ups[u]
<1>1. admin # None /\ admin.op = "delete" /\ admin.up \in Upstreams
  BY DEF FinishDelete, AdminEdit, Typing, TypeOK
<1>2. /\ row[v] = admin.up => v \in admin.doomed
      /\ v \in admin.doomed => row[v] \in {admin.up, Local, None}
  BY <1>1 DEF Doomed
<1>3. row'[v] = IF v \in admin.doomed /\ row[v] # Local THEN None
                ELSE IF row[v] = admin.up THEN Unsourced ELSE row[v]
  BY DEF FinishDelete, Orphaned
<1>4. \A u \in Upstreams : u # admin.up => ups'[u] = ups[u]
  BY DEF FinishDelete, Typing, TypeOK
<1> QED
  BY <1>1, <1>2, <1>3, <1>4, SourceKinds

\* No row is left that names a deleted upstream, or lost its source to one.
LEMMA StepGone ==
    ASSUME ~DeleteOverlaps, Typing, Pending, HeldInv, Doomed, GoneIsGone, [Next]_vars
    PROVE  GoneIsGone'
<1> USE SourceKinds
<1> SUFFICES ASSUME NEW v \in Versions
             PROVE  row'[v] # Unsourced /\ (row'[v] \in Upstreams => ups'[row'[v]].status # "gone")
  BY DEF GoneIsGone
<1> DEFINE Goal == row'[v] # Unsourced /\ (row'[v] \in Upstreams => ups'[row'[v]].status # "gone")
<1>1. row[v] # Unsourced /\ (row[v] \in Upstreams => ups[row[v]].status # "gone")
  BY DEF GoneIsGone
<1>2. CASE row'[v] \in {row[v], Local, None} /\ \A u \in Upstreams : ups'[u].status = "gone" => ups[u].status = "gone"
  BY <1>1, <1>2, RowAssumption
<1>3. ASSUME NEW r \in Requests, FetchApply(r) PROVE Goal
  <2>1. \/ row'[v] = row[v] \/ row'[v] = None
        \/ row'[v] \in Upstreams /\ ups[row'[v]].status # "gone"
    BY <1>3, AppliedRows
  <2>2. ups' = ups
    BY <1>3 DEF FetchApply
  <2> QED
    BY <1>1, <2>1, <2>2, RowAssumption
<1>4. ASSUME NEW p \in Publishers, Committed(p) PROVE Goal
  <2>1. CASE Fits(pub[p])
    <3>1. pub[p] \in PublishGrant /\ Insert(pub[p]) /\ ups' = ups
      BY <1>4, <2>1 DEF Committed, Typing, TypeOK
    <3>2. row' = [row EXCEPT ![pub[p].version] = Local]
      BY <3>1, InsertedRow
    <3> QED
      BY <1>2, <3>1, <3>2 DEF Typing, TypeOK
  <2>2. CASE ~Fits(pub[p])
    BY <1>2, <1>4, <2>2 DEF Committed
  <2> QED
    BY <2>1, <2>2
<1>5. ASSUME NEW vs \in SUBSET Versions, Withdraw(vs) PROVE Goal
  BY <1>2, <1>5 DEF Withdraw
<1>6. ASSUME NEW w \in Users, UnpublishPackage(w) PROVE Goal
  BY <1>2, <1>6 DEF UnpublishPackage
<1>7. CASE FinishDelete
  BY <1>1, <1>7, DeletedRows, RowAssumption
<1>8. CASE Calm
  BY <1>2, <1>8 DEF Calm
<1> QED
  BY <1>3, <1>4, <1>5, <1>6, <1>7, <1>8, RowSteps

\* Validators never outlive what they stand for.
LEMMA StepConfirmed ==
    ASSUME ~DeleteOverlaps, Typing, Pending, HeldInv, Doomed, Confirmed, [Next]_vars
    PROVE  Confirmed'
<1> USE SourceKinds
<1> SUFFICES ASSUME pkg' # None, pkg'.etag # None, NEW v \in pkg'.etag.snap
             PROVE  row'[v] \in {pkg'.etag.up, Local} \/ v \in retired'
  BY DEF Confirmed
<1> DEFINE Goal == row'[v] \in {pkg'.etag.up, Local} \/ v \in retired'
<1>1. v \in Versions /\ pkg'.etag.up \in Upstreams
  BY StepTyped DEF Typing, TypeOK, PackageRow, Validators
<1>2. CASE pkg # None /\ pkg'.etag = pkg.etag /\ v \in pkg.etag.snap
           /\ (row[v] \in {pkg.etag.up, Local} => row'[v] \in {row[v], Local} \/ v \in retired') /\ retired \subseteq retired'
  BY <1>2 DEF Confirmed
<1>3. ASSUME NEW r \in Requests, FetchApply(r) PROVE Goal
  <2>1. CASE req[r].out.kind = "answer"
    <3>1. Accept(req[r].out) /\ Sourced(req[r].out) /\ retired' = retired
      BY <1>3, <2>1 DEF FetchApply, Pending, Answered
    <3>2. \/ pkg' = pkg /\ row' = row
          \/ pkg'.etag = req[r].out.val /\ \A x \in req[r].out.val.snap : row'[x] \in {req[r].out.val.up, Local}
      BY <3>1, AcceptedRows
    <3> QED
      BY <1>2, <3>1, <3>2
  <2>2. CASE req[r].out.kind # "answer"
    <3>1. Settle /\ retired' = retired
      BY <1>3, <2>2 DEF FetchApply
    <3>2. /\ row'[v] = row[v] \/ (row'[v] = None /\ row[v] \in Upstreams)
          /\ pkg' = None <=> pkg = None
          /\ pkg # None => /\ pkg'.etag \in {pkg.etag, None}
                           /\ pkg'.etag # None => \A x \in Versions : row[x] = pkg.etag.up => row'[x] = row[x]
      BY <1>1, <3>1, SettledRows
    <3>3. pkg # None /\ pkg'.etag = pkg.etag /\ (row[v] = pkg.etag.up => row'[v] = row[v])
      BY <1>1, <3>2
    <3>4. row[v] = Local => row'[v] = row[v]
      BY <3>2
    <3> QED
      BY <1>2, <3>1, <3>3, <3>4
  <2> QED
    BY <2>1, <2>2
<1>4. ASSUME NEW p \in Publishers, Committed(p) PROVE Goal
  <2>1. CASE Fits(pub[p])
    <3>1. pub[p] \in PublishGrant /\ Insert(pub[p]) /\ retired' = retired
      BY <1>4, <2>1 DEF Committed, Typing, TypeOK
    <3>2. /\ row' = [row EXCEPT ![pub[p].version] = Local]
          /\ pkg # None /\ pkg'.etag = pkg.etag
      BY <3>1, InsertedRow
    <3>3. row'[v] \in {row[v], Local}
      BY <1>1, <3>2 DEF Typing, TypeOK
    <3> QED
      BY <1>2, <3>1, <3>2, <3>3
  <2>2. CASE ~Fits(pub[p])
    BY <1>2, <1>4, <2>2 DEF Committed
  <2> QED
    BY <2>1, <2>2
<1>5. ASSUME NEW vs \in SUBSET Versions, Withdraw(vs) PROVE Goal
  BY <1>1, <1>2, <1>5 DEF Withdraw, Retire
<1>6. ASSUME NEW w \in Users, UnpublishPackage(w) PROVE Goal
  BY <1>6 DEF UnpublishPackage
<1>7. CASE FinishDelete
  <2>1. pkg' = Forget(pkg, {admin.up}) /\ retired' = retired
    BY <1>7 DEF FinishDelete
  <2>2. pkg # None /\ pkg'.etag = pkg.etag /\ pkg.etag.up # admin.up
    BY <2>1, RowKept
  <2>3. admin.up \in Upstreams /\ (row[v] # admin.up => row'[v] = row[v])
    BY <1>1, <1>7, DeletedRows
  <2> QED
    BY <1>2, <2>1, <2>2, <2>3
<1>8. CASE Calm
  BY <1>2, <1>8 DEF Calm
<1> QED
  BY <1>3, <1>4, <1>5, <1>6, <1>7, <1>8, RowSteps

----------------------------------------------------------------------------
(* Tombstones, one publish at a time.                                      *)

\* A publish is let in for a version never published, or for a release there.
LEMMA StepFresh ==
    ASSUME \A p, q \in Publishers : p = q, Typing, HeldInv, LocalStands, Fresh, [Next]_vars
    PROVE  Fresh'
<1>1. CASE UNCHANGED <<pub, published>>
  BY <1>1 DEF Fresh
<1>2. ASSUME NEW p \in Publishers, NEW w \in Users, NEW v \in Versions, Granted(p, w, v) PROVE Fresh'
  <2>1. pub'[p] = Grant(w, v) /\ published' = published
    BY <1>2 DEF Granted, Typing, TypeOK
  <2>2. v \in published => row[v] = Local
    BY <1>2 DEF Granted, NotRetired, LocalStands
  <2>3. pkg = None => row[v] # Local
    BY RowAssumption DEF Typing, TypeOK
  <2>4. row[v] = Local \/ v \notin published
    BY <2>2
  <2> DEFINE g == Grant(w, v)
  <2>5. g.version = v /\ (g.new => pkg = None) /\ (g.extra <=> row[v] = Local)
    BY Zenon DEF Grant
  <2>6. pub'[p] = g
    BY <2>1
  <2> HIDE DEF g
  <2>7. /\ pub'[p].new => ~pub'[p].extra
        /\ ~pub'[p].extra => pub'[p].version \notin published'
    BY <2>1, <2>3, <2>4, <2>5, <2>6, Zenon
  <2>8. \A q \in Publishers : q = p
    OBVIOUS
  <2> QED
    BY <2>7, <2>8, Zenon DEF Fresh
<1>3. ASSUME NEW p \in Publishers, PublishBlocked(p) \/ Committed(p) PROVE Fresh'
  <2>1. pub' = [pub EXCEPT ![p] = None] /\ pub \in [Publishers -> PublishGrant \cup {None}]
    BY <1>3 DEF PublishBlocked, Committed, Typing, TypeOK
  <2>2. \A q \in Publishers : pub'[q] = None
    BY <2>1
  <2> QED
    BY <2>2 DEF Fresh
<1>4. ASSUME NEW p \in Publishers, NpmCommit(p) \/ PypiCommit(p) PROVE Fresh'
  BY <1>3, <1>4, PublishSteps
<1>5. ASSUME NEW p \in Publishers, NEW w \in Users, NEW v \in Versions, NpmPublish(p, w, v) \/ PypiUpload(p, w, v) PROVE Fresh'
  BY <1>2, <1>5, PublishSteps
<1> QED
  BY <1>1, <1>3, <1>4, <1>5
     DEF Next, vars, FetchProbe, FetchAsk, FetchApply, ProbeDue, TestUpstream, IndexUpstream, UpstreamChanges,
         CreateUpstream, UpdateUpstream, DeleteUpstream, FinishUpdate, FinishDelete, UnpublishPackage, PypiRefused,
         UnpublishVersion, UpdatePackument, Withdraw

\* So no commit brings back what was withdrawn.
LEMMA StepTombstones ==
    ASSUME Typing, Pending, HeldInv, Fresh, [Next]_vars
    PROVE  \A v \in published : row[v] # Local => row'[v] # Local
<1> USE SourceKinds
<1> SUFFICES ASSUME NEW v \in published, row[v] # Local PROVE row'[v] # Local
  OBVIOUS
<1>1. v \in Versions
  BY DEF Typing
<1>2. ASSUME NEW r \in Requests, FetchApply(r) PROVE row'[v] # Local
  BY <1>1, <1>2, AppliedRows, RowAssumption
<1>3. ASSUME NEW p \in Publishers, Committed(p) PROVE row'[v] # Local
  <2>1. CASE Fits(pub[p])
    <3>1. pub[p] # None /\ pub[p] \in PublishGrant /\ Insert(pub[p])
      BY <1>3, <2>1 DEF Committed, Typing, TypeOK
    <3>2. row' = [row EXCEPT ![pub[p].version] = Local]
      BY <3>1, InsertedRow
    <3>3. /\ pub[p].new => ~pub[p].extra
          /\ ~pub[p].extra => pub[p].version \notin published
      BY <3>1 DEF Fresh
    <3>4. ~pub[p].new /\ pub[p].extra => row[pub[p].version] = Local
      BY <2>1, Zenon DEF Fits
    <3>5. pub[p].version # v
      BY <3>3, <3>4
    <3> QED
      BY <1>1, <3>2, <3>5 DEF Typing, TypeOK
  <2>2. CASE ~Fits(pub[p])
    BY <1>3, <2>2 DEF Committed
  <2> QED
    BY <2>1, <2>2
<1>4. ASSUME NEW vs \in SUBSET Versions, Withdraw(vs) PROVE row'[v] # Local
  BY <1>1, <1>4, RowAssumption DEF Withdraw
<1>5. ASSUME NEW w \in Users, UnpublishPackage(w) PROVE row'[v] # Local
  BY <1>1, <1>5, RowAssumption DEF UnpublishPackage
<1>6. CASE FinishDelete
  BY <1>1, <1>6, RowAssumption DEF FinishDelete, Orphaned
<1>7. CASE Calm
  BY <1>7 DEF Calm
<1> QED
  BY <1>2, <1>3, <1>4, <1>5, <1>6, <1>7, RowSteps

----------------------------------------------------------------------------
(* The theorems.                                                           *)

\* The invariant holds to begin with.
LEMMA InitRest ==
    ASSUME Init
    PROVE  Pending /\ HeldInv /\ PublicInv /\ Doomed /\ Confirmed /\ Fresh /\ NeverShadowed /\ LocalStands /\ GoneIsGone
<1>1. \A r \in Requests : req[r].pc = "idle"
  BY DEF Init, Idle
<1>2. /\ pkg = None /\ published = {} /\ admin = None
      /\ \A p \in Publishers : pub[p] = None
      /\ \A v \in Versions : row[v] = None
  BY DEF Init
<1>3. HeldInv
  BY <1>2 DEF Init, HeldInv
<1>4. Pending
  BY <1>1 DEF Pending, Answered
<1>5. NeverShadowed /\ GoneIsGone
  BY <1>2, RowAssumption DEF NeverShadowed, GoneIsGone
<1> QED
  BY <1>2, <1>3, <1>4, <1>5 DEF PublicInv, Doomed, Confirmed, Fresh, LocalStands

\* What every run of the rows keeps: types, answers under way, the upstreams
\* that had the name, and the local versions.
Kernel == Typing /\ Pending /\ HeldInv /\ LocalStands

\* The part of the invariant that needs no condition.
LEMMA KernelKept == Spec => []Kernel
<1>1. Init => Kernel
  BY InitTyped, InitRest DEF Kernel
<1>2. Kernel /\ [Next]_vars => Kernel'
  BY StepTyped, StepPending, StepHeld, StepStands DEF Kernel
<1> QED
  BY <1>1, <1>2, PTL DEF Spec

\* The rows, the validators, the grants and the edits are always of their kind,
\* and no version outlives its package (unpublish_package).
THEOREM Typed == Spec => []TypeOK
<1>1. Kernel => TypeOK
  BY DEF Kernel, Typing
<1> QED
  BY <1>1, KernelKept, PTL

\* Dependency confusion: however often an upstream with a tier of its own fails
\* or is quarantined, nothing from below it is held for a name it has had all
\* along (resolve, TierUnavailable).
THEOREM NotShadowed == Spec => []NeverShadowed
<1>1. Init => NeverShadowed
  BY InitRest
<1>2. Kernel /\ NeverShadowed /\ [Next]_vars => NeverShadowed'
  BY StepShadow DEF Kernel
<1> QED
  BY <1>1, <1>2, KernelKept, PTL DEF Spec

\* Such a name is nobody's to publish, unless it is reserved (authorize_publish).
THEOREM PublicNameKept == Spec => []PublicNameStands
<1>1. Init => PublicInv
  BY InitRest
<1>2. Kernel /\ PublicInv /\ [Next]_vars => PublicInv'
  BY StepPublic DEF Kernel
<1>3. PublicInv => PublicNameStands
  BY DEF PublicInv, PublicNameStands
<1> QED
  BY <1>1, <1>2, <1>3, KernelKept, PTL DEF Spec

\* No refresh takes away what was published here (persist_remote_package,
\* prune_unsourced).
THEOREM LocalKept == Spec => []LocalStands
<1>1. Kernel => LocalStands
  BY DEF Kernel
<1> QED
  BY <1>1, KernelKept, PTL

\* Where no refresh commits in the middle of it, a deleted upstream takes along
\* all that it alone supplied (retire_upstream_content, delete_upstream).
THEOREM DeletedGone ==
    ASSUME ~DeleteOverlaps
    PROVE  Spec => []GoneIsGone
<1>1. Init => Doomed /\ GoneIsGone
  BY InitRest
<1>2. Kernel /\ Doomed /\ GoneIsGone /\ [Next]_vars => (Doomed /\ GoneIsGone)'
  BY StepDoomed, StepGone DEF Kernel
<1> QED
  BY <1>1, <1>2, KernelKept, PTL DEF Spec

\* Under the same condition a 304 only ever confirms versions that are there, or
\* were withdrawn here (cached_etag, _settle).
THEOREM ValidatorsTrue ==
    ASSUME ~DeleteOverlaps
    PROVE  Spec => []ValidatorsConfirm
<1>1. Init => Doomed /\ Confirmed
  BY InitRest
<1>2. Kernel /\ Doomed /\ Confirmed /\ [Next]_vars => (Doomed /\ Confirmed)'
  BY StepDoomed, StepConfirmed DEF Kernel
<1>3. Kernel /\ Confirmed => ValidatorsConfirm
  BY RowAssumption DEF Kernel, Typing, TypeOK, PackageRow, Validators, Confirmed, ValidatorsConfirm
<1> QED
  BY <1>1, <1>2, <1>3, KernelKept, PTL DEF Spec

\* One publish at a time, a version that was withdrawn never comes back as a
\* local one (assert_not_retired, retire_version).  Two at a time can bring one
\* back: the first passes assert_not_retired and waits for its scan while the
\* second publishes the version and it is withdrawn.
THEOREM TombstonesHold ==
    ASSUME \A p, q \in Publishers : p = q
    PROVE  Spec => WithdrawnStaysOut
<1>1. Init => Fresh
  BY InitRest
<1>2. Kernel /\ Fresh /\ [Next]_vars => Fresh'
  BY StepFresh DEF Kernel
<1>3. Kernel /\ Fresh /\ [Next]_vars => [\A v \in published : row[v] # Local => row'[v] # Local]_vars
  BY StepTombstones DEF Kernel
<1> QED
  BY <1>1, <1>2, <1>3, KernelKept, PTL DEF Spec, WithdrawnStaysOut
=============================================================================
