------------------------------ MODULE Packages ------------------------------
(***************************************************************************)
(* One package name of the registry: its row, its versions and where each  *)
(* came from (services/packages.py), the requests that refresh it from the *)
(* upstreams, the publishes and withdrawals of users (services/ownership,  *)
(* api/npm, api/pypi), and the administrator who edits the upstreams       *)
(* (api/admin/management).  A refresh reads the table, waits for the       *)
(* network and writes: everything else may happen in between.  Requests    *)
(* may run in several replicas, so no lock keeps them apart (HerdGuard).   *)
(***************************************************************************)
EXTENDS Resolver

CONSTANTS
    Requests,       \* metadata requests under way
    Publishers,     \* publishes under way
    Users, Admins,  \* Admins \subseteq Users
    Local,          \* the source of a version published here
    Unsourced,      \* the source of a row whose upstream's id was nulled
    Contents,       \* Contents[u]: what upstream u may come to serve
    Flaky,          \* bound: the upstreams that fail, or answer with nothing, at times
    FirstRows,      \* the upstreams table to begin with
    Ecosystems,
    Reserved,       \* do publish_namespaces reserve the name?
    DeleteOverlaps, \* may a refresh commit while an upstream's delete runs?
    MaxMoves,       \* bound: changes of what the upstreams serve
    MaxEdits        \* bound: an administrator's edits of the upstreams

ASSUME PackagesAssumption ==
    /\ Admins \subseteq Users /\ Flaky \subseteq Upstreams
    /\ Contents \in [Upstreams -> SUBSET SUBSET Versions]
    /\ FirstRows \subseteq [Upstreams -> UpstreamRow]
    /\ MaxMoves \in Nat /\ MaxEdits \in Nat

VARIABLES
    eco,       \* the package's ecosystem
    ups,       \* the upstreams table
    has,       \* what each upstream serves
    pkg,       \* the package row, or None
    row,       \* row[v]: the source of version v's row, or None
    retired,   \* RetiredVersion: the versions withdrawn here
    req,       \* the requests
    pub,       \* the publishes
    admin,     \* the administrator's edit in progress, or None
    changes,   \* the upstreams' moves and the edits so far
    held,      \* upstreams that had the name, and were set up alike, all along
    published  \* versions ever published here

vars == <<eco, ups, has, pkg, row, retired, req, pub, admin, changes, held, published>>

Sources == Upstreams \cup {Local, Unsourced, None}
Validators == {None} \cup [up : Upstreams, snap : SUBSET Versions]
PackageRow == [local : BOOLEAN, owner : Users \cup {None}, etag : Validators]
NewPackage == [local |-> FALSE, owner |-> None, etag |-> None]
PublishGrant == [user : Users, version : Versions, new : BOOLEAN, extra : BOOLEAN]
AdminEdit == [op : {"update"}, up : Upstreams, forget : SUBSET Upstreams]
                 \cup [op : {"delete"}, up : Upstreams, doomed : SUBSET Versions]

\* The column values that are no upstream's id, and no row at all.
ASSUME RowAssumption ==
    /\ {Local, Unsourced, None} \cap Upstreams = {}
    /\ Local # Unsourced /\ Local # None /\ Unsourced # None
    /\ None \notin Nat /\ None \notin [up : Upstreams, snap : SUBSET Versions]
    /\ None \notin PackageRow /\ None \notin PublishGrant /\ None \notin AdminEdit

Idle == [pc |-> "idle"]

TypeOK ==
    /\ eco \in Ecosystems /\ ups \in [Upstreams -> UpstreamRow]
    /\ pkg \in PackageRow \cup {None} /\ row \in [Versions -> Sources]
    /\ pkg = None => \A v \in Versions : row[v] = None
    /\ retired \subseteq Versions /\ changes \in [moves : 0..MaxMoves, edits : 0..MaxEdits]
    /\ \A r \in Requests : req[r].pc \in {"idle", "ask", "apply"}
    /\ pub \in [Publishers -> PublishGrant \cup {None}] /\ admin \in AdminEdit \cup {None}

Init ==
    /\ eco \in Ecosystems /\ ups \in FirstRows
    /\ has \in [Upstreams -> SUBSET Versions] /\ \A u \in Upstreams : has[u] \in Contents[u]
    /\ pkg = None /\ row = [v \in Versions |-> None] /\ retired = {}
    /\ req = [r \in Requests |-> Idle] /\ pub = [p \in Publishers |-> None]
    /\ admin = None /\ changes = [moves |-> 0, edits |-> 0] /\ published = {}
    /\ held = {u \in Upstreams : has[u] # {} /\ u \in ClaimantsFor(ups, Enabled(ups))}

------------------------------------------------------------------------------
(* resolve: every way a walk of the tiers may come out now.                *)

\* merge_tier: PyPI's documents are merged, npm's and cargo's are not.
Merges == eco = "pypi"

\* validators go only to the upstream that issued them, and are withheld from
\* a merging tier with several members.
Unmodified(u, val, cand) ==
    /\ val # None /\ val.up = u /\ val.snap = has[u]
    /\ Merges => Cardinality(cand) = 1

Answer(u, t, val, cand) ==
    IF Unmodified(u, val, cand) THEN [kind |-> "same", up |-> u]
    ELSE [kind |-> "answer", doc |-> Sole(u, has), tier |-> t, up |-> u,
          val |-> [up |-> u, snap |-> has[u]]]

\* provider.request: who may fail now, its retries and redirects included.
Failing == SUBSET (Flaky \cap Enabled(ups))

\* provider.fetch_package: a document, an empty one at times, or else a 404.
HasAnswer(u, blank) == has[u] # {} \/ u \in blank

\* broken: who fails now; blank: who answers 200 with an empty document.
Walk(val, broken, blank) ==
    LET found == {u \in Upstreams \ broken : HasAnswer(u, blank)}
        t     == EndsAt(ups, broken, found)
        above == AskedAbove(ups, t)
        cand  == Candidates(ups, t)
        ans   == cand \cap found
        first == CHOOSE u \in ans : \A w \in ans : Rank[u] <= Rank[w]
    IN IF t = None THEN {[out |-> [kind |-> "none"], asked |-> above]}
       ELSE IF TierOutcome(ups, t, broken, found) = "unavailable"
       THEN {[out |-> [kind |-> "unavailable"], asked |-> above \cup cand]}
       ELSE IF Merges /\ Cardinality(ans) > 1
       THEN {[out |-> [kind |-> "answer", doc |-> Merge(ans, has), tier |-> t, up |-> first,
                       val |-> None],
              asked |-> above \cup cand]}
       ELSE IF Merges
       THEN {[out |-> Answer(first, t, val, cand), asked |-> above \cup cand]}
       ELSE {[out |-> Answer(u, t, val, cand), asked |-> above \cup {u} \cup others] :
                u \in ans, others \in SUBSET (cand \ ans)}

Checked(asked, broken) ==
    [u \in Upstreams |-> IF u \notin asked THEN ups[u]
                         ELSE IF u \in broken THEN MarkFailure(ups[u]) ELSE MarkHealthy(ups[u])]

\* One walk, with its bookkeeping of health, coming out as out.
Resolve(val, Out(_)) ==
    \E broken \in Failing, blank \in SUBSET {u \in Flaky : has[u] = {}} :
        \E w \in Walk(val, broken, blank) :
            ups' = Checked(w.asked, broken) /\ Out(w.out)

------------------------------------------------------------------------------
(* fetch_package                                                           *)

\* A package with a local version is never stale (is_stale); any other may
\* be, whenever it is asked for: its TTL has passed or it was marked stale.
\* The commit that ends the transaction comes before the network.
FetchProbe(r) ==
    /\ req[r].pc = "idle"
    /\ pkg # None => ~pkg.local
    /\ req' = [req EXCEPT ![r] = [pc |-> "ask", val |-> IF pkg = None THEN None ELSE pkg.etag]]
    /\ UNCHANGED <<eco, ups, has, pkg, row, retired, pub, admin, changes, held, published>>

FetchAsk(r) ==
    /\ req[r].pc = "ask"
    /\ Resolve(req[r].val, LAMBDA o : req' = [req EXCEPT ![r] = [pc |-> "apply", out |-> o]])
    /\ UNCHANGED <<eco, has, pkg, row, retired, pub, admin, changes, held, published>>

\* prune_unsourced: what lost its source goes, and what a higher tier's answer
\* displaced.  An empty answer displaces nothing.
Displaced(rows, v, present, tier) ==
    /\ rows[v] \in Upstreams
    /\ \/ rows[v] \notin LiveSources(ups)
       \/ present # {} /\ v \notin present /\ Tier[rows[v]] > tier

Pruned(rows, present, tier) ==
    [v \in Versions |-> IF Displaced(rows, v, present, tier) THEN None ELSE rows[v]]

\* Mutant: validators outlive the rows they stand for.
EtagKept(etag, rows, present, tier) == etag

\* Validators bound to an upstream whose rows were removed are forgotten.
EtagAfter(etag, rows, present, tier) ==
    IF etag # None /\ \E v \in Versions : Displaced(rows, v, present, tier) /\ rows[v] = etag.up
    THEN None ELSE etag

\* _settle: nothing new came, or a 304; drop what lost its source.
Settle ==
    /\ row' = Pruned(row, {}, 0)
    /\ pkg' = IF pkg = None THEN None ELSE [pkg EXCEPT !.etag = EtagAfter(@, row, {}, 0)]

\* Mutant: an upstream's version takes the place of one published here.
PersistOver(rows, doc) == [v \in Versions |-> IF v \in DOMAIN doc THEN doc[v] ELSE rows[v]]

\* persist_remote_package: local versions stay as they are.
Persist(rows, doc) ==
    [v \in Versions |-> IF v \in DOMAIN doc /\ rows[v] # Local THEN doc[v] ELSE rows[v]]

\* The foreign key refuses rows of an upstream that is gone by now.
Accept(o) ==
    LET rows == Persist(row, o.doc)
        base == IF pkg = None THEN NewPackage ELSE pkg
    IN IF \E v \in DOMAIN o.doc : ups[o.doc[v]].status = "gone"
       THEN UNCHANGED <<pkg, row>>
       ELSE /\ row' = Pruned(rows, DOMAIN o.doc, o.tier)
            /\ pkg' = [base EXCEPT !.etag = EtagAfter(o.val, rows, DOMAIN o.doc, o.tier)]
           

FetchApply(r) ==
    /\ req[r].pc = "apply"
    /\ (admin # None /\ ~DeleteOverlaps) => admin.op # "delete"
    /\ IF req[r].out.kind = "answer" THEN Accept(req[r].out) ELSE Settle
    /\ req' = [req EXCEPT ![r] = Idle]
    /\ UNCHANGED <<eco, ups, has, retired, pub, admin, changes, held, published>>

\* The probe interval of a quarantined upstream passes.
ProbeDue(u) ==
    /\ IsQuarantined(ups[u])
    /\ ups' = [ups EXCEPT ![u] = AfterProbeInterval(@)]
    /\ UNCHANGED <<eco, has, pkg, row, retired, req, pub, admin, changes, held, published>>

------------------------------------------------------------------------------
(* Publishing and withdrawing.                                             *)

\* Mutant: a walk that could not tell is taken for "not upstream".
ShadowUnlessFound(out) == out.kind \in {"none", "unavailable"}

\* _resolves_upstream: only "every tier said no" lets a new name through.
ShadowFree(out) == out.kind = "none"

\* authorize_publish: a mirrored name has to be reserved, a local one is its
\* owner's, a new one must not exist upstream.
MayPublish(w) ==
    IF pkg.local THEN pkg.owner \in {None, w} \/ w \in Admins ELSE Reserved

AuthorizePublish(w) ==
    IF pkg # None THEN MayPublish(w) /\ UNCHANGED ups
    ELSE IF Reserved THEN UNCHANGED ups ELSE Resolve(None, ShadowFree)

\* PublishGrant
Grant(w, v) == [user |-> w, version |-> v, new |-> pkg = None, extra |-> row[v] = Local]

\* assert_not_retired
NotRetired(v) == v \notin retired

\* _handle_publish up to the scan it waits for; a version that is there is
\* refused.
NpmPublish(p, w, v) ==
    /\ eco = "npm" /\ pub[p] = None
    /\ AuthorizePublish(w) /\ NotRetired(v)
    /\ row[v] = None
    /\ pub' = [pub EXCEPT ![p] = Grant(w, v)]
    /\ UNCHANGED <<eco, has, pkg, row, retired, req, admin, changes, held, published>>

\* upload up to the scan it waits for; a release of one's own gets more files.
PypiUpload(p, w, v) ==
    /\ eco = "pypi" /\ pub[p] = None
    /\ AuthorizePublish(w) /\ NotRetired(v)
    /\ row[v] \in {None, Local}
    /\ pub' = [pub EXCEPT ![p] = Grant(w, v)]
    /\ UNCHANGED <<eco, has, pkg, row, retired, req, admin, changes, held, published>>

\* upload to a mirrored release is refused, by way of a commit that takes the
\* flag and the owner set before it along.
PypiRefused(w, v) ==
    /\ eco = "pypi" /\ pkg # None /\ MayPublish(w) /\ NotRetired(v)
    /\ row[v] \in Upstreams \cup {Unsourced}
    /\ pkg' = [pkg EXCEPT !.local = TRUE, !.owner = IF @ = None THEN w ELSE @]
    /\ UNCHANGED <<eco, ups, has, row, retired, req, pub, admin, changes, held, published>>

\* The scan blocks the version: everything is rolled back.
PublishBlocked(p) ==
    /\ pub[p] # None /\ pub' = [pub EXCEPT ![p] = None]
    /\ UNCHANGED <<eco, ups, has, pkg, row, retired, req, admin, changes, held, published>>

\* The unique constraints on the name and on the version refuse what came in
\* between, and so does a package, or a release, that is gone by now.
Fits(g) ==
    IF g.new THEN pkg = None
    ELSE pkg # None /\ row[g.version] = IF g.extra THEN Local ELSE None

\* The package becomes local, and its first publisher's; the version is there.
Insert(g) ==
    LET base == IF pkg = None THEN NewPackage ELSE pkg
    IN /\ pkg' = [base EXCEPT !.local = TRUE, !.owner = IF @ = None THEN g.user ELSE @]
       /\ row' = [row EXCEPT ![g.version] = Local]
       /\ published' = published \cup {g.version}

NpmCommit(p) ==
    /\ eco = "npm" /\ pub[p] # None
    /\ IF Fits(pub[p]) THEN Insert(pub[p]) ELSE UNCHANGED <<pkg, row, published>>
    /\ pub' = [pub EXCEPT ![p] = None]
    /\ UNCHANGED <<eco, ups, has, retired, req, admin, changes, held>>

PypiCommit(p) ==
    /\ eco = "pypi" /\ pub[p] # None
    /\ IF Fits(pub[p]) THEN Insert(pub[p]) ELSE UNCHANGED <<pkg, row, published>>
    /\ pub' = [pub EXCEPT ![p] = None]
    /\ UNCHANGED <<eco, ups, has, retired, req, admin, changes, held>>

\* authorize_mutation
MayMutate(w) == w \in Admins \/ (pkg.local /\ pkg.owner \in {None, w})

\* Mutant: a version goes without a tombstone.
RetireNothing(vs) == retired

\* retire_version, for every version withdrawn.
Retire(vs) == retired \cup vs

Withdraw(vs) ==
    /\ retired' = Retire(vs)
    /\ row' = [v \in Versions |-> IF v \in vs THEN None ELSE row[v]]
    /\ UNCHANGED <<eco, ups, has, pkg, req, pub, admin, changes, held, published>>

\* update_packument: the versions missing from the document go, mirrored ones
\* only at an administrator's word; one that would leave none is refused.
UpdatePackument(w, vs) ==
    /\ eco = "npm" /\ pkg # None /\ MayMutate(w)
    /\ \A v \in vs : row[v] # None /\ (row[v] = Local \/ w \in Admins)
    /\ \E v \in Versions \ vs : row[v] # None
    /\ Withdraw(vs)

\* unpublish_version: the delete of a tarball, were it the last.
UnpublishVersion(w, v) ==
    /\ eco = "npm" /\ pkg # None /\ MayMutate(w)
    /\ row[v] # None /\ (row[v] = Local \/ w \in Admins)
    /\ Withdraw({v})

\* Mutant: the versions outlive their package.
UnpublishRowOnly(w) ==
    /\ eco = "npm" /\ pkg # None /\ MayMutate(w)
    /\ retired' = Retire({v \in Versions : row[v] = Local})
    /\ pkg' = None
    /\ UNCHANGED <<eco, ups, has, row, req, pub, admin, changes, held, published>>

\* unpublish_package: the name is free again, its local versions are not.
UnpublishPackage(w) ==
    /\ eco = "npm" /\ pkg # None /\ MayMutate(w)
    /\ retired' = Retire({v \in Versions : row[v] = Local})
    /\ pkg' = None /\ row' = [v \in Versions |-> None]
    /\ UNCHANGED <<eco, ups, has, req, pub, admin, changes, held, published>>

------------------------------------------------------------------------------
(* The upstreams change.                                                   *)

Move == changes.moves < MaxMoves /\ changes' = [changes EXCEPT !.moves = @ + 1]
Edit == changes.edits < MaxEdits /\ changes' = [changes EXCEPT !.edits = @ + 1]

\* An upstream publishes or drops versions, or the name.
UpstreamChanges(u) ==
    /\ Move
    /\ \E c \in Contents[u] \ {has[u]} : has' = [has EXCEPT ![u] = c]
    /\ held' = IF has'[u] = {} THEN held \ {u} ELSE held
    /\ UNCHANGED <<eco, ups, pkg, row, retired, req, pub, admin, published>>

\* mark_ecosystem_stale: validators of an upstream whose origin moved go.
Forget(p, forgetting) ==
    IF p # None /\ p.etag # None /\ p.etag.up \in forgetting THEN [p EXCEPT !.etag = None] ELSE p

\* create_upstream
CreateUpstream(u) ==
    /\ admin = None /\ Edit /\ ups[u].status = "new"
    /\ \E c \in {"pool", "ours"} : ups' = [ups EXCEPT ![u].status = "on", ![u].claims = c]
    /\ held' = IF ups'[u].claims = "ours" THEN {} ELSE held
    /\ UNCHANGED <<eco, has, pkg, row, retired, req, pub, admin, published>>

\* What an edit may make of a row: switched (patterns for other names would do
\* the same), claiming the name or not, or, with the row as it is here, another
\* origin (its URL or credentials).
Edited(r) == {[r EXCEPT !.status = IF @ = "on" THEN "off" ELSE "on"], r}
             \cup {[r EXCEPT !.claims = c] : c \in {"pool", "ours"}}

\* update_upstream commits the upstream's row by itself, with a fresh verdict
\* on its health; the packages are marked only after that.
UpdateUpstream(u) ==
    /\ admin = None /\ Edit /\ ups[u].status \in {"on", "off"}
    /\ \E new \in Edited(ups[u]) :
        /\ ups' = [ups EXCEPT ![u] = MarkHealthy(new)]
        /\ admin' = [op |-> "update", up |-> u, forget |-> IF new = ups[u] THEN {u} ELSE {}]
    /\ held' = {}
    /\ UNCHANGED <<eco, has, pkg, row, retired, req, pub, published>>

FinishUpdate ==
    /\ admin # None /\ admin.op = "update"
    /\ pkg' = Forget(pkg, admin.forget) /\ admin' = None
    /\ UNCHANGED <<eco, ups, has, row, retired, req, pub, changes, held, published>>

\* delete_upstream: retire_upstream_content deletes what it sees of the
\* upstream's; the row goes at the end, and its foreign keys null what is left.
DeleteUpstream(u) ==
    /\ admin = None /\ Edit /\ ups[u].status \in {"on", "off"}
    /\ admin' = [op |-> "delete", up |-> u, doomed |-> {v \in Versions : row[v] = u}]
    /\ held' = {}
    /\ UNCHANGED <<eco, ups, has, pkg, row, retired, req, pub, published>>

\* Mutant: the packages are marked stale, and nothing is retired.
OnlyNulled(rows, u, doomed) == [v \in Versions |-> IF rows[v] = u THEN Unsourced ELSE rows[v]]

Orphaned(rows, u, doomed) ==
    [v \in Versions |-> IF v \in doomed /\ rows[v] # Local THEN None
                        ELSE IF rows[v] = u THEN Unsourced ELSE rows[v]]

FinishDelete ==
    /\ admin # None /\ admin.op = "delete"
    /\ ups' = [ups EXCEPT ![admin.up].status = "gone"]
    /\ row' = Orphaned(row, admin.up, admin.doomed)
    /\ pkg' = Forget(pkg, {admin.up})
    /\ admin' = None
    /\ UNCHANGED <<eco, has, retired, req, pub, changes, held, published>>

\* index_upstream: the names an upstream lists get a row, without versions.
IndexUpstream(u) ==
    /\ pkg = None /\ ups[u].status \in {"on", "off"} /\ has[u] # {}
    /\ pkg' = NewPackage
    /\ UNCHANGED <<eco, ups, has, row, retired, req, pub, admin, changes, held, published>>

\* test_upstream finds it well; a failing test changes no count.
TestUpstream(u) ==
    /\ ups[u].status \in {"on", "off"} /\ ups[u].fails > 0
    /\ ups' = [ups EXCEPT ![u] = MarkHealthy(@)]
    /\ UNCHANGED <<eco, has, pkg, row, retired, req, pub, admin, changes, held, published>>

Next ==
    \/ \E r \in Requests : FetchProbe(r) \/ FetchAsk(r) \/ FetchApply(r)
    \/ \E u \in Upstreams : \/ ProbeDue(u) \/ TestUpstream(u) \/ IndexUpstream(u) \/ UpstreamChanges(u)
                            \/ CreateUpstream(u) \/ UpdateUpstream(u) \/ DeleteUpstream(u)
    \/ FinishUpdate \/ FinishDelete
    \/ \E p \in Publishers : \/ PublishBlocked(p) \/ NpmCommit(p) \/ PypiCommit(p)
                             \/ \E w \in Users, v \in Versions : NpmPublish(p, w, v) \/ PypiUpload(p, w, v)
    \/ \E w \in Users : \/ UnpublishPackage(w)
                        \/ \E v \in Versions : PypiRefused(w, v) \/ UnpublishVersion(w, v)
                        \/ \E vs \in SUBSET Versions \ {{}} : UpdatePackument(w, vs)

Spec == Init /\ [][Next]_vars

------------------------------------------------------------------------------
(* Properties.                                                             *)

Alone(u) == \A w \in Upstreams : Tier[w] = Tier[u] => w = u

\* Dependency confusion: while an upstream that has its tier to itself has had
\* the name all along, nothing from a tier below it is ever held for the name,
\* however often the upstream fails, is quarantined or comes back (resolve,
\* TierUnavailable).
NeverShadowed ==
    \A u \in held : Alone(u) =>
        \A v \in Versions : row[v] \in Upstreams => Tier[row[v]] <= Tier[u]

\* The same for every upstream, whoever shares its tier: "a transient upstream
\* failure cannot silently promote a lower tier's package to the name"
\* (TierUnavailable).
NoPromotion ==
    \A u \in held : \A v \in Versions : row[v] \in Upstreams => Tier[row[v]] <= Tier[u]

\* A name that such an upstream has had all along never becomes a local
\* package, unless it is reserved (authorize_publish's shadow check).
PublicNameStands ==
    (~Reserved /\ \E u \in held : Alone(u)) => (pkg = None \/ ~pkg.local)

\* A 304 confirms what is there: as long as the package's validators are kept,
\* every version of the document they stand for is held, or was withdrawn here
\* (cached_etag; prune_unsourced, retire_upstream_content).
ValidatorsConfirm ==
    (pkg # None /\ pkg.etag # None) =>
        \A v \in pkg.etag.snap : row[v] # None \/ v \in retired

\* A version that was published and withdrawn does not come back as a local
\* one (assert_not_retired, retire_version).
WithdrawnStaysOut ==
    [][\A v \in published : row[v] # Local => row'[v] # Local]_vars

\* No refresh takes away what was published here: a local version goes only
\* with a tombstone (persist_remote_package, prune_unsourced).
LocalStands == \A v \in published : row[v] = Local \/ v \in retired

\* What a deleted upstream alone supplied is gone with it: no row names it,
\* and none has lost its source to it (retire_upstream_content).
GoneIsGone ==
    \A v \in Versions : row[v] # Unsourced /\ (row[v] \in Upstreams => ups[row[v]].status # "gone")

\* A package is frozen, as a local one, by a publish that went through and by
\* nothing else: a refused one leaves no trace (upload).
FrozenByPublish == (pkg # None /\ pkg.local) => published # {}
=============================================================================
