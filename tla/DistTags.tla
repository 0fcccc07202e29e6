------------------------------- MODULE DistTags -------------------------------
(***************************************************************************)
(* The versions and dist-tags of one npm package published here (api/npm,  *)
(* services/npm_render) under an administrator's version rule              *)
(* (services/policy, api/admin/management).  An unpublish is three         *)
(* requests of an npm client: read the packument, PUT it back without the  *)
(* version, DELETE the tarball; anything may come in between.  Callers own *)
(* the package; who may do what is in Packages.                            *)
(***************************************************************************)
EXTENDS Semver, Catalog

CONSTANTS
    Tags,        \* dist-tags besides latest
    Clients,     \* unpublishes under way
    Rules,       \* the ranges a rule may carry
    Probes       \* versions of other releases, that a rule is tried on

ASSUME DistTagsAssumption ==
    /\ None \notin Versions
    /\ Versions \subseteq Probes /\ Probes \subseteq SemVers
    /\ \A range \in Rules : IsFiniteSet(range) /\ range \subseteq SUBSET Tokens

Latest == "latest"

VARIABLES
    rows,       \* PackageVersion rows
    retired,    \* RetiredVersion
    tags,       \* DistTag rows: tag -> version, or None
    column,     \* Package.latest_version
    rule,       \* the version_spec of the rule on this name, or None
    unpublish,  \* the clients' unpublishes
    torn        \* ghost: versions whose tarball DELETE left a tag behind

tagsVars == <<rows, retired, tags, column, rule, unpublish, torn>>

TagsInit ==
    /\ rows = {} /\ retired = {} /\ torn = {}
    /\ tags = [t \in Tags \cup {Latest} |-> None] /\ column = None
    /\ rule = None /\ unpublish = [c \in Clients |-> Idle]

TagsTypeOK ==
    /\ rows \subseteq Versions /\ retired \subseteq Versions \ rows
    /\ tags \in [Tags \cup {Latest} -> Versions \cup {None}]
    /\ column \in Versions \cup {None} /\ rule \in Rules \cup {None}
    /\ \A c \in Clients : unpublish[c] # Idle => unpublish[c].pc \in {"put", "delete"}

------------------------------------------------------------------------------
(* policy.py                                                               *)

\* Mutant: the rule is read as an install would read it, without prereleases.
MatchesAtInstall(v, range) == Satisfies(v, range, FALSE)

\* _matches_version
MatchesVersion(v, range) == Satisfies(v, range, TRUE)

Covered == [range \in Rules |-> {v \in Probes : MatchesVersion(v, range)}]

Blocked == IF rule = None THEN {} ELSE Covered[rule]
Visible == rows \ Blocked

\* create_rule, update_rule, delete_rule
SaveRule ==
    /\ rule' \in (Rules \cup {None}) \ {rule}
    /\ UNCHANGED <<rows, retired, tags, column, unpublish, torn>>

------------------------------------------------------------------------------
(* Publishing and tagging.                                                 *)

\* Mutant: the tags of a publish document are taken as they come.
TagsAsSent(sent, known) == sent

\* Tags that name a version the package has, known, out of those sent.
KnownTags(sent, known) == [t \in DOMAIN sent |-> IF sent[t] \in known THEN sent[t] ELSE None]

Sent(t, w) == [u \in Tags \cup {Latest} |-> IF u = t THEN w ELSE None]
Overridden(t, w) == [u \in DOMAIN tags |-> IF t[u] = None THEN tags[u] ELSE t[u]]

\* _handle_publish: the document tags one version, its own as a rule.
PublishVersion(v, t, w) ==
    LET kept  == KnownTags(Sent(t, w), rows \cup {v})
        named == IF kept[t] # None THEN kept ELSE Sent(Latest, v)
    IN /\ v \notin rows \cup retired \cup Blocked
       /\ rows' = rows \cup {v}
       /\ tags' = Overridden(named, v)
       /\ column' = IF named[Latest] # None THEN named[Latest]
                    ELSE IF column = None THEN MaxSemver(rows') ELSE column
       /\ UNCHANGED <<retired, rule, unpublish, torn>>

\* set_dist_tag
SetDistTag(t, v) ==
    /\ v \in rows
    /\ tags' = [tags EXCEPT ![t] = v]
    /\ column' = IF t = Latest THEN v ELSE column
    /\ UNCHANGED <<rows, retired, rule, unpublish, torn>>

\* delete_dist_tag
DeleteDistTag(t) ==
    /\ t # Latest /\ tags[t] # None
    /\ tags' = [tags EXCEPT ![t] = None]
    /\ UNCHANGED <<rows, retired, column, rule, unpublish, torn>>

------------------------------------------------------------------------------
(* Unpublishing a version.                                                 *)

\* GET /{package}: with ?write=true the whole of it, or as anyone is served.
Read(c) ==
    /\ unpublish[c] = Idle
    /\ \E seen \in {rows, Visible} \ {{}}, v \in rows :
           v \in seen /\ unpublish' = [unpublish EXCEPT ![c] = [pc |-> "put", body |-> seen \ {v}, gone |-> v]]
    /\ UNCHANGED <<rows, retired, tags, column, rule, torn>>

\* Mutant: every version missing from the document is removed.
Missing(body) == rows \ body

\* What an edited document removes: what the policy hides is left alone.
Removed(body) == Visible \ body

\* latest follows the client if it names a survivor, else the newest.
Wanted(body, named) ==
    LET survivors == rows \ Removed(body)
    IN IF named \in survivors THEN named
       ELSE MaxSemver(IF survivors \cap Visible = {} THEN survivors ELSE survivors \cap Visible)

\* Mutant: only latest is moved off a version that goes.
OnlyLatestMoves(away, wanted) ==
    [t \in DOMAIN tags |-> IF t = Latest /\ tags[t] \in away \cup {None} THEN wanted ELSE tags[t]]

\* A tag must never name a version that is gone.
Retagged(away, wanted) ==
    [t \in DOMAIN tags |-> IF t = Latest /\ tags[t] \in away \cup {None} THEN wanted
                           ELSE IF tags[t] \in away THEN None ELSE tags[t]]

\* update_packument
UpdatePackument(c) ==
    LET body == unpublish[c].body
        away == Removed(body)
    IN /\ unpublish[c].pc = "put"
       /\ \E named \in body \cup {None} :
              IF away = {} THEN UNCHANGED <<rows, retired, tags, column>>
              ELSE /\ away # rows
                   /\ rows' = rows \ away
                   /\ retired' = retired \cup away
                   /\ tags' = Retagged(away, Wanted(body, named))
                   /\ column' = tags'[Latest]
       /\ unpublish' = [unpublish EXCEPT ![c] = [pc |-> "delete", gone |-> @.gone]]
       /\ UNCHANGED <<rule, torn>>

\* The document would remove every version: 400, and the client gives up.
RefusePackument(c) ==
    /\ unpublish[c].pc = "put" /\ Removed(unpublish[c].body) = rows /\ rows # {}
    /\ unpublish' = [unpublish EXCEPT ![c] = Idle]
    /\ UNCHANGED <<rows, retired, tags, column, rule, torn>>

\* unpublish_version: the tarball's version goes, if the PUT has left it.
DeleteTarball(c) ==
    LET v == unpublish[c].gone IN
    /\ unpublish[c].pc = "delete"
    /\ rows' = rows \ {v}
    /\ retired' = IF v \in rows THEN retired \cup {v} ELSE retired
    /\ torn' = IF v \in rows /\ (column = v \/ \E t \in DOMAIN tags : tags[t] = v)
               THEN torn \cup {v} ELSE torn
    /\ unpublish' = [unpublish EXCEPT ![c] = Idle]
    /\ UNCHANGED <<tags, column, rule>>

TagsNext ==
    \/ SaveRule
    \/ \E v, w \in Versions, t \in Tags \cup {Latest} : PublishVersion(v, t, w)
    \/ \E t \in Tags \cup {Latest}, v \in Versions : SetDistTag(t, v)
    \/ \E t \in Tags : DeleteDistTag(t)
    \/ \E c \in Clients : Read(c) \/ UpdatePackument(c) \/ RefusePackument(c) \/ DeleteTarball(c)

TagsSpec == TagsInit /\ [][TagsNext]_tagsVars

------------------------------------------------------------------------------
(* What is served.                                                         *)

Filtered(t) == [u \in DOMAIN t |-> IF t[u] \in Blocked THEN None ELSE t[u]]

\* Mutant: latest falls back to the newest version there is.
FallBackOnAny(t) ==
    [t EXCEPT ![Latest] = IF @ = None /\ Visible # {} THEN MaxSemver(rows) ELSE @]

\* latest is re-pointed at the newest version that survives.
FallBack(t) == [t EXCEPT ![Latest] = IF @ = None /\ Visible # {} THEN MaxSemver(Visible) ELSE @]

\* _visible_dist_tags: the dist-tags endpoint, and GET /{package}/{tag}.
VisibleDistTags == FallBack(Filtered(tags))

\* _packument_response over _dist_tags: the packument.
PackumentTags ==
    LET derived == [tags EXCEPT ![Latest] =
                        IF @ # None THEN @ ELSE IF column # None THEN column
                        ELSE IF rows # {} THEN MaxSemver(rows) ELSE None]
    IN FallBack(Filtered(derived))

------------------------------------------------------------------------------
(* Properties.                                                             *)

\* A version agrees with a partial one in its first k numbers.
Agrees(v, p, k) == SubSeq(v.rel, 1, k) = SubSeq(p.rel, 1, k)

\* The numbers of p that ~, ^ and a bare partial version keep.
Kept(op, p) ==
    LET zeros == {k \in DOMAIN p.rel : p.rel[k] = 0}
        k     == Len(p.rel)
    IN IF op = "~" THEN IF k = 3 THEN 2 ELSE k
       ELSE IF op = "^" /\ zeros # DOMAIN p.rel
       THEN CHOOSE i \in DOMAIN p.rel \ zeros : 1..(i - 1) \subseteq zeros
       ELSE k

\* At p or above it; a prerelease of p itself is above it if p carries a lower
\* one, and else only where the range's lower bound has a "-0".
Reaches(v, op, p) ==
    \/ NumbersBefore(Padded(p), v.rel)
    \/ /\ v.rel = Padded(p)
       /\ IF Full(p) /\ p.pre # <<>> THEN ~PreBefore(v.pre, p.pre)
          ELSE v.pre = <<>> \/ ~Full(p) \/ op = "~" \/ p.rel[1] = 0

Meant(op, p) ==
    {v \in Probes : IF op \in {"", "="} /\ Full(p) THEN v = p
                    ELSE Agrees(v, p, Kept(op, p)) /\ Reaches(v, op, p)}

\* The ranges of one token of those operators that cover something else.
Mistaken ==
    {range \in Rules :
        \E tokens \in range, token \in UNION range :
            /\ range = {tokens} /\ tokens = {token} /\ token.op \in {"", "=", "~", "^"}
            /\ Covered[range] # Meant(token.op, token.p)}

\* The ranges without "||" that skip a version between two that they cover.
Skipping ==
    {range \in Rules :
        /\ Cardinality(range) = 1
        /\ \E b \in Probes \ Covered[range] :
               /\ \E a \in Covered[range] : Before(a, b)
               /\ \E c \in Covered[range] : Before(b, c)}

\* A rule of one version, x-range, ~ or ^ blocks the versions that keep the
\* numbers it pins and are not below it, prereleases of the next release that
\* it does not reach left out (core/semver.py, the "-0" of upper bounds); and
\* a rule without "||" that blocks two versions blocks every version between
\* them, prereleases too: "blocking errs toward blocking" (_matches_version).
RuleMeansWhatItSays == rule \notin Mistaken \cup Skipping

\* "A tag must never name a version that is gone" (update_packument), and a
\* publish or a tag request names a version there is: only a tarball DELETE
\* that takes a row the edited document had left alone tears a tag off.
TagsNameVersions ==
    \A t \in DOMAIN tags : tags[t] \in rows \cup torn \cup {None}

\* While a version can be installed both documents serve a latest that can be,
\* unless a tarball DELETE took the version it named (_visible_dist_tags).
LatestInstallable ==
    Visible # {} => {VisibleDistTags[Latest], PackumentTags[Latest]} \subseteq Visible \cup torn

\* An edited document takes no version that the policy hides while it is put
\* back, whatever the client had read before (update_packument); a hidden
\* version goes by the DELETE of its own tarball alone.
HiddenSpared ==
    [][\A v \in (rows \cap Blocked) \ rows' :
           \E c \in Clients : unpublish[c].pc = "delete" /\ unpublish[c].gone = v]_tagsVars

\* Refuted: "only versions the caller could have seen are removable"
\* (update_packument).  A version published or unblocked since the client read
\* the packument is missing from the document it puts back.
OnlySeenRemoved ==
    [][\A c \in Clients : unpublish[c] # unpublish'[c] /\ unpublish[c].pc = "put" =>
           rows \ rows' \subseteq {unpublish[c].gone}]_tagsVars

\* Refuted: the dist-tags endpoint cannot "disagree with the packument about
\* where a tag points" (_visible_dist_tags).  With no latest tag one derives it
\* from the versions, the other from the latest_version of an earlier publish.
EndpointsAgree == VisibleDistTags = PackumentTags

\* Refuted: "a tag must never name a version that is gone" (update_packument).
NoTornTag == torn \cap {tags[t] : t \in DOMAIN tags} = {}

\* Refuted: a rule lets no "prerelease of a blocked version through"
\* (services/policy._matches_version): 1.1.0 and ^1.1.0 let 1.1.0-b through.
PrereleasesFollow ==
    \A v \in Blocked : \A w \in Probes : w.rel = v.rel /\ v.pre = <<>> => w \in Blocked
=============================================================================
