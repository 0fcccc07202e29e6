------------------------------ MODULE Resolver ------------------------------
(***************************************************************************)
(* services/resolver.py: which upstream answers for a package name.  The   *)
(* upstreams are ordered in tiers; a tier is asked only when every tier    *)
(* above it answered "not found", and a tier that fails, or is quarantined *)
(* after failing too often, stops the walk.  Everything here is about one  *)
(* name; what an upstream serves for it is a set of versions, none of them *)
(* being its 404.                                                          *)
(***************************************************************************)
EXTENDS Integers, FiniteSets, FiniteSetsExt, SequencesExt

CONSTANTS
    Upstreams,        \* the rows of the upstreams table, past and to come
    Tier,             \* Upstream.tier
    Rank,             \* the order of (priority, id) within a tier
    Versions,         \* the versions of the one package
    None,
    FailureThreshold  \* FAILURE_THRESHOLD

ASSUME ResolverAssumption ==
    /\ Tier \in [Upstreams -> Nat] /\ Rank \in [Upstreams -> Nat]
    /\ \A u, w \in Upstreams : Rank[u] = Rank[w] => u = w
    /\ FailureThreshold \in Nat \ {0}

\* An upstream's row: is it there, enabled, and what do its name_patterns say
\* of our name: it has none ("pool"), one matches ("ours"), none does ("others").
UpstreamRow == [status : {"new", "on", "off", "gone"}, claims : {"pool", "ours", "others"},
                fails : 0..FailureThreshold]

\* claimants_for, over the upstreams us of the table cfg.
ClaimantsFor(cfg, us) ==
    LET claimed == {u \in us : cfg[u].claims = "ours"}
    IN IF claimed # {} THEN claimed ELSE {u \in us : cfg[u].claims = "pool"}

Enabled(cfg) == {u \in Upstreams : cfg[u].status = "on"}
Kept(cfg) == {u \in Upstreams : cfg[u].status \in {"on", "off"}}

\* live_sources: whoever may answer now, and the paused ones that could.
LiveSources(cfg) ==
    ClaimantsFor(cfg, Enabled(cfg))
        \cup {u \in ClaimantsFor(cfg, Kept(cfg)) : cfg[u].status = "off"}

\* is_quarantined: failed too often, and the next probe is not due yet.  One
\* whose probe is due counts one failure less: a further one quarantines it.
IsQuarantined(row) == row.fails >= FailureThreshold
AfterProbeInterval(row) == [row EXCEPT !.fails = FailureThreshold - 1]

\* _mark_failure, _mark_healthy
MarkFailure(row) ==
    [row EXCEPT !.fails = IF @ < FailureThreshold THEN @ + 1 ELSE @]
MarkHealthy(row) == [row EXCEPT !.fails = 0]

\* group_by_tier, less the quarantined ones.
Group(cfg, t) == {u \in ClaimantsFor(cfg, Enabled(cfg)) : Tier[u] = t}
Candidates(cfg, t) == {u \in Group(cfg, t) : ~IsQuarantined(cfg[u])}

\* Mutant: a tier that fails is taken for one that does not have the name.
TierMissesOnError(cfg, t, broken, found) ==
    IF Candidates(cfg, t) = {} THEN (IF Group(cfg, t) # {} THEN "unavailable" ELSE "miss")
    ELSE IF Candidates(cfg, t) \cap found # {} THEN "answers" ELSE "miss"

\* What one tier comes to (_query_tier, _query_one and the loop of resolve):
\* broken are the upstreams that fail now, found those that answer with a
\* document; the rest say 404.
TierOutcome(cfg, t, broken, found) ==
    IF Candidates(cfg, t) = {} THEN (IF Group(cfg, t) # {} THEN "unavailable" ELSE "miss")
    ELSE IF Candidates(cfg, t) \cap found # {} THEN "answers"
    ELSE IF Candidates(cfg, t) \cap broken # {} THEN "unavailable" ELSE "miss"

Tiers == {Tier[u] : u \in Upstreams}

\* The tier the walk of resolve ends at, or None when every tier said no.
EndsAt(cfg, broken, found) ==
    LET ends == {t \in Tiers : TierOutcome(cfg, t, broken, found) # "miss"}
    IN IF ends = {} THEN None ELSE Min(ends)

\* The upstreams asked before the walk got to tier t.
AskedAbove(cfg, t) ==
    UNION {Candidates(cfg, s) : s \in {s \in Tiers : t = None \/ s < t}}

\* _merge: the union of a tier's documents, the first in rank wins a version.
Merge(group, content) ==
    [v \in UNION {content[u] : u \in group} |->
        CHOOSE u \in group : /\ v \in content[u]
                             /\ \A w \in group : v \in content[w] => Rank[u] <= Rank[w]]

\* tag_files_with_upstream: one upstream's document, with its source.
Sole(u, content) == [v \in content[u] |-> u]
=============================================================================
