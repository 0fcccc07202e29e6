----------------------------- MODULE MCPackages -----------------------------
EXTENDS Packages

CONSTANTS inner, outer, mirror, v1, v2

\* One internal index above a public registry and a mirror that share a tier;
\* the mirror is added later.
MCUpstreams == {inner, outer, mirror}
MCTier == [u \in MCUpstreams |-> IF u = inner THEN 1 ELSE 2]
\* The other way round: the mirror shares the internal index's tier.
MCTierShared == [u \in MCUpstreams |-> IF u = outer THEN 2 ELSE 1]
MCRank == [u \in MCUpstreams |-> CASE u = inner -> 1 [] u = outer -> 2 [] u = mirror -> 3]
MCContents == [u \in MCUpstreams |->
    CASE u = inner -> {{}, {v1}} [] u = outer -> {{}, {v1, v2}} [] u = mirror -> {{v2}}]
MCRow(s, c) == [status |-> s, claims |-> c, fails |-> 0]
MCFirstRows == {[u \in MCUpstreams |-> MCRow(IF u = mirror THEN "new" ELSE "on", "pool")]}
MCContentsShared == [u \in MCUpstreams |-> IF u = mirror THEN {{}} ELSE {{v1}}]
MCFirstShared == {[u \in MCUpstreams |-> MCRow("on", "pool")]}
=============================================================================
