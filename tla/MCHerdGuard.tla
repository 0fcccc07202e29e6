---------------------------- MODULE MCHerdGuard ----------------------------
\* Three requests of one process and one of another, for the same key.
EXTENDS HerdGuard

CONSTANTS a, b, c, d, p, q

MCGuards == {a, b, c, d}
MCProcs == {p, q}
MCHome == [g \in MCGuards |-> IF g = d THEN q ELSE p]
=============================================================================
