----------------------------- MODULE HerdQueue -----------------------------
(***************************************************************************)
(* What herd_guard (core/cache.py) promises the requests of one process    *)
(* that want the same key: they wait in one line, in the order they came,  *)
(* only the first of the line works, one that gives up leaves no trace,    *)
(* and the line keeps moving.  HerdGuard, which has the lock map, its      *)
(* reference counts, the cache's lock and the outages, implements it.      *)
(***************************************************************************)
EXTENDS Sequences, SequencesExt, FiniteSets

CONSTANTS Guards,   \* the uses of herd_guard for one key
          Procs,    \* the processes of the registry
          Home      \* the process each guard runs in

VARIABLES line,     \* line[p]: the guards of p, the first one's turn
          working   \* the guards whose body runs

vars == <<line, working>>

Init == line = [p \in Procs |-> <<>>] /\ working = {}

InLine(g) == \E i \in DOMAIN line[Home[g]] : line[Home[g]][i] = g
First(g) == line[Home[g]] # <<>> /\ Head(line[Home[g]]) = g
Out(g) == [line EXCEPT ![Home[g]] = RemoveFirst(@, g)]

Join(g) ==
    /\ ~InLine(g)
    /\ line' = [line EXCEPT ![Home[g]] = Append(@, g)]
    /\ working' \in {working} \cup (IF line[Home[g]] = <<>> THEN {working \cup {g}} ELSE {})

Start(g) ==
    /\ First(g) /\ g \notin working
    /\ working' = working \cup {g}
    /\ UNCHANGED line

Finish(g) ==
    /\ g \in working
    /\ working' = working \ {g}
    /\ line' = Out(g)

Abandon(g) ==
    /\ InLine(g) /\ g \notin working
    /\ line' = Out(g)
    /\ UNCHANGED working

Next == \E g \in Guards : Join(g) \/ Start(g) \/ Finish(g) \/ Abandon(g)

Spec == Init /\ [][Next]_vars
        /\ \A g \in Guards : WF_vars(Start(g)) /\ WF_vars(Finish(g))
=============================================================================
