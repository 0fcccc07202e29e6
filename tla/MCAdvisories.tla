---------------------------- MODULE MCAdvisories ----------------------------
(***************************************************************************)
(* An instance of Advisories: a package of two versions, a vulnerability   *)
(* and a malware report.                                                   *)
(***************************************************************************)
EXTENDS Advisories

CONSTANTS v1, v2, ghsa, mal

\* One advisory against v2 that is raised and extended to v1; one that says
\* v1 is malware, and is withdrawn.
MCAnswers == [a \in {ghsa, mal} |->
    IF a = mal THEN {[names |-> {}, score |-> None], [names |-> {v1}, score |-> None]}
    ELSE {[names |-> {v2}, score |-> 1], [names |-> {v1, v2}, score |-> 2]}]
MCFirstAnswers == [a \in {ghsa, mal} |->
    [names |-> IF a = mal THEN {v1} ELSE {v2}, score |-> IF a = mal THEN None ELSE 1]]
MCRuleSets == {[block |-> {}, allow |-> {v1}], [block |-> {v2}, allow |-> {v1}]}
MCSettings(c, u, w) == [cve |-> c, unscored |-> u, needFix |-> FALSE, allowlist |-> w]
MCSettingSets == {MCSettings(TRUE, FALSE, FALSE), MCSettings(TRUE, TRUE, TRUE)}
MCFirstPolicy == [rules |-> [block |-> {}, allow |-> {v1}], settings |-> MCSettings(TRUE, FALSE, FALSE)]
\* An edit on its own, or a change of the data with a failure.
MCBudgets == {[moves |-> 0, edits |-> 1, fails |-> 0], [moves |-> 1, edits |-> 0, fails |-> 1]}
=============================================================================
