------------------------------ MODULE Advisories ------------------------------
(***************************************************************************)
(* What a package's versions are known to be vulnerable to, and who may    *)
(* see them.  Scans ask OSV and write the answer on the versions           *)
(* (services/osv): the background refresh, an administrator's scan, a      *)
(* command-line audit, and each metadata request for what it finds         *)
(* unscanned.  A metadata request filters the package's document by the    *)
(* rules and the CVE policy (services/policy) and caches the result;       *)
(* editing a rule or a setting drops the caches after its commit           *)
(* (api/admin/management).  The caches' entries also expire.               *)
(***************************************************************************)
EXTENDS Catalog, Integers, FiniteSets, FiniteSetsExt

CONSTANTS
    Advisories, Malware, Noise, Fixable,  \* Malware: MAL-*; Noise: no CVE, with OSV_CVE_ONLY
    Answers,        \* Answers[a]: what OSV may come to say of advisory a
    FirstAnswers,   \* what it says to begin with
    RuleSets, SettingSets,  \* what the administrator may set
    FirstPolicy,    \* what is set to begin with
    Refresher,      \* the background refresh
    Requests,       \* HTTP requests under way
    Ecosystems,
    Audited,        \* bound: the sets of versions an audit asks about
    Budgets         \* bound: how much may happen in one run: changes of OSV's data and
                    \* rescores, edits of the policy, records or versions a scan fails on

Scores == 0..2      \* 1: below the blocked range; 2: within it, the highest
MaliciousScore == 2

AnswerType == [names : SUBSET Versions, score : Scores \cup {None}]
RuleType == [block : SUBSET Versions, allow : SUBSET Versions]
SettingType == [cve : BOOLEAN, unscored : BOOLEAN, needFix : BOOLEAN, allowlist : BOOLEAN]

ASSUME AdvisoriesAssumption ==
    /\ Malware \subseteq Advisories /\ Fixable \subseteq Advisories
    /\ Noise \subseteq Advisories \ Malware
    /\ Answers \in [Advisories -> SUBSET AnswerType]
    /\ \A a \in Advisories : FirstAnswers[a] \in Answers[a]
    /\ RuleSets \subseteq RuleType /\ SettingSets \subseteq SettingType
    /\ FirstPolicy \in [rules : RuleSets, settings : SettingSets]
    /\ Budgets \subseteq [moves : Nat, edits : Nat, fails : Nat]
    /\ Refresher \notin Requests /\ Audited \subseteq SUBSET Versions

\* The copy of an advisory: what OSV said of its score, and the score kept.
Copy == [raw : Scores \cup {None}, rev : Nat, score : Scores \cup {None}]

\* Neither a score nor a copy, nor what an edit has still to do, is nothing.
ASSUME NoneAssumption == None \notin Scores \cup Copy \cup {"rules", "settings", "doc"}

VARIABLES
    eco,       \* the package's ecosystem
    osv,       \* osv[a]: what OSV says now, and its revision
    store,     \* Vulnerability: the copies of advisories, or None
    links,     \* PackageVulnerability
    row,       \* the CVE columns of PackageVersion
    policy,    \* the rules and settings tables
    cached,    \* the same in the cache, or None
    doc,       \* the rendered document in the cache: the versions it lists, or None
    job,       \* the scans and requests under way
    edit,      \* what the administrator's edit has still to invalidate, or None
    spent,     \* of the budgets, so far
    saidClean, \* versions OSV ever had nothing against
    straddled  \* was a metadata request under way as the last edit committed, or ended?

vars == <<eco, osv, store, links, row, policy, cached, doc, job, edit, spent,
          saidClean, straddled>>

Row == [scanned : BOOLEAN, score : Scores \cup {None}, fix : BOOLEAN, adv : BOOLEAN, mal : BOOLEAN]
NewRow == [scanned |-> FALSE, score |-> None, fix |-> FALSE, adv |-> FALSE, mal |-> FALSE]
Jobs == Requests \cup {Refresher}

\* The budget a run stays within after one more of what.
Within(tally) == \E b \in Budgets : \A w \in DOMAIN b : tally[w] <= b[w]
Spent(what) == [spent EXCEPT ![what] = @ + 1]
MaySpend(what) == Within(Spent(what))

TypeOK ==
    /\ eco \in Ecosystems
    /\ \A a \in Advisories :
          /\ osv[a].rev \in 0..spent.moves /\ [names |-> osv[a].names, score |-> osv[a].score] \in AnswerType
          /\ store[a] # None => store[a].rev <= osv[a].rev
    /\ links \subseteq Versions \X Advisories
    /\ \A p \in links : store[p[2]] # None
    /\ row \in [Versions -> Row]
    /\ policy.rules \in RuleSets /\ policy.settings \in SettingSets
    /\ doc # None => doc \subseteq Versions
    /\ edit \in {None, "rules", "settings", "doc"}

Init ==
    /\ eco \in Ecosystems
    /\ osv = [a \in Advisories |->
          [names |-> FirstAnswers[a].names, score |-> FirstAnswers[a].score, rev |-> 0]]
    /\ store = [a \in Advisories |-> None] /\ links = {}
    /\ row = [v \in Versions |-> NewRow]
    /\ policy = FirstPolicy
    /\ cached = [k \in {"rules", "settings"} |-> None] /\ doc = None
    /\ job = [j \in Jobs |-> Idle] /\ edit = None
    /\ spent = [moves |-> 0, edits |-> 0, fails |-> 0] /\ saidClean = {} /\ straddled = FALSE

-------------------------------------------------------------------------------
(* The verdict of PolicyEngine on one version.                             *)

\* CvePolicy.blocks, for an enabled policy: unknown, clean, or a score in range.
CveBlocks(s, r) ==
    IF ~r.scanned \/ r.score = None THEN s.unscored
    ELSE r.score = 2 /\ (s.needFix => r.fix)

CveDenies(s, r) == s.cve /\ (r.mal \/ CveBlocks(s, r))

\* Block rules are absolute; then the allowlist.
RulesAllow(p, v) == v \notin p.rules.block /\ (p.settings.allowlist => v \in p.rules.allow)

Allows(p, v, r) == RulesAllow(p, v) /\ ~CveDenies(p.settings, r)

\* is_name_blocked: only rules without a version constraint speak of the name.
NameBlocked(p) ==
    \/ p.rules.block = Versions
    \/ p.settings.allowlist /\ p.rules.allow = {}

Listing(p, rows) == {v \in Versions : Allows(p, v, rows[v])}

-------------------------------------------------------------------------------
(* OSV, and what a scan makes of it.                                       *)

Worst(scores) == IF scores \subseteq {None} THEN None ELSE Max(scores \ {None})

\* The columns of a version against which cves stand, scored so.
Columns(cves, score) ==
    [scanned |-> TRUE, score |-> IF cves = {} THEN 0 ELSE Worst({score[a] : a \in cves}),
     fix |-> cves \cap Fixable # {}, adv |-> cves # {}, mal |-> cves \cap Malware # {}]

\* The record as stored: malware without a score gets the highest one.
Stored(a, said) ==
    [raw |-> said.score, rev |-> said.rev,
     score |-> IF a \in Malware /\ said.score = None THEN MaliciousScore ELSE said.score]

Against(v) == {a \in Advisories \ Noise : v \in osv[a].names}
Truth(v) == Columns(Against(v), [a \in Advisories |-> Stored(a, osv[a]).score])

\* OSV publishes, revises or withdraws an advisory.
Publish(a) ==
    /\ MaySpend("moves")
    /\ \E said \in Answers[a] :
          /\ said # [names |-> osv[a].names, score |-> osv[a].score]
          /\ osv' = [osv EXCEPT ![a] = [names |-> said.names, score |-> said.score, rev |-> @.rev + 1]]
    /\ spent' = Spent("moves")
    /\ UNCHANGED <<eco, store, links, row, policy, cached, doc, job, edit, saidClean, straddled>>

\* What querybatch names against a scan's batch, with the revisions it reports,
\* and the rows the scan's session has loaded.
Asked(kind, batch, memo) ==
    [pc |-> "asked", kind |-> kind, memo |-> memo,
     loaded |-> [v \in (IF kind = "render" THEN Versions ELSE batch) |-> row[v]],
     named |-> [v \in batch |-> {a \in Advisories : v \in osv[a].names}],
     seen |-> [a \in {b \in Advisories : osv[b].names \cap batch # {}} |-> osv[a].rev]]

\* scan_versions reaches OSV and has its answer; a batch that fails changes nothing.
Ask(j, kind, batch, memo) ==
    /\ batch # {}
    /\ job' = [job EXCEPT ![j] = Asked(kind, batch, memo)]
    /\ saidClean' = saidClean \cup {v \in batch : Against(v) = {}}

UnscannedIn(rows) == {v \in Versions : ~rows[v].scanned}

\* _cve_refresh_task: whatever is due, the oldest first.
RefreshBegin ==
    /\ job[Refresher] = Idle
    /\ Ask(Refresher, "refresh", Versions, None)
    /\ UNCHANGED <<eco, osv, store, links, row, policy, cached, doc, edit, spent, straddled>>

\* trigger_scan: what was never scanned, or everything.
AdminScan(r) ==
    /\ job[r] = Idle
    /\ \E batch \in {UnscannedIn(row), Versions} : Ask(r, "scan", batch, None)
    /\ UNCHANGED <<eco, osv, store, links, row, policy, cached, doc, edit, spent, straddled>>

\* audit_packages: the requested versions never scanned, or with refresh all of them.
Audit(r) ==
    /\ job[r] = Idle
    /\ \E batch \in Audited : Ask(r, "audit", batch, None)
    /\ UNCHANGED <<eco, osv, store, links, row, policy, cached, doc, edit, spent, straddled>>

\* Mutant: a copy, once stored, is never fetched again.
NeverStale(a, seen) == FALSE

\* _is_stale: OSV's record is newer than the copy.
IsStale(a, seen) == store[a] # None /\ store[a].rev < seen

\* Mutant: what was fetched is taken for the whole answer.
FoundWhatIsThere(me, got, bad) ==
    [v \in DOMAIN me.named \ bad |-> {a \in me.named[v] \ Noise : a \in got \/ store[a] # None}]

\* The versions answered, with the advisories against each: a stale copy that
\* cannot be fetched again serves, a missing one leaves its versions unanswered.
Found(me, got, bad) ==
    [v \in {w \in DOMAIN me.named \ bad : \A a \in me.named[w] : a \in got \/ store[a] # None} |->
        me.named[v] \ Noise]

\* _hydrate: fetches what is missing or stale.  bad: versions for which the
\* scan raises, by _scan_group stamped as scanned with their old score.
Hydrate(j) ==
    /\ job[j].pc = "asked"
    /\ LET needed  == DOMAIN job[j].seen
           stale   == {a \in needed : IsStale(a, job[j].seen[a])}
           missing == stale \cup {a \in needed : store[a] = None}
       IN \E got \in SUBSET missing, bad \in SUBSET DOMAIN job[j].named :
             /\ bad # {} => job[j].kind = "refresh"
             /\ spent' = [spent EXCEPT !.fails = @ + Cardinality(missing \ got) + Cardinality(bad)]
             /\ Within(spent')
             /\ job' = [job EXCEPT ![j] =
                   IF @.kind = "audit" /\ DOMAIN Found(@, got, bad) = {} THEN Idle
                   ELSE [pc |-> "fetched", kind |-> IF @.kind = "audit" THEN "scan" ELSE @.kind,
                         memo |-> @.memo, loaded |-> @.loaded,
                         bad |-> bad, fresh |-> got \ Noise, refreshed |-> got \cap stale,
                         copies |-> [a \in needed |-> IF a \in got THEN Stored(a, osv[a]) ELSE store[a]],
                         found |-> Found(@, got, bad)]]
    /\ UNCHANGED <<eco, osv, store, links, row, policy, cached, doc, edit, saidClean, straddled>>

\* A session writes the columns it has changed since it loaded them: l loaded,
\* x set by _reapply_records, y set at last, over cur.
Flushed(l, x, y, cur) ==
    [c \in DOMAIN y |-> IF x[c] # l[c] \/ y[c] # x[c] THEN y[c] ELSE cur[c]]

\* _recompute_versions, for v, over the new copies.
Recomputed(v, copies) ==
    Columns({a \in Advisories : <<v, a>> \in links}, [a \in Advisories |->
        IF copies[a] = None THEN None ELSE copies[a].score])

\* apply_to_version after _reapply_records, and the commit.
Commit(j) ==
    /\ job[j].pc = "fetched"
    /\ LET me == job[j]
           copies == [a \in Advisories |-> IF a \in me.fresh THEN me.copies[a] ELSE store[a]]
           score == [a \in DOMAIN me.copies |-> IF me.copies[a] = None THEN None ELSE me.copies[a].score]
           answered == DOMAIN me.found
           \* the rows its session holds as loaded; the others it reads anew
           was == [v \in Versions |-> IF v \in DOMAIN me.loaded THEN me.loaded[v] ELSE row[v]]
           mid == [v \in Versions |->
                     IF was[v].scanned /\ \E a \in me.refreshed : <<v, a>> \in links
                     THEN Recomputed(v, copies) ELSE was[v]]
           last == [v \in Versions |->
                      IF v \in answered THEN Columns(me.found[v], score)
                      ELSE IF v \in me.bad THEN [mid[v] EXCEPT !.scanned = TRUE] ELSE mid[v]]
           unlinked == {p \in links : p[1] \in answered /\ p[2] \notin me.found[p[1]]}
           applied == {v \in answered : mid[v] # last[v] \/ \E p \in unlinked : p[1] = v}
           changed == applied \cup {v \in Versions : mid[v] # was[v]}
       IN /\ store' = copies
          /\ row' = [v \in Versions |-> Flushed(was[v], mid[v], last[v], row[v])]
          /\ links' = (links \ unlinked) \cup {p \in answered \X Advisories : p[2] \in me.found[p[1]]}
          /\ job' = [job EXCEPT ![j] =
                IF me.kind = "refresh"
                THEN IF changed = {} THEN Idle ELSE [pc |-> "drop", kind |-> "refresh"]
                ELSE IF me.kind = "render"
                THEN [pc |-> IF eco = "pypi" /\ applied # {} THEN "drop" ELSE "render",
                      kind |-> "render", memo |-> me.memo, loaded |-> last]
                ELSE Idle]
    /\ UNCHANGED <<eco, osv, policy, cached, doc, edit, spent, saidClean, straddled>>

\* invalidate_changed, invalidate_package_cache: after the commit.
Drop(j) ==
    /\ job[j].pc = "drop"
    /\ doc' = None
    /\ job' = [job EXCEPT ![j] = IF @.kind = "render" THEN [@ EXCEPT !.pc = "render"] ELSE Idle]
    /\ UNCHANGED <<eco, osv, store, links, row, policy, cached, edit, spent, saidClean, straddled>>

\* rescore_stored: scores anew from the records kept; malware without a score
\* loses the one it was given.
Rescore(r) ==
    /\ job[r] = Idle /\ MaySpend("moves")
    /\ LET copies == [a \in Advisories |-> IF store[a] = None THEN None
                                           ELSE [store[a] EXCEPT !.score = store[a].raw]]
           linked == {p[1] : p \in links}
           worst  == [v \in Versions |-> IF v \in linked THEN Recomputed(v, copies).score
                                         ELSE row[v].score]
       IN /\ store' = copies
          /\ row' = [v \in Versions |-> [row[v] EXCEPT !.score = worst[v]]]
          /\ job' = [job EXCEPT ![r] = IF row' = row THEN Idle ELSE [pc |-> "drop", kind |-> "rescore"]]
    /\ spent' = Spent("moves")
    /\ UNCHANGED <<eco, osv, links, policy, cached, doc, edit, saidClean, straddled>>

-------------------------------------------------------------------------------
(* The administrator's edits of rules and settings.                        *)

Rendering == {r \in Requests : job[r] # Idle /\ job[r].kind = "render"}

SetPolicy(k, values) ==
    /\ edit = None /\ MaySpend("edits")
    /\ \E new \in values \ {policy[k]} : policy' = [policy EXCEPT ![k] = new]
    /\ edit' = "rules" /\ straddled' = (Rendering # {})
    /\ spent' = Spent("edits")
    /\ UNCHANGED <<eco, osv, store, links, row, cached, doc, job, saidClean>>

\* create_rule, update_rule, delete_rule: the commit.
EditRules == SetPolicy("rules", RuleSets)

\* update_cve_policy, update_allowlist_mode: the commit.
EditSettings == SetPolicy("settings", SettingSets)

\* Mutant: the documents are dropped first.
InvalidateDocFirst ==
    /\ edit # None
    /\ edit' = CASE edit = "rules" -> "settings" [] edit = "settings" -> "doc" [] edit = "doc" -> None
    /\ cached' = CASE edit = "rules" -> cached [] edit = "settings" -> [cached EXCEPT !.rules = None]
                   [] edit = "doc" -> [cached EXCEPT !.settings = None]
    /\ doc' = IF edit = "rules" THEN None ELSE doc
    /\ straddled' = (straddled \/ (edit' = None /\ Rendering # {}))
    /\ UNCHANGED <<eco, osv, store, links, row, policy, job, spent, saidClean>>

\* invalidate_policy_cache: one prefix after the other, documents last.
Invalidate ==
    /\ edit # None
    /\ edit' = CASE edit = "rules" -> "settings" [] edit = "settings" -> "doc" [] edit = "doc" -> None
    /\ cached' = IF edit = "doc" THEN cached ELSE [cached EXCEPT ![edit] = None]
    /\ doc' = IF edit = "doc" THEN None ELSE doc
    /\ straddled' = (straddled \/ (edit' = None /\ Rendering # {}))
    /\ UNCHANGED <<eco, osv, store, links, row, policy, job, spent, saidClean>>

\* CACHE_TTL.
ExpirePolicy(k) ==
    /\ cached[k] # None /\ cached' = [cached EXCEPT ![k] = None]
    /\ UNCHANGED <<eco, osv, store, links, row, policy, doc, job, edit, spent, saidClean, straddled>>

\* Mutant: documents are cached without an expiry.
NoDocExpiry == UNCHANGED vars

\* META_CACHE_TTL.
ExpireDoc ==
    /\ doc # None /\ doc' = None
    /\ UNCHANGED <<eco, osv, store, links, row, policy, cached, job, edit, spent, saidClean,
                   straddled>>

-------------------------------------------------------------------------------
(* A request for the document: _packument_response, simple_project,        *)
(* index_file.                                                             *)

StartRender(r) ==
    /\ job[r] = Idle
    /\ job' = [job EXCEPT ![r] = [pc |-> "load", kind |-> "render",
                                  key |-> "rules",
                                  memo |-> [k \in {"rules", "settings"} |-> None]]]
    /\ UNCHANGED <<eco, osv, store, links, row, policy, cached, doc, edit, spent, saidClean,
                   straddled>>

Loaded(me) == IF me.key = "rules" THEN [me EXCEPT !.pc = "load", !.key = "settings"]
              ELSE [me EXCEPT !.pc = "lookup"]

\* _load_rules, get_setting: the cache's entry, else the table's rows,
\* memoised for the request and put in the cache in a step of its own.
Load(r) ==
    /\ job[r].pc = "load"
    /\ LET k == job[r].key
       IN job' = [job EXCEPT ![r] =
                    IF cached[k] # None THEN Loaded([@ EXCEPT !.memo[k] = cached[k]])
                    ELSE [@ EXCEPT !.memo[k] = policy[k], !.pc = "put"]]
    /\ UNCHANGED <<eco, osv, store, links, row, policy, cached, doc, edit, spent, saidClean,
                   straddled>>

Put(r) ==
    /\ job[r].pc = "put"
    /\ cached' = [cached EXCEPT ![job[r].key] = job[r].memo[job[r].key]]
    /\ job' = [job EXCEPT ![r] = Loaded(@)]
    /\ UNCHANGED <<eco, osv, store, links, row, policy, doc, edit, spent, saidClean, straddled>>

\* A name refused, a document in the cache, or else the versions' rows;
\* then _scan_new_versions asks about those never scanned.
Lookup(r) ==
    /\ job[r].pc = "lookup"
    /\ IF NameBlocked(job[r].memo) \/ doc # None
       THEN job' = [job EXCEPT ![r] = Idle] /\ UNCHANGED saidClean
       ELSE IF UnscannedIn(row) # {} THEN Ask(r, "render", UnscannedIn(row), job[r].memo)
       ELSE /\ job' = [job EXCEPT ![r] = [pc |-> "render", kind |-> "render", memo |-> @.memo,
                                          loaded |-> row]]
            /\ UNCHANGED saidClean
    /\ UNCHANGED <<eco, osv, store, links, row, policy, cached, doc, edit, spent, straddled>>

\* The query fails, npm's inline budget runs out or the scan raises: rendered unscanned.
GiveUp(r) ==
    /\ job[r].pc = "asked" /\ job[r].kind = "render"
    /\ job' = [job EXCEPT ![r] = [pc |-> "render", kind |-> "render", memo |-> @.memo,
                                  loaded |-> @.loaded]]
    /\ UNCHANGED <<eco, osv, store, links, row, policy, cached, doc, edit, spent, saidClean,
                   straddled>>

\* Filtered by the policy first loaded and cached; a document that lists
\* nothing is refused instead, except by cargo.
Render(r) ==
    /\ job[r].pc = "render"
    /\ LET listing == Listing(job[r].memo, job[r].loaded)
       IN doc' = IF listing = {} /\ eco # "cargo" THEN doc ELSE listing
    /\ job' = [job EXCEPT ![r] = Idle]
    /\ UNCHANGED <<eco, osv, store, links, row, policy, cached, edit, spent, saidClean, straddled>>

-------------------------------------------------------------------------------
Step(r) ==
    \/ Load(r) \/ Put(r) \/ Lookup(r) \/ Hydrate(r) \/ Commit(r) \/ Drop(r) \/ Render(r)

RefreshStep ==
    RefreshBegin \/ Hydrate(Refresher) \/ Commit(Refresher) \/ Drop(Refresher)

Next ==
    \/ \E a \in Advisories : Publish(a)
    \/ RefreshStep
    \/ \E r \in Requests :
          Step(r) \/ GiveUp(r) \/ AdminScan(r) \/ Audit(r) \/ Rescore(r) \/ StartRender(r)
    \/ EditRules \/ EditSettings \/ Invalidate
    \/ \E k \in {"rules", "settings"} : ExpirePolicy(k)
    \/ ExpireDoc

\* housekeeping_loop runs the refresh for ever, a request once begun proceeds,
\* and what the cache holds expires.
Fairness ==
    /\ WF_vars(RefreshStep)
    /\ \A r \in Requests : WF_vars(Step(r))
    /\ WF_vars(Invalidate)
    /\ \A k \in {"rules", "settings"} : WF_vars(ExpirePolicy(k))
    /\ WF_vars(ExpireDoc)

Spec == Init /\ [][Next]_vars /\ Fairness

-------------------------------------------------------------------------------
(* Properties.                                                             *)

\* A version is recorded as scanned and clean only if OSV once had nothing
\* against it: a failed query, a record that could not be fetched and a
\* poisonous row leave it unscanned or unscored (scan_versions, _scan_group).
NeverCleanUnsaid ==
    \A v \in Versions :
        row[v].scanned /\ row[v].score = 0 /\ ~row[v].adv => v \in saidClean

\* Once an edit's request has returned, and no metadata request was under way
\* as it committed or as it returned, nothing cached goes against it: neither
\* the rules and settings, nor a document (invalidate_policy_cache).
EditTakesHold ==
    edit = None /\ ~straddled =>
        /\ \A k \in {"rules", "settings"} : cached[k] \in {None, policy[k]}
        /\ doc # None => \A v \in doc : RulesAllow(policy, v)

\* Every version comes to be judged as OSV's data has it, under every policy,
\* whichever scans overlapped or failed (_is_stale, _cve_refresh_task).
VerdictCatchesUp ==
    <>[](\A v \in Versions, s \in SettingSets :
                      CveDenies(s, row[v]) = CveDenies(s, Truth(v)))

\* The cached document comes to list what the policy in force allows of the
\* versions' verdicts and nothing else, whoever cached what in between.
DocsCatchUp ==
    <>[](doc # None => doc = Listing(policy, row))

\* Refuted (MCAdvisoriesRescore.cfg): malware keeps the score it was given, so
\* that any range of blocked scores holds it (the comment on MALICIOUS_SCORE).
MalwareScored == \A a \in Malware : store[a] # None => store[a].score # None

\* Refuted (MCAdvisoriesOverlap.cfg): the columns of a scanned version are what
\* its links make them (_recompute_versions); two scans of one version that
\* overlap each write what changed against their own load.
RowsMatchLinks ==
    \A v \in Versions : row[v].scanned => (row[v].adv <=> \E p \in links : p[1] = v)
=============================================================================
