---------------------------- MODULE PolicyProofs ----------------------------
(***************************************************************************)
(* Proofs about what the policy goes by: the advisories recorded of the    *)
(* versions of a package and the rules in force on them (Advisories), and  *)
(* what a version rule covers and the tags of a package point at under it  *)
(* (DistTags, over the orders and ranges of Semver).                       *)
(***************************************************************************)
EXTENDS DistTags, Advisories, FiniteSetTheorems, SequenceTheorems, WellFoundedInduction, TLAPS

------------------------------------------------------------------------------
(* Advisories: the invariant.                                              *)

\* The parts of the policy that are cached, a cache of them, and what OSV holds.
Keys == {"rules", "settings"}
Memo == [Keys -> RuleSets \cup SettingSets \cup {None}]
Advisory == [names : SUBSET Versions, score : Scores \cup {None}, rev : Nat]

\* A request that reads the policy, one that has its rows, and one that has
\* committed a scan and has a document to drop.
Loading == [pc : {"load", "put", "lookup"}, kind : {"render"}, key : Keys, memo : Memo]
Leaving == [pc : {"drop", "render"}, kind : {"render"}, memo : Memo, loaded : [Versions -> Row]]
Dropping == [pc : {"drop"}, kind : {"refresh", "rescore"}]

\* The rows a session holds: what went since was written by a clean answer.
Held(me) ==
    /\ DOMAIN me.loaded \subseteq Versions /\ me.loaded \in [DOMAIN me.loaded -> Row]
    /\ me.kind = "render" => me.memo \in Memo /\ DOMAIN me.loaded = Versions
    /\ \A v \in DOMAIN me.loaded :
          /\ me.loaded[v].scanned => row[v].scanned
          /\ me.loaded[v].adv /\ ~row[v].adv => v \in saidClean

Asking(me) ==
    /\ me.pc = "asked" /\ me.kind \in {"refresh", "scan", "audit", "render"} /\ Held(me)
    /\ DOMAIN me.seen \subseteq Advisories /\ DOMAIN me.named \subseteq Versions
    /\ \A v \in DOMAIN me.named :
          me.named[v] \subseteq DOMAIN me.seen /\ (me.named[v] \subseteq Noise => v \in saidClean)

Answered(me) ==
    /\ me.pc = "fetched" /\ me.kind \in {"refresh", "scan", "render"} /\ Held(me)
    /\ DOMAIN me.copies \subseteq Advisories
    /\ \A a \in DOMAIN me.copies :
          me.copies[a] # None => me.copies[a] \in Copy /\ me.copies[a].rev <= osv[a].rev
    /\ me.fresh \subseteq DOMAIN me.copies /\ \A a \in me.fresh : me.copies[a] # None
    /\ DOMAIN me.found \subseteq Versions
    /\ \A v \in DOMAIN me.found :
          /\ me.found[v] \subseteq DOMAIN me.copies /\ (me.found[v] = {} => v \in saidClean)
          /\ \A a \in me.found[v] : a \in me.fresh \/ store[a] # None

JobOK(me) == me \in {Idle} \cup Loading \cup Leaving \cup Dropping \/ Asking(me) \/ Answered(me)

\* The tables and what the cache holds.
Tables ==
    /\ TypeOK
    /\ osv \in [Advisories -> Advisory] /\ store \in [Advisories -> Copy \cup {None}]
    /\ policy \in [rules : RuleSets, settings : SettingSets] /\ cached \in Memo
    /\ spent = [moves |-> spent.moves, edits |-> spent.edits, fails |-> spent.fails]
    /\ spent.moves \in Nat

JobsOK == job = [j \in Jobs |-> job[j]] /\ \A j \in Jobs : JobOK(job[j])

\* A row is as new, or its score says something, or OSV had nothing to say.
Sound(r, said) == IF r.scanned THEN r.adv \/ r.score = None \/ said ELSE r = NewRow

Clean ==
    /\ \A v \in Versions : Sound(row[v], v \in saidClean)
    /\ \A p \in links : row[p[1]].scanned /\ (row[p[1]].adv \/ p[1] \in saidClean)

\* The policy a request goes by, as far as it has loaded it.
Knows(me, k) == me.memo[k] = policy[k]

\* What a request for the document goes by is in force, but for an edit under way.
Informed(me) ==
    /\ me.pc = "put" => Knows(me, me.key)
    /\ edit = None =>
          IF me.pc \in {"load", "put"} THEN me.key = "settings" => Knows(me, "rules")
          ELSE \A k \in Keys : Knows(me, k)

\* So is what the cache holds, as far as an edit under way has invalidated it.
Caches ==
    /\ edit # "rules" => cached["rules"] \in {None, policy.rules}
    /\ edit \notin {"rules", "settings"} => cached["settings"] \in {None, policy.settings}
    /\ edit = None /\ doc # None => \A v \in doc : RulesAllow(policy, v)

Holds == Caches /\ \A r \in Rendering : Informed(job[r])

\* What the last edit left is in force, and every step keeps the rest.
HoldInv == ~straddled => Holds
IInv == Tables /\ JobsOK /\ Clean

\* The worst of scores is one.
LEMMA WorstTyped ==
    ASSUME NEW S \in SUBSET (Scores \cup {None})
    PROVE  Worst(S) \in Scores \cup {None}
<1>1. CASE S \subseteq {None}
  BY <1>1 DEF Worst
<1>2. CASE ~(S \subseteq {None})
  <2>1. \E x \in S \ {None} : \A y \in S \ {None} : x >= y
    <3>1. S \ {None} \subseteq 0..2 /\ S \ {None} # {}
      BY <1>2 DEF Scores
    <3> QED
      BY <3>1
  <2>2. Max(S \ {None}) \in S \ {None}
    BY <2>1 DEF Max
  <2> QED
    BY <1>2, <2>2 DEF Worst
<1> QED
  BY <1>1, <1>2

\* The columns of a version are of their kinds, and clean only without advisories.
LEMMA ColumnsTyped ==
    ASSUME NEW cves, NEW score, \A a \in cves : score[a] \in Scores \cup {None}
    PROVE  /\ Columns(cves, score) \in Row /\ Columns(cves, score).scanned
           /\ Columns(cves, score).adv <=> cves # {}
<1>1. (IF cves = {} THEN 0 ELSE Worst({score[a] : a \in cves})) \in Scores \cup {None}
  <2>1. {score[a] : a \in cves} \in SUBSET (Scores \cup {None})
    OBVIOUS
  <2> QED
    BY <2>1, WorstTyped DEF Scores
<1>2. \A s \in Scores \cup {None} : \A f, d, m \in BOOLEAN :
         /\ [scanned |-> TRUE, score |-> s, fix |-> f, adv |-> d, mal |-> m] \in Row
         /\ [scanned |-> TRUE, score |-> s, fix |-> f, adv |-> d, mal |-> m].scanned
         /\ [scanned |-> TRUE, score |-> s, fix |-> f, adv |-> d, mal |-> m].adv <=> d
  BY DEF Row
<1>3. (cves \cap Fixable # {}) \in BOOLEAN /\ (cves # {}) \in BOOLEAN /\ (cves \cap Malware # {}) \in BOOLEAN
  OBVIOUS
<1> QED
  BY <1>1, <1>2, <1>3, Zenon DEF Columns

\* A merged row takes each column from the session's or the table's.
LEMMA FlushedColumns ==
    ASSUME NEW l \in Row, NEW x \in Row, NEW y \in Row, NEW cur \in Row
    PROVE  /\ Flushed(l, x, y, cur) \in Row
           /\ \A c \in {"scanned", "score", "fix", "adv", "mal"} :
                 Flushed(l, x, y, cur)[c] = IF x[c] # l[c] \/ y[c] # x[c] THEN y[c] ELSE cur[c]
<1>1. DOMAIN y = {"scanned", "score", "fix", "adv", "mal"}
  BY DEF Row
<1>2. \A r : /\ DOMAIN r = {"scanned", "score", "fix", "adv", "mal"}
             /\ r = [c \in DOMAIN r |-> r[c]]
             /\ r["scanned"] \in BOOLEAN /\ r["score"] \in Scores \cup {None} /\ r["fix"] \in BOOLEAN
             /\ r["adv"] \in BOOLEAN /\ r["mal"] \in BOOLEAN
             => r \in Row
  BY DEF Row
<1>3. \A r \in Row : /\ r["scanned"] \in BOOLEAN /\ r["score"] \in Scores \cup {None} /\ r["fix"] \in BOOLEAN
                     /\ r["adv"] \in BOOLEAN /\ r["mal"] \in BOOLEAN
  BY DEF Row
<1>4. \A c \in {"scanned", "score", "fix", "adv", "mal"} :
         Flushed(l, x, y, cur)[c] = IF x[c] # l[c] \/ y[c] # x[c] THEN y[c] ELSE cur[c]
  BY <1>1, Zenon DEF Flushed
<1>5. DOMAIN Flushed(l, x, y, cur) = {"scanned", "score", "fix", "adv", "mal"}
  BY <1>1, Zenon DEF Flushed
<1>6. Flushed(l, x, y, cur) = [c \in DOMAIN Flushed(l, x, y, cur) |-> Flushed(l, x, y, cur)[c]]
  BY <1>1, <1>5, Zenon DEF Flushed
<1>7. \A c \in {"scanned", "score", "fix", "adv", "mal"} : Flushed(l, x, y, cur)[c] \in {y[c], cur[c]}
  BY <1>4, Zenon
<1>8. /\ Flushed(l, x, y, cur)["scanned"] \in BOOLEAN /\ Flushed(l, x, y, cur)["score"] \in Scores \cup {None}
      /\ Flushed(l, x, y, cur)["fix"] \in BOOLEAN /\ Flushed(l, x, y, cur)["adv"] \in BOOLEAN
      /\ Flushed(l, x, y, cur)["mal"] \in BOOLEAN
  BY <1>3, <1>7, Zenon
<1> QED
  BY <1>2, <1>4, <1>5, <1>6, <1>8, Zenon

\* What a step may do to the tables while scans are under way: revisions grow,
\* copies stay, and a row loses its advisories only to a clean answer.
Grows ==
    /\ \A a \in Advisories : osv[a].rev <= osv'[a].rev /\ (store[a] # None => store'[a] # None)
    /\ \A v \in Versions : /\ row[v].scanned => row'[v].scanned
                           /\ row[v].adv /\ ~row'[v].adv => v \in saidClean'
    /\ saidClean \subseteq saidClean'

\* A scan under way is none the worse for such a step of another.
LEMMA OthersKept ==
    ASSUME Tables, Tables', Grows, NEW me, JobOK(me)
    PROVE  JobOK(me)'
<1>1. CASE me \in {Idle} \cup Loading \cup Leaving \cup Dropping
  BY <1>1 DEF JobOK
<1>2. ASSUME Held(me) PROVE Held(me)'
  BY <1>2 DEF Held, Grows
<1>3. CASE Asking(me)
  <2>1. Asking(me)'
    BY <1>2, <1>3 DEF Asking, Grows
  <2> QED
    BY <2>1 DEF JobOK
<1>4. CASE Answered(me)
  <2>1. ASSUME NEW a \in DOMAIN me.copies, me.copies[a] # None
        PROVE  me.copies[a] \in Copy /\ me.copies[a].rev <= osv'[a].rev
    <3>1. a \in Advisories /\ me.copies[a] \in Copy /\ me.copies[a].rev <= osv[a].rev
      BY <1>4, <2>1 DEF Answered
    <3>2. me.copies[a].rev \in Nat /\ osv[a].rev \in Nat /\ osv'[a].rev \in Nat /\ osv[a].rev <= osv'[a].rev
      BY <3>1 DEF Grows, Tables, Copy, Advisory
    <3> QED
      BY <3>1, <3>2
  <2>2. \A v \in DOMAIN me.found : \A a \in me.found[v] : a \in Advisories
    BY <1>4 DEF Answered
  <2>3. Answered(me)'
    BY <1>2, <1>4, <2>1, <2>2 DEF Answered, Grows
  <2> QED
    BY <2>3 DEF JobOK
<1> QED
  BY <1>1, <1>3, <1>4 DEF JobOK

\* So one job's step leaves them all in order.
LEMMA JobsKept ==
    ASSUME IInv, Tables', Grows, NEW j \in Jobs, NEW me, job' = [job EXCEPT ![j] = me], JobOK(me)'
    PROVE  JobsOK'
<1>1. job' = [i \in Jobs |-> job'[i]]
  BY DEF IInv, JobsOK
<1>2. ASSUME NEW i \in Jobs PROVE JobOK(job[i])'
  <2>1. CASE i = j
    <3>1. job'[i] = me
      BY <2>1 DEF IInv, JobsOK
    <3> QED
      BY <3>1
  <2>2. CASE i # j
    <3>1. PICK it : it = job[i]
      OBVIOUS
    <3>2. job'[i] = it /\ JobOK(it)
      BY <2>2, <3>1 DEF IInv, JobsOK
    <3>3. JobOK(it)'
      BY <3>2, OthersKept DEF IInv
    <3> QED
      BY <3>2, <3>3
  <2> QED
    BY <2>1, <2>2
<1> QED
  BY <1>1, <1>2 DEF JobsOK

\* A step that leaves every job where it is leaves them in order.
LEMMA AllJobsKept ==
    ASSUME IInv, Tables', Grows, UNCHANGED job
    PROVE  JobsOK'
<1>1. ASSUME NEW i \in Jobs PROVE JobOK(job[i])'
  <2>1. PICK it : it = job[i]
    OBVIOUS
  <2>2. job'[i] = it /\ JobOK(it)
    BY <2>1 DEF IInv, JobsOK
  <2>3. JobOK(it)'
    BY <2>2, OthersKept DEF IInv
  <2> QED
    BY <2>2, <2>3
<1> QED
  BY <1>1 DEF JobsOK, IInv

\* A step that leaves the versions and the links alone.
LEMMA RowsKept ==
    ASSUME IInv, UNCHANGED <<row, links>>, saidClean \subseteq saidClean'
    PROVE  Clean'
BY DEF IInv, Clean, Sound

\* Nothing is known, nothing under way.
LEMMA InitIInv == Init => IInv
<1> SUFFICES ASSUME Init PROVE IInv
  OBVIOUS
<1>1. osv \in [Advisories -> Advisory]
  BY AdvisoriesAssumption DEF Init, Advisory, AnswerType
<1>2. ASSUME NEW a \in Advisories
      PROVE  osv[a].rev \in 0..spent.moves /\ [names |-> osv[a].names, score |-> osv[a].score] \in AnswerType
  BY AdvisoriesAssumption DEF Init, AnswerType
<1>3. TypeOK
  BY <1>2, AdvisoriesAssumption DEF Init, TypeOK, Row, NewRow
<1>4. Tables
  BY <1>1, <1>3, AdvisoriesAssumption DEF Init, Tables, Memo, Keys
<1>5. JobsOK
  BY DEF Init, JobsOK, JobOK
<1>6. Clean
  BY DEF Init, Clean, Sound, NewRow
<1> QED
  BY <1>4, <1>5, <1>6 DEF IInv

\* OSV changes its mind.
LEMMA Published ==
    ASSUME IInv, NEW a \in Advisories, Publish(a)
    PROVE  IInv'
<1>1. PICK said \in Answers[a] :
         osv' = [osv EXCEPT ![a] = [names |-> said.names, score |-> said.score, rev |-> @.rev + 1]]
  BY DEF Publish
<1>2. UNCHANGED <<eco, store, links, row, policy, cached, doc, job, edit, saidClean, straddled>> /\ spent' = Spent("moves")
  BY DEF Publish
<1>3. said \in AnswerType
  BY <1>1, AdvisoriesAssumption
<1>4. /\ spent' = [moves |-> spent'.moves, edits |-> spent'.edits, fails |-> spent'.fails]
      /\ spent'.moves = spent.moves + 1
  BY <1>2 DEF IInv, Tables, Spent
<1>5. osv' \in [Advisories -> Advisory]
  BY <1>1, <1>3 DEF IInv, Tables, Advisory, AnswerType
<1>6. \A b \in Advisories : osv[b].rev \in Nat /\ osv'[b].rev \in {osv[b].rev, osv[b].rev + 1}
  BY <1>1 DEF IInv, Tables, Advisory
<1>7. TypeOK'
  <2>1. ASSUME NEW b \in Advisories
        PROVE  /\ osv'[b].rev \in 0..spent'.moves /\ [names |-> osv'[b].names, score |-> osv'[b].score] \in AnswerType
               /\ store'[b] # None => store'[b].rev <= osv'[b].rev
    <3>1. /\ spent.moves \in Nat /\ osv[b].rev \in Nat /\ osv[b].rev <= spent.moves
          /\ osv'[b].rev \in {osv[b].rev, osv[b].rev + 1} /\ spent'.moves = spent.moves + 1
      <4>1. spent.moves \in Nat /\ osv[b].rev \in 0..spent.moves
        BY DEF IInv, Tables, TypeOK
      <4> QED
        BY <4>1, <1>4, <1>6
    <3>2. osv'[b].rev \in 0..spent'.moves
      BY <3>1
    <3>3. [names |-> osv'[b].names, score |-> osv'[b].score] \in AnswerType
      BY <1>5 DEF Advisory, AnswerType
    <3>4. store[b] # None => store[b].rev \in Nat /\ store[b].rev <= osv[b].rev
      BY DEF IInv, Tables, TypeOK, Copy
    <3>5. store'[b] # None => store'[b].rev <= osv'[b].rev
      BY <1>2, <3>1, <3>4
    <3> QED
      BY <3>2, <3>3, <3>5
  <2> QED
    BY <1>2, <2>1 DEF IInv, Tables, TypeOK
<1>8. Tables'
  BY <1>2, <1>4, <1>5, <1>7 DEF IInv, Tables
<1>9. Grows
  BY <1>2, <1>6 DEF Grows
<1> QED
  BY <1>2, <1>8, <1>9, AllJobsKept, RowsKept DEF IInv

\* A step of a job that leaves the versions and what is said of them alone.
LEMMA JobStepped ==
    ASSUME IInv, Tables', NEW j \in Jobs, NEW me, job' = [job EXCEPT ![j] = me], JobOK(me)',
           UNCHANGED <<osv, store, links, row>>, saidClean \subseteq saidClean'
    PROVE  IInv'
<1>1. Grows
  BY DEF Grows, IInv, Tables, Advisory
<1> QED
  BY <1>1, JobsKept, RowsKept DEF IInv

\* One that leaves all the tables alone.
LEMMA JobMoved ==
    ASSUME IInv, NEW j \in Jobs, NEW me, job' = [job EXCEPT ![j] = me], JobOK(me)',
           UNCHANGED <<eco, osv, store, links, row, policy, cached, doc, edit, spent>>,
           saidClean \subseteq saidClean'
    PROVE  IInv'
<1>1. Tables'
  BY DEF IInv, Tables, TypeOK
<1> QED
  BY <1>1, JobStepped

\* A scan has its answer from OSV.
LEMMA Asks ==
    ASSUME IInv, NEW j \in Jobs, NEW kind \in {"refresh", "scan", "audit", "render"},
           NEW batch \in SUBSET Versions, NEW memo, kind = "render" => memo \in Memo,
           Ask(j, kind, batch, memo),
           UNCHANGED <<eco, osv, store, links, row, policy, cached, doc, edit, spent>>
    PROVE  IInv'
<1>1. PICK me : me = Asked(kind, batch, memo)
  OBVIOUS
<1>2. /\ me.pc = "asked" /\ me.kind = kind /\ me.memo = memo
      /\ me.loaded = [v \in (IF kind = "render" THEN Versions ELSE batch) |-> row[v]]
      /\ me.named = [v \in batch |-> {a \in Advisories : v \in osv[a].names}]
      /\ DOMAIN me.seen = {b \in Advisories : osv[b].names \cap batch # {}}
  BY <1>1 DEF Asked
<1>3. job' = [job EXCEPT ![j] = me] /\ saidClean' = saidClean \cup {v \in batch : Against(v) = {}}
  BY <1>1 DEF Ask
<1>4. Held(me)'
  BY <1>2 DEF Held, IInv, Tables, TypeOK
<1>5. \A v \in DOMAIN me.named :
         me.named[v] \subseteq DOMAIN me.seen /\ (me.named[v] \subseteq Noise => v \in saidClean')
  BY <1>2, <1>3 DEF Against
<1>6. Asking(me)'
  BY <1>2, <1>4, <1>5 DEF Asking
<1>7. JobOK(me)'
  BY <1>6 DEF JobOK
<1> QED
  BY <1>3, <1>7, JobMoved

\* A row that a scan writes over what others have written since it was loaded:
\* was, brought to mid by the stale copies and to last by the answer, over cur.
Merging(cur, was, mid, last, said, answered) ==
    /\ {cur, was, mid, last} \subseteq Row /\ {said, answered} \subseteq BOOLEAN
    /\ was.scanned => cur.scanned
    /\ was.adv /\ ~cur.adv => said
    /\ Sound(cur, said)
    /\ mid = was \/ (was.scanned /\ mid.scanned /\ mid.adv)
    /\ answered => last.scanned /\ (last.adv \/ said)
    /\ ~answered => last = mid \/ last = [mid EXCEPT !.scanned = TRUE]

Merged(cur, new, said, answered) ==
    /\ new \in Row /\ Sound(new, said)
    /\ cur.scanned => new.scanned
    /\ cur.adv /\ ~new.adv => said
    /\ answered => new.scanned /\ (new.adv \/ said)

\* The row stays scanned, and only a clean answer clears it.
LEMMA MergedRow ==
    ASSUME NEW cur, NEW was, NEW mid, NEW last, NEW said, NEW answered,
           Merging(cur, was, mid, last, said, answered), NEW new, new = Flushed(was, mid, last, cur)
    PROVE  Merged(cur, new, said, answered)
<1> USE DEF Merging
<1>1. /\ cur \in Row /\ was \in Row /\ mid \in Row /\ last \in Row
      /\ said \in BOOLEAN /\ answered \in BOOLEAN
  OBVIOUS
<1>2. /\ new \in Row
      /\ new.scanned = IF mid.scanned # was.scanned \/ last.scanned # mid.scanned THEN last.scanned ELSE cur.scanned
      /\ new.adv = IF mid.adv # was.adv \/ last.adv # mid.adv THEN last.adv ELSE cur.adv
      /\ new.score = IF mid.score # was.score \/ last.score # mid.score THEN last.score ELSE cur.score
  <2>1. /\ new \in Row
        /\ \A c \in {"scanned", "score", "fix", "adv", "mal"} :
              new[c] = IF mid[c] # was[c] \/ last[c] # mid[c] THEN last[c] ELSE cur[c]
    <3>1. /\ Flushed(was, mid, last, cur) \in Row
          /\ \A c \in {"scanned", "score", "fix", "adv", "mal"} : Flushed(was, mid, last, cur)[c] =
                IF mid[c] # was[c] \/ last[c] # mid[c] THEN last[c] ELSE cur[c]
      BY <1>1, FlushedColumns
    <3> QED
      BY <3>1, Zenon
  <2> QED
    BY <2>1, Zenon
<1>3. \A r \in Row : r.scanned \in BOOLEAN /\ r.adv \in BOOLEAN
  BY DEF Row
<1>4. ~answered => last.adv = mid.adv /\ last.score = mid.score /\ (mid.scanned => last.scanned)
  <2>1. \A r \in Row : LET s == [r EXCEPT !.scanned = TRUE] IN s.adv = r.adv /\ s.score = r.score /\ s.scanned
    BY DEF Row
  <2> QED
    BY <2>1, Zenon
<1>5. (mid.scanned => last.scanned) /\ (was.scanned => mid.scanned)
  BY <1>1, <1>4, Zenon
<1>6. cur.scanned => new.scanned
  <2>1. CASE mid.scanned # was.scanned \/ last.scanned # mid.scanned
    <3>1. last.scanned
      BY <1>1, <1>3, <1>5, <2>1, Zenon
    <3> QED
      BY <1>2, <2>1, <3>1, Zenon
  <2>2. CASE ~(mid.scanned # was.scanned \/ last.scanned # mid.scanned)
    BY <1>2, <2>2, Zenon
  <2> QED
    BY <2>1, <2>2, Zenon
<1>7. answered => new.scanned /\ (new.adv \/ said)
  <2> SUFFICES ASSUME answered PROVE new.scanned /\ (new.adv \/ said)
    BY Zenon
  <2>1. new.scanned
    <3>1. CASE mid.scanned # was.scanned \/ last.scanned # mid.scanned
      BY <1>2, <3>1, Zenon
    <3>2. CASE ~(mid.scanned # was.scanned \/ last.scanned # mid.scanned)
      BY <1>2, <1>6, <3>2, Zenon
    <3> QED
      BY <3>1, <3>2, Zenon
  <2>2. ASSUME ~said PROVE new.adv
    <3>1. CASE mid.adv # was.adv \/ last.adv # mid.adv
      BY <1>2, <2>2, <3>1, Zenon
    <3>2. CASE ~(mid.adv # was.adv \/ last.adv # mid.adv)
      BY <1>2, <2>2, <3>2, Zenon
    <3> QED
      BY <3>1, <3>2, Zenon
  <2> QED
    BY <2>1, <2>2, Zenon
<1>8. ASSUME cur.adv, ~new.adv PROVE said
  <2>1. (mid.adv # was.adv \/ last.adv # mid.adv) /\ ~last.adv
    BY <1>2, <1>8, Zenon
  <2>2. answered \/ (~mid.adv /\ mid.adv # was.adv)
    BY <1>1, <1>3, <1>4, <2>1, Zenon
  <2> QED
    BY <2>1, <2>2, Zenon
<1>9. Sound(new, said)
  <2>1. CASE answered
    BY <1>6, <1>7, <2>1, Zenon DEF Sound
  <2>2. ASSUME ~answered, ~said, new.scanned, ~new.adv PROVE new.score = None
    <3>1. ~cur.adv /\ ~was.adv
      BY <1>8, <2>2, Zenon
    <3>2. ~mid.adv
      BY <1>1, <1>2, <1>3, <1>4, <2>2, <3>1, Zenon
    <3>3. mid = was /\ new.score = cur.score
      BY <1>2, <1>4, <2>2, <3>2, Zenon
    <3>4. cur.score = None
      BY <2>2, <3>1 DEF Sound, NewRow
    <3> QED
      BY <3>3, <3>4
  <2>3. ASSUME ~answered, ~new.scanned PROVE new = NewRow
    <3>1. ~cur.scanned /\ ~was.scanned /\ mid = was
      BY <1>6, <2>3, Zenon
    <3>2. ~last.scanned
      BY <1>1, <1>2, <1>3, <2>3, <3>1, Zenon
    <3>3. last = was
      <4>1. \A r \in Row : LET s == [r EXCEPT !.scanned = TRUE] IN s.scanned
        BY DEF Row
      <4> QED
        BY <2>3, <3>1, <3>2, <4>1, Zenon
    <3>4. Flushed(was, was, was, cur) = cur
      BY DEF Flushed, Row
    <3> QED
      BY <3>1, <3>3, <3>4 DEF Sound
  <2> QED
    BY <2>1, <2>2, <2>3, Zenon DEF Sound
<1> QED
  BY <1>2, <1>6, <1>7, <1>8, <1>9, Zenon DEF Merged

\* What a scan with an answer has: the cases of its state.
LEMMA FetchedJob ==
    ASSUME IInv, NEW j \in Jobs, job[j].pc = "fetched"
    PROVE  Answered(job[j])
<1>1. JobOK(job[j])
  BY DEF IInv, JobsOK
<1>2. \A me \in {Idle} \cup Loading \cup Leaving \cup Dropping : me.pc # "fetched"
  BY DEF Idle, Loading, Leaving, Dropping
<1>3. \A me : Asking(me) => me.pc # "fetched"
  BY DEF Asking
<1> QED
  BY <1>1, <1>2, <1>3 DEF JobOK

\* A scan commits its answer.
LEMMA Committed ==
    ASSUME IInv, NEW j \in Jobs, Commit(j)
    PROVE  IInv'
<1> DEFINE me == job[j]
           copies == [a \in Advisories |-> IF a \in me.fresh THEN me.copies[a] ELSE store[a]]
           score == [a \in DOMAIN me.copies |-> IF me.copies[a] = None THEN None ELSE me.copies[a].score]
           answered == DOMAIN me.found
           was == [v \in Versions |-> IF v \in DOMAIN me.loaded THEN me.loaded[v] ELSE row[v]]
           mid == [v \in Versions |->
                     IF was[v].scanned /\ \E a \in me.refreshed : <<v, a>> \in links
                     THEN Recomputed(v, copies) ELSE was[v]]
           last == [v \in Versions |->
                      IF v \in answered THEN Columns(me.found[v], score)
                      ELSE IF v \in me.bad THEN [mid[v] EXCEPT !.scanned = TRUE] ELSE mid[v]]
           unlinked == {p \in links : p[1] \in answered /\ p[2] \notin me.found[p[1]]}
           applied == {v \in answered : mid[v] # last[v] \/ \E p \in unlinked : p[1] = v}
           changed == applied \cup {v \in Versions : mid[v] # was[v]}
           next == IF me.kind = "refresh"
                   THEN IF changed = {} THEN Idle ELSE [pc |-> "drop", kind |-> "refresh"]
                   ELSE IF me.kind = "render"
                   THEN [pc |-> IF eco = "pypi" /\ applied # {} THEN "drop" ELSE "render",
                         kind |-> "render", memo |-> me.memo, loaded |-> last]
                   ELSE Idle
<1>1. Answered(me) /\ Held(me)
  BY FetchedJob DEF Commit, Answered
<1>2. /\ store' = copies
      /\ row' = [v \in Versions |-> Flushed(was[v], mid[v], last[v], row[v])]
      /\ links' = (links \ unlinked) \cup {p \in answered \X Advisories : p[2] \in me.found[p[1]]}
      /\ job' = [job EXCEPT ![j] = next]
      /\ UNCHANGED <<eco, osv, policy, cached, doc, edit, spent, saidClean, straddled>>
  BY Zenon DEF Commit
<1> HIDE DEF me
<1>3. ASSUME NEW a \in Advisories
      PROVE  /\ copies[a] \in Copy \cup {None}
             /\ copies[a] # None => copies[a].rev <= osv[a].rev
             /\ store[a] # None \/ a \in me.fresh => copies[a] # None
  BY <1>1 DEF Answered, IInv, Tables, TypeOK
<1>4. copies \in [Advisories -> Copy \cup {None}]
  BY <1>3
<1>5. \A a \in Advisories : (IF copies[a] = None THEN None ELSE copies[a].score) \in Scores \cup {None}
  BY <1>3 DEF Copy
<1>6. \A a \in DOMAIN me.copies : score[a] \in Scores \cup {None}
  BY <1>1 DEF Answered, Copy
<1> HIDE DEF copies, score
<1>7. ASSUME NEW v \in Versions
      PROVE  /\ was[v] \in Row /\ (was[v].scanned => row[v].scanned)
             /\ (was[v].adv /\ ~row[v].adv => v \in saidClean)
  BY <1>1 DEF Held, IInv, Tables, TypeOK
<1> HIDE DEF was
<1>8. ASSUME NEW v \in Versions
      PROVE  mid[v] \in Row /\ (mid[v] = was[v] \/ (was[v].scanned /\ mid[v].scanned /\ mid[v].adv))
  <2>1. CASE was[v].scanned /\ \E a \in me.refreshed : <<v, a>> \in links
    <3> DEFINE cves == {a \in Advisories : <<v, a>> \in links}
               scores == [a \in Advisories |-> IF copies[a] = None THEN None ELSE copies[a].score]
    <3>1. mid[v] = Columns(cves, scores)
      BY <2>1 DEF Recomputed
    <3>2. cves # {}
      BY <2>1 DEF IInv, Tables, TypeOK
    <3>3. \A a \in cves : scores[a] \in Scores \cup {None}
      BY <1>5
    <3> HIDE DEF cves, scores, mid
    <3>4. mid[v] \in Row /\ mid[v].scanned /\ mid[v].adv
      BY <3>1, <3>2, <3>3, ColumnsTyped, Zenon
    <3> QED
      BY <2>1, <3>4
  <2>2. CASE ~(was[v].scanned /\ \E a \in me.refreshed : <<v, a>> \in links)
    BY <1>7, <2>2
  <2> QED
    BY <2>1, <2>2
<1> HIDE DEF mid
<1>9. ASSUME NEW v \in answered
       PROVE  last[v] \in Row /\ last[v].scanned /\ (last[v].adv \/ v \in saidClean)
  <2>1. v \in Versions /\ last[v] = Columns(me.found[v], score)
    BY <1>1 DEF Answered
  <2>2. \A a \in me.found[v] : score[a] \in Scores \cup {None}
    BY <1>1, <1>6 DEF Answered
  <2>3. me.found[v] = {} => v \in saidClean
    BY <1>1 DEF Answered
  <2> HIDE DEF last
  <2> QED
    BY <2>1, <2>2, <2>3, ColumnsTyped, Zenon
<1>10. ASSUME NEW v \in Versions, v \notin answered
       PROVE  last[v] \in Row /\ (last[v] = mid[v] \/ last[v] = [mid[v] EXCEPT !.scanned = TRUE])
  BY <1>8, <1>10 DEF Row
<1> HIDE DEF last
<1>11. ASSUME NEW v \in Versions
       PROVE  /\ row'[v] \in Row /\ Sound(row'[v], v \in saidClean)
              /\ row[v].scanned => row'[v].scanned
              /\ row[v].adv /\ ~row'[v].adv => v \in saidClean
              /\ v \in answered => row'[v].scanned /\ (row'[v].adv \/ v \in saidClean)
  <2>1. row'[v] = Flushed(was[v], mid[v], last[v], row[v])
    BY <1>2
  <2>2. row[v] \in Row /\ Sound(row[v], v \in saidClean)
    BY DEF IInv, Tables, TypeOK, Clean
  <2>3. last[v] \in Row
    BY <1>9, <1>10
  <2>4. /\ v \in answered => last[v].scanned /\ (last[v].adv \/ v \in saidClean)
        /\ v \notin answered => last[v] = mid[v] \/ last[v] = [mid[v] EXCEPT !.scanned = TRUE]
    BY <1>9, <1>10
  <2>5. PICK said \in BOOLEAN : said <=> v \in saidClean
    BY Zenon
  <2>6. PICK given \in BOOLEAN : given <=> v \in answered
    BY Zenon
  <2>7. Sound(row[v], said)
    BY <2>2, <2>5, Zenon DEF Sound
  <2>8. PICK cur, old, amid, final : cur = row[v] /\ old = was[v] /\ amid = mid[v] /\ final = last[v]
    OBVIOUS
  <2>9. Merging(cur, old, amid, final, said, given)
    BY <1>7, <1>8, <2>2, <2>3, <2>4, <2>5, <2>6, <2>7, <2>8, Zenon DEF Merging
  <2>10. PICK new : new = row'[v]
    OBVIOUS
  <2>11. new = Flushed(old, amid, final, cur)
    BY <2>1, <2>8, <2>10, Zenon
  <2>12. Merged(cur, new, said, given)
    BY <2>9, <2>11, MergedRow, Zenon
  <2> QED
    BY <2>5, <2>6, <2>8, <2>10, <2>12, Zenon DEF Merged, Sound
<1>12. ASSUME NEW p \in links'
       PROVE  /\ p \in Versions \X Advisories /\ store'[p[2]] # None
              /\ row'[p[1]].scanned /\ (row'[p[1]].adv \/ p[1] \in saidClean)
  <2>1. CASE p \in links
    <3>1. /\ p \in Versions \X Advisories /\ store[p[2]] # None
          /\ row[p[1]].scanned /\ (row[p[1]].adv \/ p[1] \in saidClean)
      BY <2>1 DEF IInv, Tables, TypeOK, Clean
    <3> QED
      BY <1>2, <1>3, <1>11, <3>1
  <2>2. CASE p \in answered \X Advisories /\ p[2] \in me.found[p[1]]
    <3>1. p \in Versions \X Advisories /\ (p[2] \in me.fresh \/ store[p[2]] # None)
      BY <1>1, <2>2 DEF Answered
    <3> QED
      BY <1>2, <1>3, <1>11, <2>2, <3>1
  <2> QED
    BY <1>2, <2>1, <2>2
<1>13. row' \in [Versions -> Row]
  BY <1>2, <1>11
<1>14. TypeOK'
  <2>1. \A a \in Advisories : store'[a] # None => store'[a].rev <= osv'[a].rev
    BY <1>2, <1>3
  <2> QED
    BY <1>2, <1>12, <1>13, <2>1 DEF IInv, Tables, TypeOK
<1>15. Tables'
  BY <1>2, <1>4, <1>14 DEF IInv, Tables
<1>16. Grows
  <2>1. \A a \in Advisories : osv[a].rev <= osv'[a].rev
    BY <1>2 DEF IInv, Tables, Advisory
  <2> QED
    BY <1>2, <1>3, <1>11, <2>1 DEF Grows
<1>17. Clean'
  BY <1>2, <1>11, <1>12 DEF Clean
<1>18. PICK it : it = next
  OBVIOUS
<1>19. JobOK(it)'
  <2>1. last \in [Versions -> Row]
    <3>1. last = [v \in Versions |-> last[v]]
      BY DEF last
    <3> QED
      BY <1>9, <1>10, <3>1
  <2>2. me.kind = "render" => me.memo \in Memo
    BY <1>1 DEF Held
  <2>3. it \in {Idle} \cup Leaving \cup Dropping
    BY <1>18, <2>1, <2>2 DEF Leaving, Dropping
  <2> QED
    BY <2>3 DEF JobOK
<1>20. JobsOK'
  <2> HIDE DEF next
  <2> QED
    BY <1>2, <1>15, <1>16, <1>18, <1>19, JobsKept
<1> QED
  BY <1>15, <1>17, <1>20 DEF IInv

\* The kinds of a job's state, told apart by how far it is.
LEMMA JobCases ==
    ASSUME IInv, NEW j \in Jobs
    PROVE  /\ JobOK(job[j])
           /\ job[j].pc = "asked" => Asking(job[j])
           /\ job[j].pc = "render" => job[j] \in Leaving
           /\ job[j].pc = "drop" => job[j] \in Leaving \cup Dropping
           /\ job[j].pc \in {"load", "put", "lookup"} => job[j] \in Loading
<1>1. JobOK(job[j])
  BY DEF IInv, JobsOK
<1>2. /\ Idle.pc = "idle"
      /\ \A me \in Loading : me.pc \in {"load", "put", "lookup"}
      /\ \A me \in Leaving : me.pc \in {"drop", "render"}
      /\ \A me \in Dropping : me.pc = "drop"
  BY DEF Idle, Loading, Leaving, Dropping
<1>3. \A me : (Asking(me) => me.pc = "asked") /\ (Answered(me) => me.pc = "fetched")
  BY DEF Asking, Answered
<1> QED
  BY <1>1, <1>2, <1>3 DEF JobOK

\* What is stored of an advisory is a copy of it.
LEMMA StoredTyped ==
    ASSUME IInv, NEW a \in Advisories
    PROVE  Stored(a, osv[a]) \in Copy /\ Stored(a, osv[a]).rev = osv[a].rev
BY DEF IInv, Tables, Stored, Copy, Advisory, Scores, MaliciousScore

\* A scan fetches the advisories it lacks.
LEMMA Hydrated ==
    ASSUME IInv, NEW j \in Jobs, Hydrate(j)
    PROVE  IInv'
<1> DEFINE me == job[j]
           needed == DOMAIN me.seen
           stale == {a \in needed : IsStale(a, me.seen[a])}
           missing == stale \cup {a \in needed : store[a] = None}
           fetched(got, bad) ==
               [pc |-> "fetched", kind |-> IF me.kind = "audit" THEN "scan" ELSE me.kind,
                memo |-> me.memo, loaded |-> me.loaded,
                bad |-> bad, fresh |-> got \ Noise, refreshed |-> got \cap stale,
                copies |-> [a \in needed |-> IF a \in got THEN Stored(a, osv[a]) ELSE store[a]],
                found |-> Found(me, got, bad)]
<1>1. Asking(me) /\ Held(me)
  BY JobCases DEF Hydrate, Asking
<1>2. PICK got \in SUBSET missing, bad \in SUBSET DOMAIN me.named :
         /\ spent' = [spent EXCEPT !.fails = @ + Cardinality(missing \ got) + Cardinality(bad)]
         /\ job' = [job EXCEPT ![j] = IF me.kind = "audit" /\ DOMAIN Found(me, got, bad) = {} THEN Idle
                                      ELSE fetched(got, bad)]
  BY DEF Hydrate, IInv, JobsOK
<1>3. UNCHANGED <<eco, osv, store, links, row, policy, cached, doc, edit, saidClean, straddled>>
  BY DEF Hydrate
<1>4. Tables'
  <2>1. /\ spent' = [moves |-> spent'.moves, edits |-> spent'.edits, fails |-> spent'.fails]
        /\ spent'.moves = spent.moves
    BY <1>2 DEF IInv, Tables
  <2> QED
    BY <1>3, <2>1 DEF IInv, Tables, TypeOK
<1>5. PICK it : it = fetched(got, bad)
  OBVIOUS
<1>6. /\ it.pc = "fetched" /\ it.kind = (IF me.kind = "audit" THEN "scan" ELSE me.kind)
      /\ it.memo = me.memo /\ it.loaded = me.loaded /\ it.fresh = got \ Noise
      /\ it.copies = [a \in needed |-> IF a \in got THEN Stored(a, osv[a]) ELSE store[a]]
      /\ it.found = Found(me, got, bad)
  BY <1>5
<1>7. needed \subseteq Advisories /\ got \subseteq needed
  BY <1>1 DEF Asking
<1> HIDE DEF fetched, me
<1>8. Held(it)
  BY <1>1, <1>6 DEF Held, Asking
<1>9. ASSUME NEW a \in needed
      PROVE  /\ it.copies[a] # None => it.copies[a] \in Copy /\ it.copies[a].rev <= osv[a].rev
             /\ a \in got => it.copies[a] # None
  <2>1. CASE a \in got
    BY <1>6, <1>7, <2>1, StoredTyped, NoneAssumption DEF IInv, Tables, Advisory
  <2>2. CASE a \notin got
    BY <1>6, <1>7, <2>2 DEF IInv, Tables, TypeOK
  <2> QED
    BY <2>1, <2>2
<1>10. ASSUME NEW v \in DOMAIN it.found
       PROVE  /\ v \in Versions /\ it.found[v] \subseteq needed /\ (it.found[v] = {} => v \in saidClean)
              /\ \A a \in it.found[v] : a \in it.fresh \/ store[a] # None
  <2>1. /\ v \in DOMAIN me.named /\ it.found[v] = me.named[v] \ Noise
        /\ \A a \in me.named[v] : a \in got \/ store[a] # None
    BY <1>6 DEF Found
  <2> QED
    BY <1>1, <1>6, <2>1 DEF Asking
<1>11. Answered(it)
  BY <1>1, <1>6, <1>7, <1>8, <1>9, <1>10 DEF Answered, Asking
<1>12. JobOK(it)' /\ JobOK(Idle)'
  <2>1. JobOK(it)
    BY <1>11 DEF JobOK
  <2> QED
    BY <1>3, <2>1 DEF JobOK, Asking, Answered, Held
<1> QED
  BY <1>2, <1>3, <1>4, <1>5, <1>12, JobStepped

\* The documents that a scan has changed are dropped.
LEMMA Dropped ==
    ASSUME IInv, NEW j \in Jobs, Drop(j)
    PROVE  IInv'
<1>1. PICK me : me = IF job[j].kind = "render" THEN [job[j] EXCEPT !.pc = "render"] ELSE Idle
  OBVIOUS
<1>2. me \in {Idle} \cup Leaving
  <2>1. job[j] \in Leaving \cup Dropping
    BY JobCases DEF Drop
  <2> QED
    BY <1>1, <2>1 DEF Leaving, Dropping
<1>3. job' = [job EXCEPT ![j] = me]
  BY <1>1 DEF Drop, IInv, JobsOK
<1>4. Tables'
  BY DEF Drop, IInv, Tables, TypeOK
<1>5. JobOK(me)'
  BY <1>2 DEF JobOK
<1> QED
  BY <1>3, <1>4, <1>5, JobStepped DEF Drop

\* The copies are scored anew.
LEMMA Rescored ==
    ASSUME IInv, NEW r \in Requests, Rescore(r)
    PROVE  IInv'
<1> DEFINE copies == [a \in Advisories |-> IF store[a] = None THEN None
                                           ELSE [store[a] EXCEPT !.score = store[a].raw]]
           linked == {p[1] : p \in links}
           worst == [v \in Versions |-> IF v \in linked THEN Recomputed(v, copies).score ELSE row[v].score]
<1>1. /\ store' = copies /\ row' = [v \in Versions |-> [row[v] EXCEPT !.score = worst[v]]]
      /\ job' = [job EXCEPT ![r] = IF row' = row THEN Idle ELSE [pc |-> "drop", kind |-> "rescore"]]
      /\ spent' = Spent("moves")
      /\ UNCHANGED <<eco, osv, links, policy, cached, doc, edit, saidClean, straddled>>
  BY DEF Rescore
<1>2. ASSUME NEW a \in Advisories
      PROVE  /\ copies[a] \in Copy \cup {None} /\ (store[a] # None => copies[a] # None)
             /\ copies[a] # None => copies[a].rev <= osv[a].rev
  <2>1. CASE store[a] = None
    BY <2>1
  <2>2. CASE store[a] # None
    <3>1. store[a] \in Copy /\ store[a].rev <= osv[a].rev
      BY <2>2 DEF IInv, Tables, TypeOK
    <3>2. copies[a] \in Copy /\ copies[a].rev = store[a].rev
      BY <2>2, <3>1 DEF Copy
    <3> QED
      BY <2>2, <3>1, <3>2, NoneAssumption
  <2> QED
    BY <2>1, <2>2
<1>3. copies \in [Advisories -> Copy \cup {None}]
  BY <1>2
<1>4. ASSUME NEW v \in Versions
      PROVE  worst[v] \in Scores \cup {None}
  <2>1. CASE v \in linked
    <3> DEFINE cves == {a \in Advisories : <<v, a>> \in links}
               scores == [a \in Advisories |-> IF copies[a] = None THEN None ELSE copies[a].score]
    <3>1. worst[v] = Columns(cves, scores).score
      BY <2>1 DEF Recomputed
    <3>2. \A a \in cves : scores[a] \in Scores \cup {None}
      BY <1>2 DEF Copy
    <3> HIDE DEF cves, scores
    <3>3. Columns(cves, scores) \in Row
      BY <3>2, ColumnsTyped
    <3> QED
      BY <3>1, <3>3 DEF Row
  <2>2. CASE v \notin linked
    BY <2>2 DEF IInv, Tables, TypeOK, Row
  <2> QED
    BY <2>1, <2>2
<1>5. ASSUME NEW v \in Versions
      PROVE  /\ row'[v] \in Row /\ row'[v].scanned = row[v].scanned /\ row'[v].adv = row[v].adv
             /\ v \notin linked => row'[v] = row[v]
  <2> HIDE DEF worst
  <2>1. row[v] \in Row /\ row'[v] = [row[v] EXCEPT !.score = worst[v]]
    BY <1>1 DEF IInv, Tables, TypeOK
  <2>2. row'[v] \in Row /\ row'[v].scanned = row[v].scanned /\ row'[v].adv = row[v].adv
    BY <1>4, <2>1 DEF Row
  <2>3. ASSUME v \notin linked PROVE row'[v] = row[v]
    <3>1. worst[v] = row[v].score
      BY <2>3 DEF worst
    <3> QED
      BY <2>1, <3>1 DEF Row
  <2> QED
    BY <2>2, <2>3
<1> HIDE DEF copies, worst
<1>6. \A v \in linked : row[v].scanned /\ (row[v].adv \/ v \in saidClean)
  BY DEF IInv, Clean
<1>7. ASSUME NEW v \in Versions PROVE Sound(row'[v], v \in saidClean)
  <2>1. CASE v \in linked
    BY <1>5, <1>6, <2>1, Zenon DEF Sound
  <2>2. CASE v \notin linked
    BY <1>5, <2>2 DEF IInv, Clean
  <2> QED
    BY <2>1, <2>2
<1> HIDE DEF linked
<1>8. Clean'
  <2>1. ASSUME NEW p \in links' PROVE row'[p[1]].scanned /\ (row'[p[1]].adv \/ p[1] \in saidClean')
    <3>1. p \in links /\ p[1] \in Versions /\ row[p[1]].scanned /\ (row[p[1]].adv \/ p[1] \in saidClean)
      BY <1>1 DEF IInv, Clean, Tables, TypeOK
    <3> QED
      BY <1>1, <1>5, <3>1, Zenon
  <2>2. \A v \in Versions : Sound(row'[v], v \in saidClean')
    BY <1>1, <1>7, Zenon DEF Sound
  <2> QED
    BY <2>1, <2>2 DEF Clean, Sound
<1>9. row' \in [Versions -> Row]
  BY <1>1, <1>5
<1>10. Tables'
  <2>1. /\ spent' = [moves |-> spent'.moves, edits |-> spent'.edits, fails |-> spent'.fails]
        /\ spent'.moves = spent.moves + 1
    BY <1>1 DEF IInv, Tables, Spent
  <2>2. spent.moves \in Nat /\ spent'.moves \in Nat
    BY <2>1 DEF IInv, Tables
  <2>3. ASSUME NEW a \in Advisories PROVE osv'[a].rev \in 0..spent'.moves
    <3>1. osv[a].rev \in 0..spent.moves /\ osv' = osv
      BY <1>1 DEF IInv, Tables, TypeOK
    <3>2. spent'.moves = spent.moves + 1
      BY <2>1
    <3> QED
      BY <2>2, <3>1, <3>2
  <2>4. \A p \in links' : store'[p[2]] # None
    BY <1>1, <1>2 DEF IInv, Tables, TypeOK
  <2>5. \A a \in Advisories : store'[a] # None => store'[a].rev <= osv'[a].rev
    BY <1>1, <1>2
  <2>6. TypeOK'
    BY <1>1, <1>9, <2>3, <2>4, <2>5 DEF IInv, Tables, TypeOK
  <2> QED
    BY <1>1, <1>3, <2>1, <2>2, <2>6 DEF IInv, Tables
<1>11. Grows
  <2>1. \A a \in Advisories : osv[a].rev <= osv'[a].rev
    BY <1>1 DEF IInv, Tables, Advisory
  <2> QED
    BY <1>1, <1>2, <1>5, <2>1 DEF Grows
<1>12. PICK me : me = IF row' = row THEN Idle ELSE [pc |-> "drop", kind |-> "rescore"]
  OBVIOUS
<1>13. JobOK(me)'
  BY <1>12 DEF JobOK, Dropping
<1>14. job' = [job EXCEPT ![r] = me]
  BY <1>1, <1>12
<1>15. JobsOK'
  BY <1>10, <1>11, <1>13, <1>14, JobsKept DEF Jobs
<1> QED
  BY <1>8, <1>10, <1>15 DEF IInv

\* Nothing but the policy, the cache and the edit under way changes.
LEMMA PolicyMoved ==
    ASSUME IInv, UNCHANGED <<eco, osv, store, links, row, job, saidClean>>,
           policy' \in [rules : RuleSets, settings : SettingSets], cached' \in Memo,
           doc' \in {doc, None}, edit' \in {None, "rules", "settings", "doc"},
           spent' = spent \/ spent' = Spent("edits")
    PROVE  IInv'
<1>1. /\ spent' = [moves |-> spent'.moves, edits |-> spent'.edits, fails |-> spent'.fails]
      /\ spent'.moves = spent.moves
  BY DEF Spent, IInv, Tables
<1>2. Tables'
  BY <1>1 DEF IInv, Tables, TypeOK
<1>3. Grows
  BY DEF Grows, IInv, Tables, Advisory
<1> QED
  BY <1>2, <1>3, AllJobsKept, RowsKept DEF IInv

\* An edit, its invalidation, and the expiry of what is cached.
LEMMA PolicySteps ==
    ASSUME IInv, EditRules \/ EditSettings \/ Invalidate \/ ExpireDoc \/ \E k \in Keys : ExpirePolicy(k)
    PROVE  IInv'
<1> USE DEF IInv, Tables, TypeOK
<1>1. policy \in [rules : RuleSets, settings : SettingSets] /\ cached \in Memo
  OBVIOUS
<1>2. CASE EditRules
  <2>1. policy' \in [rules : RuleSets, settings : SettingSets]
    BY <1>1, <1>2 DEF EditRules, SetPolicy
  <2> QED
    BY <1>1, <1>2, <2>1, PolicyMoved DEF EditRules, SetPolicy
<1>3. CASE EditSettings
  <2>1. policy' \in [rules : RuleSets, settings : SettingSets]
    BY <1>1, <1>3 DEF EditSettings, SetPolicy
  <2> QED
    BY <1>1, <1>3, <2>1, PolicyMoved DEF EditSettings, SetPolicy
<1>4. CASE Invalidate
  <2>1. cached' \in Memo
    BY <1>1, <1>4 DEF Invalidate, Memo, Keys
  <2>2. edit' \in {None, "rules", "settings", "doc"}
    BY <1>4 DEF Invalidate
  <2> QED
    BY <1>1, <1>4, <2>1, <2>2, PolicyMoved DEF Invalidate
<1>5. CASE ExpireDoc
  BY <1>1, <1>5, PolicyMoved DEF ExpireDoc
<1>6. ASSUME NEW k \in Keys, ExpirePolicy(k) PROVE IInv'
  <2>1. cached' \in Memo
    BY <1>1, <1>6 DEF ExpirePolicy, Memo
  <2> QED
    BY <1>1, <1>6, <2>1, PolicyMoved DEF ExpirePolicy
<1> QED
  BY <1>2, <1>3, <1>4, <1>5, <1>6

\* A request for the document starts, loads the rules and the settings.
LEMMA LoadSteps ==
    ASSUME IInv, NEW r \in Requests, StartRender(r) \/ Load(r) \/ Put(r)
    PROVE  IInv'
<1>1. r \in Jobs /\ job = [j \in Jobs |-> job[j]] /\ cached \in Memo
      /\ policy \in [rules : RuleSets, settings : SettingSets]
  BY DEF Jobs, IInv, JobsOK, Tables
<1>2. ASSUME NEW me, job' = [job EXCEPT ![r] = me], me \in Loading,
             UNCHANGED <<eco, osv, store, links, row, policy, doc, edit, spent, saidClean>>, cached' \in Memo
      PROVE  IInv'
  <2>1. Tables'
    BY <1>2 DEF IInv, Tables, TypeOK
  <2>2. JobOK(me)'
    BY <1>2 DEF JobOK
  <2> QED
    BY <1>1, <1>2, <2>1, <2>2, JobStepped
<1>3. CASE StartRender(r)
  <2>1. PICK me : me = [pc |-> "load", kind |-> "render", key |-> "rules", memo |-> [k \in Keys |-> None]]
    OBVIOUS
  <2>2. me \in Loading
    BY <2>1 DEF Loading, Memo, Keys
  <2> QED
    BY <1>1, <1>2, <1>3, <2>1, <2>2 DEF StartRender, Keys
<1>4. \A me \in Loading : Loaded(me) \in Loading
  BY DEF Loaded, Loading, Keys
<1>5. CASE Load(r)
  <2>1. job[r] \in Loading
    BY <1>1, <1>5, JobCases DEF Load
  <2>2. PICK k \in Keys : k = job[r].key
    BY <2>1 DEF Loading
  <2>3. policy[k] \in RuleSets \cup SettingSets \cup {None} /\ cached[k] \in RuleSets \cup SettingSets \cup {None}
    BY <1>1, <2>2 DEF Memo, Keys
  <2>4. [job[r] EXCEPT !.memo[k] = cached[k]] \in Loading
    BY <2>1, <2>3 DEF Loading, Memo
  <2>5. [job[r] EXCEPT !.memo[k] = policy[k], !.pc = "put"] \in Loading
    BY <2>1, <2>3 DEF Loading, Memo
  <2>6. PICK me : me = IF cached[k] # None THEN Loaded([job[r] EXCEPT !.memo[k] = cached[k]])
                       ELSE [job[r] EXCEPT !.memo[k] = policy[k], !.pc = "put"]
    OBVIOUS
  <2>7. job' = [job EXCEPT ![r] = me]
    BY <1>1, <1>5, <2>2, <2>6 DEF Load
  <2>8. me \in Loading
    BY <1>4, <2>4, <2>5, <2>6, Zenon
  <2> QED
    BY <1>1, <1>2, <1>5, <2>7, <2>8 DEF Load
<1>6. CASE Put(r)
  <2>1. job[r] \in Loading
    BY <1>1, <1>6, JobCases DEF Put
  <2>2. PICK me : me = Loaded(job[r])
    OBVIOUS
  <2>3. me \in Loading /\ job' = [job EXCEPT ![r] = me]
    BY <1>1, <1>4, <1>6, <2>1, <2>2 DEF Put
  <2>4. cached' \in Memo
    BY <1>1, <1>6, <2>1 DEF Put, Loading, Memo
  <2> QED
    BY <1>1, <1>2, <1>6, <2>3, <2>4 DEF Put
<1> QED
  BY <1>3, <1>5, <1>6

\* It then looks for the document, and renders it.
LEMMA RenderSteps ==
    ASSUME IInv, NEW r \in Requests, Lookup(r) \/ GiveUp(r) \/ Render(r)
    PROVE  IInv'
<1>1. r \in Jobs /\ job = [j \in Jobs |-> job[j]] /\ row \in [Versions -> Row]
  BY DEF Jobs, IInv, JobsOK, Tables, TypeOK
<1>2. JobOK(Idle)' /\ \A me \in Leaving : JobOK(me)'
  BY DEF JobOK
<1>3. CASE Lookup(r)
  <2>1. job[r] \in Loading
    BY <1>1, <1>3, JobCases DEF Lookup
  <2>2. PICK memo \in Memo : memo = job[r].memo
    BY <2>1 DEF Loading
  <2>3. UNCHANGED <<eco, osv, store, links, row, policy, cached, doc, edit, spent>>
    BY <1>3 DEF Lookup
  <2>4. CASE job' = [job EXCEPT ![r] = Idle] /\ UNCHANGED saidClean
    BY <1>1, <1>2, <2>3, <2>4, JobMoved
  <2>5. CASE Ask(r, "render", UnscannedIn(row), job[r].memo)
    <3>1. UnscannedIn(row) \in SUBSET Versions
      BY DEF UnscannedIn
    <3> QED
      BY <1>1, <2>2, <2>3, <2>5, <3>1, Asks
  <2>6. CASE job' = [job EXCEPT ![r] = [pc |-> "render", kind |-> "render", memo |-> @.memo, loaded |-> row]]
             /\ UNCHANGED saidClean
    <3>1. PICK me : me = [pc |-> "render", kind |-> "render", memo |-> memo, loaded |-> row]
      OBVIOUS
    <3>2. me \in Leaving
      BY <1>1, <3>1 DEF Leaving
    <3>3. job' = [job EXCEPT ![r] = me]
      BY <1>1, <2>2, <2>6, <3>1
    <3> QED
      BY <1>1, <1>2, <2>3, <2>6, <3>2, <3>3, JobMoved
  <2> QED
    BY <1>3, <2>4, <2>5, <2>6 DEF Lookup
<1>4. CASE GiveUp(r)
  <2>1. Asking(job[r]) /\ job[r].kind = "render"
    BY <1>1, <1>4, JobCases DEF GiveUp
  <2>2. PICK me : me = [pc |-> "render", kind |-> "render", memo |-> job[r].memo, loaded |-> job[r].loaded]
    OBVIOUS
  <2>3. me \in Leaving
    BY <2>1, <2>2 DEF Leaving, Asking, Held
  <2>4. job' = [job EXCEPT ![r] = me]
    BY <1>1, <1>4, <2>2 DEF GiveUp
  <2> QED
    BY <1>1, <1>2, <1>4, <2>3, <2>4, JobMoved DEF GiveUp
<1>5. CASE Render(r)
  <2>1. doc' # None => doc' \subseteq Versions
    BY <1>5 DEF Render, Listing, IInv, Tables, TypeOK
  <2>2. Tables'
    BY <1>5, <2>1 DEF Render, IInv, Tables, TypeOK
  <2> QED
    BY <1>1, <1>2, <1>5, <2>2, JobStepped DEF Render
<1> QED
  BY <1>3, <1>4, <1>5

\* A scan that nobody's document waits for begins.
LEMMA ScanBegins ==
    ASSUME IInv, RefreshBegin \/ \E r \in Requests : AdminScan(r) \/ Audit(r)
    PROVE  IInv'
<1>1. CASE RefreshBegin
  BY <1>1, Asks DEF RefreshBegin, Jobs
<1>2. ASSUME NEW r \in Requests, AdminScan(r) PROVE IInv'
  <2>1. PICK batch \in {UnscannedIn(row), Versions} : Ask(r, "scan", batch, None)
    BY <1>2 DEF AdminScan
  <2>2. batch \in SUBSET Versions
    BY DEF UnscannedIn
  <2> QED
    BY <1>2, <2>1, <2>2, Asks DEF AdminScan, Jobs
<1>3. ASSUME NEW r \in Requests, Audit(r) PROVE IInv'
  <2>1. PICK batch \in Audited : Ask(r, "audit", batch, None)
    BY <1>3 DEF Audit
  <2>2. batch \in SUBSET Versions
    BY AdvisoriesAssumption
  <2> QED
    BY <1>3, <2>1, <2>2, Asks DEF Audit, Jobs
<1> QED
  BY <1>1, <1>2, <1>3

\* Every step keeps the tables typed, the jobs in order and the rows clean.
LEMMA StepIInv == IInv /\ [Next]_vars => IInv'
<1> SUFFICES ASSUME IInv, [Next]_vars PROVE IInv'
  OBVIOUS
<1>1. ASSUME NEW j \in Jobs, Hydrate(j) \/ Commit(j) \/ Drop(j) PROVE IInv'
  BY <1>1, Hydrated, Committed, Dropped
<1>2. CASE UNCHANGED vars
  <2>1. /\ policy \in [rules : RuleSets, settings : SettingSets] /\ cached \in Memo
        /\ edit \in {None, "rules", "settings", "doc"}
    BY DEF IInv, Tables, TypeOK
  <2> QED
    BY <1>2, <2>1, PolicyMoved DEF vars
<1>3. CASE Next
  <2>1. CASE RefreshStep
    BY <1>1, <2>1, ScanBegins DEF RefreshStep, Jobs
  <2>2. ASSUME NEW r \in Requests,
               Step(r) \/ GiveUp(r) \/ AdminScan(r) \/ Audit(r) \/ Rescore(r) \/ StartRender(r)
        PROVE  IInv'
    BY <1>1, <2>2, LoadSteps, RenderSteps, ScanBegins, Rescored DEF Step, Jobs
  <2> QED
    BY <1>3, <2>1, <2>2, Published, PolicySteps DEF Next, Keys
<1> QED
  BY <1>2, <1>3

\* A job's step keeps what holds of the policy, if the job goes by it.
LEMMA HoldsKept ==
    ASSUME IInv, Holds, Caches', NEW j \in Jobs, NEW me, job' = [job EXCEPT ![j] = me],
           UNCHANGED <<policy, edit>>,
           j \in Requests /\ me # Idle /\ me.kind = "render" => Informed(me)
    PROVE  Holds'
<1>1. ASSUME NEW r \in Requests, job'[r] # Idle, job'[r].kind = "render"
      PROVE  Informed(job[r])'
  <2>1. PICK it : it = job'[r]
    OBVIOUS
  <2>2. Informed(it)
    <3>1. CASE r = j
      <4>1. it = me
        BY <2>1, <3>1 DEF IInv, JobsOK
      <4> QED
        BY <1>1, <2>1, <3>1, <4>1
    <3>2. CASE r # j
      <4>1. it = job[r]
        BY <2>1, <3>2 DEF IInv, JobsOK, Jobs
      <4> QED
        BY <1>1, <2>1, <4>1 DEF Holds, Rendering
    <3> QED
      BY <3>1, <3>2
  <2>3. Informed(it)'
    BY <2>2 DEF Informed, Knows
  <2> QED
    BY <2>1, <2>3
<1> QED
  BY <1>1 DEF Holds, Rendering

\* A scan that fetches is done, or goes on by the policy it went by.
LEMMA Fetches ==
    ASSUME IInv, NEW j \in Jobs, Hydrate(j)
    PROVE  \E next : /\ job' = [job EXCEPT ![j] = next]
                     /\ \/ next = Idle
                        \/ /\ next.pc = "fetched" /\ next.memo = job[j].memo
                           /\ next.kind = IF job[j].kind = "audit" THEN "scan" ELSE job[j].kind
<1> DEFINE me == job[j]
           needed == DOMAIN me.seen
           stale == {a \in needed : IsStale(a, me.seen[a])}
           missing == stale \cup {a \in needed : store[a] = None}
           fetched(got, bad) ==
               [pc |-> "fetched", kind |-> IF me.kind = "audit" THEN "scan" ELSE me.kind,
                memo |-> me.memo, loaded |-> me.loaded,
                bad |-> bad, fresh |-> got \ Noise, refreshed |-> got \cap stale,
                copies |-> [a \in needed |-> IF a \in got THEN Stored(a, osv[a]) ELSE store[a]],
                found |-> Found(me, got, bad)]
<1>1. PICK got \in SUBSET missing, bad \in SUBSET DOMAIN me.named :
         job' = [job EXCEPT ![j] = IF me.kind = "audit" /\ DOMAIN Found(me, got, bad) = {} THEN Idle
                                   ELSE fetched(got, bad)]
  BY DEF Hydrate, IInv, JobsOK
<1>2. PICK it : it = fetched(got, bad)
  OBVIOUS
<1>3. it.pc = "fetched" /\ it.memo = me.memo /\ it.kind = (IF me.kind = "audit" THEN "scan" ELSE me.kind)
  BY <1>2
<1> HIDE DEF fetched
<1> QED
  BY <1>1, <1>2, <1>3, Zenon

\* So does a step of the scans, which know no policy but the one they pass on.
LEMMA ScansHold ==
    ASSUME IInv, Holds, NEW j \in Jobs,
           Hydrate(j) \/ Commit(j) \/ Drop(j) \/ (j = Refresher /\ RefreshBegin)
           \/ (j \in Requests /\ (AdminScan(j) \/ Audit(j) \/ Rescore(j) \/ GiveUp(j)))
    PROVE  Holds'
<1>1. PICK me : me = job'[j]
  OBVIOUS
<1>2. UNCHANGED <<policy, cached, edit>> /\ doc' \in {doc, None}
  BY DEF Hydrate, Commit, Drop, RefreshBegin, AdminScan, Audit, Rescore, GiveUp
<1>3. Caches'
  BY <1>2 DEF Holds, Caches, RulesAllow
<1>4. job = [i \in Jobs |-> job[i]]
  BY DEF IInv, JobsOK
<1>5. /\ job' = [job EXCEPT ![j] = me]
      /\ \/ me = Idle \/ me.kind # "render"
         \/ /\ job[j] # Idle /\ job[j].kind = "render" /\ job[j].pc \notin {"load", "put"}
            /\ me.memo = job[j].memo /\ me.pc \notin {"load", "put"}
  <2>1. CASE Hydrate(j)
    <3>1. Asking(job[j])
      BY <2>1, JobCases DEF Hydrate
    <3>2. PICK next : /\ job' = [job EXCEPT ![j] = next]
                      /\ \/ next = Idle
                         \/ /\ next.pc = "fetched" /\ next.memo = job[j].memo
                            /\ next.kind = IF job[j].kind = "audit" THEN "scan" ELSE job[j].kind
      BY <2>1, Fetches
    <3> QED
      BY <1>1, <1>4, <3>1, <3>2 DEF Asking, Idle
  <2>2. CASE Commit(j)
    <3>1. Answered(job[j])
      BY <2>2, FetchedJob DEF Commit
    <3>2. \E same, clear, last, next :
             /\ job' = [job EXCEPT ![j] = next]
             /\ next = IF job[j].kind = "refresh"
                       THEN IF same THEN Idle ELSE [pc |-> "drop", kind |-> "refresh"]
                       ELSE IF job[j].kind = "render"
                       THEN [pc |-> IF clear THEN "drop" ELSE "render", kind |-> "render",
                             memo |-> job[j].memo, loaded |-> last]
                       ELSE Idle
      BY <2>2, Zenon DEF Commit
    <3> QED
      BY <1>1, <1>4, <3>1, <3>2 DEF Answered, Idle
  <2>3. CASE Drop(j)
    <3>1. job[j] \in Leaving \cup Dropping
      BY <2>3, JobCases DEF Drop
    <3> QED
      BY <1>1, <1>4, <2>3, <3>1 DEF Drop, Leaving, Dropping, Idle
  <2>4. CASE j = Refresher /\ RefreshBegin
    BY <1>1, <1>4, <2>4 DEF RefreshBegin, Ask, Asked
  <2>5. CASE j \in Requests /\ (AdminScan(j) \/ Audit(j))
    <3>1. PICK kind, batch : kind \in {"scan", "audit"} /\ Ask(j, kind, batch, None)
      BY <2>5 DEF AdminScan, Audit
    <3>2. Asked(kind, batch, None).kind = kind
      BY DEF Asked
    <3> QED
      BY <1>1, <1>4, <3>1, <3>2 DEF Ask
  <2>6. CASE j \in Requests /\ Rescore(j)
    BY <1>1, <1>4, <2>6 DEF Rescore
  <2>7. CASE j \in Requests /\ GiveUp(j)
    <3>1. Asking(job[j])
      BY <2>7, JobCases DEF GiveUp
    <3> QED
      BY <1>1, <1>4, <2>7, <3>1 DEF GiveUp, Asking, Idle
  <2> QED
    BY <2>1, <2>2, <2>3, <2>4, <2>5, <2>6, <2>7
<1>6. j \in Requests /\ me # Idle /\ me.kind = "render" => Informed(me)
  <2> SUFFICES ASSUME j \in Requests, me # Idle, me.kind = "render" PROVE Informed(me)
    OBVIOUS
  <2>1. Informed(job[j])
    BY <1>5 DEF Holds, Rendering
  <2> QED
    BY <1>5, <2>1 DEF Informed, Knows
<1> QED
  BY <1>2, <1>3, <1>5, <1>6, HoldsKept

\* Loading, a request comes to know what is in force.
LEMMA LoadsHold ==
    ASSUME IInv, Holds, NEW r \in Requests, StartRender(r) \/ Load(r) \/ Put(r) \/ Lookup(r) \/ Render(r)
    PROVE  Holds'
<1>1. r \in Jobs /\ job = [j \in Jobs |-> job[j]] /\ cached \in Memo /\ Idle.pc = "idle"
  BY DEF Jobs, IInv, JobsOK, Tables, Idle
<1>2. UNCHANGED <<policy, edit>>
  BY DEF StartRender, Load, Put, Lookup, Render
<1>3. ASSUME UNCHANGED cached, doc' \in {doc, None} PROVE Caches'
  BY <1>2, <1>3 DEF Holds, Caches, RulesAllow
<1>4. ASSUME NEW me \in Loading, job[r] = me PROVE Informed(me) /\ me.kind = "render" /\ r \in Rendering
  BY <1>4 DEF Holds, Rendering, Loading, Idle
<1>5. CASE StartRender(r)
  <2>1. PICK me : me = [pc |-> "load", kind |-> "render", key |-> "rules", memo |-> [k \in Keys |-> None]]
    OBVIOUS
  <2>2. Informed(me)
    BY <2>1 DEF Informed
  <2> QED
    BY <1>1, <1>2, <1>3, <1>5, <2>1, <2>2, HoldsKept DEF StartRender, Keys
<1>6. CASE Load(r)
  <2>1. PICK old \in Loading : old = job[r]
    BY <1>1, <1>6, JobCases DEF Load
  <2>2. old.pc = "load" /\ Informed(old) /\ old.key \in Keys
    BY <1>4, <1>6, <2>1 DEF Load, Loading
  <2>3. PICK me : me = IF cached[old.key] # None THEN Loaded([old EXCEPT !.memo[old.key] = cached[old.key]])
                       ELSE [old EXCEPT !.memo[old.key] = policy[old.key], !.pc = "put"]
    OBVIOUS
  <2>4. job' = [job EXCEPT ![r] = me]
    BY <1>1, <1>6, <2>1, <2>3 DEF Load
  <2>5. ASSUME cached[old.key] # None PROVE Informed(me)
    <3>1. edit = None => cached[old.key] = policy[old.key]
      BY <2>2, <2>5, NoneAssumption DEF Holds, Caches, Keys
    <3>2. CASE old.key = "rules"
      <4>1. me.pc = "load" /\ me.key = "settings" /\ me.memo["rules"] = cached["rules"]
        BY <2>1, <2>3, <2>5, <3>2 DEF Loaded, Loading, Memo, Keys
      <4> QED
        BY <3>1, <3>2, <4>1 DEF Informed, Knows
    <3>3. CASE old.key = "settings"
      <4>1. me.pc = "lookup" /\ me.memo["settings"] = cached["settings"] /\ me.memo["rules"] = old.memo["rules"]
        BY <2>1, <2>3, <2>5, <3>3 DEF Loaded, Loading, Memo, Keys
      <4>2. edit = None => old.memo["rules"] = policy["rules"]
        BY <2>2, <3>3 DEF Informed, Knows
      <4> QED
        BY <3>1, <3>3, <4>1, <4>2 DEF Informed, Knows, Keys
    <3> QED
      BY <2>2, <3>2, <3>3 DEF Keys
  <2>6. ASSUME cached[old.key] = None PROVE Informed(me)
    <3>1. /\ me.pc = "put" /\ me.key = old.key /\ me.memo[old.key] = policy[old.key]
          /\ old.key = "settings" => me.memo["rules"] = old.memo["rules"]
      BY <2>1, <2>2, <2>3, <2>6 DEF Loading, Memo, Keys
    <3> QED
      BY <2>2, <3>1 DEF Informed, Knows
  <2> QED
    BY <1>1, <1>2, <1>3, <1>6, <2>4, <2>5, <2>6, HoldsKept DEF Load
<1>7. CASE Put(r)
  <2>1. PICK old \in Loading : old = job[r]
    BY <1>1, <1>7, JobCases DEF Put
  <2>2. old.pc = "put" /\ Informed(old) /\ old.key \in Keys
    BY <1>4, <1>7, <2>1 DEF Put, Loading
  <2>3. old.memo[old.key] = policy[old.key] /\ cached' = [cached EXCEPT ![old.key] = old.memo[old.key]]
    BY <1>7, <2>1, <2>2 DEF Put, Informed, Knows
  <2>4. Caches'
    BY <1>1, <1>2, <1>7, <2>2, <2>3 DEF Put, Holds, Caches, RulesAllow, Memo, Keys
  <2>5. PICK me : me = Loaded(old)
    OBVIOUS
  <2>6. job' = [job EXCEPT ![r] = me]
    BY <1>1, <1>7, <2>1, <2>5 DEF Put
  <2>7. Informed(me)
    <3>1. me.memo = old.memo /\ (IF old.key = "rules" THEN me.pc = "load" ELSE me.pc = "lookup")
      BY <2>1, <2>5 DEF Loaded, Loading
    <3> QED
      BY <2>2, <2>3, <3>1 DEF Informed, Knows, Keys
  <2> QED
    BY <1>1, <1>2, <2>4, <2>6, <2>7, HoldsKept
<1>8. CASE Lookup(r)
  <2>1. PICK old \in Loading : old = job[r]
    BY <1>1, <1>8, JobCases DEF Lookup
  <2>2. old.pc = "lookup" /\ Informed(old)
    BY <1>4, <1>8, <2>1 DEF Lookup
  <2>3. PICK me : me = job'[r]
    OBVIOUS
  <2>4. /\ job' = [job EXCEPT ![r] = me]
        /\ me = Idle \/ (me.memo = old.memo /\ me.pc \in {"asked", "render"})
    <3>1. CASE job' = [job EXCEPT ![r] = Idle]
      BY <1>1, <2>3, <3>1
    <3>2. CASE Ask(r, "render", UnscannedIn(row), job[r].memo)
      BY <1>1, <2>1, <2>3, <3>2 DEF Ask, Asked
    <3>3. CASE job' = [job EXCEPT ![r] = [pc |-> "render", kind |-> "render", memo |-> @.memo, loaded |-> row]]
      BY <1>1, <2>1, <2>3, <3>3
    <3> QED
      BY <1>8, <3>1, <3>2, <3>3 DEF Lookup
  <2>5. me # Idle => Informed(me)
    BY <2>2, <2>4 DEF Informed, Knows
  <2> QED
    BY <1>1, <1>2, <1>3, <1>8, <2>4, <2>5, HoldsKept DEF Lookup
<1>9. CASE Render(r)
  <2>1. job[r] \in Leaving /\ job[r].pc = "render"
    BY <1>1, <1>9, JobCases DEF Render
  <2>2. PICK memo : memo = job[r].memo
    OBVIOUS
  <2>3. edit = None => memo.rules = policy.rules /\ memo.settings = policy.settings
    BY <2>1, <2>2 DEF Holds, Rendering, Leaving, Idle, Informed, Knows, Keys
  <2>4. edit = None => \A v \in Listing(memo, job[r].loaded) : RulesAllow(policy, v)
    BY <2>3 DEF Listing, Allows, RulesAllow
  <2>5. doc' = doc \/ doc' = Listing(memo, job[r].loaded)
    BY <1>9, <2>2 DEF Render
  <2>6. Caches'
    BY <1>2, <1>9, <2>4, <2>5 DEF Render, Holds, Caches, RulesAllow
  <2> QED
    BY <1>1, <1>2, <1>9, <2>6, HoldsKept DEF Render
<1> QED
  BY <1>5, <1>6, <1>7, <1>8, <1>9

\* What the last edit left takes hold, once nothing straddles it.
LEMMA HoldStep == IInv /\ HoldInv /\ [Next]_vars => HoldInv'
<1> SUFFICES ASSUME IInv, HoldInv, [Next]_vars, ~straddled' PROVE Holds'
  BY DEF HoldInv
<1>1. ASSUME EditRules \/ EditSettings PROVE Holds'
  <2>1. Rendering = {} /\ UNCHANGED job /\ edit' = "rules"
    BY <1>1 DEF EditRules, EditSettings, SetPolicy
  <2>2. Rendering' = {}
    BY <2>1 DEF Rendering
  <2>3. Caches'
    BY <2>1, NoneAssumption DEF Caches
  <2> QED
    BY <2>2, <2>3 DEF Holds
<1>2. ASSUME Holds, UNCHANGED <<policy, job, edit>>, Caches' PROVE Holds'
  BY <1>2 DEF Holds, Rendering, Informed, Knows
<1>3. ASSUME Invalidate PROVE Holds'
  <2>1. Holds /\ UNCHANGED <<policy, job>> /\ (edit' = None => Rendering = {})
    BY <1>3 DEF Invalidate, HoldInv
  <2>2. cached \in Memo /\ edit \in {"rules", "settings", "doc"}
    BY <1>3 DEF Invalidate, IInv, Tables, TypeOK
  <2>3. Caches'
    BY <1>3, <2>1, <2>2, NoneAssumption DEF Invalidate, Holds, Caches, Memo, Keys
  <2>4. Rendering' = Rendering
    BY <2>1 DEF Rendering
  <2>5. \A r \in Rendering : Informed(job[r])'
    BY <2>1 DEF Holds, Informed, Knows
  <2> QED
    BY <2>3, <2>4, <2>5 DEF Holds
<1>4. ASSUME NEW k \in Keys, ExpirePolicy(k) PROVE Holds'
  <2>1. Holds /\ UNCHANGED <<policy, job, edit, doc>> /\ cached' = [cached EXCEPT ![k] = None] /\ cached \in Memo
    BY <1>4 DEF ExpirePolicy, HoldInv, IInv, Tables
  <2>2. Caches'
    BY <2>1 DEF Holds, Caches, RulesAllow, Memo, Keys
  <2> QED
    BY <1>2, <2>1, <2>2
<1>5. ASSUME UNCHANGED <<policy, job, edit, cached, straddled>>, doc' \in {doc, None} PROVE Holds'
  <2>1. Holds
    BY <1>5 DEF HoldInv
  <2>2. Caches'
    BY <1>5, <2>1 DEF Holds, Caches, RulesAllow
  <2> QED
    BY <1>2, <1>5, <2>1, <2>2
<1>6. CASE UNCHANGED vars
  BY <1>5, <1>6 DEF vars
<1>7. ASSUME NEW a \in Advisories, Publish(a) PROVE Holds'
  BY <1>5, <1>7 DEF Publish
<1>8. CASE ExpireDoc
  BY <1>5, <1>8 DEF ExpireDoc
<1>9. CASE RefreshStep
  <2>1. Holds
    BY <1>9 DEF RefreshStep, RefreshBegin, Hydrate, Commit, Drop, HoldInv
  <2> QED
    BY <1>9, <2>1, ScansHold DEF RefreshStep, Jobs
<1>10. ASSUME NEW r \in Requests,
              Step(r) \/ GiveUp(r) \/ AdminScan(r) \/ Audit(r) \/ Rescore(r) \/ StartRender(r)
       PROVE  Holds'
  <2>1. UNCHANGED straddled
    BY <1>10 DEF Step, Load, Put, Lookup, Hydrate, Commit, Drop, Render, GiveUp, AdminScan, Audit, Rescore, StartRender
  <2>2. Holds /\ r \in Jobs
    BY <2>1 DEF HoldInv, Jobs
  <2> QED
    BY <1>10, <2>2, ScansHold, LoadsHold DEF Step
<1> QED
  BY <1>1, <1>3, <1>4, <1>6, <1>7, <1>8, <1>9, <1>10 DEF Next, Keys

\* In every state the tables are of their kinds and the rows clean.
LEMMA Inductive == Spec => []IInv
BY InitIInv, StepIInv, PTL DEF Spec

\* The vulnerability tables, the policy, its cache, the rendered document and the
\* edit under way stay of their kinds, whatever services/osv and the policy
\* endpoints of api/admin/management do in between.
THEOREM Typed == Spec => []TypeOK
<1>1. IInv => TypeOK
  BY DEF IInv, Tables
<1> QED
  BY <1>1, Inductive, PTL

\* No version is ever recorded as scanned and clean of which OSV has said nothing:
\* whatever scans overlap, fail half-way or write rows that others have changed
\* (services/osv: _reapply_records, apply_to_version, and the scans' commits).
THEOREM CleanOnlyIfSaid == Spec => []NeverCleanUnsaid
<1>1. IInv => NeverCleanUnsaid
  <2> SUFFICES ASSUME IInv, NEW v \in Versions, row[v].scanned, row[v].score = 0, ~row[v].adv
               PROVE  v \in saidClean
    BY DEF NeverCleanUnsaid
  <2>1. 0 # None
    BY NoneAssumption DEF Scores
  <2> QED
    BY <2>1 DEF IInv, Clean, Sound
<1> QED
  BY <1>1, Inductive, PTL

\* An edit of the policy that no metadata request straddles has taken hold when
\* its request returns, whatever was loading or rendering before (the
\* invalidation after the commit in api/admin/management).
THEOREM EditsTakeHold == Spec => []EditTakesHold
<1>1. Init => HoldInv
  <2>1. Init => Rendering = {}
    BY DEF Init, Rendering, Jobs
  <2>2. Init => Caches
    BY DEF Init, Caches
  <2> QED
    BY <2>1, <2>2 DEF HoldInv, Holds
<1>2. HoldInv => EditTakesHold
  BY NoneAssumption DEF HoldInv, Holds, Caches, EditTakesHold, Keys
<1>3. Spec => []HoldInv
  BY <1>1, HoldStep, Inductive, PTL DEF Spec
<1> QED
  BY <1>2, <1>3, PTL

------------------------------------------------------------------------------
(* DistTags: the order of versions.                                        *)

\* Two sequences that start alike.
LEMMA SamePrefix ==
    ASSUME NEW S, NEW s \in Seq(S), NEW t \in Seq(S), NEW k \in Nat, k <= Len(s), k <= Len(t)
    PROVE  SubSeq(s, 1, k) = SubSeq(t, 1, k) <=> \A j \in 1..k : s[j] = t[j]
OBVIOUS

\* s is below t by place i, the first where it ends or they differ.
Below(s, t, R, i) ==
    /\ i \in 1..Len(t) /\ i <= Len(s) + 1
    /\ i <= Len(s) => <<s[i], t[i]>> \in R
    /\ \A j \in 1..(i - 1) : s[j] = t[j]

\* A proper prefix is shorter and agrees as far as it goes.
LEMMA PrefixBelow ==
    ASSUME NEW S, NEW s \in Seq(S), NEW t \in Seq(S)
    PROVE  IsStrictPrefix(s, t) <=> Len(s) < Len(t) /\ \A j \in 1..Len(s) : s[j] = t[j]
<1>1. SubSeq(s, 1, Len(s)) = s
  OBVIOUS
<1>2. Len(s) <= Len(t) => (SubSeq(s, 1, Len(s)) = SubSeq(t, 1, Len(s)) <=> \A j \in 1..Len(s) : s[j] = t[j])
  BY SamePrefix
<1>3. Len(s) = Len(t) /\ (\A j \in 1..Len(s) : s[j] = t[j]) => s = t
  OBVIOUS
<1> QED
  BY <1>2, <1>3 DEF IsStrictPrefix, IsPrefix

\* Below is transitive if what it compares places by is.
LEMMA BelowTransitive ==
    ASSUME NEW S, NEW R, \A x, y, z \in S : <<x, y>> \in R /\ <<y, z>> \in R => <<x, z>> \in R,
           NEW s \in Seq(S), NEW t \in Seq(S), NEW u \in Seq(S),
           NEW i, NEW k, Below(s, t, R, i), Below(t, u, R, k)
    PROVE  \E n : Below(s, u, R, n)
<1>1. /\ Len(s) \in Nat /\ Len(t) \in Nat /\ Len(u) \in Nat /\ i \in Nat /\ k \in Nat
      /\ \A j \in 1..Len(s) : s[j] \in S /\ \A h \in 1..Len(t) : t[h] \in S /\ \A m \in 1..Len(u) : u[m] \in S
  BY DEF Below
<1>2. CASE i < k
  <2>1. t[i] = u[i] /\ i \in 1..Len(u) /\ \A j \in 1..(i - 1) : s[j] = u[j]
    BY <1>1, <1>2 DEF Below
  <2>2. Below(s, u, R, i)
    BY <2>1 DEF Below
  <2> QED
    BY <2>2
<1>3. CASE k < i
  <2>1. s[k] = t[k] /\ k \in 1..Len(u) /\ k <= Len(s) + 1 /\ k <= Len(t) /\ \A j \in 1..(k - 1) : s[j] = u[j]
    BY <1>1, <1>3 DEF Below
  <2>2. Below(s, u, R, k)
    BY <2>1 DEF Below
  <2> QED
    BY <2>2
<1>4. CASE k = i
  <2>1. i \in 1..Len(t) /\ i \in 1..Len(u) /\ <<t[i], u[i]>> \in R /\ \A j \in 1..(i - 1) : s[j] = u[j]
    BY <1>1, <1>4 DEF Below
  <2>2. i <= Len(s) => <<s[i], u[i]>> \in R
    <3>1. SUFFICES ASSUME i <= Len(s) PROVE <<s[i], u[i]>> \in R
      OBVIOUS
    <3>2. s[i] \in S /\ t[i] \in S /\ u[i] \in S /\ <<s[i], t[i]>> \in R
      BY <2>1, <3>1 DEF Below
    <3> QED
      BY <2>1, <3>2
  <2>3. Below(s, u, R, i)
    BY <2>1, <2>2 DEF Below
  <2> QED
    BY <2>3
<1> QED
  BY <1>1, <1>2, <1>3, <1>4

\* Below by its places is what Lexicographic says.
Smaller == {p \in Nat \X Nat : p[1] < p[2]}
Lower == {p \in Identifiers \X Identifiers : NumbersBefore(p[1], p[2])}

\* Lists of numbers are ordered by the first place where they differ.
LEMMA NumbersBelow ==
    ASSUME NEW s \in Seq(Nat), NEW t \in Seq(Nat)
    PROVE  NumbersBefore(s, t) <=> \E i : Below(s, t, Smaller, i)
<1>1. Len(s) \in Nat /\ Len(t) \in Nat /\ DOMAIN s = 1..Len(s) /\ DOMAIN t = 1..Len(t)
  OBVIOUS
<1>2. ASSUME IsStrictPrefix(s, t) PROVE Below(s, t, Smaller, Len(s) + 1)
  <2>1. Len(s) < Len(t) /\ \A j \in 1..Len(s) : s[j] = t[j]
    BY <1>2, PrefixBelow
  <2> QED
    BY <1>1, <2>1 DEF Below
<1>3. ASSUME NEW i \in DOMAIN s \cap DOMAIN t, s[i] < t[i], SubSeq(s, 1, i - 1) = SubSeq(t, 1, i - 1)
      PROVE  Below(s, t, Smaller, i)
  <2>1. \A j \in 1..(i - 1) : s[j] = t[j]
    BY <1>1, <1>3, SamePrefix
  <2>2. <<s[i], t[i]>> \in Smaller
    BY <1>3 DEF Smaller
  <2> QED
    BY <1>1, <2>1, <2>2 DEF Below
<1>4. ASSUME NEW i, Below(s, t, Smaller, i) PROVE NumbersBefore(s, t)
  <2>1. CASE i <= Len(s)
    <3>1. SubSeq(s, 1, i - 1) = SubSeq(t, 1, i - 1) /\ i \in DOMAIN s \cap DOMAIN t /\ s[i] < t[i]
      BY <1>1, <1>4, <2>1, SamePrefix DEF Below, Smaller
    <3> QED
      BY <3>1 DEF NumbersBefore, Lexicographic
  <2>2. CASE ~(i <= Len(s))
    <3>1. Len(s) < Len(t) /\ \A j \in 1..Len(s) : s[j] = t[j]
      BY <1>1, <1>4, <2>2 DEF Below
    <3> QED
      BY <3>1, PrefixBelow DEF NumbersBefore, Lexicographic
  <2> QED
    BY <2>1, <2>2
<1> QED
  BY <1>2, <1>3, <1>4 DEF NumbersBefore, Lexicographic

\* So are the identifiers of prereleases.
LEMMA IdentifiersBelow ==
    ASSUME NEW s \in Seq(Identifiers), NEW t \in Seq(Identifiers)
    PROVE  Lexicographic(s, t, NumbersBefore) <=> \E i : Below(s, t, Lower, i)
<1>1. Len(s) \in Nat /\ Len(t) \in Nat /\ DOMAIN s = 1..Len(s) /\ DOMAIN t = 1..Len(t)
  OBVIOUS
<1>2. ASSUME IsStrictPrefix(s, t) PROVE Below(s, t, Lower, Len(s) + 1)
  <2>1. Len(s) < Len(t) /\ \A j \in 1..Len(s) : s[j] = t[j]
    BY <1>2, PrefixBelow
  <2> QED
    BY <1>1, <2>1 DEF Below
<1>3. ASSUME NEW i \in DOMAIN s \cap DOMAIN t, NumbersBefore(s[i], t[i]), SubSeq(s, 1, i - 1) = SubSeq(t, 1, i - 1)
      PROVE  Below(s, t, Lower, i)
  <2>1. \A j \in 1..(i - 1) : s[j] = t[j]
    BY <1>1, <1>3, SamePrefix
  <2>2. s[i] \in Identifiers /\ t[i] \in Identifiers
    BY <1>1
  <2>3. <<s[i], t[i]>> \in Lower
    BY <1>3, <2>2 DEF Lower
  <2> QED
    BY <1>1, <2>1, <2>3 DEF Below
<1>4. ASSUME NEW i, Below(s, t, Lower, i) PROVE Lexicographic(s, t, NumbersBefore)
  <2>1. CASE i <= Len(s)
    <3>1. SubSeq(s, 1, i - 1) = SubSeq(t, 1, i - 1) /\ i \in DOMAIN s \cap DOMAIN t /\ NumbersBefore(s[i], t[i])
      BY <1>1, <1>4, <2>1, SamePrefix DEF Below, Lower
    <3> QED
      BY <3>1 DEF Lexicographic
  <2>2. CASE ~(i <= Len(s))
    <3>1. Len(s) < Len(t) /\ \A j \in 1..Len(s) : s[j] = t[j]
      BY <1>1, <1>4, <2>2 DEF Below
    <3> QED
      BY <3>1, PrefixBelow DEF Lexicographic
  <2> QED
    BY <2>1, <2>2
<1> QED
  BY <1>2, <1>3, <1>4 DEF Lexicographic

\* The order of versions is strict.
LEMMA NumbersOrder ==
    /\ \A s \in Seq(Nat) : ~NumbersBefore(s, s)
    /\ \A s, t, u \in Seq(Nat) : NumbersBefore(s, t) /\ NumbersBefore(t, u) => NumbersBefore(s, u)
<1>1. ASSUME NEW s \in Seq(Nat) PROVE ~NumbersBefore(s, s)
  <2>1. ASSUME NEW i, Below(s, s, Smaller, i) PROVE FALSE
    BY <2>1 DEF Below, Smaller
  <2> QED
    BY <2>1, NumbersBelow
<1>2. ASSUME NEW s \in Seq(Nat), NEW t \in Seq(Nat), NEW u \in Seq(Nat), NumbersBefore(s, t), NumbersBefore(t, u)
      PROVE  NumbersBefore(s, u)
  <2>1. \A x, y, z \in Nat : <<x, y>> \in Smaller /\ <<y, z>> \in Smaller => <<x, z>> \in Smaller
    BY DEF Smaller
  <2>2. PICK i, k : Below(s, t, Smaller, i) /\ Below(t, u, Smaller, k)
    BY <1>2, NumbersBelow
  <2>3. \E n : Below(s, u, Smaller, n)
    BY <2>1, <2>2, BelowTransitive
  <2> QED
    BY <2>3, NumbersBelow
<1> QED
  BY <1>1, <1>2

\* The order of prereleases is strict.
LEMMA PreOrder ==
    /\ \A p \in Seq(Identifiers) : ~PreBefore(p, p)
    /\ \A p, q, r \in Seq(Identifiers) : PreBefore(p, q) /\ PreBefore(q, r) => PreBefore(p, r)
<1>1. \A x \in Identifiers : x \in Seq(Nat)
  BY DEF Identifiers
<1>2. ASSUME NEW p \in Seq(Identifiers) PROVE ~Lexicographic(p, p, NumbersBefore)
  <2>1. ASSUME NEW i, Below(p, p, Lower, i) PROVE FALSE
    <3>1. i \in 1..Len(p) /\ <<p[i], p[i]>> \in Lower
      BY <2>1 DEF Below
    <3>2. p[i] \in Seq(Nat) /\ NumbersBefore(p[i], p[i])
      BY <1>1, <3>1 DEF Lower
    <3> QED
      BY <3>2, NumbersOrder
  <2> QED
    BY <2>1, IdentifiersBelow
<1>3. ASSUME NEW p \in Seq(Identifiers), NEW q \in Seq(Identifiers), NEW r \in Seq(Identifiers),
             Lexicographic(p, q, NumbersBefore), Lexicographic(q, r, NumbersBefore)
      PROVE  Lexicographic(p, r, NumbersBefore)
  <2>1. \A x, y, z \in Identifiers : <<x, y>> \in Lower /\ <<y, z>> \in Lower => <<x, z>> \in Lower
    BY <1>1, NumbersOrder DEF Lower
  <2>2. PICK i, k : Below(p, q, Lower, i) /\ Below(q, r, Lower, k)
    BY <1>3, IdentifiersBelow
  <2>3. \E n : Below(p, r, Lower, n)
    BY <2>1, <2>2, BelowTransitive
  <2> QED
    BY <2>3, IdentifiersBelow
<1> QED
  BY <1>2, <1>3 DEF PreBefore

\* SemVer._key orders versions strictly.
LEMMA VersionOrder ==
    /\ \A v \in SemVers : ~Before(v, v)
    /\ \A v, w, x \in SemVers : Before(v, w) /\ Before(w, x) => Before(v, x)
BY NumbersOrder, PreOrder DEF Before, SemVers

\* A finite set of versions has a highest, and max_semver finds one of them.
LEMMA HighestExists ==
    ASSUME NEW V \in SUBSET SemVers, IsFiniteSet(V), V # {}
    PROVE  Highest(V) \in V
<1> DEFINE Above(v) == {w \in V : Before(v, w)}
           T == {Above(v) : v \in V}
<1>1. T \subseteq FiniteSubsetsOf(V) /\ T # {}
  <2>1. ASSUME NEW v \in V PROVE Above(v) \in FiniteSubsetsOf(V)
    <3>1. Above(v) \in SUBSET V
      OBVIOUS
    <3> HIDE DEF Above
    <3> QED
      BY <3>1, FS_Subset DEF FiniteSubsetsOf
  <2> HIDE DEF Above
  <2> QED
    BY <2>1
<1>2. PICK top \in T : \A A \in T : ~(<<A, top>> \in StrictSubsetOrdering(V))
  <2> HIDE DEF T
  <2> QED
    BY <1>1, FS_StrictSubsetOrderingWellFounded, WFMin
<1>3. PICK v \in V : top = Above(v)
  OBVIOUS
<1>4. ASSUME NEW w \in V, Before(v, w) PROVE FALSE
  <2>1. Above(w) \subseteq Above(v) /\ Above(w) # Above(v)
    BY <1>4, VersionOrder
  <2>2. Above(w) \in T /\ Above(w) \in SUBSET V /\ Above(v) \in SUBSET V
    OBVIOUS
  <2> HIDE DEF Above, T
  <2> QED
    BY <1>2, <1>3, <2>1, <2>2 DEF StrictSubsetOrdering
<1> QED
  BY <1>4 DEF Highest

\* max_semver of versions is one of them.
LEMMA MaxSemverIn ==
    ASSUME NEW V \in SUBSET SemVers, IsFiniteSet(V), V # {}
    PROVE  MaxSemver(V) \in V
<1>1. PICK stable : stable = {v \in V : ~IsPrerelease(v)}
  OBVIOUS
<1>2. stable \in SUBSET SemVers /\ stable \subseteq V /\ IsFiniteSet(stable)
  BY <1>1, FS_Subset
<1> QED
  BY <1>1, <1>2, HighestExists DEF MaxSemver

\* A client that has read the packument, or put it back.
Unpublishing ==
    {Idle} \cup [pc : {"put"}, body : SUBSET Versions, gone : Versions]
    \cup [pc : {"delete"}, gone : Versions]

\* The tags, and the column, name rows there are, or what a tarball DELETE took.
TagsInv ==
    /\ rows \subseteq Versions /\ IsFiniteSet(rows) /\ retired \subseteq Versions \ rows
    /\ torn \subseteq Versions /\ rule \in Rules \cup {None}
    /\ tags \in [Tags \cup {Latest} -> rows \cup torn \cup {None}]
    /\ column \in rows \cup torn \cup {None}
    /\ unpublish \in [Clients -> Unpublishing]

\* So it is of versions of the package.
LEMMA VersionsTyped == ASSUME NEW V \in SUBSET Versions, IsFiniteSet(V), V # {} PROVE MaxSemver(V) \in V
BY MaxSemverIn, DistTagsAssumption

\* The tags of a publish name a version there is.
LEMMA PublishedTags ==
    ASSUME TagsInv, NEW v \in Versions, NEW w \in Versions, NEW t \in Tags \cup {Latest}, PublishVersion(v, t, w)
    PROVE  TagsInv'
<1> DEFINE kept == KnownTags(Sent(t, w), rows \cup {v})
           named == IF kept[t] # None THEN kept ELSE Sent(Latest, v)
<1>1. /\ rows' = rows \cup {v} /\ v \notin rows \cup retired /\ tags' = Overridden(named, v)
      /\ column' = IF named[Latest] # None THEN named[Latest]
                   ELSE IF column = None THEN MaxSemver(rows') ELSE column
      /\ UNCHANGED <<retired, rule, unpublish, torn>>
  BY DEF PublishVersion
<1>2. kept \in [Tags \cup {Latest} -> rows' \cup {None}]
  BY <1>1 DEF KnownTags, Sent
<1>3. Sent(Latest, v) \in [Tags \cup {Latest} -> rows' \cup {None}]
  BY <1>1 DEF Sent
<1> HIDE DEF kept
<1>4. named \in [Tags \cup {Latest} -> rows' \cup {None}]
  BY <1>2, <1>3
<1> HIDE DEF named
<1>5. rows' \subseteq Versions /\ IsFiniteSet(rows') /\ rows' # {}
  BY <1>1, FS_AddElement DEF TagsInv
<1>6. MaxSemver(rows') \in rows'
  BY <1>5, VersionsTyped
<1>7. tags' \in [Tags \cup {Latest} -> rows' \cup torn \cup {None}]
  BY <1>1, <1>4 DEF Overridden, TagsInv
<1>8. named[Latest] \in rows' \cup {None} /\ column \in rows' \cup torn \cup {None}
  BY <1>1, <1>4 DEF TagsInv
<1>9. column' \in rows' \cup torn \cup {None}
  BY <1>1, <1>6, <1>8
<1> QED
  BY <1>1, <1>5, <1>7, <1>9 DEF TagsInv

\* An edited document, put back, moves every tag off the versions it removes.
LEMMA PutBack ==
    ASSUME TagsInv, NEW c \in Clients, UpdatePackument(c)
    PROVE  TagsInv'
<1>1. PICK body, away : body = unpublish[c].body /\ away = Removed(body)
  OBVIOUS
<1>2. PICK named \in body \cup {None} :
         IF away = {} THEN UNCHANGED <<rows, retired, tags, column>>
         ELSE /\ away # rows /\ rows' = rows \ away /\ retired' = retired \cup away
              /\ tags' = Retagged(away, Wanted(body, named)) /\ column' = tags'[Latest]
  BY <1>1, Zenon DEF UpdatePackument
<1>3. unpublish' = [unpublish EXCEPT ![c] = [pc |-> "delete", gone |-> unpublish[c].gone]] /\ UNCHANGED <<rule, torn>>
  BY DEF UpdatePackument, TagsInv
<1>4. unpublish' \in [Clients -> Unpublishing]
  <2>1. unpublish[c].gone \in Versions
    <3>1. unpublish[c] \in Unpublishing /\ unpublish[c].pc = "put"
      BY DEF UpdatePackument, TagsInv
    <3> QED
      BY <3>1 DEF Unpublishing, Idle
  <2> QED
    BY <1>3, <2>1 DEF TagsInv, Unpublishing
<1>5. CASE away = {}
  BY <1>2, <1>3, <1>4, <1>5 DEF TagsInv
<1>6. CASE away # {}
  <2>1. away \subseteq rows
    BY <1>1 DEF Removed, Visible
  <2>2. rows' = rows \ away /\ rows' # {} /\ rows' \subseteq Versions /\ IsFiniteSet(rows')
    <3>1. rows' = rows \ away /\ rows' # {}
      BY <1>2, <1>6, <2>1
    <3> QED
      BY <3>1, FS_Subset DEF TagsInv
  <2>3. PICK wanted : wanted = Wanted(body, named)
    OBVIOUS
  <2>4. wanted \in rows'
    <3>1. PICK left, kept : left = rows \ Removed(body)
                            /\ kept = IF left \cap Visible = {} THEN left ELSE left \cap Visible
      OBVIOUS
    <3>2. wanted = IF named \in left THEN named ELSE MaxSemver(kept)
      BY <2>3, <3>1 DEF Wanted
    <3>3. left = rows' /\ kept \subseteq left /\ kept # {}
      BY <1>1, <2>2, <3>1
    <3>4. kept \subseteq Versions /\ IsFiniteSet(kept)
      BY <2>2, <3>3, FS_Subset
    <3>5. MaxSemver(kept) \in kept
      BY <3>3, <3>4, VersionsTyped
    <3> QED
      BY <3>2, <3>3, <3>5
  <2>5. tags' = Retagged(away, wanted) /\ column' = tags'[Latest] /\ retired' = retired \cup away
    BY <1>2, <1>6, <2>3
  <2>6. tags' \in [Tags \cup {Latest} -> rows' \cup torn \cup {None}]
    BY <2>2, <2>4, <2>5 DEF Retagged, TagsInv
  <2>7. column' \in rows' \cup torn \cup {None}
    BY <2>5, <2>6
  <2> QED
    BY <1>3, <1>4, <2>1, <2>2, <2>5, <2>6, <2>7 DEF TagsInv
<1> QED
  BY <1>5, <1>6

\* The DELETE of a tarball tears off what named its version.
LEMMA Deleted ==
    ASSUME TagsInv, NEW c \in Clients, DeleteTarball(c)
    PROVE  TagsInv'
<1>1. PICK v : v = unpublish[c].gone
  OBVIOUS
<1>2. /\ rows' = rows \ {v} /\ retired' = (IF v \in rows THEN retired \cup {v} ELSE retired)
      /\ torn' = (IF v \in rows /\ (column = v \/ \E t \in DOMAIN tags : tags[t] = v) THEN torn \cup {v} ELSE torn)
      /\ unpublish' = [unpublish EXCEPT ![c] = Idle] /\ UNCHANGED <<tags, column, rule>>
  BY <1>1, Zenon DEF DeleteTarball
<1>3. rows' \subseteq Versions /\ IsFiniteSet(rows') /\ torn' \subseteq Versions /\ retired' \subseteq Versions \ rows'
  BY <1>2, FS_Subset DEF TagsInv
<1>4. unpublish' \in [Clients -> Unpublishing]
  BY <1>2 DEF TagsInv, Unpublishing
<1>5. rows \cup torn \subseteq rows' \cup torn' \cup {v}
  BY <1>2
<1>6. ASSUME NEW x \in rows \cup torn \cup {None}, x = column \/ \E t \in DOMAIN tags : tags[t] = x
      PROVE  x \in rows' \cup torn' \cup {None}
  BY <1>2, <1>6
<1>7. tags' \in [Tags \cup {Latest} -> rows' \cup torn' \cup {None}] /\ column' \in rows' \cup torn' \cup {None}
  BY <1>2, <1>6 DEF TagsInv
<1> QED
  BY <1>2, <1>3, <1>4, <1>7 DEF TagsInv

\* A package not yet published has nothing to tag.
LEMMA TagsInitInv == TagsInit => TagsInv
BY FS_EmptySet DEF TagsInit, TagsInv, Unpublishing

\* Every request keeps the tags on versions there are.
LEMMA TagsStepInv == TagsInv /\ [TagsNext]_tagsVars => TagsInv'
<1> SUFFICES ASSUME TagsInv, [TagsNext]_tagsVars PROVE TagsInv'
  OBVIOUS
<1>1. CASE UNCHANGED tagsVars
  BY <1>1 DEF tagsVars, TagsInv
<1>2. CASE SaveRule
  BY <1>2 DEF SaveRule, TagsInv
<1>3. ASSUME NEW v \in Versions, NEW w \in Versions, NEW t \in Tags \cup {Latest}, PublishVersion(v, t, w) PROVE TagsInv'
  BY <1>3, PublishedTags
<1>4. ASSUME NEW t \in Tags \cup {Latest}, NEW v \in Versions, SetDistTag(t, v) PROVE TagsInv'
  BY <1>4 DEF SetDistTag, TagsInv
<1>5. ASSUME NEW t \in Tags, DeleteDistTag(t) PROVE TagsInv'
  BY <1>5 DEF DeleteDistTag, TagsInv
<1>6. ASSUME NEW c \in Clients, Read(c) PROVE TagsInv'
  <2>1. PICK seen \in {rows, Visible} \ {{}}, v \in rows :
           unpublish' = [unpublish EXCEPT ![c] = [pc |-> "put", body |-> seen \ {v}, gone |-> v]]
    BY <1>6 DEF Read
  <2>2. seen \subseteq Versions /\ v \in Versions
    BY DEF TagsInv, Visible
  <2>3. unpublish' \in [Clients -> Unpublishing]
    BY <2>1, <2>2 DEF TagsInv, Unpublishing
  <2> QED
    BY <1>6, <2>3 DEF Read, TagsInv
<1>7. ASSUME NEW c \in Clients, RefusePackument(c) PROVE TagsInv'
  <2>1. unpublish' \in [Clients -> Unpublishing]
    BY <1>7 DEF RefusePackument, TagsInv, Unpublishing
  <2> QED
    BY <1>7, <2>1 DEF RefusePackument, TagsInv
<1> QED
  BY <1>1, <1>2, <1>3, <1>4, <1>5, <1>6, <1>7, PutBack, Deleted DEF TagsNext

\* So in every state the tags name versions there are, or torn off.
LEMMA TagsInductive == TagsSpec => []TagsInv
BY TagsInitInv, TagsStepInv, PTL DEF TagsSpec

\* The rows, the tags, the rule and the requests of api/npm stay of their kinds,
\* and no version is both there and retired: a number is not published again once
\* an unpublish has taken it (RetiredVersion).
THEOREM TagsTyped == TagsSpec => []TagsTypeOK
<1>1. ASSUME TagsInv PROVE TagsTypeOK
  <2>1. ASSUME NEW c \in Clients, unpublish[c] # Idle PROVE unpublish[c].pc \in {"put", "delete"}
    <3>1. PICK u \in Unpublishing : u = unpublish[c] /\ u # Idle
      BY <1>1, <2>1 DEF TagsInv
    <3> QED
      BY <3>1 DEF Unpublishing
  <2>2. tags \in [Tags \cup {Latest} -> Versions \cup {None}] /\ column \in Versions \cup {None}
    BY <1>1 DEF TagsInv
  <2> QED
    BY <1>1, <2>1, <2>2 DEF TagsInv, TagsTypeOK
<1> QED
  BY <1>1, TagsInductive, PTL

\* A tag names a version the package has, unless the DELETE of a tarball has
\* taken the version from under it (api/npm: update_packument, set_dist_tag,
\* _handle_publish; unpublish_version is the one that tears).
THEOREM TagsNamed == TagsSpec => []TagsNameVersions
<1>1. TagsInv => TagsNameVersions
  BY DEF TagsInv, TagsNameVersions
<1> QED
  BY <1>1, TagsInductive, PTL

\* What is served as latest can be installed whenever some version can, in both
\* documents, unless the DELETE of a tarball has taken the version it named
\* (_visible_dist_tags, _packument_response).
THEOREM LatestServed == TagsSpec => []LatestInstallable
<1>1. ASSUME TagsInv, Visible # {} PROVE VisibleDistTags[Latest] \in Visible \cup torn /\ PackumentTags[Latest] \in Visible \cup torn
  <2>1. MaxSemver(Visible) \in Visible
    <3>1. Visible \subseteq Versions /\ IsFiniteSet(Visible)
      BY <1>1, FS_Subset DEF TagsInv, Visible
    <3> QED
      BY <1>1, <3>1, VersionsTyped
  <2>2. rows # {} => MaxSemver(rows) \in rows
    BY <1>1, VersionsTyped DEF TagsInv
  <2>3. ASSUME NEW t \in [Tags \cup {Latest} -> rows \cup torn \cup {None}]
        PROVE  FallBack(Filtered(t))[Latest] \in Visible \cup torn
    <3>1. Filtered(t) \in [Tags \cup {Latest} -> (Visible \cup torn) \cup {None}]
      BY DEF Filtered, Visible
    <3> QED
      BY <1>1, <2>1, <3>1 DEF FallBack
  <2>4. VisibleDistTags[Latest] \in Visible \cup torn
    BY <1>1, <2>3 DEF VisibleDistTags, TagsInv
  <2>5. PICK latest : latest = IF tags[Latest] # None THEN tags[Latest] ELSE IF column # None THEN column
                               ELSE IF rows # {} THEN MaxSemver(rows) ELSE None
    OBVIOUS
  <2>6. latest \in rows \cup torn \cup {None}
    BY <1>1, <2>2, <2>5 DEF TagsInv
  <2>7. PICK derived : derived = [tags EXCEPT ![Latest] = latest]
    OBVIOUS
  <2>8. derived \in [Tags \cup {Latest} -> rows \cup torn \cup {None}]
    BY <1>1, <2>6, <2>7 DEF TagsInv
  <2>9. PackumentTags = FallBack(Filtered(derived))
    BY <2>5, <2>7 DEF PackumentTags
  <2> QED
    BY <2>3, <2>4, <2>8, <2>9
<1>2. TagsInv => LatestInstallable
  BY <1>1 DEF LatestInstallable
<1> QED
  BY <1>2, TagsInductive, PTL

\* What a rule hides goes by the DELETE of its own tarball alone, never by an
\* edited document that does not name it (update_packument).
THEOREM HiddenKept == TagsSpec => HiddenSpared
<1>1. ASSUME [TagsNext]_tagsVars, NEW v \in (rows \cap Blocked) \ rows'
      PROVE  \E c \in Clients : unpublish[c].pc = "delete" /\ unpublish[c].gone = v
  <2>1. ~(UNCHANGED rows) /\ v \in rows /\ v \notin Visible
    BY <1>1 DEF Visible
  <2>2. PICK c \in Clients : UpdatePackument(c) \/ DeleteTarball(c)
    BY <1>1, <2>1 DEF TagsNext, tagsVars, SaveRule, PublishVersion, SetDistTag, DeleteDistTag, Read, RefusePackument
  <2>3. ~UpdatePackument(c)
    BY <1>1, <2>1 DEF UpdatePackument, Removed
  <2> QED
    BY <1>1, <2>1, <2>2, <2>3 DEF DeleteTarball
<1>2. [TagsNext]_tagsVars =>
         [\A v \in (rows \cap Blocked) \ rows' :
              \E c \in Clients : unpublish[c].pc = "delete" /\ unpublish[c].gone = v]_tagsVars
  BY <1>1
<1> QED
  BY <1>2, PTL DEF TagsSpec, HiddenSpared

\* The bounds of a range.
Triples == {r \in Seq(Nat) : Len(r) = 3}
Bounds == [op : {"", "=", "<", ">", "<=", ">="}, bound : SemVers]

\* Three numbers make the release of a version.
LEMMA TripleTyped == ASSUME NEW a \in Nat, NEW b \in Nat, NEW c \in Nat,
                            NEW r, r = [i \in 1..3 |-> r[i]], r[1] = a, r[2] = b, r[3] = c
                     PROVE  r \in Triples
<1>1. r \in [1..3 -> Nat]
  OBVIOUS
<1>2. r \in Seq(Nat) /\ Len(r) = 3
  BY <1>1
<1> QED
  BY <1>2 DEF Triples

\* A partial version has up to three numbers.
LEMMA PartialTyped ==
    ASSUME NEW p \in PartialVersions
    PROVE  /\ p.rel \in Seq(Nat) /\ Len(p.rel) \in 0..3 /\ DOMAIN p.rel = 1..Len(p.rel)
           /\ p.rel # <<>> => Len(p.rel) \in 1..3
<1>1. p.rel \in Seq(Nat) /\ Len(p.rel) \in Nat /\ Len(p.rel) <= 3
  BY DEF PartialVersions
<1>2. p.rel # <<>> => Len(p.rel) \in Nat \ {0}
  BY <1>1, EmptySeq
<1>3. DOMAIN p.rel = 1..Len(p.rel)
  BY <1>1, LenProperties
<1>4. \A n \in Nat : n <= 3 => n \in 0..3 /\ (n # 0 => n \in 1..3)
  OBVIOUS
<1> QED
  BY <1>1, <1>2, <1>3, <1>4

\* Padded, it has three, the missing ones zero.
LEMMA PaddedTyped ==
    ASSUME NEW p \in PartialVersions
    PROVE  /\ Padded(p) \in Triples
           /\ \A i \in 1..3 : Padded(p)[i] = IF i <= Len(p.rel) THEN p.rel[i] ELSE 0
<1>1. \A i \in 1..3 : Padded(p)[i] = (IF i <= Len(p.rel) THEN p.rel[i] ELSE 0) /\ Padded(p)[i] \in Nat
  BY DEF Padded, PartialVersions
<1>2. Padded(p) = [i \in 1..3 |-> Padded(p)[i]]
  BY DEF Padded
<1> HIDE DEF Padded
<1>3. Padded(p) \in Triples
  BY <1>1, <1>2, TripleTyped
<1> QED
  BY <1>1, <1>3

\* The next value of a component is a release, the later components zero.
LEMMA BumpTyped ==
    ASSUME NEW rel \in Triples, NEW k \in 1..3
    PROVE  /\ Bump(rel, k) \in Triples
           /\ \A i \in 1..3 : Bump(rel, k)[i] = IF i < k THEN rel[i] ELSE IF i = k THEN rel[i] + 1 ELSE 0
<1>1. \A i \in 1..3 : /\ Bump(rel, k)[i] = (IF i < k THEN rel[i] ELSE IF i = k THEN rel[i] + 1 ELSE 0)
                      /\ Bump(rel, k)[i] \in Nat
  <2>1. \A i \in 1..3 : rel[i] \in Nat
    <3>1. rel \in Seq(Nat) /\ Len(rel) = 3
      BY DEF Triples
    <3> QED
      BY <3>1, ElementOfSeq
  <2> QED
    BY <2>1 DEF Bump
<1>2. Bump(rel, k) = [i \in 1..3 |-> Bump(rel, k)[i]]
  BY DEF Bump
<1>3. Bump(rel, k) \in Triples
  BY <1>1, <1>2, TripleTyped
<1> QED
  BY <1>1, <1>3

\* A release and its "-0" are versions.
LEMMA BoundTyped ==
    ASSUME NEW rel \in Triples
    PROVE  Release(rel) \in SemVers /\ FirstOf(rel) \in SemVers
<1>1. <<0, 0>> \in Identifiers
  BY DEF Identifiers
<1>2. << <<0, 0>> >> \in Seq(Identifiers)
  BY <1>1
<1> QED
  BY <1>2 DEF Release, FirstOf, SemVers, Triples

\* A comparator is a bound.
LEMMA ComparatorTyped ==
    ASSUME NEW op \in {"", "=", "<", ">", "<=", ">="}, NEW v \in SemVers
    PROVE  Comparator(op, v) \in Bounds
BY DEF Comparator, Bounds

\* What each kind of range desugars to is bounds.
LEMMA FromTyped ==
    ASSUME NEW p \in PartialVersions, NEW lowest \in BOOLEAN
    PROVE  From(p, lowest) \in Bounds
<1>1. Full(p) => p \in SemVers
  BY DEF Full, PartialVersions, SemVers
<1> QED
  BY <1>1, PaddedTyped, BoundTyped, ComparatorTyped DEF From

\* So is the upper bound of a ~, a ^ or an x-range.
LEMMA BelowNextTyped ==
    ASSUME NEW rel \in Triples, NEW k \in 1..3
    PROVE  BelowNext(rel, k) \in Bounds
BY BumpTyped, BoundTyped, ComparatorTyped DEF BelowNext

\* ^ pins a number it is given: the first that is not zero, or the last.
LEMMA PinnedTyped ==
    ASSUME NEW p \in PartialVersions, p.rel # <<>>
    PROVE  /\ Pinned(p) \in DOMAIN p.rel
           /\ \A j \in 1..(Pinned(p) - 1) : p.rel[j] = 0
           /\ p.rel[Pinned(p)] # 0 \/ Pinned(p) = Len(p.rel)
<1>1. p.rel \in Seq(Nat) /\ Len(p.rel) \in 1..3 /\ DOMAIN p.rel = 1..Len(p.rel)
  BY PartialTyped
<1>2. \E k \in DOMAIN p.rel : (\A j \in 1..(k - 1) : p.rel[j] = 0) /\ (p.rel[k] # 0 \/ k = Len(p.rel))
  <2>1. CASE p.rel[1] # 0 \/ Len(p.rel) = 1
    BY <1>1, <2>1
  <2>2. CASE p.rel[1] = 0 /\ Len(p.rel) > 1 /\ (p.rel[2] # 0 \/ Len(p.rel) = 2)
    <3>1. 2 \in DOMAIN p.rel /\ \A j \in 1..(2 - 1) : p.rel[j] = 0
      BY <1>1, <2>2
    <3> QED
      BY <2>2, <3>1
  <2>3. CASE p.rel[1] = 0 /\ p.rel[2] = 0 /\ Len(p.rel) = 3
    <3>1. 3 \in DOMAIN p.rel /\ \A j \in 1..(3 - 1) : p.rel[j] = 0
      BY <1>1, <2>3
    <3> QED
      BY <2>3, <3>1
  <2> QED
    BY <1>1, <2>1, <2>2, <2>3
<1> QED
  BY <1>2 DEF Pinned

\* Every token desugars to bounds.
LEMMA DesugarTyped ==
    ASSUME NEW token \in Tokens
    PROVE  Desugar(token, TRUE) \subseteq Bounds
<1>1. PICK p \in PartialVersions : p = token.p
  BY DEF Tokens
<1>2. Padded(p) \in Triples /\ (Full(p) => p \in SemVers) /\ \A low \in BOOLEAN : From(p, low) \in Bounds
  BY PaddedTyped, FromTyped DEF Full, PartialVersions, SemVers
<1>3. p.rel # <<>> => Len(p.rel) \in 1..3
  BY PartialTyped
<1>4. CASE token.op = "~"
  <2>1. p.rel # <<>> => BelowNext(Padded(p), IF Len(p.rel) = 1 THEN 1 ELSE 2) \in Bounds
    BY <1>2, <1>3, BelowNextTyped
  <2> QED
    BY <1>1, <1>2, <1>4, <2>1 DEF Desugar, Tilde
<1>5. CASE token.op = "^"
  <2>1. p.rel # <<>> => BelowNext(Padded(p), Pinned(p)) \in Bounds
    <3>1. ASSUME p.rel # <<>> PROVE Pinned(p) \in 1..3
      <4>1. PICK n \in 0..3 : n = Len(p.rel) /\ DOMAIN p.rel = 1..n
        BY PartialTyped
      <4>2. Pinned(p) \in 1..n
        BY <3>1, <4>1, PinnedTyped, Zenon
      <4> QED
        BY <4>2
    <3> QED
      BY <1>2, <3>1, BelowNextTyped
  <2>2. From(p, TRUE /\ (Full(p) => p.rel[1] = 0)) \in Bounds
    BY <1>2
  <2> QED
    BY <1>1, <1>5, <2>1, <2>2 DEF Desugar, Caret
<1>6. CASE token.op = "-"
  <2>1. PICK to \in PartialVersions : to = token.to
    BY <1>6 DEF Tokens
  <2>2. to.rel # <<>> /\ ~Full(to) => BelowNext(Padded(to), Len(to.rel)) \in Bounds
    <3>1. to.rel # <<>> => Len(to.rel) \in 1..3
      BY PartialTyped
    <3> QED
      BY <3>1, PaddedTyped, BelowNextTyped
  <2>3. Full(to) => Comparator("<=", to) \in Bounds
    BY ComparatorTyped DEF Full, PartialVersions, SemVers
  <2>4. From(p, TRUE /\ ~Full(p)) \in Bounds
    BY <1>2
  <2> QED
    BY <1>1, <1>6, <2>1, <2>2, <2>3, <2>4 DEF Desugar, Hyphen
<1>7. CASE token.op \in {"", "=", "<", ">", "<=", ">="}
  <2>1. Comparator("<", FirstOf(<<0, 0, 0>>)) \in Bounds
    <3>1. <<0, 0, 0>> \in Triples
      BY DEF Triples
    <3> QED
      BY <3>1, BoundTyped, ComparatorTyped
  <2>2. Full(p) => Comparator(token.op, p) \in Bounds
    BY <1>2, <1>7, ComparatorTyped
  <2>3. ASSUME Len(p.rel) \in 1..3
        PROVE  /\ From(p, TRUE) \in Bounds /\ BelowNext(Padded(p), Len(p.rel)) \in Bounds
               /\ Comparator(">=", Release(Bump(Padded(p), Len(p.rel)))) \in Bounds
               /\ Comparator(">=", Release(Padded(p))) \in Bounds
               /\ Comparator("<", FirstOf(Padded(p))) \in Bounds
    <3>1. From(p, TRUE) \in Bounds /\ BelowNext(Padded(p), Len(p.rel)) \in Bounds
      BY <1>2, <2>3, BelowNextTyped
    <3>2. Bump(Padded(p), Len(p.rel)) \in Triples
      BY <1>2, <2>3, BumpTyped
    <3> QED
      BY <1>2, <3>1, <3>2, BoundTyped, ComparatorTyped
  <2>4. Len(p.rel) = 0 \/ Len(p.rel) \in 1..3
    BY PartialTyped
  <2>5. Desugar(token, TRUE) = XRange(token.op, p, TRUE)
    BY <1>1, <1>7 DEF Desugar
  <2> QED
    BY <1>7, <2>1, <2>2, <2>3, <2>4, <2>5 DEF XRange
<1> QED
  BY <1>4, <1>5, <1>6, <1>7 DEF Tokens

\* What a bound takes has no gaps.
LEMMA TestConvex ==
    ASSUME NEW cmp \in Bounds, NEW a \in SemVers, NEW b \in SemVers, NEW c \in SemVers,
           Before(a, b), Before(b, c), Test(cmp, a), Test(cmp, c)
    PROVE  Test(cmp, b)
<1>1. PICK bound \in SemVers : bound = cmp.bound
  BY DEF Bounds
<1>2. ~Before(a, a) /\ Before(a, c)
  BY VersionOrder
<1>3. /\ Before(bound, a) => Before(bound, b)
      /\ Before(b, bound) => Before(a, bound)
      /\ Before(c, bound) => Before(b, bound)
      /\ Before(bound, b) => Before(bound, c)
  BY VersionOrder
<1>4. CASE cmp.op \in {"", "="}
  BY <1>1, <1>2, <1>4 DEF Test
<1>5. CASE cmp.op = ">"
  BY <1>1, <1>3, <1>5 DEF Test
<1>6. CASE cmp.op = ">="
  BY <1>1, <1>3, <1>6 DEF Test
<1>7. CASE cmp.op = "<"
  BY <1>1, <1>3, <1>7 DEF Test
<1>8. CASE cmp.op = "<="
  BY <1>1, <1>3, <1>8 DEF Test
<1> QED
  BY <1>4, <1>5, <1>6, <1>7, <1>8 DEF Bounds

\* So a range without "||" covers what lies between two versions it covers.
LEMMA NothingSkipped == Skipping = {}
<1> SUFFICES ASSUME NEW range \in Rules, Cardinality(range) = 1, NEW b \in Probes \ Covered[range],
                    NEW a \in Covered[range], Before(a, b), NEW c \in Covered[range], Before(b, c)
             PROVE  FALSE
  BY DEF Skipping
<1>1. PICK tokens : range = {tokens} /\ tokens \subseteq Tokens
  BY FS_Singleton, DistTagsAssumption
<1>2. a \in SemVers /\ b \in SemVers /\ c \in SemVers
  BY DistTagsAssumption DEF Covered
<1>3. \A v \in Probes : v \in Covered[range] <=> \A cmp \in Comparators(tokens, TRUE) : Test(cmp, v)
  BY <1>1 DEF Covered, MatchesVersion, Satisfies, TestAll
<1>4. Comparators(tokens, TRUE) \subseteq Bounds
  BY <1>1, DesugarTyped DEF Comparators
<1>5. \A cmp \in Comparators(tokens, TRUE) : Test(cmp, a) /\ Test(cmp, c)
  BY <1>3 DEF Covered
<1>6. \A cmp \in Comparators(tokens, TRUE) : Test(cmp, b)
  BY <1>2, <1>4, <1>5, TestConvex
<1> QED
  BY <1>3, <1>6

\* The order of the three numbers.
LEMMA TripleNumbers ==
    ASSUME NEW r \in Triples
    PROVE  r[1] \in Nat /\ r[2] \in Nat /\ r[3] \in Nat
<1>1. r \in Seq(Nat) /\ Len(r) = 3
  BY DEF Triples
<1> QED
  BY <1>1, ElementOfSeq

\* Releases are the same if their numbers are.
LEMMA TripleEqual ==
    ASSUME NEW r \in Triples, NEW s \in Triples
    PROVE  r = s <=> r[1] = s[1] /\ r[2] = s[2] /\ r[3] = s[3]
<1>1. r \in Seq(Nat) /\ Len(r) = 3 /\ s \in Seq(Nat) /\ Len(s) = 3
  BY DEF Triples
<1>2. \A i \in 1..3 : i = 1 \/ i = 2 \/ i = 3
  OBVIOUS
<1>3. ASSUME r[1] = s[1], r[2] = s[2], r[3] = s[3] PROVE r = s
  <2>1. \A i \in 1..Len(r) : r[i] = s[i]
    BY <1>1, <1>2, <1>3
  <2> QED
    BY <1>1, <2>1, SeqEqual
<1> QED
  BY <1>3

\* They are in order by the first number that differs.
LEMMA TripleOrder ==
    ASSUME NEW r \in Triples, NEW s \in Triples
    PROVE  NumbersBefore(r, s) <=> \/ r[1] < s[1]
                                   \/ r[1] = s[1] /\ r[2] < s[2]
                                   \/ r[1] = s[1] /\ r[2] = s[2] /\ r[3] < s[3]
<1>1. r \in Seq(Nat) /\ Len(r) = 3 /\ s \in Seq(Nat) /\ Len(s) = 3
  BY DEF Triples
<1>2. \A i \in 1..3 : r[i] \in Nat /\ s[i] \in Nat
  BY <1>1, ElementOfSeq
<1>3. \A i : Below(r, s, Smaller, i) <=> i \in 1..3 /\ r[i] < s[i] /\ \A j \in 1..(i - 1) : r[j] = s[j]
  BY <1>1, <1>2 DEF Below, Smaller
<1>4. Below(r, s, Smaller, 1) <=> r[1] < s[1]
  BY <1>3
<1>5. Below(r, s, Smaller, 2) <=> r[1] = s[1] /\ r[2] < s[2]
  <2>1. \A j \in 1..(2 - 1) : j = 1
    OBVIOUS
  <2> QED
    BY <1>3, <2>1
<1>6. Below(r, s, Smaller, 3) <=> r[1] = s[1] /\ r[2] = s[2] /\ r[3] < s[3]
  <2>1. \A j \in 1..(3 - 1) : j = 1 \/ j = 2
    OBVIOUS
  <2> QED
    BY <1>3, <2>1
<1>7. (\E i : Below(r, s, Smaller, i)) <=> \/ Below(r, s, Smaller, 1) \/ Below(r, s, Smaller, 2)
                                           \/ Below(r, s, Smaller, 3)
  BY <1>3
<1>8. NumbersBefore(r, s) <=> \E i : Below(r, s, Smaller, i)
  BY <1>1, NumbersBelow
<1> QED
  BY <1>4, <1>5, <1>6, <1>7, <1>8

\* Two triples are equal or in order.
LEMMA TripleTotal ==
    ASSUME NEW r \in Triples, NEW s \in Triples
    PROVE  /\ NumbersBefore(r, s) \/ r = s \/ NumbersBefore(s, r)
           /\ ~(NumbersBefore(r, s) /\ (r = s \/ NumbersBefore(s, r)))
<1>1. PICK x1 \in Nat, x2 \in Nat, x3 \in Nat : r[1] = x1 /\ r[2] = x2 /\ r[3] = x3
  BY TripleNumbers
<1>2. PICK y1 \in Nat, y2 \in Nat, y3 \in Nat : s[1] = y1 /\ s[2] = y2 /\ s[3] = y3
  BY TripleNumbers
<1>3. r = s <=> x1 = y1 /\ x2 = y2 /\ x3 = y3
  BY <1>1, <1>2, TripleEqual
<1>4. NumbersBefore(r, s) <=> x1 < y1 \/ (x1 = y1 /\ x2 < y2) \/ (x1 = y1 /\ x2 = y2 /\ x3 < y3)
  <2>1. NumbersBefore(r, s) <=> \/ r[1] < s[1] \/ (r[1] = s[1] /\ r[2] < s[2])
                                \/ (r[1] = s[1] /\ r[2] = s[2] /\ r[3] < s[3])
    BY TripleOrder, Zenon
  <2> QED
    BY <1>1, <1>2, <2>1, Zenon
<1>5. NumbersBefore(s, r) <=> y1 < x1 \/ (y1 = x1 /\ y2 < x2) \/ (y1 = x1 /\ y2 = x2 /\ y3 < x3)
  <2>1. NumbersBefore(s, r) <=> \/ s[1] < r[1] \/ (s[1] = r[1] /\ s[2] < r[2])
                                \/ (s[1] = r[1] /\ s[2] = r[2] /\ s[3] < r[3])
    BY TripleOrder, Zenon
  <2> QED
    BY <1>1, <1>2, <2>1, Zenon
<1>6. /\ \/ x1 < y1 \/ (x1 = y1 /\ x2 < y2) \/ (x1 = y1 /\ x2 = y2 /\ x3 < y3)
         \/ (x1 = y1 /\ x2 = y2 /\ x3 = y3)
         \/ y1 < x1 \/ (y1 = x1 /\ y2 < x2) \/ (y1 = x1 /\ y2 = x2 /\ y3 < x3)
      /\ ~(/\ x1 < y1 \/ (x1 = y1 /\ x2 < y2) \/ (x1 = y1 /\ x2 = y2 /\ x3 < y3)
           /\ \/ (x1 = y1 /\ x2 = y2 /\ x3 = y3)
              \/ y1 < x1 \/ (y1 = x1 /\ y2 < x2) \/ (y1 = x1 /\ y2 = x2 /\ y3 < x3))
  OBVIOUS
<1> QED
  BY <1>3, <1>4, <1>5, <1>6, Zenon

\* At or above rel, the next value of component k bounds those that keep it.
LEMMA BumpKeeps ==
    ASSUME NEW rel \in Triples, NEW r \in Triples, ~NumbersBefore(r, rel), NEW k \in 1..3
    PROVE  NumbersBefore(r, Bump(rel, k)) <=> \A i \in 1..k : r[i] = rel[i]
<1>1. PICK b \in Triples : b = Bump(rel, k)
  BY BumpTyped
<1>2. \A i \in 1..3 : b[i] = IF i < k THEN rel[i] ELSE IF i = k THEN rel[i] + 1 ELSE 0
  BY <1>1, BumpTyped
<1>3. PICK x1 \in Nat, x2 \in Nat, x3 \in Nat : r[1] = x1 /\ r[2] = x2 /\ r[3] = x3
  BY TripleNumbers
<1>4. PICK y1 \in Nat, y2 \in Nat, y3 \in Nat : rel[1] = y1 /\ rel[2] = y2 /\ rel[3] = y3
  BY TripleNumbers
<1>5. ~(x1 < y1 \/ (x1 = y1 /\ x2 < y2) \/ (x1 = y1 /\ x2 = y2 /\ x3 < y3))
  BY <1>3, <1>4, TripleOrder
<1>6. NumbersBefore(r, b) <=> \/ x1 < b[1] \/ (x1 = b[1] /\ x2 < b[2]) \/ (x1 = b[1] /\ x2 = b[2] /\ x3 < b[3])
  <2>1. NumbersBefore(r, b) <=> \/ r[1] < b[1] \/ (r[1] = b[1] /\ r[2] < b[2])
                                \/ (r[1] = b[1] /\ r[2] = b[2] /\ r[3] < b[3])
    BY TripleOrder, Zenon
  <2> QED
    BY <1>3, <2>1, Zenon
<1>7. CASE k = 1
  <2>1. b[1] = y1 + 1 /\ b[2] = 0 /\ b[3] = 0
    BY <1>2, <1>4, <1>7
  <2>2. (\A i \in 1..k : r[i] = rel[i]) <=> x1 = y1
    BY <1>3, <1>4, <1>7
  <2>3. NumbersBefore(r, b) <=> x1 < y1 + 1 \/ (x1 = y1 + 1 /\ x2 < 0) \/ (x1 = y1 + 1 /\ x2 = 0 /\ x3 < 0)
    BY <1>6, <2>1, Zenon
  <2>4. (x1 < y1 + 1 \/ (x1 = y1 + 1 /\ x2 < 0) \/ (x1 = y1 + 1 /\ x2 = 0 /\ x3 < 0)) <=> x1 = y1
    BY <1>5
  <2> QED
    BY <1>1, <2>2, <2>3, <2>4, Zenon
<1>8. CASE k = 2
  <2>1. b[1] = y1 /\ b[2] = y2 + 1 /\ b[3] = 0
    BY <1>2, <1>4, <1>8
  <2>2. (\A i \in 1..k : r[i] = rel[i]) <=> x1 = y1 /\ x2 = y2
    <3>1. \A i \in 1..2 : i = 1 \/ i = 2
      OBVIOUS
    <3> QED
      BY <1>3, <1>4, <1>8, <3>1
  <2>3. NumbersBefore(r, b) <=> x1 < y1 \/ (x1 = y1 /\ x2 < y2 + 1) \/ (x1 = y1 /\ x2 = y2 + 1 /\ x3 < 0)
    BY <1>6, <2>1, Zenon
  <2>4. (x1 < y1 \/ (x1 = y1 /\ x2 < y2 + 1) \/ (x1 = y1 /\ x2 = y2 + 1 /\ x3 < 0)) <=> x1 = y1 /\ x2 = y2
    BY <1>5
  <2> QED
    BY <1>1, <2>2, <2>3, <2>4, Zenon
<1>9. CASE k = 3
  <2>1. b[1] = y1 /\ b[2] = y2 /\ b[3] = y3 + 1
    BY <1>2, <1>4, <1>9
  <2>2. (\A i \in 1..k : r[i] = rel[i]) <=> x1 = y1 /\ x2 = y2 /\ x3 = y3
    <3>1. \A i \in 1..3 : i = 1 \/ i = 2 \/ i = 3
      OBVIOUS
    <3> QED
      BY <1>3, <1>4, <1>9, <3>1
  <2>3. NumbersBefore(r, b) <=> x1 < y1 \/ (x1 = y1 /\ x2 < y2) \/ (x1 = y1 /\ x2 = y2 /\ x3 < y3 + 1)
    BY <1>6, <2>1, Zenon
  <2>4. (x1 < y1 \/ (x1 = y1 /\ x2 < y2) \/ (x1 = y1 /\ x2 = y2 /\ x3 < y3 + 1)) <=> x1 = y1 /\ x2 = y2 /\ x3 = y3
    BY <1>5
  <2> QED
    BY <1>1, <2>2, <2>3, <2>4, Zenon
<1> QED
  BY <1>7, <1>8, <1>9

\* No prerelease is below the "-0" of a bound.
LEMMA BeforeFirst ==
    ASSUME NEW v \in SemVers, NEW rel \in Triples
    PROVE  Before(v, FirstOf(rel)) <=> NumbersBefore(v.rel, rel)
<1>1. PICK zero : zero = << <<0, 0>> >>
  OBVIOUS
<1>2. zero \in Seq(Identifiers) /\ Len(zero) = 1 /\ zero[1] = <<0, 0>> /\ zero # <<>>
  BY <1>1 DEF Identifiers
<1>3. \A x \in Identifiers : ~NumbersBefore(x, <<0, 0>>)
  <2>1. ASSUME NEW x \in Identifiers, NEW i, Below(x, <<0, 0>>, Smaller, i) PROVE FALSE
    <3>1. Len(x) = 2 /\ i \in 1..2 /\ <<x[i], <<0, 0>>[i]>> \in Smaller
      BY <2>1 DEF Below, Identifiers
    <3>2. <<0, 0>>[i] = 0
      BY <3>1
    <3> QED
      BY <3>1, <3>2 DEF Smaller
  <2>2. <<0, 0>> \in Seq(Nat) /\ \A x \in Identifiers : x \in Seq(Nat)
    BY DEF Identifiers
  <2> QED
    BY <2>1, <2>2, NumbersBelow
<1>4. PICK pre \in Seq(Identifiers) : pre = v.pre
  BY DEF SemVers
<1>5. ASSUME pre # <<>>, NEW i, Below(pre, zero, Lower, i) PROVE FALSE
  <2>1. 1 <= Len(pre)
    <3>1. Len(pre) \in Nat /\ Len(pre) # 0
      BY <1>5, EmptySeq, LenProperties
    <3> QED
      BY <3>1
  <2>2. i \in 1..1 /\ (i <= Len(pre) => <<pre[i], zero[i]>> \in Lower)
    BY <1>2, <1>5, Zenon DEF Below
  <2>3. i = 1
    BY <2>2
  <2>4. i = 1 /\ <<pre[1], zero[1]>> \in Lower
    BY <2>1, <2>2, <2>3, Zenon
  <2> QED
    BY <1>2, <1>3, <2>4 DEF Lower
<1>6. ~PreBefore(pre, zero)
  BY <1>2, <1>5, IdentifiersBelow DEF PreBefore
<1>7. FirstOf(rel).rel = rel /\ FirstOf(rel).pre = zero
  BY <1>1 DEF FirstOf
<1> QED
  BY <1>4, <1>6, <1>7 DEF Before

\* What the two bounds of a ~, a ^ or a bare partial version take.
LEMMA TestBelowNext ==
    ASSUME NEW v \in SemVers, NEW rel \in Triples, NEW k \in 1..3
    PROVE  Test(BelowNext(rel, k), v) <=> NumbersBefore(v.rel, Bump(rel, k))
<1>1. PICK b \in Triples : b = Bump(rel, k)
  BY BumpTyped
<1>2. Before(v, FirstOf(b)) <=> NumbersBefore(v.rel, b)
  BY BeforeFirst
<1>3. Test(Comparator("<", FirstOf(b)), v) <=> Before(v, FirstOf(b))
  BY DEF Test, Comparator
<1> QED
  BY <1>1, <1>2, <1>3 DEF BelowNext

\* A full version is its own padding.
LEMMA PaddedFull ==
    ASSUME NEW p \in PartialVersions, Full(p)
    PROVE  Padded(p) = p.rel
<1>1. p.rel \in Triples /\ Len(p.rel) = 3
  BY DEF Full, PartialVersions, Triples
<1>2. Padded(p) \in Triples /\ \A i \in 1..3 : Padded(p)[i] = p.rel[i]
  BY <1>1, PaddedTyped
<1> QED
  BY <1>1, <1>2, TripleEqual

\* The lower bound takes what is above it, and the prereleases it reaches.
LEMMA TestFrom ==
    ASSUME NEW p \in PartialVersions, NEW low \in BOOLEAN, NEW v \in SemVers
    PROVE  Test(From(p, low), v) <=>
               \/ NumbersBefore(Padded(p), v.rel)
               \/ /\ v.rel = Padded(p)
                  /\ IF Full(p) /\ p.pre # <<>> THEN ~PreBefore(v.pre, p.pre) ELSE low \/ v.pre = <<>>
<1>1. PICK rel \in Triples : rel = Padded(p)
  BY PaddedTyped
<1>2. v.rel \in Triples
  BY DEF SemVers, Triples
<1>3. ~NumbersBefore(v.rel, rel) <=> NumbersBefore(rel, v.rel) \/ v.rel = rel
  BY <1>2, TripleTotal
<1>4. \A w : Test(Comparator(">=", w), v) <=> ~Before(v, w)
  BY DEF Test, Comparator
<1>5. v.rel = rel => ~NumbersBefore(v.rel, rel)
  BY <1>2, TripleTotal
<1>6. CASE Full(p) /\ p.pre # <<>>
  <2>1. p.rel = rel
    BY <1>1, <1>6, PaddedFull
  <2>2. Test(From(p, low), v) <=> ~Before(v, p)
    BY <1>4, <1>6 DEF From
  <2>3. ~Before(v, p) <=> ~NumbersBefore(v.rel, rel) /\ (v.rel = rel => ~PreBefore(v.pre, p.pre))
    BY <2>1 DEF Before
  <2>4. NumbersBefore(rel, v.rel) => v.rel # rel
    BY <1>2, TripleTotal
  <2> QED
    BY <1>1, <1>3, <1>6, <2>2, <2>3, <2>4
<1>7. CASE ~(Full(p) /\ p.pre # <<>>) /\ low
  <2>1. Test(From(p, low), v) <=> ~Before(v, FirstOf(rel))
    BY <1>1, <1>4, <1>7 DEF From
  <2>2. Before(v, FirstOf(rel)) <=> NumbersBefore(v.rel, rel)
    BY BeforeFirst
  <2> QED
    BY <1>1, <1>3, <1>7, <2>1, <2>2
<1>8. CASE ~(Full(p) /\ p.pre # <<>>) /\ ~low
  <2>1. Test(From(p, low), v) <=> ~Before(v, Release(rel))
    BY <1>1, <1>4, <1>8 DEF From
  <2>2. Release(rel).rel = rel /\ Release(rel).pre = <<>>
    BY DEF Release
  <2>3. ~Before(v, Release(rel)) <=> ~NumbersBefore(v.rel, rel) /\ (v.rel = rel => v.pre = <<>>)
    BY <2>2 DEF Before, PreBefore
  <2>4. NumbersBefore(rel, v.rel) => v.rel # rel
    BY <1>2, TripleTotal
  <2> QED
    BY <1>1, <1>3, <1>8, <2>1, <2>3, <2>4
<1> QED
  BY <1>6, <1>7, <1>8

\* The version agrees with p in its first k numbers if it does with p padded.
LEMMA AgreesPadded ==
    ASSUME NEW p \in PartialVersions, NEW v \in SemVers, NEW k \in 0..Len(p.rel)
    PROVE  Agrees(v, p, k) <=> \A i \in 1..k : v.rel[i] = Padded(p)[i]
<1>1. /\ v.rel \in Seq(Nat) /\ Len(v.rel) = 3 /\ p.rel \in Seq(Nat) /\ Len(p.rel) \in 0..3
      /\ k \in Nat /\ k <= Len(v.rel) /\ k <= Len(p.rel)
  <2>1. PICK n \in 0..3 : p.rel \in Seq(Nat) /\ Len(p.rel) = n
    BY PartialTyped
  <2>2. v.rel \in Seq(Nat) /\ Len(v.rel) = 3
    BY DEF SemVers
  <2>3. k \in 0..n
    BY <2>1, Zenon
  <2>4. k \in Nat /\ k <= 3 /\ k <= n
    BY <2>3
  <2> QED
    BY <2>1, <2>2, <2>4
<1>2. Agrees(v, p, k) <=> \A i \in 1..k : v.rel[i] = p.rel[i]
  BY <1>1, SamePrefix DEF Agrees
<1>3. \A i \in 1..k : i \in 1..3 /\ i <= Len(p.rel)
  BY <1>1
<1>4. \A i \in 1..k : Padded(p)[i] = p.rel[i]
  BY <1>3, PaddedTyped
<1> QED
  BY <1>2, <1>4

\* Between the two bounds are the versions meant.
LEMMA Interval ==
    ASSUME NEW p \in PartialVersions, NEW low \in BOOLEAN, NEW k \in 1..Len(p.rel), NEW op,
           NEW v \in SemVers, low <=> ~Full(p) \/ op = "~" \/ p.rel[1] = 0
    PROVE  Test(From(p, low), v) /\ Test(BelowNext(Padded(p), k), v)
               <=> Agrees(v, p, k) /\ Reaches(v, op, p)
<1>1. PICK rel \in Triples : rel = Padded(p)
  BY PaddedTyped
<1>2. v.rel \in Triples /\ k \in 1..3 /\ k \in 0..Len(p.rel)
  <2>1. PICK n \in 0..3 : Len(p.rel) = n
    BY PartialTyped
  <2>2. v.rel \in Triples
    BY DEF SemVers, Triples
  <2>3. k \in 1..n
    BY <2>1, Zenon
  <2>4. k \in 1..3 /\ k \in 0..n
    BY <2>3
  <2> QED
    BY <2>1, <2>2, <2>4
<1>3. Test(From(p, low), v) <=> Reaches(v, op, p)
  BY TestFrom DEF Reaches
<1>4. Reaches(v, op, p) => ~NumbersBefore(v.rel, rel)
  BY <1>1, <1>2, TripleTotal DEF Reaches
<1>5. Test(BelowNext(rel, k), v) <=> NumbersBefore(v.rel, Bump(rel, k))
  BY <1>2, TestBelowNext
<1>6. ~NumbersBefore(v.rel, rel) => (NumbersBefore(v.rel, Bump(rel, k)) <=> \A i \in 1..k : v.rel[i] = rel[i])
  BY <1>2, BumpKeeps
<1>7. Agrees(v, p, k) <=> \A i \in 1..k : v.rel[i] = rel[i]
  BY <1>1, <1>2, AgreesPadded
<1> QED
  BY <1>1, <1>3, <1>4, <1>5, <1>6, <1>7

\* ^ keeps the numbers up to the first that is not zero.
LEMMA KeptPinned ==
    ASSUME NEW p \in PartialVersions, p.rel # <<>>
    PROVE  Kept("^", p) = Pinned(p)
<1>1. /\ Len(p.rel) \in 1..3 /\ DOMAIN p.rel = 1..Len(p.rel)
  BY PartialTyped
<1>2. PICK k \in 1..Len(p.rel) : /\ k = Pinned(p)
                                 /\ \A j \in 1..(k - 1) : p.rel[j] = 0
                                 /\ p.rel[k] # 0 \/ k = Len(p.rel)
  BY <1>1, PinnedTyped
<1>3. PICK zeros : zeros = {i \in DOMAIN p.rel : p.rel[i] = 0}
  OBVIOUS
<1>4. CASE zeros = DOMAIN p.rel
  <2>1. Kept("^", p) = Len(p.rel)
    BY <1>3, <1>4 DEF Kept
  <2>2. p.rel[k] = 0
    BY <1>1, <1>2, <1>3, <1>4
  <2> QED
    BY <1>2, <2>1, <2>2
<1>5. CASE zeros # DOMAIN p.rel
  <2>1. Kept("^", p) = CHOOSE i \in DOMAIN p.rel \ zeros : 1..(i - 1) \subseteq zeros
    BY <1>3, <1>5 DEF Kept
  <2>2. p.rel[k] # 0
    BY <1>1, <1>2, <1>3, <1>5
  <2>3. k \in DOMAIN p.rel \ zeros /\ 1..(k - 1) \subseteq zeros
    BY <1>1, <1>2, <1>3, <2>2
  <2>4. \A i \in DOMAIN p.rel \ zeros : 1..(i - 1) \subseteq zeros => i = k
    BY <1>1, <1>2, <1>3, <2>3
  <2>5. (CHOOSE i \in DOMAIN p.rel \ zeros : 1..(i - 1) \subseteq zeros) = k
    BY <2>3, <2>4
  <2> QED
    BY <1>2, <2>1, <2>5
<1> QED
  BY <1>4, <1>5

\* The operators of Meant, and those of a bare version.
Pinning == {"", "=", "~", "^"}
Bare == {"", "="}

\* What a token of these means.
Takes(op, p, v) == IF op \in Bare /\ Full(p) THEN v = p
                   ELSE Agrees(v, p, Kept(op, p)) /\ Reaches(v, op, p)

\* A version with no number at all takes every version.
LEMMA TakesAll ==
    ASSUME NEW p \in PartialVersions, Len(p.rel) = 0, NEW op \in Pinning, NEW v \in SemVers
    PROVE  Takes(op, p, v)
<1>1. DOMAIN p.rel = {}
  BY PartialTyped
<1>2. ~Full(p)
  BY DEF Full
<1>3. Kept(op, p) = 0
  <2>1. \A zeros : zeros = {k \in DOMAIN p.rel : p.rel[k] = 0} => zeros = DOMAIN p.rel
    BY <1>1
  <2> QED
    BY <2>1 DEF Kept
<1>4. Agrees(v, p, 0)
  <2>1. 0 \in 0..Len(p.rel) /\ \A i \in 1..0 : v.rel[i] = Padded(p)[i]
    OBVIOUS
  <2> QED
    BY <2>1, AgreesPadded
<1>5. PICK z \in Triples : z = Padded(p) /\ z[1] = 0 /\ z[2] = 0 /\ z[3] = 0
  <2>1. \A i \in 1..3 : ~(i <= Len(p.rel))
    OBVIOUS
  <2> QED
    BY <2>1, PaddedTyped
<1>6. v.rel \in Triples
  BY DEF SemVers, Triples
<1>7. ~NumbersBefore(v.rel, z)
  <2>1. PICK x1 \in Nat, x2 \in Nat, x3 \in Nat : v.rel[1] = x1 /\ v.rel[2] = x2 /\ v.rel[3] = x3
    BY <1>6, TripleNumbers
  <2>2. ~(x1 < 0) /\ ~(x2 < 0) /\ ~(x3 < 0)
    OBVIOUS
  <2>3. NumbersBefore(v.rel, z) <=> \/ v.rel[1] < z[1]
                                    \/ v.rel[1] = z[1] /\ v.rel[2] < z[2]
                                    \/ v.rel[1] = z[1] /\ v.rel[2] = z[2] /\ v.rel[3] < z[3]
    BY <1>6, TripleOrder, Zenon
  <2>4. ~(v.rel[1] < z[1]) /\ ~(v.rel[2] < z[2]) /\ ~(v.rel[3] < z[3])
    BY <1>5, <2>1, <2>2, Zenon
  <2> QED
    BY <2>3, <2>4, Zenon
<1>8. NumbersBefore(z, v.rel) \/ v.rel = z
  BY <1>6, <1>7, TripleTotal
<1> QED
  BY <1>2, <1>3, <1>4, <1>5, <1>8 DEF Takes, Reaches

\* A token takes what it means.
LEMMA TokenMeans ==
    ASSUME NEW token \in Tokens, token.op \in Pinning, NEW v \in SemVers
    PROVE  (\A cmp \in Desugar(token, TRUE) : Test(cmp, v)) <=> Takes(token.op, token.p, v)
<1>1. PICK p \in PartialVersions, op \in Pinning : p = token.p /\ op = token.op
  BY DEF Tokens
<1>2. PICK n \in 0..3 : n = Len(p.rel)
  BY PartialTyped
<1>3. p.rel = <<>> <=> n = 0
  BY <1>2, PartialTyped, EmptySeq, Zenon
<1>4. CASE n = 0
  <2>1. Tilde(p, TRUE) = {} /\ Caret(p, TRUE) = {}
    BY <1>4, <1>3 DEF Tilde, Caret
  <2>2. op \in Bare => XRange(op, p, TRUE) = {}
    BY <1>2, <1>4 DEF XRange, Bare
  <2>3. \/ op \in Bare /\ Desugar(token, TRUE) = XRange(op, p, TRUE)
        \/ op = "~" /\ Desugar(token, TRUE) = Tilde(p, TRUE)
        \/ op = "^" /\ Desugar(token, TRUE) = Caret(p, TRUE)
    BY <1>1 DEF Desugar, Pinning, Bare
  <2>4. Desugar(token, TRUE) = {}
    BY <2>1, <2>2, <2>3, Zenon
  <2> QED
    BY <1>1, <1>2, <1>4, <2>4, TakesAll
<1>5. CASE n # 0 /\ op = "~"
  <2>1. Desugar(token, TRUE) = {From(p, TRUE), BelowNext(Padded(p), IF Len(p.rel) = 1 THEN 1 ELSE 2)}
    BY <1>1, <1>5, <1>3 DEF Desugar, Tilde
  <2>2. /\ Kept(op, p) = (IF Len(p.rel) = 1 THEN 1 ELSE 2)
        /\ Kept(op, p) \in 1..Len(p.rel)
    <3>1. Kept(op, p) = IF n = 3 THEN 2 ELSE n
      BY <1>2, <1>5 DEF Kept
    <3>2. n \in 1..3
      BY <1>5
    <3>3. (IF n = 3 THEN 2 ELSE n) = (IF n = 1 THEN 1 ELSE 2) /\ (IF n = 3 THEN 2 ELSE n) \in 1..n
      BY <3>2
    <3> QED
      BY <1>2, <3>1, <3>3
  <2>3. Test(From(p, TRUE), v) /\ Test(BelowNext(Padded(p), Kept(op, p)), v)
            <=> Agrees(v, p, Kept(op, p)) /\ Reaches(v, op, p)
    BY <1>5, <2>2, Interval
  <2>4. ~(op \in Bare)
    BY <1>5 DEF Bare
  <2> QED
    BY <1>1, <2>1, <2>2, <2>3, <2>4 DEF Takes
<1>6. CASE n # 0 /\ op = "^"
  <2>1. PICK low \in BOOLEAN : low = (TRUE /\ (Full(p) => p.rel[1] = 0))
    OBVIOUS
  <2>2. Desugar(token, TRUE) = {From(p, low), BelowNext(Padded(p), Pinned(p))}
    BY <1>1, <1>6, <1>3, <2>1 DEF Desugar, Caret
  <2>3. Kept(op, p) = Pinned(p) /\ Kept(op, p) \in 1..Len(p.rel)
    BY <1>6, <1>3, KeptPinned, PinnedTyped, PartialTyped
  <2>4. Test(From(p, low), v) /\ Test(BelowNext(Padded(p), Kept(op, p)), v)
            <=> Agrees(v, p, Kept(op, p)) /\ Reaches(v, op, p)
    <3>1. op # "~" /\ (Full(p) => p.rel[1] = 0 \/ p.rel[1] # 0)
      BY <1>6
    <3>2. CASE Full(p)
      <4>1. low <=> ~Full(p) \/ op = "~" \/ p.rel[1] = 0
        BY <2>1, <3>1, <3>2
      <4> QED
        BY <2>3, <4>1, Interval
    <3>3. CASE ~Full(p)
      <4>1. low <=> ~Full(p) \/ op = "~" \/ p.rel[1] = 0
        BY <2>1, <3>3
      <4> QED
        BY <2>3, <4>1, Interval
    <3> QED
      BY <3>2, <3>3
  <2>5. ~(op \in Bare)
    BY <1>6 DEF Bare
  <2> QED
    BY <1>1, <2>2, <2>3, <2>4, <2>5 DEF Takes
<1>7. CASE n # 0 /\ op \in Bare /\ ~Full(p)
  <2>1. n \in 1..3 /\ n # 0
    BY <1>7
  <2>2. Desugar(token, TRUE) = XRange(op, p, TRUE)
    BY <1>1, <1>7 DEF Desugar, Bare
  <2>3. Desugar(token, TRUE) = {From(p, TRUE), BelowNext(Padded(p), Len(p.rel))}
    BY <1>2, <1>7, <2>1, <2>2 DEF XRange, Bare
  <2>4. Kept(op, p) = Len(p.rel) /\ Kept(op, p) \in 1..Len(p.rel)
    <3>1. op # "~" /\ op # "^"
      BY <1>7 DEF Bare
    <3>2. Kept(op, p) = n
      BY <1>2, <3>1 DEF Kept
    <3>3. n \in 1..n
      BY <2>1
    <3> QED
      BY <1>2, <3>2, <3>3
  <2>5. Test(From(p, TRUE), v) /\ Test(BelowNext(Padded(p), Kept(op, p)), v)
            <=> Agrees(v, p, Kept(op, p)) /\ Reaches(v, op, p)
    BY <1>7, <2>4, Interval
  <2> QED
    BY <1>1, <1>7, <2>3, <2>4, <2>5 DEF Takes
<1>8. CASE n # 0 /\ op \in Bare /\ Full(p)
  <2>1. Desugar(token, TRUE) = XRange(op, p, TRUE)
    BY <1>1, <1>8 DEF Desugar, Bare
  <2>2. Desugar(token, TRUE) = {Comparator(op, p)}
    BY <1>2, <1>8, <2>1 DEF XRange, Bare
  <2>3. Test(Comparator(op, p), v) <=> v = p
    BY <1>8 DEF Test, Comparator, Bare
  <2> QED
    BY <1>1, <1>8, <2>2, <2>3 DEF Takes
<1> QED
  BY <1>4, <1>5, <1>6, <1>7, <1>8, Zenon DEF Pinning, Bare

\* A rule of one token covers what the token means.
LEMMA NothingMistaken == Mistaken = {}
<1> SUFFICES ASSUME NEW range \in Rules, NEW tokens, NEW token, range = {tokens}, tokens = {token},
                    token.op \in {"", "=", "~", "^"}
             PROVE  Covered[range] = Meant(token.op, token.p)
  BY DEF Mistaken
<1>1. token \in Tokens /\ token.op \in Pinning
  BY DistTagsAssumption DEF Pinning
<1>2. Comparators(tokens, TRUE) = Desugar(token, TRUE)
  BY DEF Comparators
<1>3. Covered[range] = {v \in Probes : \A cmp \in Desugar(token, TRUE) : Test(cmp, v)}
  BY <1>2 DEF Covered, MatchesVersion, Satisfies, TestAll
<1>4. Meant(token.op, token.p) = {v \in Probes : Takes(token.op, token.p, v)}
  BY DEF Meant, Takes, Bare
<1>5. \A v \in Probes : (\A cmp \in Desugar(token, TRUE) : Test(cmp, v)) <=> Takes(token.op, token.p, v)
  BY <1>1, DistTagsAssumption, TokenMeans
<1> QED
  BY <1>3, <1>4, <1>5

\* Whatever rules an administrator may save, the one in force means what it
\* says (core/semver.py, services/policy._matches_version).
THEOREM RulesMeanWhatTheySay == TagsSpec => []RuleMeansWhatItSays
<1>1. RuleMeansWhatItSays
  BY NothingMistaken, NothingSkipped DEF RuleMeansWhatItSays
<1> QED
  BY <1>1, PTL
=============================================================================
