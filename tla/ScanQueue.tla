----------------------------- MODULE ScanQueue -----------------------------
(***************************************************************************)
(* The queue of image scans (docker/scanning.py, the scanner routes of      *)
(* api/docker_api.py, scanner/worker.py), for one image: the scan_status    *)
(* of its manifest row, its docker_scan_jobs rows, the scans whose finding   *)
(* rows are kept, the workers and the server's side of their calls.          *)
(*                                                                         *)
(* A call loads rows, computes, and writes at its commit.  Other calls      *)
(* commit in between, and nothing re-reads: the session writes the columns  *)
(* it changed, and a column set to the value it was loaded with is not      *)
(* written at all.                                                          *)
(***************************************************************************)
EXTENDS Integers, FiniteSets

CONSTANTS
    Workers,      \* SCANNER_NAMEs
    Requests,     \* requests that may be queueing a scan at the same time
    Jobs,         \* ids of docker_scan_jobs rows
    MaxAttempts,  \* MAX_ATTEMPTS
    MaxClaims,    \* bound: a job claimed so often meets no further accident
    Overtakes,    \* whether a job may change hands while the server has a call about it
    None

ASSUME ScanAssumption ==
    /\ MaxAttempts \in Nat \ {0} /\ MaxClaims \in Nat
    /\ Overtakes \in BOOLEAN
    /\ None \notin Workers \cup Jobs \cup (Jobs \X Nat)

VARIABLES
    scan,      \* DockerManifest.scan_status
    latest,    \* DockerManifest.latest_scan_id
    findings,  \* the scans that docker_findings rows belong to
    jobs,      \* docker_scan_jobs: status, worker, whether lease_until is ahead, attempts
    work,      \* where each worker is, and the job it claimed
    result,    \* each worker's call of /result, while the server has it
    report,    \* each worker's call of /fail, while the server has it
    req        \* requests that queue a scan

manifest == <<scan, latest, findings>>
calls == <<result, report>>
vars == <<manifest, jobs, work, calls, req>>

NoJob == [status |-> "none", worker |-> None, leased |-> FALSE, attempts |-> 0]
Idle == [at |-> "idle", job |-> None]

Init ==
    /\ scan = "unscanned"
    /\ latest = None
    /\ findings = {}
    /\ jobs = [j \in Jobs |-> NoJob]
    /\ work = [w \in Workers |-> Idle]
    /\ result = [w \in Workers |-> None]
    /\ report = [w \in Workers |-> None]
    /\ req = [r \in Requests |-> None]

Active == {j \in Jobs : jobs[j].status \in {"queued", "running"}}

\* The bound on accidents: lost replies, aborted calls, crashes, missed renewals.
Spare(j) == jobs[j].attempts < MaxClaims

\* A report with a new SBOM updates the manifest row before it replaces the
\* findings, and keeps the row locked until it commits.
Locked == \E w \in Workers : result[w] # None /\ result[w].step = "wrote" /\ result[w].sbom

\* A job nobody holds.  An ended job keeps its worker and lease_until in the
\* row, and nothing reads them again.
Unheld(j, status) == [jobs[j] EXCEPT !.status = status, !.worker = None, !.leased = FALSE]

\* The flush of scan_status: only a value that differs from the loaded one.
Emit(loaded, value) ==
    IF value # loaded THEN ~Locked /\ scan' = value ELSE UNCHANGED scan

\* The server has a call about the job.  Calls are short beside a lease and
\* beside the time a worker waits for them; Overtakes says they need not be.
InCall(j) ==
    \E w \in Workers : (result[w] # None /\ result[w].call.job = j) \/ (report[w] # None /\ report[w].call.job = j)
Free(j) == Overtakes \/ ~InCall(j)

-----------------------------------------------------------------------------
\* Why a request queues a scan, given the scan_status it has loaded.
Reasons(loaded) ==
    {"push", "watch", "manual"}
        \cup (IF loaded \in {"unscanned", "failed"} THEN {"pull"} ELSE {})
        \cup (IF loaded = "unscanned" THEN {"cli"} ELSE {})
        \cup (IF loaded = "scanned" THEN {"schedule"} ELSE {})

\* A request has loaded the manifest and calls enqueue.
Load(r) ==
    /\ req[r] = None
    /\ \E why \in Reasons(scan) :
          req' = [req EXCEPT ![r] = [step |-> "loaded", manual |-> why = "manual", saw |-> scan, found |-> FALSE]]
    /\ UNCHANGED <<manifest, jobs, work, calls>>

\* Mutant: only a running job counts as one.
LookRunning(r) ==
    /\ req[r] # None /\ req[r].step = "loaded"
    /\ req' = [req EXCEPT ![r].step = "looked", ![r].found = \E j \in Jobs : jobs[j].status = "running"]
    /\ UNCHANGED <<manifest, jobs, work, calls>>

\* enqueue looks for a job that waits or runs.
Look(r) ==
    /\ req[r] # None /\ req[r].step = "loaded"
    /\ req' = [req EXCEPT ![r].step = "looked", ![r].found = Active # {}]
    /\ UNCHANGED <<manifest, jobs, work, calls>>

\* A manual rescan has made a failed image unscanned before it looked.
Joined(r) ==
    /\ req[r] # None /\ req[r].step = "looked" /\ req[r].found
    /\ IF req[r].manual /\ req[r].saw = "failed" THEN Emit(req[r].saw, "unscanned") ELSE UNCHANGED scan
    /\ req' = [req EXCEPT ![r] = None]
    /\ UNCHANGED <<latest, findings, jobs, work, calls>>

Insert(r) ==
    /\ req[r] # None /\ req[r].step = "looked" /\ ~req[r].found
    /\ \E j \in Jobs :
          /\ jobs[j].status = "none"
          /\ jobs' = [jobs EXCEPT ![j] = [NoJob EXCEPT !.status = "queued"]]
    /\ IF req[r].saw \in {"unscanned", "failed"} THEN Emit(req[r].saw, "queued") ELSE UNCHANGED scan
    /\ req' = [req EXCEPT ![r] = None]
    /\ UNCHANGED <<latest, findings, work, calls>>

Enqueue(r) == Look(r) \/ Joined(r) \/ Insert(r)

-----------------------------------------------------------------------------
\* Mutant: a job whose worker died stays its worker's.
QueuedOnly == {j \in Active : jobs[j].status = "queued" /\ Free(j)}

\* claim requeues what nobody renewed and then takes a waiting job.
Claimable == {j \in Active : (jobs[j].status = "queued" \/ ~jobs[j].leased) /\ Free(j)}

Requeued ==
    [j \in Jobs |-> IF j \in Claimable THEN Unheld(j, "queued") ELSE jobs[j]]

Taken(j, w) == [status |-> "running", worker |-> w, leased |-> TRUE, attempts |-> jobs[j].attempts + 1]

Claim(w) ==
    /\ work[w].at = "idle"
    /\ \E j \in Claimable :
          /\ jobs' = [Requeued EXCEPT ![j] = Taken(j, w)]
          /\ \/ work' = [work EXCEPT ![w] = [at |-> "scanning", job |-> j]]
             \/ Spare(j) /\ UNCHANGED work    \* the reply is lost
    /\ Emit(scan, "scanning")
    /\ UNCHANGED <<latest, findings, calls, req>>

\* The image is over policy.max_scan_bytes: skip.
ClaimSkips(w) ==
    /\ work[w].at = "idle"
    /\ \E j \in Claimable : jobs' = [Requeued EXCEPT ![j] = [Unheld(j, "done") EXCEPT !.attempts = @ + 1]]
    /\ ~Locked /\ scan' = "not_applicable"
    /\ UNCHANGED <<latest, findings, work, calls, req>>

\* _running_job: the check of every call of a worker.
RunningJob(w, j) == jobs[j].status = "running" /\ jobs[j].worker = w

Heartbeat(w) ==
    /\ work[w].at # "idle"
    /\ RunningJob(w, work[w].job) /\ ~jobs[work[w].job].leased
    /\ jobs' = [jobs EXCEPT ![work[w].job].leased = TRUE]
    /\ UNCHANGED <<manifest, work, calls, req>>

\* Time passes lease_until: of a job nobody renews, or of a live worker that
\* was late.
Renewing(j) == \E w \in Workers : work[w].at # "idle" /\ work[w].job = j /\ RunningJob(w, j)
Lapse(j) ==
    /\ jobs[j].status = "running" /\ jobs[j].leased
    /\ Renewing(j) => Spare(j)
    /\ jobs' = [jobs EXCEPT ![j].leased = FALSE]
    /\ UNCHANGED <<manifest, work, calls, req>>

-----------------------------------------------------------------------------
\* Mutant: a worker that is done keeps its job.
GoesWithJob(w, at) == work' = [work EXCEPT ![w].at = at]

Goes(w, at) == work' = [work EXCEPT ![w] = IF at = "idle" THEN Idle ELSE [@ EXCEPT !.at = at]]

\* An answer reaches a worker that still waits for it.
Answers(w, waiting, at) == IF work[w].at = waiting THEN Goes(w, at) ELSE UNCHANGED work

\* Trivy fails, or its report is ready and posted; /result begins with
\* _running_job and loads the manifest.
ScanFails(w) ==
    /\ work[w].at = "scanning"
    /\ Goes(w, "failed")
    /\ UNCHANGED <<manifest, jobs, calls, req>>

Loaded(j) == [job |-> j, attempts |-> jobs[j].attempts, saw |-> scan]

Post(w) ==
    /\ work[w].at = "scanning" /\ result[w] = None
    /\ IF RunningJob(w, work[w].job)
       THEN /\ Goes(w, "posted")
            /\ \E sbom \in BOOLEAN :
                  result' = [result EXCEPT ![w] = [call |-> Loaded(work[w].job), step |-> "read", sbom |-> sbom, old |-> {}]]
       ELSE Goes(w, "failed") /\ UNCHANGED result
    /\ UNCHANGED <<manifest, jobs, report, req>>

\* ingest deletes the finding rows its statement sees and inserts its own.
Write(w) ==
    /\ result[w] # None /\ result[w].step = "read"
    /\ result[w].sbom => ~Locked
    /\ result' = [result EXCEPT ![w].step = "wrote", ![w].old = findings]
    /\ UNCHANGED <<manifest, jobs, work, report, req>>

ScanId(c) == <<c.job, c.attempts>>

\* Others wait for the manifest row; the lock's owner does not.
EmitOwn(w, loaded, value) ==
    IF value # loaded /\ ~result[w].sbom THEN Emit(loaded, value)
    ELSE scan' = IF value # loaded THEN value ELSE scan

\* Mutant: the rows of the scan before are kept beside the new ones.
IngestKeepsOld(w) ==
    /\ result[w] # None /\ result[w].step = "wrote"
    /\ LET c == result[w].call IN
          /\ EmitOwn(w, c.saw, "scanned")
          /\ findings' = findings \cup {ScanId(c)}
          /\ latest' = ScanId(c)
          /\ jobs' = [jobs EXCEPT ![c.job] = Unheld(c.job, "done")]
    /\ result' = [result EXCEPT ![w] = None]
    /\ Answers(w, "posted", "idle")
    /\ UNCHANGED <<report, req>>

\* The end of ingest.
Ingest(w) ==
    /\ result[w] # None /\ result[w].step = "wrote"
    /\ LET c == result[w].call IN
          /\ EmitOwn(w, c.saw, "scanned")
          /\ findings' = (findings \ result[w].old) \cup {ScanId(c)}
          /\ latest' = ScanId(c)
          /\ jobs' = [jobs EXCEPT ![c.job] = Unheld(c.job, "done")]
    /\ result' = [result EXCEPT ![w] = None]
    /\ Answers(w, "posted", "idle")
    /\ UNCHANGED <<report, req>>

\* Mutant: the image is left as it is when the last attempt fails.
FailLeavesImage(c, retry) ==
    IF c.attempts >= MaxAttempts \/ ~retry
    THEN /\ jobs' = [jobs EXCEPT ![c.job] = Unheld(c.job, "failed")]
         /\ UNCHANGED scan
    ELSE /\ jobs' = [jobs EXCEPT ![c.job] = Unheld(c.job, "queued")]
         /\ IF c.saw = "scanning" THEN Emit(c.saw, "queued") ELSE UNCHANGED scan

\* fail, at its commit: attempts and scan_status are the loaded ones.
FailCommits(c, retry) ==
    IF c.attempts >= MaxAttempts \/ ~retry
    THEN /\ jobs' = [jobs EXCEPT ![c.job] = Unheld(c.job, "failed")]
         /\ Emit(c.saw, "failed")
    ELSE /\ jobs' = [jobs EXCEPT ![c.job] = Unheld(c.job, "queued")]
         /\ IF c.saw = "scanning" THEN Emit(c.saw, "queued") ELSE UNCHANGED scan

\* ReportInvalid: roll back, look at the job again, fail the attempt.
Reject(w) ==
    /\ result[w] # None /\ result[w].step = "read"
    /\ IF RunningJob(w, result[w].call.job)
       THEN /\ result' = [result EXCEPT ![w].step = "rejected", ![w].call = Loaded(@.job)]
            /\ UNCHANGED work
       ELSE result' = [result EXCEPT ![w] = None] /\ Answers(w, "posted", "failed")
    /\ UNCHANGED <<manifest, jobs, report, req>>

RejectCommits(w) ==
    /\ result[w] # None /\ result[w].step = "rejected"
    /\ FailCommits(result[w].call, TRUE)
    /\ result' = [result EXCEPT ![w] = None]
    /\ Answers(w, "posted", "failed")
    /\ UNCHANGED <<latest, findings, report, req>>

\* The transaction of /result is rolled back: an error, a deadlock's victim.
ResultAborts(w) ==
    /\ result[w] # None /\ Spare(result[w].call.job)
    /\ result' = [result EXCEPT ![w] = None]
    /\ Answers(w, "posted", "failed")
    /\ UNCHANGED <<manifest, jobs, report, req>>

\* The worker waits 300 seconds for /result; the server goes on.
ResultTimesOut(w) ==
    /\ work[w].at = "posted" /\ result[w] # None
    /\ Goes(w, "failed")
    /\ UNCHANGED <<manifest, jobs, calls, req>>

-----------------------------------------------------------------------------
\* /fail begins with _running_job; a refusal (409) ends the worker's round.
Report(w) ==
    /\ work[w].at = "failed" /\ report[w] = None /\ Free(work[w].job)
    /\ IF RunningJob(w, work[w].job)
       THEN /\ Goes(w, "reporting")
            /\ \E retry \in BOOLEAN : report' = [report EXCEPT ![w] = [call |-> Loaded(work[w].job), retry |-> retry]]
       ELSE Goes(w, "idle") /\ UNCHANGED report
    /\ UNCHANGED <<manifest, jobs, result, req>>

ReportCommits(w) ==
    /\ report[w] # None
    /\ FailCommits(report[w].call, report[w].retry)
    /\ report' = [report EXCEPT ![w] = None]
    /\ Answers(w, "reporting", "idle")
    /\ UNCHANGED <<latest, findings, result, req>>

ReportAborts(w) ==
    /\ report[w] # None /\ Spare(report[w].call.job)
    /\ report' = [report EXCEPT ![w] = None]
    /\ Answers(w, "reporting", "idle")
    /\ UNCHANGED <<manifest, jobs, result, req>>

\* The worker waits 60 seconds for /fail, cannot reach the server, or dies.
GivesUp(w) ==
    /\ work[w].at # "idle" /\ Spare(work[w].job)
    /\ Goes(w, "idle")
    /\ UNCHANGED <<manifest, jobs, calls, req>>

\* prune_jobs: rows that ended 14 days ago.  A row id is used again only when
\* nothing of its job is left.
PruneJob(j) ==
    /\ jobs[j].status \in {"done", "failed"}
    /\ ~InCall(j) /\ \A w \in Workers : work[w].job # j
    /\ \A s \in findings \cup {latest} : s # None => s[1] # j
    /\ jobs' = [jobs EXCEPT ![j] = NoJob]
    /\ UNCHANGED <<manifest, work, calls, req>>

-----------------------------------------------------------------------------
\* What the server does with a call it has.
Serve(w) == Write(w) \/ Ingest(w) \/ Reject(w) \/ RejectCommits(w) \/ ReportCommits(w)

WorkOne(w) == Claim(w) \/ ClaimSkips(w) \/ ScanFails(w) \/ Post(w) \/ Report(w)

Accident(w) == ResultAborts(w) \/ ResultTimesOut(w) \/ ReportAborts(w) \/ GivesUp(w)

Next ==
    \/ \E r \in Requests : Load(r) \/ Enqueue(r)
    \/ \E w \in Workers : WorkOne(w) \/ Serve(w) \/ Heartbeat(w) \/ Accident(w)
    \/ \E j \in Jobs : Lapse(j) \/ PruneJob(j)

Spec == Init /\ [][Next]_vars

\* A worker polls, Trivy has a timeout, the server ends every call it began
\* and a lease nobody renews passes.
Fairness ==
    /\ \A r \in Requests : WF_vars(Enqueue(r))
    /\ \A w \in Workers : WF_vars(WorkOne(w)) /\ WF_vars(Write(w) \/ Ingest(w) \/ Reject(w) \/ RejectCommits(w))
                          /\ WF_vars(ReportCommits(w))
    /\ \A j \in Jobs : WF_vars(Lapse(j) /\ ~Renewing(j))

LiveSpec == Spec /\ Fairness

-----------------------------------------------------------------------------
Statuses == {"unscanned", "queued", "scanning", "scanned", "failed", "not_applicable"}
Call == [job : Jobs, attempts : Nat, saw : Statuses]

TypeOK ==
    /\ scan \in Statuses
    /\ latest \in (Jobs \X Nat) \cup {None}
    /\ findings \subseteq Jobs \X Nat
    /\ jobs \in [Jobs -> [status : {"none", "queued", "running", "done", "failed"},
                          worker : Workers \cup {None}, leased : BOOLEAN, attempts : Nat]]
    /\ work \in [Workers -> [at : {"idle", "scanning", "posted", "failed", "reporting"}, job : Jobs \cup {None}]]
    /\ \A w \in Workers : work[w].at = "idle" <=> work[w].job = None
    /\ result \in [Workers -> {None} \cup [call : Call, step : {"read", "wrote", "rejected"}, sbom : BOOLEAN,
                                           old : SUBSET (Jobs \X Nat)]]
    /\ report \in [Workers -> {None} \cup [call : Call, retry : BOOLEAN]]
    /\ req \in [Requests -> {None} \cup [step : {"loaded", "looked"}, manual : BOOLEAN, saw : Statuses, found : BOOLEAN]]

\* An image that waits for a scan or is being scanned has a job that will
\* scan it: pulls and rescans queue nothing for an image in either status, so
\* one without a job would stay there.
NeverStranded == scan \in {"queued", "scanning"} => Active # {}

\* "Only the latest scan's findings are kept as rows" (DockerFinding), and
\* all of them are: the rows and the counts an image is judged by belong to
\* one scan, whatever was aborted, rejected or repeated before.
LatestFindingsOnly == findings = (IF latest = None THEN {} ELSE {latest})

\* enqueue: "Queue a scan unless one is already waiting or running for this
\* digest".  It holds while requests look one at a time and calls are not
\* overtaken; two requests that look at the same time both find no job.
OneActiveJob == Cardinality(Active) <= 1

\* Every scan that is asked for comes to an end: the image is scanned, or its
\* last attempt has failed, or it is over the limit.
ScanSettles == scan \in {"queued", "scanning"} ~> scan \in {"scanned", "failed", "not_applicable"}
=============================================================================
