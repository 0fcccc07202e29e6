--------------------------- MODULE ScanQueueProofs ---------------------------
(***************************************************************************)
(* What ScanQueue guarantees for any number of workers, jobs and accidents, *)
(* while calls are not overtaken and requests queue one at a time: one job  *)
(* at most is active, no image waits without one, and the finding rows are  *)
(* those of the latest scan.                                                *)
(***************************************************************************)
EXTENDS ScanQueue, FiniteSetTheorems, TLAPS

-----------------------------------------------------------------------------
(* Types.                                                                  *)

JobRow == [status : {"none", "queued", "running", "done", "failed"},
           worker : Workers \cup {None}, leased : BOOLEAN, attempts : Nat]

ResultCall == [call : Call, step : {"read", "wrote", "rejected"}, sbom : BOOLEAN, old : SUBSET (Jobs \X Nat)]
FailCall == [call : Call, retry : BOOLEAN]
Queueing == [step : {"loaded", "looked"}, manual : BOOLEAN, saw : Statuses, found : BOOLEAN]

\* Before anything is asked for the rows, workers and calls are of their kinds.
LEMMA InitTyped == Init => TypeOK
BY ScanAssumption DEF Init, TypeOK, NoJob, Idle, Statuses

\* A row that is released, taken or renewed is still one.
LEMMA JobRows ==
    ASSUME TypeOK, NEW j \in Jobs
    PROVE  /\ jobs[j] \in JobRow /\ NoJob \in JobRow
           /\ \A s \in {"queued", "done", "failed"} :
                 /\ Unheld(j, s) \in JobRow /\ Unheld(j, s).status = s /\ Unheld(j, s).attempts = jobs[j].attempts
                 /\ [Unheld(j, s) EXCEPT !.attempts = @ + 1] \in JobRow
                 /\ [Unheld(j, s) EXCEPT !.attempts = @ + 1].status = s
           /\ \A w \in Workers : Taken(j, w) \in JobRow
           /\ \A b \in BOOLEAN : [jobs[j] EXCEPT !.leased = b] \in JobRow
           /\ [NoJob EXCEPT !.status = "queued"] \in JobRow /\ [NoJob EXCEPT !.status = "queued"].status = "queued"
<1> USE DEF JobRow
<1>1. jobs[j] \in JobRow /\ NoJob \in JobRow
  BY DEF TypeOK, NoJob
<1>2. ASSUME NEW s \in {"queued", "done", "failed"}
      PROVE  /\ Unheld(j, s) \in JobRow /\ Unheld(j, s).status = s /\ Unheld(j, s).attempts = jobs[j].attempts
             /\ [Unheld(j, s) EXCEPT !.attempts = @ + 1] \in JobRow
             /\ [Unheld(j, s) EXCEPT !.attempts = @ + 1].status = s
  <2> DEFINE row == Unheld(j, s)
  <2>1. row \in JobRow /\ row.status = s /\ row.attempts = jobs[j].attempts
    BY <1>1 DEF Unheld
  <2> HIDE DEF row
  <2>2. [row EXCEPT !.attempts = @ + 1] \in JobRow /\ [row EXCEPT !.attempts = @ + 1].status = s
    BY <2>1
  <2> QED
    BY <2>1, <2>2 DEF row
<1>3. \A w \in Workers : Taken(j, w) \in JobRow
  BY <1>1 DEF Taken
<1>4. \A b \in BOOLEAN : [jobs[j] EXCEPT !.leased = b] \in JobRow
  BY <1>1
<1>5. [NoJob EXCEPT !.status = "queued"] \in JobRow /\ [NoJob EXCEPT !.status = "queued"].status = "queued"
  BY <1>1
<1> QED
  BY <1>1, <1>2, <1>3, <1>4, <1>5

\* A worker that goes on keeps its job; one that is idle has none.
WorkTyped ==
    /\ work \in [Workers -> [at : {"idle", "scanning", "posted", "failed", "reporting"}, job : Jobs \cup {None}]]
    /\ \A w \in Workers : work[w].at = "idle" <=> work[w].job = None

\* A worker changes its own place only.
LEMMA GoesOn ==
    ASSUME WorkTyped, NEW w \in Workers, NEW at \in {"idle", "scanning", "posted", "failed", "reporting"},
           at = "idle" \/ work[w].at # "idle", Goes(w, at)
    PROVE  /\ WorkTyped'
           /\ work'[w].at = at /\ (at # "idle" => work'[w].job = work[w].job)
           /\ \A x \in Workers : x # w => work'[x] = work[x]
<1> DEFINE new == IF at = "idle" THEN Idle ELSE [work[w] EXCEPT !.at = at]
<1>1. /\ new \in [at : {"idle", "scanning", "posted", "failed", "reporting"}, job : Jobs \cup {None}]
      /\ new.at = at /\ (at # "idle" => new.job = work[w].job) /\ (at = "idle" => new.job = None)
  BY DEF WorkTyped, Idle
<1>2. work' = [work EXCEPT ![w] = new]
  BY DEF Goes
<1> HIDE DEF new
<1> QED
  BY <1>1, <1>2 DEF WorkTyped

\* An answer that comes too late changes no worker.
LEMMA Answered ==
    ASSUME WorkTyped, NEW w \in Workers, NEW waiting \in {"posted", "reporting"}, NEW at \in {"idle", "failed"},
           Answers(w, waiting, at)
    PROVE  /\ WorkTyped'
           /\ \A x \in Workers : x # w => work'[x] = work[x]
           /\ \/ work'[w] = work[w] /\ work[w].at # waiting
              \/ work[w].at = waiting /\ work'[w].at = at /\ (at = "failed" => work'[w].job = work[w].job)
<1>1. CASE work[w].at = waiting
  <2>1. Goes(w, at)
    BY <1>1 DEF Answers
  <2> QED
    BY <1>1, <2>1, GoesOn
<1>2. CASE work[w].at # waiting
  BY <1>2 DEF Answers, WorkTyped
<1> QED
  BY <1>1, <1>2

\* What a call has loaded.
LEMMA LoadedCall ==
    ASSUME TypeOK, NEW j \in Jobs
    PROVE  Loaded(j) \in Call /\ Loaded(j).job = j /\ Loaded(j).saw = scan
BY DEF Loaded, Call, TypeOK

\* The job of a failed attempt is queued again or has failed for good.
LEMMA FailedRow ==
    ASSUME TypeOK, NEW c \in Call, NEW retry, FailCommits(c, retry)
    PROVE  /\ c.job \in Jobs /\ scan' \in Statuses
           /\ \E s \in {"queued", "failed"} :
                 /\ jobs' = [jobs EXCEPT ![c.job] = Unheld(c.job, s)]
                 /\ s = "failed" => Emit(c.saw, "failed")
                 /\ s = "queued" => IF c.saw = "scanning" THEN Emit(c.saw, "queued") ELSE UNCHANGED scan
BY DEF FailCommits, Call, Emit, TypeOK, Statuses

\* What a claim does to the rows: those nobody holds wait again, one is taken
\* or done with.
LEMMA ClaimedRows ==
    ASSUME TypeOK, NEW w \in Workers, Claim(w) \/ ClaimSkips(w)
    PROVE  /\ jobs' \in [Jobs -> JobRow] /\ scan' \in Statuses /\ UNCHANGED <<latest, findings, calls, req>>
           /\ work[w].at = "idle"
           /\ \E j \in Claimable :
                 /\ \A k \in Jobs : k # j => jobs'[k] = IF k \in Claimable THEN Unheld(k, "queued") ELSE jobs[k]
                 /\ \/ Claim(w) /\ jobs'[j] = Taken(j, w) /\ work' \in {work, [work EXCEPT ![w] = [at |-> "scanning", job |-> j]]}
                    \/ ClaimSkips(w) /\ jobs'[j].status = "done" /\ UNCHANGED work
<1>1. Claimable \subseteq Jobs
  BY DEF Claimable, Active
<1>2. Requeued \in [Jobs -> JobRow] /\ \A k \in Jobs : Requeued[k] = IF k \in Claimable THEN Unheld(k, "queued") ELSE jobs[k]
  BY JobRows DEF Requeued
<1>3. CASE Claim(w)
  <2>1. PICK j \in Claimable : /\ jobs' = [Requeued EXCEPT ![j] = Taken(j, w)]
                              /\ work' \in {work, [work EXCEPT ![w] = [at |-> "scanning", job |-> j]]}
    BY <1>3 DEF Claim
  <2>2. scan' \in Statuses
    BY <1>3 DEF Claim, Emit, TypeOK, Statuses
  <2>3. jobs' \in [Jobs -> JobRow] /\ jobs'[j] = Taken(j, w)
    BY <1>1, <1>2, <2>1, JobRows
  <2> HIDE DEF Claimable, Requeued
  <2>4. \A k \in Jobs : k # j => jobs'[k] = Requeued[k]
    BY <1>2, <2>1
  <2> QED
    BY <1>2, <1>3, <2>1, <2>2, <2>3, <2>4 DEF Claim
<1>4. CASE ClaimSkips(w)
  <2>1. PICK j \in Claimable : jobs' = [Requeued EXCEPT ![j] = [Unheld(j, "done") EXCEPT !.attempts = @ + 1]]
    BY <1>4 DEF ClaimSkips
  <2> DEFINE new == [Unheld(j, "done") EXCEPT !.attempts = @ + 1]
  <2>2. new \in JobRow /\ new.status = "done"
    BY <1>1, JobRows
  <2> HIDE DEF new
  <2>3. jobs' \in [Jobs -> JobRow] /\ jobs'[j] = new /\ \A k \in Jobs : k # j => jobs'[k] = Requeued[k]
    BY <1>1, <1>2, <2>1, <2>2 DEF new
  <2> QED
    BY <1>2, <1>4, <2>2, <2>3 DEF ClaimSkips, Statuses, calls
<1> QED
  BY <1>3, <1>4

\* Every step leaves rows, calls and scans of their kinds.
LEMMA StepTyped ==
    ASSUME TypeOK, [Next]_vars
    PROVE  TypeOK'
<1> USE DEF manifest, calls
<1>1. jobs \in [Jobs -> JobRow] /\ WorkTyped
  BY DEF TypeOK, JobRow, WorkTyped
<1> DEFINE Rest == /\ latest \in (Jobs \X Nat) \cup {None} /\ findings \subseteq Jobs \X Nat
                   /\ result \in [Workers -> {None} \cup ResultCall] /\ report \in [Workers -> {None} \cup FailCall]
                   /\ req \in [Requests -> {None} \cup Queueing]
<1>2. ASSUME jobs' \in [Jobs -> JobRow], WorkTyped', scan' \in Statuses, Rest' PROVE TypeOK'
  BY <1>2 DEF TypeOK, JobRow, WorkTyped, ResultCall, FailCall, Queueing
<1>3. scan \in Statuses /\ Rest
  BY DEF TypeOK, ResultCall, FailCall, Queueing
<1>4. ASSUME UNCHANGED work PROVE WorkTyped'
  BY <1>1, <1>4 DEF WorkTyped
<1>5. ASSUME NEW r \in Requests, Load(r) \/ Look(r) PROVE TypeOK'
  <2>1. CASE Load(r)
    <3>1. PICK m \in BOOLEAN : req' = [req EXCEPT ![r] = [step |-> "loaded", manual |-> m, saw |-> scan, found |-> FALSE]]
      BY <2>1 DEF Load
    <3>2. [step |-> "loaded", manual |-> m, saw |-> scan, found |-> FALSE] \in Queueing
      BY <1>3 DEF Queueing
    <3>3. Rest'
      BY <1>3, <2>1, <3>1, <3>2 DEF Load
    <3> QED
      BY <1>1, <1>2, <1>3, <1>4, <2>1, <3>3 DEF Load
  <2>2. CASE Look(r)
    <3>1. PICK f \in BOOLEAN : req' = [req EXCEPT ![r].step = "looked", ![r].found = f]
      BY <2>2 DEF Look
    <3> DEFINE new == [req[r] EXCEPT !.step = "looked", !.found = f]
    <3>2. req[r] \in Queueing
      BY <1>3, <2>2 DEF Look
    <3>3. new \in Queueing
      BY <3>2 DEF Queueing
    <3>4. req' = [req EXCEPT ![r] = new]
      BY <3>1
    <3> HIDE DEF new
    <3>5. Rest'
      BY <1>3, <2>2, <3>3, <3>4 DEF Look
    <3> QED
      BY <1>1, <1>2, <1>3, <1>4, <2>2, <3>5 DEF Look
  <2> QED
    BY <1>5, <2>1, <2>2
<1>6. ASSUME NEW r \in Requests, Joined(r) PROVE TypeOK'
  <2>1. scan' \in Statuses
    BY <1>3, <1>6 DEF Joined, Emit, Statuses, Queueing
  <2>2. Rest'
    BY <1>3, <1>6 DEF Joined
  <2> QED
    BY <1>1, <1>2, <1>4, <1>6, <2>1, <2>2 DEF Joined
<1>7. ASSUME NEW r \in Requests, Insert(r) PROVE TypeOK'
  <2>1. scan' \in Statuses
    BY <1>3, <1>7 DEF Insert, Emit, Statuses, Queueing
  <2>2. jobs' \in [Jobs -> JobRow]
    BY <1>1, <1>7, JobRows DEF Insert
  <2>3. Rest'
    BY <1>3, <1>7 DEF Insert
  <2> QED
    BY <1>2, <1>4, <1>7, <2>1, <2>2, <2>3 DEF Insert
<1>8. ASSUME NEW w \in Workers, Claim(w) \/ ClaimSkips(w) PROVE TypeOK'
  <2>1. Claimable \subseteq Jobs
    BY DEF Claimable, Active
  <2>2. WorkTyped'
    <3>1. \/ work' = work
          \/ \E j \in Jobs : work' = [work EXCEPT ![w] = [at |-> "scanning", job |-> j]]
      BY <1>8, <2>1, ClaimedRows
    <3>2. None \notin Jobs
      BY ScanAssumption
    <3> QED
      BY <1>1, <1>4, <3>1, <3>2 DEF WorkTyped
  <2>3. jobs' \in [Jobs -> JobRow] /\ scan' \in Statuses /\ UNCHANGED <<latest, findings, calls, req>>
    BY <1>8, ClaimedRows
  <2> QED
    BY <1>2, <1>3, <2>2, <2>3
<1>9. ASSUME NEW j \in Jobs, NEW b \in BOOLEAN, jobs' = [jobs EXCEPT ![j].leased = b], UNCHANGED <<manifest, work, calls, req>>
      PROVE  TypeOK'
  <2>1. jobs' = [jobs EXCEPT ![j] = [jobs[j] EXCEPT !.leased = b]]
    BY <1>9
  <2>2. jobs' \in [Jobs -> JobRow]
    BY <1>1, <2>1, JobRows
  <2> QED
    BY <1>2, <1>3, <1>4, <1>9, <2>2
<1>10. ASSUME NEW w \in Workers, ScanFails(w) \/ ResultTimesOut(w) \/ GivesUp(w) PROVE TypeOK'
  <2>1. WorkTyped'
    BY <1>1, <1>10, GoesOn DEF ScanFails, ResultTimesOut, GivesUp
  <2> QED
    BY <1>1, <1>2, <1>3, <1>10, <2>1 DEF ScanFails, ResultTimesOut, GivesUp
<1>11. ASSUME NEW w \in Workers, Post(w) PROVE TypeOK'
  <2>1. work[w].at = "scanning" /\ work[w].job \in Jobs
    BY <1>1, <1>11 DEF Post, WorkTyped
  <2>2. WorkTyped'
    BY <1>1, <1>11, <2>1, GoesOn DEF Post
  <2>3. CASE UNCHANGED result
    BY <1>1, <1>2, <1>3, <1>11, <2>2, <2>3 DEF Post
  <2>4. CASE \E sbom \in BOOLEAN :
               result' = [result EXCEPT ![w] = [call |-> Loaded(work[w].job), step |-> "read", sbom |-> sbom, old |-> {}]]
    <3>1. \A sbom \in BOOLEAN : [call |-> Loaded(work[w].job), step |-> "read", sbom |-> sbom, old |-> {}] \in ResultCall
      BY <2>1, LoadedCall DEF ResultCall
    <3>2. Rest'
      BY <1>3, <1>11, <2>4, <3>1 DEF Post
    <3> QED
      BY <1>1, <1>2, <1>3, <1>11, <2>2, <3>2 DEF Post
  <2> QED
    BY <1>11, <2>3, <2>4 DEF Post
<1>12. ASSUME NEW w \in Workers, Write(w) PROVE TypeOK'
  <2> DEFINE new == [result[w] EXCEPT !.step = "wrote", !.old = findings]
  <2>2. result[w] \in ResultCall
    BY <1>3, <1>12 DEF Write
  <2>3. new \in ResultCall
    BY <1>3, <2>2 DEF ResultCall
  <2>4. result' = [result EXCEPT ![w] = new]
    BY <1>12 DEF Write
  <2> HIDE DEF new
  <2>1. Rest'
    BY <1>3, <1>12, <2>3, <2>4 DEF Write
  <2> QED
    BY <1>1, <1>2, <1>3, <1>4, <1>12, <2>1 DEF Write
<1>13. ASSUME NEW w \in Workers, Ingest(w) PROVE TypeOK'
  <2>1. result[w].call \in Call /\ result[w].call.job \in Jobs /\ ScanId(result[w].call) \in Jobs \X Nat
    BY <1>3, <1>13 DEF Ingest, Call, ScanId, ResultCall
  <2>2. jobs' \in [Jobs -> JobRow]
    BY <1>1, <1>13, <2>1, JobRows DEF Ingest
  <2>3. scan' \in Statuses
    BY <1>3, <1>13 DEF Ingest, EmitOwn, Emit, Statuses
  <2>4. WorkTyped'
    BY <1>1, <1>13, Answered DEF Ingest
  <2>5. Rest'
    BY <1>3, <1>13, <2>1 DEF Ingest
  <2> QED
    BY <1>2, <2>2, <2>3, <2>4, <2>5
<1>14. ASSUME NEW w \in Workers, Reject(w) PROVE TypeOK'
  <2>1. result[w].call.job \in Jobs /\ result[w] \in ResultCall
    BY <1>3, <1>14 DEF Reject, Call, ResultCall
  <2> DEFINE loaded == Loaded(result[w].call.job)
             new == [result[w] EXCEPT !.step = "rejected", !.call = loaded]
  <2>2. loaded \in Call
    BY <2>1, LoadedCall
  <2>3. CASE RunningJob(w, result[w].call.job)
    <3>1. result' = [result EXCEPT ![w] = new] /\ UNCHANGED work
      BY <1>3, <1>14, <2>1, <2>3 DEF Reject, ResultCall
    <3> HIDE DEF loaded
    <3>2. new \in ResultCall
      BY <2>1, <2>2 DEF ResultCall
    <3> HIDE DEF new
    <3>3. Rest'
      BY <1>3, <1>14, <3>1, <3>2 DEF Reject
    <3> QED
      BY <1>1, <1>2, <1>3, <1>4, <1>14, <3>1, <3>3 DEF Reject
  <2>4. CASE ~RunningJob(w, result[w].call.job)
    <3>1. result' = [result EXCEPT ![w] = None] /\ Answers(w, "posted", "failed")
      BY <1>14, <2>4 DEF Reject
    <3>2. Rest'
      BY <1>3, <1>14, <3>1 DEF Reject
    <3> QED
      BY <1>1, <1>2, <1>3, <1>14, <3>1, <3>2, Answered DEF Reject
  <2> QED
    BY <2>3, <2>4
<1>15. ASSUME NEW w \in Workers, RejectCommits(w) \/ ReportCommits(w) PROVE TypeOK'
  <2>1. \E c \in Call, retry \in BOOLEAN : FailCommits(c, retry)
    BY <1>3, <1>15 DEF RejectCommits, ReportCommits, ResultCall, FailCall
  <2>2. PICK j \in Jobs, s \in {"queued", "failed"} : scan' \in Statuses /\ jobs' = [jobs EXCEPT ![j] = Unheld(j, s)]
    BY <2>1, FailedRow
  <2>5. jobs' \in [Jobs -> JobRow]
    BY <1>1, <2>2, JobRows
  <2>3. WorkTyped'
    BY <1>1, <1>15, Answered DEF RejectCommits, ReportCommits
  <2>4. Rest'
    BY <1>3, <1>15 DEF RejectCommits, ReportCommits
  <2> QED
    BY <1>2, <2>2, <2>3, <2>4, <2>5
<1>16. ASSUME NEW w \in Workers, ResultAborts(w) \/ ReportAborts(w) PROVE TypeOK'
  <2>1. WorkTyped'
    BY <1>1, <1>16, Answered DEF ResultAborts, ReportAborts
  <2>2. Rest'
    BY <1>3, <1>16 DEF ResultAborts, ReportAborts
  <2> QED
    BY <1>1, <1>2, <1>3, <1>16, <2>1, <2>2 DEF ResultAborts, ReportAborts
<1>17. ASSUME NEW w \in Workers, Report(w) PROVE TypeOK'
  <2>1. work[w].at = "failed" /\ work[w].job \in Jobs
    BY <1>1, <1>17 DEF Report, WorkTyped
  <2>2. WorkTyped'
    BY <1>1, <1>17, <2>1, GoesOn DEF Report
  <2>3. \A retry \in BOOLEAN : [call |-> Loaded(work[w].job), retry |-> retry] \in FailCall
    BY <2>1, LoadedCall DEF FailCall
  <2>4. Rest'
    BY <1>3, <1>17, <2>3 DEF Report
  <2> QED
    BY <1>1, <1>2, <1>3, <1>17, <2>2, <2>4 DEF Report
<1>18. ASSUME NEW j \in Jobs, PruneJob(j) PROVE TypeOK'
  <2>1. jobs' \in [Jobs -> JobRow]
    BY <1>1, <1>18, JobRows DEF PruneJob
  <2> QED
    BY <1>2, <1>3, <1>4, <1>18, <2>1 DEF PruneJob
<1>19. ASSUME NEW w \in Workers, Heartbeat(w) PROVE TypeOK'
  <2>1. work[w].job \in Jobs
    BY <1>1, <1>19 DEF Heartbeat, WorkTyped
  <2> QED
    BY <1>9, <1>19, <2>1 DEF Heartbeat
<1>20. ASSUME NEW j \in Jobs, Lapse(j) PROVE TypeOK'
  BY <1>9, <1>20 DEF Lapse
<1>21. CASE UNCHANGED vars
  BY <1>21 DEF vars, TypeOK
<1> HIDE DEF Rest
<1> QED
  BY <1>5, <1>6, <1>7, <1>8, <1>10, <1>11, <1>12, <1>13, <1>14, <1>15, <1>16, <1>17, <1>18, <1>19, <1>20, <1>21
     DEF Next, Enqueue, WorkOne, Serve, Accident

-----------------------------------------------------------------------------
(* Calls that are not overtaken.                                           *)

\* The job of a call is its worker's as long as the server has the call, and no
\* two calls are about the same job.
CallInv ==
    \A w \in Workers :
        /\ result[w] # None => RunningJob(w, result[w].call.job)
        /\ report[w] # None => RunningJob(w, report[w].call.job)
        /\ result[w] # None /\ report[w] # None => result[w].call.job # report[w].call.job
        /\ result[w] # None /\ work[w].at \in {"scanning", "reporting"} => result[w].call.job # work[w].job
        /\ report[w] # None /\ work[w].at \in {"scanning", "posted", "failed"} => report[w].call.job # work[w].job

\* Its commit is the only one that may end the job meanwhile.
LEMMA OwnJob ==
    ASSUME CallInv, NEW w \in Workers, NEW x \in Workers
    PROVE  /\ result[w] # None /\ result[x] # None /\ result[w].call.job = result[x].call.job => w = x
           /\ report[w] # None /\ report[x] # None /\ report[w].call.job = report[x].call.job => w = x
           /\ result[w] # None /\ report[x] # None => result[w].call.job # report[x].call.job
BY DEF CallInv, RunningJob

\* A step that begins no call, ends no pending call's job and moves workers on
\* as they answer keeps the calls their jobs.
LEMMA CallsKept ==
    ASSUME CallInv,
           \A w \in Workers :
              /\ result'[w] # None => /\ result[w] # None /\ result'[w].call.job = result[w].call.job
                                      /\ jobs'[result[w].call.job].status = jobs[result[w].call.job].status
                                      /\ jobs'[result[w].call.job].worker = jobs[result[w].call.job].worker
              /\ report'[w] # None => /\ report'[w] = report[w]
                                      /\ jobs'[report[w].call.job].status = jobs[report[w].call.job].status
                                      /\ jobs'[report[w].call.job].worker = jobs[report[w].call.job].worker
              /\ \/ work'[w] = work[w] \/ work'[w].at = "idle"
                 \/ work'[w].at = "failed" /\ work'[w].job = work[w].job /\ work[w].at \in {"scanning", "posted"}
    PROVE  CallInv'
BY DEF CallInv, RunningJob

\* No call is about a job that waits, or that is nobody's.
LEMMA FreeOfCalls ==
    ASSUME ~Overtakes, NEW j, Free(j), NEW w \in Workers
    PROVE  /\ result[w] # None => result[w].call.job # j
           /\ report[w] # None => report[w].call.job # j
BY DEF Free, InCall

\* Claims pass over jobs a call is about, and a call's commit ends that call alone.
LEMMA StepCalls ==
    ASSUME ~Overtakes, TypeOK, CallInv, [Next]_vars
    PROVE  CallInv'
<1> USE DEF manifest, calls
<1>1. /\ jobs \in [Jobs -> JobRow] /\ WorkTyped
      /\ result \in [Workers -> {None} \cup ResultCall] /\ report \in [Workers -> {None} \cup FailCall]
      /\ \A w \in Workers : /\ result[w] # None => result[w].call.job \in Jobs
                            /\ report[w] # None => report[w].call.job \in Jobs
  BY DEF TypeOK, JobRow, WorkTyped, ResultCall, FailCall, Call
<1>2. CASE UNCHANGED <<jobs, work, calls>>
  BY <1>2 DEF CallInv, RunningJob
<1>3. ASSUME NEW j \in Jobs, \A w \in Workers : ~RunningJob(w, j), NEW row \in JobRow, jobs' = [jobs EXCEPT ![j] = row],
             UNCHANGED <<work, calls>>
      PROVE  CallInv'
  BY <1>1, <1>3, CallsKept DEF CallInv
<1>4. ASSUME NEW r \in Requests, Insert(r) PROVE CallInv'
  <2>1. PICK j \in Jobs : jobs[j].status = "none" /\ jobs' = [jobs EXCEPT ![j] = [NoJob EXCEPT !.status = "queued"]]
    BY <1>4 DEF Insert
  <2>2. [NoJob EXCEPT !.status = "queued"] \in JobRow /\ UNCHANGED <<work, calls>>
    BY <1>4, JobRows DEF Insert
  <2> QED
    BY <1>3, <2>1, <2>2 DEF RunningJob
<1>5. ASSUME NEW j \in Jobs, PruneJob(j) PROVE CallInv'
  BY <1>3, <1>5, JobRows DEF PruneJob, RunningJob
<1>6. ASSUME NEW w \in Workers, Claim(w) \/ ClaimSkips(w) PROVE CallInv'
  <2>1. /\ UNCHANGED <<result, report>> /\ work[w].at = "idle"
        /\ \E j \in Claimable :
              /\ \A k \in Jobs : k # j => jobs'[k] = IF k \in Claimable THEN Unheld(k, "queued") ELSE jobs[k]
              /\ work' = work \/ work' = [work EXCEPT ![w] = [at |-> "scanning", job |-> j]]
    BY <1>6, ClaimedRows
  <2>2. PICK j \in Claimable :
              /\ \A k \in Jobs : k # j => jobs'[k] = IF k \in Claimable THEN Unheld(k, "queued") ELSE jobs[k]
              /\ work' = work \/ work' = [work EXCEPT ![w] = [at |-> "scanning", job |-> j]]
    BY <2>1
  <2>3. \A k \in Claimable : k \in Jobs /\ Free(k)
    BY DEF Claimable, Active
  <2>4. \A x \in Workers : /\ result[x] # None => result[x].call.job \notin Claimable
                           /\ report[x] # None => report[x].call.job \notin Claimable
    BY <2>3, FreeOfCalls
  <2>5. \A x \in Workers : /\ result[x] # None => jobs'[result[x].call.job] = jobs[result[x].call.job]
                           /\ report[x] # None => jobs'[report[x].call.job] = jobs[report[x].call.job]
    BY <1>1, <2>2, <2>4
  <2>6. \A x \in Workers : work'[x] = work[x] \/ (work'[x].at = "scanning" /\ work'[x].job = j)
    BY <1>1, <2>2 DEF WorkTyped
  <2> HIDE DEF Claimable
  <2> QED
    BY <2>1, <2>2, <2>4, <2>5, <2>6 DEF CallInv, RunningJob
<1>7. ASSUME NEW j \in Jobs, NEW b \in BOOLEAN, jobs' = [jobs EXCEPT ![j].leased = b], UNCHANGED <<work, calls>> PROVE CallInv'
  <2>1. \A k \in Jobs : jobs'[k].status = jobs[k].status /\ jobs'[k].worker = jobs[k].worker
    BY <1>1, <1>7 DEF JobRow
  <2> QED
    BY <1>1, <1>7, <2>1, CallsKept
<1>8. ASSUME NEW w \in Workers, ScanFails(w) \/ ResultTimesOut(w) \/ GivesUp(w) PROVE CallInv'
  <2>1. \A x \in Workers : \/ work'[x] = work[x] \/ work'[x].at = "idle"
                           \/ work'[x].at = "failed" /\ work'[x].job = work[x].job /\ work[x].at \in {"scanning", "posted"}
    BY <1>1, <1>8, GoesOn DEF ScanFails, ResultTimesOut, GivesUp
  <2> QED
    BY <1>8, <2>1, CallsKept DEF ScanFails, ResultTimesOut, GivesUp
<1>9. ASSUME NEW w \in Workers, ResultAborts(w) \/ ReportAborts(w) PROVE CallInv'
  <2>1. \A x \in Workers : \/ work'[x] = work[x] \/ work'[x].at = "idle"
                           \/ work'[x].at = "failed" /\ work'[x].job = work[x].job /\ work[x].at \in {"scanning", "posted"}
    BY <1>1, <1>9, Answered DEF ResultAborts, ReportAborts
  <2>2. \A x \in Workers : result'[x] \in {result[x], None} /\ report'[x] \in {report[x], None}
    BY <1>1, <1>9 DEF ResultAborts, ReportAborts
  <2> QED
    BY <1>9, <2>1, <2>2, CallsKept DEF ResultAborts, ReportAborts
<1>10. ASSUME NEW w \in Workers, Ingest(w) \/ RejectCommits(w) PROVE CallInv'
  <2>1. result[w] # None /\ result' = [result EXCEPT ![w] = None] /\ report' = report
    BY <1>10 DEF Ingest, RejectCommits
  <2>2. \A k \in Jobs : k # result[w].call.job => jobs'[k] = jobs[k]
    BY <1>1, <1>10, <2>1 DEF Ingest, RejectCommits, FailCommits
  <2>3. \A x \in Workers : \/ work'[x] = work[x] \/ work'[x].at = "idle"
                           \/ work'[x].at = "failed" /\ work'[x].job = work[x].job /\ work[x].at \in {"scanning", "posted"}
    BY <1>1, <1>10, Answered DEF Ingest, RejectCommits
  <2>4. \A x \in Workers : /\ result'[x] # None => x # w /\ result'[x] = result[x]
                           /\ report'[x] # None => report'[x] = report[x]
    BY <1>1, <2>1
  <2> QED
    BY <1>1, <2>1, <2>2, <2>3, <2>4, OwnJob, CallsKept
<1>11. ASSUME NEW w \in Workers, ReportCommits(w) PROVE CallInv'
  <2>1. report[w] # None /\ report' = [report EXCEPT ![w] = None] /\ result' = result
    BY <1>11 DEF ReportCommits
  <2>2. \A k \in Jobs : k # report[w].call.job => jobs'[k] = jobs[k]
    BY <1>1, <1>11, <2>1 DEF ReportCommits, FailCommits
  <2>3. \A x \in Workers : \/ work'[x] = work[x] \/ work'[x].at = "idle"
                           \/ work'[x].at = "failed" /\ work'[x].job = work[x].job /\ work[x].at \in {"scanning", "posted"}
    BY <1>1, <1>11, Answered DEF ReportCommits
  <2>4. \A x \in Workers : /\ report'[x] # None => x # w /\ report'[x] = report[x]
                           /\ result'[x] # None => result'[x] = result[x]
    BY <1>1, <2>1
  <2> QED
    BY <1>1, <2>1, <2>2, <2>3, <2>4, OwnJob, CallsKept
<1>12. ASSUME NEW w \in Workers, Post(w) PROVE CallInv'
  <2>1. /\ work[w].at = "scanning" /\ result[w] = None /\ UNCHANGED <<jobs, report>> /\ work[w].job \in Jobs
    BY <1>1, <1>12 DEF Post, WorkTyped
  <2>2. CASE RunningJob(w, work[w].job)
    <3>1. /\ work'[w].at = "posted" /\ work'[w].job = work[w].job
          /\ \A x \in Workers : x # w => work'[x] = work[x]
      BY <1>1, <1>12, <2>1, <2>2, GoesOn DEF Post
    <3>2. PICK sbom \in BOOLEAN :
             result' = [result EXCEPT ![w] = [call |-> Loaded(work[w].job), step |-> "read", sbom |-> sbom, old |-> {}]]
      BY <1>12, <2>2 DEF Post
    <3>3. Loaded(work[w].job).job = work[w].job
      BY <2>1, LoadedCall
    <3>4. result'[w].call.job = work[w].job /\ \A x \in Workers : x # w => result'[x] = result[x]
      BY <1>1, <3>2, <3>3
    <3> QED
      BY <2>1, <2>2, <3>1, <3>4 DEF CallInv, RunningJob
  <2>3. CASE ~RunningJob(w, work[w].job)
    <3>1. /\ work'[w].at = "failed" /\ work'[w].job = work[w].job /\ UNCHANGED result
          /\ \A x \in Workers : x # w => work'[x] = work[x]
      BY <1>1, <1>12, <2>1, <2>3, GoesOn DEF Post
    <3> QED
      BY <2>1, <3>1, CallsKept
  <2> QED
    BY <2>2, <2>3
<1>13. ASSUME NEW w \in Workers, Report(w) PROVE CallInv'
  <2>1. /\ work[w].at = "failed" /\ report[w] = None /\ UNCHANGED <<jobs, result>> /\ work[w].job \in Jobs
        /\ Free(work[w].job)
    BY <1>1, <1>13 DEF Report, WorkTyped
  <2>2. CASE RunningJob(w, work[w].job)
    <3>1. /\ work'[w].at = "reporting" /\ work'[w].job = work[w].job
          /\ \A x \in Workers : x # w => work'[x] = work[x]
      BY <1>1, <1>13, <2>1, <2>2, GoesOn DEF Report
    <3>2. PICK retry \in BOOLEAN : report' = [report EXCEPT ![w] = [call |-> Loaded(work[w].job), retry |-> retry]]
      BY <1>13, <2>2 DEF Report
    <3>3. Loaded(work[w].job).job = work[w].job
      BY <2>1, LoadedCall
    <3>4. report'[w].call.job = work[w].job /\ \A x \in Workers : x # w => report'[x] = report[x]
      BY <1>1, <3>2, <3>3
    <3>5. result[w] # None => result[w].call.job # work[w].job
      BY <2>1, FreeOfCalls
    <3> QED
      BY <2>1, <2>2, <3>1, <3>4, <3>5 DEF CallInv, RunningJob
  <2>3. CASE ~RunningJob(w, work[w].job)
    <3>1. /\ work'[w].at = "idle" /\ UNCHANGED report
          /\ \A x \in Workers : x # w => work'[x] = work[x]
      BY <1>1, <1>13, <2>1, <2>3, GoesOn DEF Report
    <3> QED
      BY <2>1, <3>1, CallsKept
  <2> QED
    BY <2>2, <2>3
<1>14. ASSUME NEW w \in Workers, Write(w) PROVE CallInv'
  <2>1. UNCHANGED <<jobs, work, report>> /\ result[w] # None
    BY <1>14 DEF Write
  <2>2. result' = [result EXCEPT ![w] = [result[w] EXCEPT !.step = "wrote", !.old = findings]] /\ result[w] \in ResultCall
    BY <1>1, <1>14 DEF Write
  <2>3. \A x \in Workers : result'[x] # None => result[x] # None /\ result'[x].call = result[x].call
    BY <1>1, <2>1, <2>2 DEF ResultCall
  <2> QED
    BY <2>1, <2>3, CallsKept
<1>15. ASSUME NEW w \in Workers, Reject(w) PROVE CallInv'
  <2>1. UNCHANGED <<jobs, report>> /\ result[w] \in ResultCall /\ result[w] # None /\ result[w].call.job \in Jobs
    BY <1>1, <1>15 DEF Reject
  <2> DEFINE loaded == Loaded(result[w].call.job)
  <2>2. CASE RunningJob(w, result[w].call.job)
    <3>1. result' = [result EXCEPT ![w] = [result[w] EXCEPT !.step = "rejected", !.call = loaded]] /\ UNCHANGED work
      BY <1>1, <1>15, <2>1, <2>2 DEF Reject, ResultCall
    <3>2. loaded.job = result[w].call.job
      BY <2>1, LoadedCall
    <3> HIDE DEF loaded
    <3>3. \A x \in Workers : result'[x] # None => result[x] # None /\ result'[x].call.job = result[x].call.job
      BY <1>1, <2>1, <3>1, <3>2 DEF ResultCall
    <3> QED
      BY <2>1, <3>1, <3>3, CallsKept
  <2>3. CASE ~RunningJob(w, result[w].call.job)
    BY <2>1, <2>3 DEF CallInv
  <2> QED
    BY <2>2, <2>3
<1>16. ASSUME NEW w \in Workers, Heartbeat(w) PROVE CallInv'
  <2>1. work[w].job \in Jobs
    BY <1>1, <1>16 DEF Heartbeat, WorkTyped
  <2> QED
    BY <1>7, <1>16, <2>1 DEF Heartbeat
<1>17. ASSUME NEW j \in Jobs, Lapse(j) PROVE CallInv'
  BY <1>7, <1>17 DEF Lapse
<1>18. ASSUME NEW r \in Requests, Load(r) \/ Look(r) \/ Joined(r) PROVE CallInv'
  BY <1>2, <1>18 DEF Load, Look, Joined
<1>19. CASE UNCHANGED vars
  BY <1>2, <1>19 DEF vars
<1> QED
  BY <1>4, <1>5, <1>6, <1>8, <1>9, <1>10, <1>11, <1>12, <1>13, <1>14, <1>15, <1>16, <1>17, <1>18, <1>19
     DEF Next, Enqueue, WorkOne, Serve, Accident

-----------------------------------------------------------------------------
(* One active job.                                                         *)

\* Jobs are made only by a request that found none, and no job can appear
\* between its look and its insert when no other request queues.
OneInv ==
    /\ \A i, j \in Active : i = j
    /\ \A r \in Requests : req[r] # None /\ req[r].step = "looked" /\ ~req[r].found => Active = {}

\* While the server has a call, its job is the active one: no other call is
\* about anything, nothing is claimed and nothing inserted.
LEMMA CallAlone ==
    ASSUME ~Overtakes, TypeOK, CallInv, OneInv, NEW w \in Workers, NEW x \in Workers
    PROVE  /\ result[w] # None /\ result[x] # None => w = x
           /\ report[w] # None /\ report[x] # None => w = x
           /\ ~(result[w] # None /\ report[x] # None)
           /\ result[w] # None => result[w].call.job \in Active
           /\ report[w] # None => report[w].call.job \in Active
           /\ (result[w] # None \/ report[w] # None) => ~Claim(x) /\ ~ClaimSkips(x) /\ \A r \in Requests : ~Insert(r)
<1>1. \A y \in Workers : /\ result[y] # None => result[y].call.job \in Active
                         /\ report[y] # None => report[y].call.job \in Active
  BY DEF TypeOK, CallInv, RunningJob, Call, Active
<1>2. \A i, j \in Active : i = j
  BY DEF OneInv
<1>3. \A j \in Claimable : j \in Active /\ Free(j)
  BY DEF Claimable
<1>4. result[w] # None \/ report[w] # None => Claimable = {}
  BY <1>1, <1>2, <1>3, FreeOfCalls
<1>5. (result[w] # None \/ report[w] # None) => \A r \in Requests : ~Insert(r)
  BY <1>1 DEF OneInv, Insert
<1> HIDE DEF Active, Claimable
<1>6. (result[w] # None \/ report[w] # None) => ~Claim(x) /\ ~ClaimSkips(x)
  BY <1>4 DEF Claim, ClaimSkips
<1> QED
  BY <1>1, <1>2, <1>5, <1>6, OwnJob

\* An inserted job waits.
LEMMA InsertActive ==
    ASSUME TypeOK, NEW r \in Requests, Insert(r)
    PROVE  \E j \in Jobs : jobs[j].status = "none" /\ Active' = Active \cup {j}
<1>1. PICK j \in Jobs : jobs[j].status = "none" /\ jobs' = [jobs EXCEPT ![j] = [NoJob EXCEPT !.status = "queued"]]
  BY DEF Insert
<1> DEFINE row == [NoJob EXCEPT !.status = "queued"]
<1>2. row.status = "queued"
  BY JobRows
<1> HIDE DEF row
<1>3. jobs'[j].status = "queued" /\ \A k \in Jobs : k # j => jobs'[k] = jobs[k]
  BY <1>1, <1>2 DEF row, TypeOK
<1> QED
  BY <1>1, <1>3 DEF Active

\* What a step may do to the set of active jobs.
LEMMA StepActive ==
    ASSUME ~Overtakes, TypeOK, CallInv, [Next]_vars
    PROVE  Active' \subseteq Active \/ \E r \in Requests, j \in Jobs : Insert(r) /\ Active' = Active \cup {j}
<1> USE DEF manifest, calls
<1>1. /\ jobs \in [Jobs -> JobRow] /\ WorkTyped
      /\ result \in [Workers -> {None} \cup ResultCall] /\ report \in [Workers -> {None} \cup FailCall]
  BY DEF TypeOK, JobRow, WorkTyped, ResultCall, FailCall
<1>2. ASSUME NEW j \in Jobs, NEW row \in JobRow, j \in Active \/ row.status \notin {"queued", "running"},
             jobs' = [jobs EXCEPT ![j] = row]
      PROVE  Active' \subseteq Active
  BY <1>1, <1>2 DEF Active
<1>3. ASSUME NEW r \in Requests, Insert(r) PROVE \E j \in Jobs : Active' = Active \cup {j}
  BY <1>3, InsertActive
<1>4. ASSUME NEW w \in Workers, Claim(w) \/ ClaimSkips(w) PROVE Active' \subseteq Active
  <2>1. PICK j \in Claimable : \A k \in Jobs : k # j => jobs'[k] = IF k \in Claimable THEN Unheld(k, "queued") ELSE jobs[k]
    BY <1>4, ClaimedRows
  <2>2. Claimable \subseteq Active /\ Active \subseteq Jobs
    BY DEF Claimable, Active
  <2> HIDE DEF Claimable
  <2>3. \A k \in Jobs : k \notin Active => jobs'[k] = jobs[k]
    BY <2>1, <2>2
  <2> QED
    BY <2>3 DEF Active
<1>5. ASSUME NEW w \in Workers, Heartbeat(w) PROVE Active' \subseteq Active
  <2>1. work[w].job \in Jobs /\ work[w].job \in Active
    BY <1>1, <1>5 DEF Heartbeat, WorkTyped, RunningJob, Active
  <2>2. [jobs[work[w].job] EXCEPT !.leased = TRUE] \in JobRow
    BY <2>1, JobRows
  <2> QED
    BY <1>2, <1>5, <2>1, <2>2 DEF Heartbeat
<1>6. ASSUME NEW j \in Jobs, Lapse(j) PROVE Active' \subseteq Active
  <2>1. j \in Active /\ [jobs[j] EXCEPT !.leased = FALSE] \in JobRow
    BY <1>6, JobRows DEF Lapse, Active
  <2> QED
    BY <1>2, <1>6, <2>1 DEF Lapse
<1>7. ASSUME NEW j \in Jobs, PruneJob(j) PROVE Active' \subseteq Active
  BY <1>2, <1>7, JobRows DEF PruneJob, NoJob
<1>8. ASSUME NEW w \in Workers, Ingest(w) PROVE Active' \subseteq Active
  <2>1. result[w].call.job \in Jobs
    BY <1>1, <1>8 DEF Ingest, ResultCall, Call
  <2> QED
    BY <1>2, <1>8, <2>1, JobRows DEF Ingest
<1>9. ASSUME NEW w \in Workers, RejectCommits(w) \/ ReportCommits(w) PROVE Active' \subseteq Active
  <2>1. PICK c \in Call, retry \in BOOLEAN : FailCommits(c, retry) /\ RunningJob(w, c.job)
    BY <1>1, <1>9 DEF RejectCommits, ReportCommits, ResultCall, FailCall, CallInv
  <2>2. PICK s \in {"queued", "failed"} : jobs' = [jobs EXCEPT ![c.job] = Unheld(c.job, s)]
    BY <2>1, FailedRow
  <2>3. c.job \in Active /\ c.job \in Jobs
    BY <2>1 DEF RunningJob, Active, Call
  <2> QED
    BY <1>2, <2>2, <2>3, JobRows
<1>10. ASSUME UNCHANGED jobs PROVE Active' \subseteq Active
  BY <1>10 DEF Active
<1>11. ASSUME NEW r \in Requests, Load(r) \/ Look(r) \/ Joined(r) PROVE UNCHANGED jobs
  BY <1>11 DEF Load, Look, Joined
<1>12. ASSUME NEW w \in Workers,
              ScanFails(w) \/ Post(w) \/ Write(w) \/ Reject(w) \/ Report(w) \/ Accident(w)
       PROVE  UNCHANGED jobs
  BY <1>12 DEF ScanFails, Post, Write, Reject, Report, Accident, ResultAborts, ReportAborts, ResultTimesOut, GivesUp
<1>13. UNCHANGED vars => UNCHANGED jobs
  BY DEF vars
<1> QED
  BY <1>3, <1>4, <1>5, <1>6, <1>7, <1>8, <1>9, <1>10, <1>11, <1>12, <1>13 DEF Next, Enqueue, WorkOne, Serve

\* A request that found no job stays right about it until it inserts one.
LEMMA StepOne ==
    ASSUME ~Overtakes, \A r, s \in Requests : r = s, TypeOK, CallInv, OneInv, [Next]_vars
    PROVE  OneInv'
<1> USE DEF manifest, calls
<1>1. req \in [Requests -> {None} \cup Queueing]
  BY DEF TypeOK, Queueing
<1>2. ASSUME NEW r \in Requests, Insert(r) PROVE OneInv'
  <2>1. Active = {}
    BY <1>2 DEF Insert, OneInv
  <2>2. Active' \subseteq Active \/ \E j \in Jobs : Active' = Active \cup {j}
    BY StepActive
  <2>3. \A s \in Requests : req'[s] = None
    BY <1>1, <1>2 DEF Insert
  <2> HIDE DEF Active
  <2> QED
    BY <2>1, <2>2, <2>3 DEF OneInv
<1>3. ASSUME NEW r \in Requests, Look(r) PROVE OneInv'
  <2>1. req[r] \in Queueing /\ req' = [req EXCEPT ![r] = [req[r] EXCEPT !.step = "looked", !.found = Active # {}]]
    BY <1>1, <1>3 DEF Look
  <2>2. req'[r].found = (Active # {}) /\ \A s \in Requests : s = r
    BY <1>1, <2>1 DEF Queueing
  <2>3. Active' = Active
    BY <1>3 DEF Look, Active
  <2> HIDE DEF Active
  <2> QED
    BY <2>2, <2>3 DEF OneInv
<1>4. ASSUME \A r \in Requests : req'[r] \in {req[r], None} \/ req'[r].step = "loaded", \A r \in Requests : ~Insert(r)
      PROVE  OneInv'
  <2>1. Active' \subseteq Active
    BY <1>4, StepActive
  <2> HIDE DEF Active
  <2> QED
    BY <1>4, <2>1 DEF OneInv
<1>5. ASSUME NEW r \in Requests, Load(r) \/ Joined(r)
      PROVE  \A s \in Requests : req'[s] \in {req[s], None} \/ req'[s].step = "loaded"
  BY <1>1, <1>5 DEF Load, Joined
<1>6. ASSUME NEW w \in Workers, WorkOne(w) \/ Serve(w) \/ Heartbeat(w) \/ Accident(w) PROVE UNCHANGED req
  BY <1>6 DEF WorkOne, Serve, Accident, Claim, ClaimSkips, ScanFails, Post, Report, Write, Ingest, Reject, RejectCommits,
              ReportCommits, Heartbeat, ResultAborts, ResultTimesOut, ReportAborts, GivesUp
<1>7. ASSUME NEW j \in Jobs, Lapse(j) \/ PruneJob(j) PROVE UNCHANGED req
  BY <1>7 DEF Lapse, PruneJob
<1>8. CASE UNCHANGED req
  BY <1>2, <1>4, <1>8
<1>9. UNCHANGED vars => UNCHANGED req
  BY DEF vars
<1> QED
  BY <1>2, <1>3, <1>4, <1>5, <1>6, <1>7, <1>8, <1>9 DEF Next, Enqueue

-----------------------------------------------------------------------------
(* What a call has loaded is still true at its commit.                      *)

\* Every call about the job has loaded a status its commit will change.
WillWrite(j) ==
    \A w \in Workers :
        /\ result[w] # None /\ result[w].call.job = j => result[w].call.saw \in {"queued", "scanning"}
        /\ report[w] # None /\ report[w].call.job = j => report[w].call.saw \in {"queued", "scanning"}

\* The job whose enqueueing, claim or failed attempt made the image wait: its
\* calls come after and see that it does, or that another job ended the wait.
ScanInv == scan \in {"queued", "scanning"} => \E j \in Active : WillWrite(j)

\* The rows a report deletes are all there are.
FindInv ==
    /\ LatestFindingsOnly
    /\ \A w \in Workers : result[w] # None /\ result[w].step = "wrote" => result[w].old = findings

\* A job that will end the wait, or whose end another job's commit preceded, is
\* there as long as the image waits.
LEMMA StepScan ==
    ASSUME ~Overtakes, TypeOK, CallInv, ScanInv, [Next]_vars
    PROVE  ScanInv'
<1> USE DEF manifest, calls
<1>1. /\ jobs \in [Jobs -> JobRow] /\ WorkTyped
      /\ result \in [Workers -> {None} \cup ResultCall] /\ report \in [Workers -> {None} \cup FailCall]
      /\ \A w \in Workers : /\ result[w] # None => result[w].call.job \in Jobs
                            /\ report[w] # None => report[w].call.job \in Jobs
  BY DEF TypeOK, JobRow, WorkTyped, ResultCall, FailCall, Call
<1>2. ASSUME UNCHANGED scan, Active \subseteq Active',
             \A w \in Workers :
                /\ result'[w] # None => \/ result'[w].call.saw = scan
                                        \/ result[w] # None /\ result'[w].call = result[w].call
                /\ report'[w] # None => \/ report'[w].call.saw = scan
                                        \/ report[w] # None /\ report'[w].call = report[w].call
      PROVE  ScanInv'
  <2> HIDE DEF Active
  <2>1. \A j : scan \in {"queued", "scanning"} /\ WillWrite(j) => WillWrite(j)'
    BY <1>2 DEF WillWrite
  <2> QED
    BY <1>2, <2>1 DEF ScanInv
<1>3. ASSUME NEW j \in Jobs, j \in Active',
             \A w \in Workers : /\ result'[w] # None => result'[w].call.job # j
                                /\ report'[w] # None => report'[w].call.job # j
      PROVE  ScanInv'
  <2>1. WillWrite(j)'
    BY <1>3 DEF WillWrite
  <2> HIDE DEF Active
  <2> QED
    BY <1>3, <2>1 DEF ScanInv
<1>4. ASSUME NEW k \in Jobs, ~WillWrite(k), UNCHANGED scan, \A j \in Jobs : j # k => jobs'[j] = jobs[j],
             \A w \in Workers : result'[w] \in {result[w], None} /\ report'[w] \in {report[w], None}
      PROVE  ScanInv'
  <2>1. SUFFICES ASSUME scan \in {"queued", "scanning"} PROVE ScanInv'
    BY <1>4 DEF ScanInv
  <2>2. PICK j \in Active : WillWrite(j)
    BY <2>1 DEF ScanInv
  <2>3. j # k /\ j \in Active'
    BY <1>4, <2>2 DEF Active
  <2>4. WillWrite(j)'
    BY <1>4, <2>2 DEF WillWrite
  <2> HIDE DEF Active
  <2> QED
    BY <2>3, <2>4 DEF ScanInv
<1>5. ASSUME NEW r \in Requests, Insert(r) PROVE ScanInv'
  <2>1. PICK j \in Jobs : jobs[j].status = "none" /\ Active' = Active \cup {j}
    BY <1>5, InsertActive
  <2>2. UNCHANGED calls
    BY <1>5 DEF Insert
  <2>3. \A w \in Workers : /\ result[w] # None => result[w].call.job # j
                           /\ report[w] # None => report[w].call.job # j
    BY <2>1 DEF CallInv, RunningJob
  <2> HIDE DEF Active
  <2> QED
    BY <1>3, <2>1, <2>2, <2>3
<1>6. ASSUME NEW w \in Workers, Claim(w) PROVE ScanInv'
  <2>1. PICK j \in Claimable : jobs' = [Requeued EXCEPT ![j] = Taken(j, w)]
    BY <1>6 DEF Claim
  <2>2. j \in Jobs /\ Taken(j, w).status = "running" /\ j \in DOMAIN Requeued /\ Free(j)
    BY DEF Claimable, Active, Taken, Requeued
  <2>3. jobs'[j].status = "running"
    BY <2>1, <2>2
  <2>4. j \in Active'
    BY <2>2, <2>3 DEF Active
  <2>5. UNCHANGED calls
    BY <1>6 DEF Claim
  <2>6. \A x \in Workers : /\ result'[x] # None => result'[x].call.job # j
                           /\ report'[x] # None => report'[x].call.job # j
    BY <2>2, <2>5, FreeOfCalls
  <2> QED
    BY <1>3, <2>2, <2>4, <2>6
<1>7. ASSUME NEW w \in Workers, ClaimSkips(w) PROVE ScanInv'
  BY <1>7 DEF ClaimSkips, ScanInv
<1>8. ASSUME NEW r \in Requests, Joined(r) PROVE ScanInv'
  <2>1. CASE UNCHANGED scan
    BY <1>2, <1>8, <2>1 DEF Joined, Active
  <2>2. CASE scan' = "unscanned"
    BY <2>2 DEF ScanInv
  <2> QED
    BY <1>8, <2>1, <2>2 DEF Joined, Emit
<1>9. ASSUME NEW w \in Workers, Ingest(w) PROVE ScanInv'
  <2>1. /\ result[w] # None /\ result' = [result EXCEPT ![w] = None] /\ report' = report
        /\ jobs' = [jobs EXCEPT ![result[w].call.job] = Unheld(result[w].call.job, "done")]
        /\ EmitOwn(w, result[w].call.saw, "scanned")
    BY <1>9 DEF Ingest
  <2>2. CASE result[w].call.saw = "scanned"
    <3>1. ~WillWrite(result[w].call.job) /\ UNCHANGED scan
      BY <2>1, <2>2 DEF WillWrite, EmitOwn
    <3>2. \A j \in Jobs : j # result[w].call.job => jobs'[j] = jobs[j]
      BY <1>1, <2>1
    <3>3. \A x \in Workers : result'[x] \in {result[x], None} /\ report'[x] \in {report[x], None}
      BY <1>1, <2>1
    <3> QED
      BY <1>1, <1>4, <2>1, <3>1, <3>2, <3>3
  <2>3. CASE result[w].call.saw # "scanned"
    BY <2>1, <2>3 DEF EmitOwn, Emit, ScanInv
  <2> QED
    BY <2>2, <2>3
<1>10. ASSUME NEW w \in Workers, RejectCommits(w) \/ ReportCommits(w) PROVE ScanInv'
  <2>1. \A x \in Workers : result'[x] \in {result[x], None} /\ report'[x] \in {report[x], None}
    BY <1>1, <1>10 DEF RejectCommits, ReportCommits
  <2>2. PICK c \in Call, retry \in BOOLEAN :
           /\ FailCommits(c, retry)
           /\ \/ RejectCommits(w) /\ result[w] # None /\ result[w].call = c
              \/ ReportCommits(w) /\ report[w] # None /\ report[w].call = c
    BY <1>1, <1>10 DEF RejectCommits, ReportCommits, ResultCall, FailCall
  <2>3. PICK s \in {"queued", "failed"} : /\ jobs' = [jobs EXCEPT ![c.job] = Unheld(c.job, s)]
                                          /\ s = "failed" => Emit(c.saw, "failed")
    BY <2>2, FailedRow
  <2>4. c.job \in Jobs /\ Unheld(c.job, s).status = s
    <3>1. c.job \in Jobs
      BY DEF Call
    <3> QED
      BY <3>1, JobRows
  <2>5. CASE s = "queued"
    <3>1. c.job \in Active'
      BY <1>1, <2>3, <2>4, <2>5 DEF Active
    <3>2. \A x \in Workers : /\ result'[x] # None => result'[x].call.job # c.job
                             /\ report'[x] # None => report'[x].call.job # c.job
      <4>1. CASE RejectCommits(w) /\ result[w] # None /\ result[w].call = c
        <5>1. result' = [result EXCEPT ![w] = None] /\ report' = report
          BY <4>1 DEF RejectCommits
        <5> QED
          BY <1>1, <4>1, <5>1, OwnJob
      <4>2. CASE ReportCommits(w) /\ report[w] # None /\ report[w].call = c
        <5>1. report' = [report EXCEPT ![w] = None] /\ result' = result
          BY <4>2 DEF ReportCommits
        <5> QED
          BY <1>1, <4>2, <5>1, OwnJob
      <4> QED
        BY <2>2, <4>1, <4>2
    <3> QED
      BY <1>3, <2>4, <3>1, <3>2
  <2>6. CASE s = "failed" /\ c.saw # "failed"
    BY <2>3, <2>6 DEF Emit, ScanInv
  <2>7. CASE s = "failed" /\ c.saw = "failed"
    <3>1. ~WillWrite(c.job) /\ UNCHANGED scan
      BY <2>2, <2>3, <2>7 DEF WillWrite, Emit
    <3>2. \A j \in Jobs : j # c.job => jobs'[j] = jobs[j]
      BY <1>1, <2>3
    <3> QED
      BY <1>4, <2>1, <2>4, <3>1, <3>2
  <2> QED
    BY <2>5, <2>6, <2>7
<1>11. ASSUME NEW w \in Workers, Post(w) PROVE ScanInv'
  <2>1. UNCHANGED <<manifest, jobs, report>> /\ work[w].at = "scanning"
    BY <1>11 DEF Post
  <2>2. work[w].job \in Jobs /\ Active \subseteq Active'
    BY <1>1, <2>1 DEF WorkTyped, Active
  <2> HIDE DEF Active
  <2>3. CASE UNCHANGED result
    BY <1>2, <2>1, <2>2, <2>3
  <2>4. ASSUME NEW sbom \in BOOLEAN,
               result' = [result EXCEPT ![w] = [call |-> Loaded(work[w].job), step |-> "read", sbom |-> sbom, old |-> {}]]
        PROVE  ScanInv'
    <3> DEFINE loaded == Loaded(work[w].job)
    <3>1. loaded.saw = scan
      BY <2>2, LoadedCall
    <3> HIDE DEF loaded
    <3>2. result'[w].call = loaded /\ \A x \in Workers : x # w => result'[x] = result[x]
      BY <1>1, <2>4 DEF loaded
    <3> QED
      BY <1>2, <2>1, <2>2, <3>1, <3>2
  <2> QED
    BY <1>11, <2>3, <2>4 DEF Post
<1>12. ASSUME NEW w \in Workers, Report(w) PROVE ScanInv'
  <2>1. UNCHANGED <<manifest, jobs, result>> /\ work[w].at = "failed"
    BY <1>12 DEF Report
  <2>2. work[w].job \in Jobs /\ Active \subseteq Active'
    BY <1>1, <2>1 DEF WorkTyped, Active
  <2> HIDE DEF Active
  <2>3. CASE UNCHANGED report
    BY <1>2, <2>1, <2>2, <2>3
  <2>4. ASSUME NEW retry \in BOOLEAN, report' = [report EXCEPT ![w] = [call |-> Loaded(work[w].job), retry |-> retry]]
        PROVE  ScanInv'
    <3> DEFINE loaded == Loaded(work[w].job)
    <3>1. loaded.saw = scan
      BY <2>2, LoadedCall
    <3> HIDE DEF loaded
    <3>2. report'[w].call = loaded /\ \A x \in Workers : x # w => report'[x] = report[x]
      BY <1>1, <2>4 DEF loaded
    <3> QED
      BY <1>2, <2>1, <2>2, <3>1, <3>2
  <2> QED
    BY <1>12, <2>3, <2>4 DEF Report
<1>13. ASSUME NEW w \in Workers, Write(w) PROVE ScanInv'
  <2>1. UNCHANGED <<manifest, jobs, report>> /\ result[w] # None /\ result[w] \in ResultCall
    BY <1>1, <1>13 DEF Write
  <2>2. result' = [result EXCEPT ![w] = [result[w] EXCEPT !.step = "wrote", !.old = findings]]
    BY <1>13 DEF Write
  <2>3. \A x \in Workers : result'[x] # None => result[x] # None /\ result'[x].call = result[x].call
    BY <1>1, <2>1, <2>2 DEF ResultCall
  <2> QED
    BY <1>2, <2>1, <2>3 DEF Active
<1>14. ASSUME NEW w \in Workers, Reject(w) PROVE ScanInv'
  <2>1. UNCHANGED <<manifest, jobs, report>> /\ result[w] \in ResultCall /\ result[w] # None /\ result[w].call.job \in Jobs
        /\ RunningJob(w, result[w].call.job)
    BY <1>1, <1>14 DEF Reject, CallInv
  <2> DEFINE loaded == Loaded(result[w].call.job)
  <2>2. result' = [result EXCEPT ![w] = [result[w] EXCEPT !.step = "rejected", !.call = loaded]]
    BY <1>1, <1>14, <2>1 DEF Reject, ResultCall
  <2>3. loaded.saw = scan
    BY <2>1, LoadedCall
  <2> HIDE DEF loaded
  <2>4. result'[w].call = loaded /\ \A x \in Workers : x # w => result'[x] = result[x]
    BY <1>1, <2>1, <2>2 DEF ResultCall
  <2>5. Active \subseteq Active'
    BY <2>1 DEF Active
  <2> HIDE DEF Active
  <2> QED
    BY <1>2, <2>1, <2>3, <2>4, <2>5
<1>15. ASSUME UNCHANGED <<manifest, jobs>>,
              \A w \in Workers : result'[w] \in {result[w], None} /\ report'[w] \in {report[w], None}
       PROVE  ScanInv'
  BY <1>2, <1>15 DEF Active
<1>16. ASSUME NEW w \in Workers, ScanFails(w) \/ Accident(w) PROVE ScanInv'
  BY <1>1, <1>15, <1>16 DEF ScanFails, Accident, ResultAborts, ReportAborts, ResultTimesOut, GivesUp
<1>17. ASSUME NEW r \in Requests, Load(r) \/ Look(r) PROVE ScanInv'
  BY <1>15, <1>17 DEF Load, Look
<1>18. ASSUME NEW j \in Jobs, NEW b \in BOOLEAN, jobs' = [jobs EXCEPT ![j].leased = b], UNCHANGED <<manifest, calls>>
       PROVE  ScanInv'
  <2>1. \A k \in Jobs : jobs'[k].status = jobs[k].status
    BY <1>1, <1>18 DEF JobRow
  <2> QED
    BY <1>2, <1>18, <2>1 DEF Active
<1>19. ASSUME NEW w \in Workers, Heartbeat(w) PROVE ScanInv'
  <2>1. work[w].job \in Jobs
    BY <1>1, <1>19 DEF Heartbeat, WorkTyped
  <2> QED
    BY <1>18, <1>19, <2>1 DEF Heartbeat
<1>20. ASSUME NEW j \in Jobs, Lapse(j) PROVE ScanInv'
  BY <1>18, <1>20 DEF Lapse
<1>21. ASSUME NEW j \in Jobs, PruneJob(j) PROVE ScanInv'
  <2>1. Active \subseteq Active'
    BY <1>1, <1>21 DEF PruneJob, Active
  <2> HIDE DEF Active
  <2> QED
    BY <1>2, <1>21, <2>1 DEF PruneJob
<1>22. CASE UNCHANGED vars
  BY <1>15, <1>22 DEF vars
<1> QED
  BY <1>5, <1>6, <1>7, <1>8, <1>9, <1>10, <1>11, <1>12, <1>13, <1>14, <1>16, <1>17, <1>19, <1>20, <1>21, <1>22
     DEF Next, Enqueue, WorkOne, Serve

\* A second report cannot replace the rows between a report's two halves.
LEMMA StepFind ==
    ASSUME ~Overtakes, TypeOK, CallInv, OneInv, FindInv, [Next]_vars
    PROVE  FindInv'
<1> USE DEF manifest, calls
<1>1. result \in [Workers -> {None} \cup ResultCall]
  BY DEF TypeOK, ResultCall
<1>2. ASSUME UNCHANGED <<latest, findings>>,
             \A w \in Workers : result'[w] \in {result[w], None} \/ result'[w].step # "wrote"
      PROVE  FindInv'
  BY <1>2 DEF FindInv, LatestFindingsOnly
<1>3. ASSUME NEW w \in Workers, Ingest(w) PROVE FindInv'
  <2>1. result[w] \in ResultCall /\ result' = [result EXCEPT ![w] = None] /\ result[w] # None
    BY <1>1, <1>3 DEF Ingest
  <2>2. \A x \in Workers : result'[x] = None
    BY <1>1, <2>1, CallAlone
  <2> DEFINE id == ScanId(result[w].call)
  <2>3. id # None
    BY <2>1, ScanAssumption DEF ResultCall, Call, ScanId
  <2>4. findings' = (findings \ result[w].old) \cup {id} /\ latest' = id /\ result[w].old = findings
    BY <1>3 DEF Ingest, FindInv
  <2> HIDE DEF id
  <2> QED
    BY <2>2, <2>3, <2>4 DEF FindInv, LatestFindingsOnly
<1>4. ASSUME NEW w \in Workers, Write(w) PROVE FindInv'
  <2>1. UNCHANGED <<latest, findings>> /\ result[w] \in ResultCall
    BY <1>1, <1>4 DEF Write
  <2>2. result' = [result EXCEPT ![w] = [result[w] EXCEPT !.step = "wrote", !.old = findings]]
    BY <1>4 DEF Write
  <2>3. result'[w].old = findings /\ \A x \in Workers : x # w => result'[x] = result[x]
    BY <1>1, <2>1, <2>2 DEF ResultCall
  <2> QED
    BY <2>1, <2>3 DEF FindInv, LatestFindingsOnly
<1>5. ASSUME NEW w \in Workers, Post(w) PROVE FindInv'
  <2>1. CASE UNCHANGED result
    BY <1>2, <1>5, <2>1 DEF Post
  <2>2. ASSUME NEW sbom \in BOOLEAN,
               result' = [result EXCEPT ![w] = [call |-> Loaded(work[w].job), step |-> "read", sbom |-> sbom, old |-> {}]]
        PROVE  FindInv'
    BY <1>1, <1>2, <1>5, <2>2 DEF Post
  <2> QED
    BY <1>5, <2>1, <2>2 DEF Post
<1>6. ASSUME NEW w \in Workers, Reject(w) PROVE FindInv'
  <2>1. UNCHANGED <<latest, findings>> /\ result[w] \in ResultCall /\ result[w] # None /\ RunningJob(w, result[w].call.job)
    BY <1>1, <1>6 DEF Reject, CallInv
  <2> DEFINE loaded == Loaded(result[w].call.job)
  <2>2. result' = [result EXCEPT ![w] = [result[w] EXCEPT !.step = "rejected", !.call = loaded]]
    BY <1>1, <1>6, <2>1 DEF Reject, ResultCall
  <2> HIDE DEF loaded
  <2>3. result'[w].step = "rejected" /\ \A x \in Workers : x # w => result'[x] = result[x]
    BY <1>1, <2>1, <2>2 DEF ResultCall
  <2> QED
    BY <1>2, <2>1, <2>3
<1>7. ASSUME NEW r \in Requests, Load(r) \/ Enqueue(r) PROVE FindInv'
  BY <1>2, <1>7 DEF Load, Enqueue, Look, Joined, Insert
<1>8. ASSUME NEW w \in Workers, Claim(w) \/ ClaimSkips(w) \/ ScanFails(w) \/ Report(w) \/ Heartbeat(w) PROVE FindInv'
  BY <1>2, <1>8 DEF Claim, ClaimSkips, ScanFails, Report, Heartbeat
<1>9. ASSUME NEW w \in Workers, RejectCommits(w) \/ ReportCommits(w) \/ Accident(w) PROVE FindInv'
  BY <1>1, <1>2, <1>9 DEF RejectCommits, ReportCommits, Accident, ResultAborts, ReportAborts, ResultTimesOut, GivesUp
<1>10. ASSUME NEW j \in Jobs, Lapse(j) \/ PruneJob(j) PROVE FindInv'
  BY <1>2, <1>10 DEF Lapse, PruneJob
<1>11. CASE UNCHANGED vars
  BY <1>2, <1>11 DEF vars
<1> QED
  BY <1>3, <1>4, <1>5, <1>6, <1>7, <1>8, <1>9, <1>10, <1>11 DEF Next, WorkOne, Serve

-----------------------------------------------------------------------------
(* The theorems.                                                           *)

\* Rows, calls, workers and requests are always of their kinds.
THEOREM Typed == Spec => []TypeOK
<1>1. Init => TypeOK
  BY InitTyped
<1>2. TypeOK /\ [Next]_vars => TypeOK'
  BY StepTyped
<1> QED
  BY <1>1, <1>2, PTL DEF Spec

\* Nothing is asked for, claimed or reported yet.
LEMMA InitAll == Init => TypeOK /\ CallInv /\ OneInv /\ ScanInv /\ FindInv
<1> SUFFICES ASSUME Init PROVE TypeOK /\ CallInv /\ OneInv /\ ScanInv /\ FindInv
  OBVIOUS
<1>1. TypeOK
  BY InitTyped
<1>2. CallInv /\ ScanInv /\ FindInv
  BY DEF Init, CallInv, ScanInv, FindInv, LatestFindingsOnly
<1>3. Active = {} /\ OneInv
  BY DEF Init, OneInv, Active, NoJob
<1> QED
  BY <1>1, <1>2, <1>3

\* What the two theorems about one request at a time rest on.
LEMMA AlwaysOne ==
    ASSUME ~Overtakes, \A r, s \in Requests : r = s
    PROVE  Spec => [](TypeOK /\ CallInv /\ OneInv)
<1> DEFINE Inv == TypeOK /\ CallInv /\ OneInv
<1>1. Init => Inv
  BY InitAll
<1>2. Inv /\ [Next]_vars => Inv'
  BY StepTyped, StepCalls, StepOne
<1> QED
  BY <1>1, <1>2, PTL DEF Spec

\* enqueue's promise, "Queue a scan unless one is already waiting or running":
\* as long as requests queue one at a time and calls are shorter than leases,
\* an image has one active job at most.
THEOREM OneAtATime ==
    ASSUME ~Overtakes, \A r, s \in Requests : r = s
    PROVE  Spec => []OneActiveJob
<1>1. OneInv => OneActiveJob
  <2> SUFFICES ASSUME OneInv PROVE OneActiveJob
    OBVIOUS
  <2>1. CASE Active = {}
    BY <2>1, FS_EmptySet DEF OneActiveJob
  <2>2. CASE Active # {}
    <3>1. PICK j \in Active : TRUE
      BY <2>2
    <3>2. Active = {j}
      BY <3>1 DEF OneInv
    <3> QED
      BY <3>2, FS_Singleton DEF OneActiveJob
  <2> QED
    BY <2>1, <2>2
<1> QED
  BY <1>1, AlwaysOne, PTL

\* An image that waits or is being scanned has a job that will end the wait,
\* through every claim, report, rejection, failed attempt, abort and lost reply
\* and however many requests queue at once.
THEOREM NotStranded ==
    ASSUME ~Overtakes
    PROVE  Spec => []NeverStranded
<1> DEFINE Inv == TypeOK /\ CallInv /\ ScanInv
<1>1. Init => Inv
  BY InitAll
<1>2. Inv /\ [Next]_vars => Inv'
  BY StepTyped, StepCalls, StepScan
<1>3. Inv => NeverStranded
  <2> HIDE DEF Active
  <2> QED
    BY DEF ScanInv, NeverStranded
<1> QED
  BY <1>1, <1>2, <1>3, PTL DEF Spec

\* The finding rows are always exactly those of the scan the manifest names.
THEOREM LatestOnly ==
    ASSUME ~Overtakes, \A r, s \in Requests : r = s
    PROVE  Spec => []LatestFindingsOnly
<1> DEFINE One == TypeOK /\ CallInv /\ OneInv
<1>1. Init => FindInv
  BY InitAll
<1>2. One /\ FindInv /\ [Next]_vars => FindInv'
  BY StepFind
<1>3. FindInv => LatestFindingsOnly
  BY DEF FindInv
<1>4. Spec => []One
  BY AlwaysOne
<1> HIDE DEF One
<1> QED
  BY <1>1, <1>2, <1>3, <1>4, PTL DEF Spec

=============================================================================
