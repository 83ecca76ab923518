----------------------------- MODULE JudgeAgent -----------------------------
(***************************************************************************)
(* The agent process: the loop of main that claims jobs for its free       *)
(* slots, judge_one in a thread per job with its keepalive thread, and the *)
(* reports (app/main.py, app/backend_client.py).  The backend that leases  *)
(* jobs, takes renewals and records results is modelled from how the agent *)
(* uses it; the network between them loses requests and replies.           *)
(***************************************************************************)
EXTENDS Integers, FiniteSets

CONSTANTS Jobs,
          Collecting,   \* jobs whose result carries every testcase
          EditorTasks,  \* jobs of the Editor protocol
          TotalSlots,
          RunOnce,      \* JUDGE_RUN_ONCE
          MaxFaults,    \* bound: faults of the network
          MaxCrashes    \* bound: crashes of the process

ASSUME JudgeAgentAssumption ==
  /\ IsFiniteSet(Jobs)
  /\ Collecting \subseteq Jobs
  /\ EditorTasks \subseteq Jobs \ Collecting
  /\ TotalSlots \in Nat \ {0}
  /\ RunOnce \in BOOLEAN
  /\ MaxFaults \in Nat
  /\ MaxCrashes \in Nat

VARIABLES
  \* the backend
  state,     \* job -> "queued", "leased" or "done"
  lease,     \* job -> number of its latest lease
  record,    \* job -> the result recorded for it
  \* the agent
  main,      \* the main thread: "down", "loop", "claiming", "draining" or "exited"
  asked,     \* free slots it asked jobs for
  running,   \* its workers: the futures it has not collected yet
  renewing,  \* <<job, lease>> of the keepalive threads at work
  \* what happened, for bounds and properties
  unrenewed, \* jobs with a lease that was not renewed although their worker was alive
  faults, crashes

backend_vars == <<state, lease, record>>
main_vars    == <<main, asked, crashes>>
vars == <<backend_vars, main_vars, running, renewing, unrenewed, faults>>

-----------------------------------------------------------------------------
\* judge_one for a job under a lease.  `told`: its event stop_keepalive is set;
\* `full`: the result carries testcase_results; `tries`: reports of its result that
\* raised RuntimeError; `lost`: those that did so for a fault of the network;
\* `judged`: the executor returned; `odd`: a report raised something else.
Workers ==
  [ job : Jobs, lease : Nat, pc : {"judging", "reporting", "failing", "ended"},
    told : BOOLEAN, full : BOOLEAN, tries : 0..3, lost : 0..3,
    judged : BOOLEAN, odd : BOOLEAN ]

NewWorker(j) ==
  [ job |-> j, lease |-> lease[j] + 1, pc |-> "judging", told |-> FALSE, full |-> FALSE,
    tries |-> 0, lost |-> 0, judged |-> FALSE, odd |-> FALSE ]

\* What is recorded for a job, and how the worker came to report it.
Record(what, w) ==
  [what |-> what, judged |-> w.judged, full |-> w.full, lost |-> w.lost, odd |-> w.odd]

Unreported(what) ==
  [what |-> what, judged |-> FALSE, full |-> FALSE, lost |-> 0, odd |-> FALSE]

\* Mutant: one attempt whatever the result.
AttemptsOne(w) == 1

\* Attempts at reporting a result.
Attempts(w) == IF w.job \in EditorTasks \/ w.full THEN 3 ELSE 1

Init ==
  /\ state = [j \in Jobs |-> "queued"]
  /\ lease = [j \in Jobs |-> 0]
  /\ record = [j \in Jobs |-> Unreported("none")]
  /\ main = "down"
  /\ asked = 0
  /\ running = {}
  /\ renewing = {}
  /\ unrenewed = {}
  /\ faults = 0
  /\ crashes = 0

Fault == faults < MaxFaults /\ faults' = faults + 1

Becomes(w, next) == running' = (running \ {w}) \cup {next}

\* The worker w goes on as `next`, its keepalive thread too.
Goes(w, next) == Becomes(w, next) /\ UNCHANGED renewing

\* Mutant: the keepalive thread is not stopped.
EndsRenewing(w, next) ==
  /\ Becomes(w, [next EXCEPT !.pc = "ended"])
  /\ UNCHANGED renewing

\* The finally clause: the keepalive thread is stopped.
Ends(w, next) ==
  /\ Becomes(w, [next EXCEPT !.pc = "ended"])
  /\ renewing' = renewing \ {<<w.job, w.lease>>}

-----------------------------------------------------------------------------
\* The main thread

\* main up to the registration, which is retried until it succeeds.
Register ==
  /\ main = "down"
  /\ main' = "loop"
  /\ UNCHANGED <<backend_vars, asked, running, renewing, unrenewed, faults, crashes>>

\* Mutant: the free slots are counted as if every worker had ended.
CollectAndAskAll ==
  /\ main = "loop"
  /\ running' = {w \in running : w.pc # "ended"}
  /\ asked' = TotalSlots
  /\ main' = "claiming"
  /\ UNCHANGED <<backend_vars, renewing, unrenewed, faults, crashes>>

\* The top of the loop: futures that are done are dropped, then the free slots
\* are counted.
CollectAndAsk ==
  /\ main = "loop"
  /\ running' = {w \in running : w.pc # "ended"}
  /\ Cardinality(running') < TotalSlots
  /\ asked' = TotalSlots - Cardinality(running')
  /\ main' = "claiming"
  /\ UNCHANGED <<backend_vars, renewing, unrenewed, faults, crashes>>

\* The backend leases up to `asked` jobs, at least one if it has any.
Leases(given) ==
  /\ Cardinality(given) <= asked
  /\ given = {} => \A j \in Jobs : state[j] # "queued"
  /\ state' = [j \in Jobs |-> IF j \in given THEN "leased" ELSE state[j]]
  /\ lease' = [j \in Jobs |-> IF j \in given THEN lease[j] + 1 ELSE lease[j]]
  /\ record' = record

Queued == {j \in Jobs : state[j] = "queued"}

StartWorkers(given) ==
  /\ running' = running \cup {NewWorker(j) : j \in given}
  /\ renewing' = renewing \cup {<<j, lease[j] + 1>> : j \in given}

\* Mutant: run_once returns as soon as there is nothing to claim.
ClaimExits ==
  /\ main = "claiming"
  /\ \E given \in SUBSET Queued :
       /\ Leases(given)
       /\ StartWorkers(given)
       /\ main' = IF RunOnce /\ given = {} THEN "exited" ELSE "loop"
  /\ UNCHANGED <<asked, unrenewed, faults, crashes>>

\* The reply of a claim: a worker starts for every job of it.
Claim ==
  /\ main = "claiming"
  /\ \E given \in SUBSET Queued :
       /\ Leases(given)
       /\ StartWorkers(given)
       /\ main' = IF RunOnce /\ running' = {} THEN "exited" ELSE "loop"
  /\ UNCHANGED <<asked, unrenewed, faults, crashes>>

\* RuntimeError: the request or its reply is lost; the agent does not learn of
\* the jobs it may have been given.
ClaimLost ==
  /\ main = "claiming"
  /\ Fault
  /\ \/ UNCHANGED backend_vars
     \/ \E given \in SUBSET Queued \ {{}} : Leases(given)
  /\ main' = "loop"
  /\ UNCHANGED <<asked, running, renewing, unrenewed, crashes>>

\* Any other exception (a connection closed without a reply, a reply that is not
\* JSON) leaves the loop, and the pool waits for its workers.
ClaimBreaks ==
  /\ main = "claiming"
  /\ Fault
  /\ \/ UNCHANGED backend_vars
     \/ \E given \in SUBSET Queued \ {{}} : Leases(given)
  /\ main' = "draining"
  /\ UNCHANGED <<asked, running, renewing, unrenewed, crashes>>

\* The same exceptions of a heartbeat, which comes before the futures are looked at
\* and also while no slot is free.
HeartbeatBreaks ==
  /\ main = "loop"
  /\ Fault
  /\ main' = "draining"
  /\ UNCHANGED <<backend_vars, asked, running, renewing, unrenewed, crashes>>

Drained ==
  /\ main = "draining"
  /\ \A w \in running : w.pc = "ended"
  /\ main' = "down"
  /\ running' = {}
  /\ renewing' = {}
  /\ UNCHANGED <<backend_vars, asked, unrenewed, faults, crashes>>

Crash ==
  /\ main \in {"loop", "claiming", "draining"}
  /\ crashes < MaxCrashes
  /\ crashes' = crashes + 1
  /\ main' = "down"
  /\ running' = {}
  /\ renewing' = {}
  /\ UNCHANGED <<backend_vars, asked, unrenewed, faults>>

-----------------------------------------------------------------------------
\* The keepalive thread of a worker, and leases that run out

Current(w) == state[w.job] = "leased" /\ lease[w.job] = w.lease

Renews(w) == <<w.job, w.lease>> \in renewing

\* Mutant: the refusal is only logged.
RenewalLogged(w) ==
  /\ Renews(w) /\ ~Current(w)
  /\ w.job \in EditorTasks
  /\ UNCHANGED vars

\* The backend refuses to renew (403, 404, 409): an Editor task is told to stop,
\* any other job goes on.
RenewalRefused(w) ==
  /\ Renews(w) /\ ~Current(w)
  /\ w.job \in EditorTasks
  /\ Becomes(w, [w EXCEPT !.told = TRUE])
  /\ renewing' = renewing \ {<<w.job, w.lease>>}
  /\ UNCHANGED <<backend_vars, main_vars, unrenewed, faults>>

\* An exception other than RuntimeError ends the thread.
KeepaliveDies(w) ==
  /\ Renews(w)
  /\ Fault
  /\ renewing' = renewing \ {<<w.job, w.lease>>}
  /\ unrenewed' = unrenewed \cup {w.job}
  /\ UNCHANGED <<backend_vars, main_vars, running>>

\* A keepalive thread renews the lease of j.
Kept(j) == <<j, lease[j]>> \in renewing

\* The backend takes a lease back when it was not renewed in time.
Expire(j) ==
  /\ state[j] = "leased"
  /\ ~Kept(j)
  /\ state' = [state EXCEPT ![j] = "queued"]
  /\ UNCHANGED <<lease, record, main_vars, running, renewing, unrenewed, faults>>

\* The same in an outage, during which renewals raise RuntimeError.
ExpireInOutage(j) ==
  /\ state[j] = "leased"
  /\ Kept(j)
  /\ Fault
  /\ unrenewed' = unrenewed \cup {j}
  /\ state' = [state EXCEPT ![j] = "queued"]
  /\ UNCHANGED <<lease, record, main_vars, running, renewing>>

\* The user takes an Editor task back.
Cancel(j) ==
  /\ j \in EditorTasks
  /\ state[j] # "done"
  /\ state' = [state EXCEPT ![j] = "done"]
  /\ record' = [record EXCEPT ![j] = Unreported("cancelled")]
  /\ UNCHANGED <<lease, main_vars, running, renewing, unrenewed, faults>>

-----------------------------------------------------------------------------
\* judge_one

\* Mutant: the keepalive thread is stopped when the executor returns.
JudgeReturnsLease(w) ==
  /\ w.pc = "judging"
  /\ \E full \in BOOLEAN :
       /\ full => w.job \in Collecting
       /\ Becomes(w, [w EXCEPT !.pc = "reporting", !.judged = TRUE, !.full = full])
  /\ renewing' = renewing \ {<<w.job, w.lease>>}
  /\ UNCHANGED <<backend_vars, main_vars, unrenewed, faults>>

\* executor.judge or editor_executor.execute returns; the latter raises when it is
\* told to stop.  A collecting job that did not compile has no testcase_results.
JudgeReturns(w) ==
  /\ w.pc = "judging"
  /\ w.told = FALSE
  /\ \E full \in BOOLEAN :
       /\ full => w.job \in Collecting
       /\ Goes(w, [w EXCEPT !.pc = "reporting", !.judged = TRUE, !.full = full])
  /\ UNCHANGED <<backend_vars, main_vars, unrenewed, faults>>

\* It raises, for reasons of its own or because it is told to stop.
JudgeRaises(w) ==
  /\ w.pc = "judging"
  /\ Goes(w, [w EXCEPT !.pc = "failing"])
  /\ UNCHANGED <<backend_vars, main_vars, unrenewed, faults>>

\* The backend records the first result it gets under the current lease.
Receives(w, what) ==
  IF Current(w)
  THEN /\ state' = [state EXCEPT ![w.job] = "done"]
       /\ record' = [record EXCEPT ![w.job] = Record(what, w)]
       /\ lease' = lease
  ELSE UNCHANGED backend_vars

\* The backend may accept a result again that it has recorded before.
AcceptedBefore(w) == state[w.job] = "done" /\ lease[w.job] = w.lease

Report(w) ==
  /\ w.pc = "reporting"
  /\ Current(w) \/ AcceptedBefore(w)
  /\ Receives(w, "verdict")
  /\ Ends(w, w)
  /\ UNCHANGED <<main_vars, unrenewed, faults>>

\* After a RuntimeError: another attempt, or the outer except clause.
Retried(w) ==
  [w EXCEPT !.tries = @ + 1, !.pc = IF w.tries + 1 < Attempts(w) THEN "reporting" ELSE "failing"]

\* RuntimeError: the backend does not know the lease any more.
ReportRefused(w) ==
  /\ w.pc = "reporting"
  /\ ~Current(w)
  /\ Goes(w, Retried(w))
  /\ UNCHANGED <<backend_vars, main_vars, unrenewed, faults>>

\* RuntimeError: the request or the reply is lost.
ReportLost(w) ==
  /\ w.pc = "reporting"
  /\ Fault
  /\ Receives(w, "verdict") \/ UNCHANGED backend_vars
  /\ Goes(w, [Retried(w) EXCEPT !.lost = @ + 1])
  /\ UNCHANGED <<main_vars, unrenewed>>

\* Any other exception: no further attempt.
ReportBreaks(w) ==
  /\ w.pc = "reporting"
  /\ Fault
  /\ Receives(w, "verdict") \/ UNCHANGED backend_vars
  /\ Goes(w, [w EXCEPT !.pc = "failing", !.odd = TRUE])
  /\ UNCHANGED <<main_vars, unrenewed>>

\* The except clause reports an error of the system, once; then the finally.
Fail(w) ==
  /\ w.pc = "failing"
  /\ Receives(w, "system_error")
  /\ Ends(w, w)
  /\ UNCHANGED <<main_vars, unrenewed, faults>>

FailLost(w) ==
  /\ w.pc = "failing"
  /\ Fault
  /\ Receives(w, "system_error") \/ UNCHANGED backend_vars
  /\ Ends(w, w)
  /\ UNCHANGED <<main_vars, unrenewed>>

-----------------------------------------------------------------------------
MainStep == Register \/ CollectAndAsk \/ Claim \/ Drained

Judge(w) ==
  \/ JudgeReturns(w) \/ JudgeRaises(w) \/ Report(w) \/ ReportRefused(w) \/ Fail(w)

\* Every job is settled and no thread is at work, or the process has exited.
Settled ==
  /\ \/ \A j \in Jobs : state[j] = "done"
     \/ main = "exited"
  /\ UNCHANGED vars

Next ==
  \/ MainStep \/ ClaimLost \/ ClaimBreaks \/ HeartbeatBreaks \/ Crash
  \/ \E w \in running :
       \/ Judge(w) \/ ReportLost(w) \/ ReportBreaks(w) \/ FailLost(w)
       \/ RenewalRefused(w) \/ KeepaliveDies(w)
  \/ \E j \in Jobs : Expire(j) \/ ExpireInOutage(j) \/ Cancel(j)
  \/ Settled

Spec == Init /\ [][Next]_vars

\* The threads of the agent are scheduled, docker restarts a process that ends
\* (restart: unless-stopped), and the backend ends leases that are not renewed.
\* Nothing is assumed of an executor that is not told to stop.
FairSpec ==
  /\ Spec
  /\ WF_vars(MainStep)
  /\ \A j \in Jobs :
       /\ WF_vars(Expire(j))
       /\ WF_vars(\E w \in running : w.job = j /\ (Report(w) \/ ReportRefused(w) \/ Fail(w)))
       /\ WF_vars(\E w \in running : w.job = j /\ RenewalRefused(w))
       /\ WF_vars(\E w \in running : w.job = j /\ w.told /\ JudgeRaises(w))

\* The executors have deadlines for whatever they run.
ExecutorsEnd ==
  \A j \in Jobs : WF_vars(\E w \in running : w.job = j /\ (JudgeReturns(w) \/ JudgeRaises(w)))

-----------------------------------------------------------------------------
TypeOK ==
  /\ state \in [Jobs -> {"queued", "leased", "done"}]
  /\ lease \in [Jobs -> Nat]
  /\ record \in [Jobs -> [what : {"none", "verdict", "system_error", "cancelled"},
                          judged : BOOLEAN, full : BOOLEAN, lost : 0..3, odd : BOOLEAN]]
  /\ main \in {"down", "loop", "claiming", "draining", "exited"}
  /\ asked \in 0..TotalSlots
  /\ running \subseteq Workers
  /\ renewing \subseteq Jobs \X Nat
  /\ unrenewed \subseteq Jobs
  /\ faults \in 0..MaxFaults
  /\ crashes \in 0..MaxCrashes

AtWork == {w \in running : w.pc # "ended"}

\* The agent never has more jobs than slots: a job it was given starts at once
\* and does not wait, leased, behind others (free_slots in main).
SlotsRespected == Cardinality(AtWork) <= TotalSlots

\* Two workers judge the same job, in the same job directory, only if its lease
\* ran out although its worker was alive: the keepalive thread covers judge_one
\* to its last report.
JudgedOnceAtATime ==
  \A v, w \in AtWork : v.job = w.job /\ v # w => w.job \in unrenewed

\* A job that was judged is recorded as system_error only after all attempts at
\* reporting its result were lost, or one broke off without RuntimeError.  A
\* result that was recorded before its reply got lost stays.
VerdictSurvives ==
  \A j \in Jobs : record[j].what = "system_error" /\ record[j].judged =>
    \/ record[j].odd
    \/ record[j].lost >= IF j \in EditorTasks \/ record[j].full THEN 3 ELSE 1

\* What a worker has done fits the place it has reached.
Consistent(w) ==
  /\ w.full \/ w.tries > 0 \/ w.odd => w.judged
  /\ w.pc = "judging" => ~w.judged
  /\ w.pc = "reporting" => w.judged /\ w.tries < Attempts(w) /\ ~w.odd
  /\ w.pc = "failing" /\ w.judged => w.odd \/ w.tries = Attempts(w)
  /\ w.lost <= w.tries /\ w.tries <= Attempts(w)

\* A lease has one worker, and no worker a later lease than the backend gave.
LeaseInv ==
  \A w \in running :
    /\ w.lease <= lease[w.job]
    /\ \A v \in running : v.job = w.job /\ v.lease = w.lease => v = w

\* Under the current lease, reports fail for faults of the network only.
LostInv == \A w \in running : Current(w) => w.lost = w.tries

\* A worker has the current lease of its job, renewed until the job is done,
\* unless renewals failed.
CoverInv ==
  \A w \in AtWork : w.job \notin unrenewed =>
    /\ lease[w.job] = w.lease
    /\ state[w.job] = "done" \/ (state[w.job] = "leased" /\ Renews(w))

SlotsInv ==
  /\ IsFiniteSet(running)
  /\ Cardinality(running) <= TotalSlots
  /\ main = "claiming" => Cardinality(running) + asked <= TotalSlots

IndInv ==
  /\ TypeOK
  /\ \A w \in running : Consistent(w)
  /\ LeaseInv
  /\ LostInv
  /\ CoverInv
  /\ SlotsInv
  /\ VerdictSurvives

\* A process run with JUDGE_RUN_ONCE exits when no job is left to it: without
\* faults every job has a result then, and no thread renews a lease.
ExitsWhenDone ==
  main = "exited" =>
    /\ AtWork = {} /\ renewing = {}
    /\ faults = 0 /\ crashes = 0 => \A j \in Jobs : state[j] = "done"

\* Every job gets a result if executors end, whichever requests are lost and
\* wherever the process crashes, as long as faults and crashes are finitely many:
\* a lease that nobody works for is never renewed for ever.
EveryJobSettled == ExecutorsEnd => <>(\A j \in Jobs : state[j] = "done")

\* An Editor task that was cancelled is not executed for ever, however long its
\* program runs: the refused renewal reaches the executor.
CancelledTasksStop ==
  \A j \in EditorTasks :
    record[j].what = "cancelled" ~> (j \in unrenewed \/ \A w \in running : w.job = j => w.pc # "judging")
=============================================================================
