---------------------------- MODULE CaseJudging ----------------------------
(***************************************************************************)
(* JudgeExecutor.judge and _run_testcases (app/executor.py): the judging   *)
(* of one job, from its working directory to its verdict.                  *)
(*                                                                         *)
(* The calling thread prepares the program, then hands batches of Workers  *)
(* cases to a thread pool, collects them as they finish, and settles each  *)
(* batch in display order; a time limit exceeded in a batch is run again,  *)
(* alone, before it counts.  With one worker there is no pool: the cases run in   *)
(* the calling thread in the order of the list and nothing is run again.   *)
(*                                                                         *)
(* What one run of a case returns (status, runtime, output) is any value   *)
(* _run_single_testcase can produce; module IsolateRun opens it up.        *)
(***************************************************************************)
EXTENDS JudgeJobs, FiniteSets, Sequences

CONSTANTS Runtimes,         \* measured runtimes of a run, in ms
          OutputSizes,      \* sizes of a run's standard output
          CaseCapture,      \* MAX_CASE_OUTPUT_BYTES
          RunBudget,        \* MAX_RUN_OUTPUT_BYTES
          ReferenceBudget   \* MAX_REFERENCE_OUTPUT_BYTES

ASSUME CaseJudgingAssumption ==
  /\ Runtimes \subseteq Nat
  /\ OutputSizes \subseteq Nat
  /\ CaseCapture \in Nat
  /\ RunBudget \in Nat
  /\ ReferenceBudget \in Nat

VARIABLES
  job,           \* the job
  pc,            \* where the calling thread is
  dir,           \* job_dir: "absent", "stale" (left by an earlier job) or "present"
  offset,        \* cases before the current batch
  run,           \* case -> state of its latest run
  runs,          \* case -> how often it was started
  result,        \* case -> what its latest finished run returned
  slot,          \* case -> testcase["_editor_output"], with the run it came from
  completed,     \* completed_count
  settled,       \* cases the loop over the sorted results is done with
  maxRuntime,    \* max_runtime_ms
  firstFailure,  \* case of first_failure, 0 for None
  budget,        \* output_budget
  observations,  \* the list observe() appends to
  progress,      \* the last progress reported to the backend, -1 before any
  verdict        \* what judge() returns or raises

case_vars == <<run, runs, result, slot>>
loop_vars == <<completed, settled, maxRuntime, firstFailure, budget, observations>>
vars == <<job, pc, dir, offset, case_vars, loop_vars, progress, verdict>>

-----------------------------------------------------------------------------
None == -1            \* the None of an unknown runtime: below every runtime

NoResult == [status |-> "none", runtime |-> None]

Result == [status : CaseStatuses, runtime : Runtimes \cup {None}]

NoOutput == [run |-> 0, kept |-> 0, size |-> 0]

NoVerdict == [status |-> "none", case |-> 0, runtime |-> None]

Verdict(status, case, runtime) ==
  [status |-> status, case |-> case, runtime |-> runtime]

\* Mutant: a return in the finally clause swallows the exception.
SwallowedException == NoVerdict

Raised == Verdict("raised", 0, None)

MaxMetric(m, n) == IF m >= n THEN m ELSE n

Least(m, n) == IF m <= n THEN m ELSE n

Parallel == Workers(job) > 1

CurrentBatch == Batch(job, offset)

Running == {i \in Cases : run[i] = "running"}

InitialBudget(j) == IF ReferenceOutput(j) THEN ReferenceBudget ELSE RunBudget

\* What the capture limit of the run lets through of `size` bytes of output.
Captured(size) == Least(size, IF ReferenceOutput(job) THEN ReferenceBudget ELSE CaseCapture)

-----------------------------------------------------------------------------
Init ==
  /\ job \in Jobs
  /\ pc = "start"
  /\ dir \in {"absent", "stale"}
  /\ offset = 0
  /\ run = [i \in Cases |-> "idle"]
  /\ runs = [i \in Cases |-> 0]
  /\ result = [i \in Cases |-> NoResult]
  /\ slot = [i \in Cases |-> NoOutput]
  /\ completed = 0
  /\ settled = {}
  /\ maxRuntime = None
  /\ firstFailure = 0
  /\ budget = InitialBudget(job)
  /\ observations = <<>>
  /\ progress = None
  /\ verdict = NoVerdict

\* The calling thread leaves the block that uses job_dir, with a result or an
\* exception; the pool's __exit__ first waits for every case still running.
Leave(v) ==
  /\ verdict' = v
  /\ pc' = "unwinding"

\* A progress callback that raises: main.py only catches RuntimeError.
CallbackRaises ==
  /\ Leave(Raised)
  /\ UNCHANGED <<job, dir, offset, case_vars, loop_vars, progress>>

-----------------------------------------------------------------------------
\* Removing an old job_dir and making a new one happen before the try.
OpenJobDir ==
  /\ pc = "start"
  /\ \/ /\ dir' = "present"
        /\ pc' = "prepare"
        /\ UNCHANGED verdict
     \/ /\ dir' \in {"absent", dir}     \* rmtree or mkdir raised
        /\ pc' = "done"
        /\ verdict' = Raised
  /\ UNCHANGED <<job, offset, case_vars, loop_vars, progress>>

PrepareCommand ==
  /\ pc = "prepare"
  /\ \/ /\ progress' = IF job.total > 0 THEN 0 ELSE progress
        /\ \/ /\ pc' = IF job.total > 0 THEN "checker" ELSE "final"
              /\ UNCHANGED verdict
           \/ \E s \in EarlyStatuses : Leave(Verdict(s, 0, None))
           \/ Leave(Raised)
        /\ UNCHANGED <<job, dir, offset, case_vars, loop_vars>>
     \/ CallbackRaises

\* A job without testcases is one run of the program on empty input.
RunFinal ==
  /\ pc = "final"
  /\ \/ \E s \in CaseStatuses \ {"system_error"}, t \in Runtimes \cup {None} :
          Leave(Verdict(s, 0, t))
     \/ Leave(Raised)
  /\ UNCHANGED <<job, dir, offset, case_vars, loop_vars, progress>>

PrepareChecker ==
  /\ pc = "checker"
  /\ \/ /\ pc' = "dispatch"
        /\ progress' = 0
        /\ UNCHANGED verdict
     \/ /\ ~ReferenceOutput(job)
        /\ Leave(Verdict("system_error", 0, None))
        /\ UNCHANGED progress
     \/ /\ Leave(Raised)
        /\ UNCHANGED progress
  /\ UNCHANGED <<job, dir, offset, case_vars, loop_vars>>

-----------------------------------------------------------------------------
(* The batches.                                                             *)

StartBatch ==
  /\ pc = "dispatch"
  /\ offset < job.total
  /\ run' = [i \in Cases |-> IF i \in CurrentBatch THEN "running" ELSE run[i]]
  /\ runs' = [i \in Cases |-> IF i \in CurrentBatch THEN runs[i] + 1 ELSE runs[i]]
  /\ pc' = "collecting"
  /\ UNCHANGED <<job, dir, offset, result, slot, loop_vars, progress, verdict>>

\* Everything after the last batch of a job that did not stop early.
Finish ==
  /\ pc = "dispatch"
  /\ offset >= job.total
  /\ IF firstFailure = 0
     THEN Leave(Verdict("accepted", 0, maxRuntime))
     ELSE Leave(Verdict(result[firstFailure].status, firstFailure, maxRuntime))
  /\ UNCHANGED <<job, dir, offset, case_vars, loop_vars, progress>>

\* Mutant: the output is stored with setdefault.
CompletesRunOnce(i, status, runtime, size) ==
  /\ result' = [result EXCEPT ![i] = [status |-> status, runtime |-> runtime]]
  /\ slot' = IF CollectAll(job) /\ slot[i] = NoOutput
             THEN [slot EXCEPT ![i] =
                     [run |-> runs[i], kept |-> Captured(size), size |-> size]]
             ELSE slot

\* A run that got to the program: whatever it returns, its output is stored.
CompletesRun(i, status, runtime, size) ==
  /\ result' = [result EXCEPT ![i] = [status |-> status, runtime |-> runtime]]
  /\ slot' = IF CollectAll(job)
             THEN [slot EXCEPT ![i] =
                     [run |-> runs[i], kept |-> Captured(size), size |-> size]]
             ELSE slot

\* A run that failed around the program (its input, its directory, isolate):
\* the except clause returns before the output of this run is stored.
BreaksRun(i) ==
  /\ result' = [result EXCEPT ![i] = [status |-> "system_error", runtime |-> None]]
  /\ UNCHANGED slot

\* No runtime is measured when the command could not be started (a failing --init).
EndsRun(i) ==
  \/ \E status \in CaseStatuses \ {"system_error"}, t \in Runtimes \cup {None},
        size \in OutputSizes :
       /\ t = None => status # "accepted"
       /\ CompletesRun(i, status, t, size)
  \/ BreaksRun(i)

\* In a worker thread, also while the calling thread unwinds.
CaseReturns(i) ==
  /\ pc \in {"collecting", "unwinding"}
  /\ run[i] = "running"
  /\ EndsRun(i)
  /\ run' = [run EXCEPT ![i] = "returned"]
  /\ UNCHANGED <<job, pc, dir, offset, runs, loop_vars, progress, verdict>>

\* The files of the checker are written outside the try of the run.
CaseRaises(i) ==
  /\ pc \in {"collecting", "unwinding"}
  /\ run[i] = "running"
  /\ run' = [run EXCEPT ![i] = "raised"]
  /\ UNCHANGED <<job, pc, dir, offset, runs, result, slot, loop_vars, progress, verdict>>

\* Mutant: the cases are counted per batch.
CompletedInBatch == completed + 1 - offset

\* What as_completed has yielded, this case included.
CompletedCount == completed + 1

\* as_completed hands a finished case to the calling thread.
Collect(i) ==
  /\ pc = "collecting"
  /\ run[i] = "returned"
  /\ \/ /\ run' = [run EXCEPT ![i] = "collected"]
        /\ completed' = completed + 1
        /\ progress' = IF Parallel /\ ~CollectAll(job) THEN CompletedCount ELSE progress
        /\ pc' = IF \A k \in CurrentBatch \ {i} : run[k] = "collected"
                 THEN "settling" ELSE "collecting"
        /\ UNCHANGED <<job, dir, offset, runs, result, slot, settled, maxRuntime,
                       firstFailure, budget, observations, verdict>>
     \/ Parallel /\ ~CollectAll(job) /\ CallbackRaises

CollectRaised(i) ==
  /\ pc = "collecting"
  /\ run[i] = "raised"
  /\ Leave(Raised)
  /\ UNCHANGED <<job, dir, offset, case_vars, loop_vars, progress>>

-----------------------------------------------------------------------------
(* Settling the batch in display order.                                     *)

\* Mutant: the batch is settled in the order of the list.
IsNextInList(i) ==
  /\ pc = "settling"
  /\ i \in CurrentBatch \ settled
  /\ \A k \in CurrentBatch \ settled : i <= k

IsNext(i) ==
  /\ pc = "settling"
  /\ i \in CurrentBatch \ settled
  /\ \A k \in CurrentBatch \ settled : job.order[i] <= job.order[k]

\* Mutant: only a case that had company in its batch is confirmed.
NeedsConfirmationInCrowd(i) ==
  /\ Cardinality(CurrentBatch) > 1
  /\ result[i].status = "time_limit_exceeded"
  /\ runs[i] = 1

NeedsConfirmation(i) ==
  /\ Parallel
  /\ result[i].status = "time_limit_exceeded"
  /\ runs[i] = 1

\* Mutant: the timed-out cases of the batch are confirmed together.
BeginConfirmations(i) ==
  LET late == {k \in CurrentBatch \ settled : NeedsConfirmation(k)}
  IN  /\ IsNext(i)
      /\ i \in late
      /\ run' = [k \in Cases |-> IF k \in late THEN "running" ELSE run[k]]
      /\ runs' = [k \in Cases |-> IF k \in late THEN runs[k] + 1 ELSE runs[k]]
      /\ pc' = "confirming"
      /\ UNCHANGED <<job, dir, offset, result, slot, loop_vars, progress, verdict>>

\* A case that timed out beside others gets a second run, in this thread.
BeginConfirmation(i) ==
  /\ IsNext(i)
  /\ NeedsConfirmation(i)
  /\ run' = [run EXCEPT ![i] = "running"]
  /\ runs' = [runs EXCEPT ![i] = @ + 1]
  /\ pc' = "confirming"
  /\ UNCHANGED <<job, dir, offset, result, slot, loop_vars, progress, verdict>>

Confirm(i) ==
  /\ pc = "confirming"
  /\ run[i] = "running"
  /\ \/ /\ EndsRun(i)
        /\ run' = [run EXCEPT ![i] = "collected"]
        /\ pc' = "settling"
        /\ UNCHANGED verdict
     \/ /\ run' = [run EXCEPT ![i] = "raised"]
        /\ Leave(Raised)
        /\ UNCHANGED <<result, slot>>
  /\ UNCHANGED <<job, dir, offset, runs, loop_vars, progress>>

\* Mutant: only accepted runs count for the runtime.
SettlesAccepted(i) ==
  /\ IsNext(i)
  /\ ~NeedsConfirmation(i)
  /\ settled' = settled \cup {i}
  /\ maxRuntime' = IF result[i].status = "accepted"
                   THEN MaxMetric(maxRuntime, result[i].runtime) ELSE maxRuntime

Settles(i) ==
  /\ IsNext(i)
  /\ ~NeedsConfirmation(i)
  /\ settled' = settled \cup {i}
  /\ maxRuntime' = MaxMetric(maxRuntime, result[i].runtime)

\* Mutant: the budget is charged but does not cut the output.
ObservationUncut(i) ==
  LET out == slot[i]
  IN  [ case |-> i, status |-> result[i].status, run |-> out.run,
        saved |-> out.kept, size |-> out.size, truncated |-> out.kept < out.size ]

\* Mutant: what the capture has cut before is taken for the whole output.
ObservationHidesCapture(i) ==
  LET out == slot[i]
      saved == Least(out.kept, budget)
  IN  [ case |-> i, status |-> result[i].status, run |-> out.run,
        saved |-> saved, size |-> out.size, truncated |-> saved < out.kept ]

\* observe(): what the backend is told of this case, within the budget.
Observation(i) ==
  LET out == slot[i]
      saved == Least(out.kept, budget)
  IN  [ case      |-> i,
        status    |-> result[i].status,
        run       |-> out.run,
        saved     |-> saved,
        size      |-> out.size,
        truncated |-> saved < out.size ]

Observes(i) ==
  /\ CollectAll(job)
  /\ Settles(i)
  /\ firstFailure' = IF firstFailure = 0 /\ result[i].status # "accepted"
                     THEN i ELSE firstFailure
  /\ observations' = Append(observations, Observation(i))
  /\ budget' = budget - Observation(i).saved
  /\ slot' = [slot EXCEPT ![i] = NoOutput]
  /\ progress' = Len(observations) + 1
  /\ UNCHANGED <<job, pc, dir, offset, run, runs, result, completed, verdict>>

\* The report of the observation raises; module CaseReports has both cases in full.
ObserveRaises(i) ==
  /\ CollectAll(job)
  /\ IsNext(i)
  /\ ~NeedsConfirmation(i)
  /\ CallbackRaises

ObserveCase(i) == Observes(i) \/ ObserveRaises(i)

PassCase(i) ==
  /\ ~CollectAll(job)
  /\ result[i].status = "accepted"
  /\ \/ /\ Settles(i)
        /\ progress' = IF Parallel THEN progress ELSE completed
        /\ UNCHANGED <<job, pc, dir, offset, case_vars, completed, firstFailure,
                       budget, observations, verdict>>
     \/ IsNext(i) /\ ~Parallel /\ CallbackRaises

\* Mutant: the failure is noted but the loop goes on.
FailCaseGoesOn(i) ==
  /\ ~CollectAll(job)
  /\ result[i].status # "accepted"
  /\ Settles(i)
  /\ UNCHANGED <<job, pc, dir, offset, case_vars, completed, firstFailure, budget,
                 observations, progress, verdict>>

\* The first failure that counts ends the job.
FailCase(i) ==
  /\ ~CollectAll(job)
  /\ result[i].status # "accepted"
  /\ Settles(i)
  /\ Leave(Verdict(result[i].status, i, maxRuntime'))
  /\ UNCHANGED <<job, dir, offset, case_vars, completed, firstFailure, budget,
                 observations, progress>>

\* Mutant: the next batch starts one case too late.
EndBatchSkips ==
  /\ pc = "settling"
  /\ CurrentBatch \subseteq settled
  /\ offset' = offset + Workers(job) + 1
  /\ pc' = "dispatch"
  /\ UNCHANGED <<job, dir, case_vars, loop_vars, progress, verdict>>

EndBatch ==
  /\ pc = "settling"
  /\ CurrentBatch \subseteq settled
  /\ offset' = offset + Workers(job)
  /\ pc' = "dispatch"
  /\ UNCHANGED <<job, dir, case_vars, loop_vars, progress, verdict>>

-----------------------------------------------------------------------------
\* Mutant: the pool is left without waiting for its cases.
RemoveJobDirAtOnce ==
  /\ pc = "unwinding"
  /\ dir' \in {"absent", "stale"}
  /\ pc' = "done"
  /\ UNCHANGED <<job, offset, case_vars, loop_vars, progress, verdict>>

\* finally: _remove_tree gives up silently after its last attempt.
RemoveJobDir ==
  /\ pc = "unwinding"
  /\ Running = {}
  /\ dir' \in {"absent", "stale"}
  /\ pc' = "done"
  /\ UNCHANGED <<job, offset, case_vars, loop_vars, progress, verdict>>

Terminated == pc = "done" /\ UNCHANGED vars

CallingThread ==
  \/ OpenJobDir \/ PrepareCommand \/ RunFinal \/ PrepareChecker
  \/ StartBatch \/ Finish \/ EndBatch \/ RemoveJobDir
  \/ \E i \in Cases :
       \/ Collect(i) \/ CollectRaised(i)
       \/ BeginConfirmation(i) \/ Confirm(i)
       \/ ObserveCase(i) \/ PassCase(i) \/ FailCase(i)

Worker(i) == CaseReturns(i) \/ CaseRaises(i)

Next == CallingThread \/ (\E i \in Cases : Worker(i)) \/ Terminated

Spec == Init /\ [][Next]_vars

\* Every run of a program ends: isolate has a CPU and a wall limit, and the
\* agent kills the command after the wall limit (_run_isolate_box).
FairSpec ==
  /\ Spec
  /\ WF_vars(CallingThread)
  /\ \A i \in Cases : WF_vars(Worker(i))
-----------------------------------------------------------------------------
(* Properties.                                                              *)

States == {"start", "prepare", "final", "checker", "dispatch", "collecting",
           "settling", "confirming", "unwinding", "done"}

Outputs == [run : 0..2, kept : Nat, size : Nat]

\* Every variable stays in its range; a case is never run a third time.
TypeOK ==
  /\ job \in Jobs
  /\ pc \in States
  /\ dir \in {"absent", "stale", "present"}
  /\ offset \in Nat
  /\ run \in [Cases -> {"idle", "running", "returned", "raised", "collected"}]
  /\ runs \in [Cases -> 0..2]
  /\ result \in [Cases -> Result \cup {NoResult}]
  /\ slot \in [Cases -> Outputs]
  /\ completed \in Nat
  /\ settled \subseteq Positions(job)
  /\ maxRuntime \in Runtimes \cup {None}
  /\ firstFailure \in {0} \cup Positions(job)
  /\ budget \in Nat
  /\ observations \in
       Seq([case : Cases, status : CaseStatuses, run : 0..2, saved : Nat,
            size : Nat, truncated : BOOLEAN])
  /\ progress \in Nat \cup {None}
  /\ verdict \in [status : VerdictStatuses \cup {"none"}, case : {0} \cup Cases,
                  runtime : Runtimes \cup {None}]

\* No program of the job still runs in a working directory the agent has
\* started to remove, whichever way judge() is left (the pool waits).
WorkdirOutlivesRuns == Running # {} => dir = "present"

\* A time limit exceeded beside other cases only counts after a second run.
TimeoutsConfirmed ==
  Parallel =>
    \A i \in settled : result[i].status = "time_limit_exceeded" => runs[i] = 2

\* The second run has the job to itself: no other case of it is running.
ConfirmedAlone ==
  \A i \in Running : runs[i] = 2 => Running = {i}

\* The output reported for a case belongs to the run whose status is reported,
\* never to the timed-out run before it.  A broken run has no output of its own.
OutputOfReportedRun ==
  \A n \in DOMAIN observations :
    LET o == observations[n]
    IN  o.status # "system_error" => o.run = runs[o.case]

\* The bytes saved by the first n observations of a list.
SavedIn(list, n) ==
  LET sum[k \in 0..n] == IF k = 0 THEN 0 ELSE sum[k - 1] + list[k].saved
  IN  sum[n]

SavedBy(n) == SavedIn(observations, n)

\* The outputs of a job never exceed its budget, and output is only withheld
\* from one case because the captured prefix or the whole budget is used up.
OutputWithinBudget ==
  /\ SavedBy(Len(observations)) <= InitialBudget(job)
  /\ SavedBy(Len(observations)) + budget = InitialBudget(job)
  /\ \A n \in DOMAIN observations :
       observations[n].saved < Captured(observations[n].size) =>
         SavedBy(n) = InitialBudget(job)

\* An output that is not reported as a whole is said to be truncated, whether the
\* capture, the budget or both have cut it, and no other is.
CutsAreSaid ==
  \A n \in DOMAIN observations :
    observations[n].truncated <=> observations[n].saved < observations[n].size

\* All three, for the outputs a collecting job reports (app/executor.py:311-329).
ObservedOutputs == OutputOfReportedRun /\ OutputWithinBudget /\ CutsAreSaid

\* The runtime reported for the job is the largest of the runs that count: the
\* run a confirmation replaced leaves no trace in it.
RuntimeOfCountedRuns ==
  /\ \A i \in settled : result[i].runtime <= maxRuntime
  /\ maxRuntime # None => \E i \in settled : result[i].runtime = maxRuntime

\* In a job that collects everything, the observations are the settled cases,
\* each once, in the order of precedence, and a verdict on the cases is reached
\* only with all of them and agrees with the first one that failed.
EveryResultReported ==
  CollectAll(job) =>
    /\ {observations[n].case : n \in DOMAIN observations} = settled
    /\ \A m, n \in DOMAIN observations :
         m < n => Precedes(job, observations[m].case, observations[n].case)
    /\ verdict.case # 0 \/ (verdict.status = "accepted" /\ job.total > 0) =>
         /\ settled = Positions(job)
         /\ \A n \in DOMAIN observations :
              observations[n].status # "accepted" =>
                \/ observations[n].case = verdict.case
                \/ Precedes(job, verdict.case, observations[n].case)

\* Accepted means that every case was run and its last run was accepted.
AcceptedMeansAll ==
  verdict.status = "accepted" =>
    \A i \in Positions(job) :
      /\ runs[i] > 0
      /\ run[i] = "collected"
      /\ result[i].status = "accepted"

\* The progress the backend sees never goes back, stays within the number of
\* cases, and is complete when the job is accepted.
ProgressIsMonotone ==
  [][ /\ progress' >= progress
      /\ progress' <= job.total
      /\ verdict'.status = "accepted" /\ job.total > 0 => progress' = job.total ]_vars

\* Without collect_all_results, no case is started or run again once a failure
\* counts, and none is run again for another reason than a time limit.
NoRunAfterFailure ==
  [][ \A i \in Cases : runs'[i] # runs[i] =>
        /\ CollectAll(job) \/ \A k \in settled : result[k].status = "accepted"
        /\ runs[i] = 1 => result[i].status = "time_limit_exceeded" ]_vars

\* The job implements the sequential judging of InOrderVerdict: parallel runs,
\* confirmations and early returns never change which failure is the verdict.
InOrder == INSTANCE InOrderVerdict WITH
  outcome <- [i \in Cases |-> IF i \in settled THEN result[i].status ELSE "unknown"],
  verdict <- [status |-> verdict.status, case |-> verdict.case]

ImplementsInOrder == InOrder!Spec

\* Every job comes to its end, with a verdict.
JobEnds == <>(pc = "done" /\ verdict # NoVerdict)

\* deploy/README.md:101-102: a case that timed out in parallel is run again
\* "after all the other tests have ended".
ConfirmedAfterAllCases ==
  pc = "confirming" => \A i \in Positions(job) : run[i] = "collected" \/ i \in Running
-----------------------------------------------------------------------------
(* The inductive invariant behind WorkdirOutlivesRuns, ConfirmedAlone,      *)
(* TimeoutsConfirmed and AcceptedMeansAll, in named parts.                  *)

InBatch == pc \in {"collecting", "settling", "confirming"}

\* The working directory exists while the calling thread is inside the try.
DirInv == pc \notin {"start", "done"} => dir = "present"

\* Which cases may be running, by where the calling thread is.
RunningInv ==
  /\ Running # {} => pc \in {"collecting", "confirming", "unwinding"}
  /\ pc = "collecting" => Running \subseteq CurrentBatch
  /\ pc = "confirming" =>
       \E i \in CurrentBatch : Running = {i} /\ runs[i] = 2
  /\ \A i \in Running : i \notin settled /\ (pc # "confirming" => runs[i] = 1)

\* What has been started and settled, batch by batch.
BatchInv ==
  /\ pc = "final" => job.total = 0
  /\ pc = "checker" \/ pc = "dispatch" \/ InBatch => job.total > 0
  /\ pc \in {"start", "prepare", "final", "checker"} => offset = 0 /\ settled = {}
  /\ pc \in {"start", "prepare", "final", "checker", "dispatch"} =>
       \A i \in Cases : i > offset => runs[i] = 0 /\ i \notin settled
  /\ InBatch =>
       /\ \A i \in Cases : i > offset + Workers(job) => runs[i] = 0 /\ i \notin settled
       /\ \A i \in CurrentBatch : runs[i] # 0
  /\ pc = "collecting" => CurrentBatch \cap settled = {}
  /\ pc = "collecting" => \A i \in CurrentBatch : runs[i] = 1
  /\ pc = "settling" => \A i \in CurrentBatch : run[i] = "collected"
  /\ pc = "confirming" => \A i \in CurrentBatch : run[i] \in {"running", "collected"}
  /\ pc = "dispatch" \/ InBatch =>
       \A i \in Positions(job) : i <= offset => i \in settled
  /\ \A i \in settled : run[i] = "collected" /\ runs[i] # 0
  /\ \A i \in Cases : run[i] \in {"returned", "collected"} => result[i] \in Result

\* No failure has been passed over on the way to the verdict.
VerdictInv ==
  /\ pc \notin {"unwinding", "done"} =>
       /\ verdict = NoVerdict
       /\ firstFailure = 0 => \A i \in settled : result[i].status = "accepted"
       /\ firstFailure # 0 => result[firstFailure].status # "accepted" /\ firstFailure \in settled
  /\ ~CollectAll(job) => firstFailure = 0
  /\ verdict.status = "accepted" => Running = {}

IndInv ==
  /\ TypeOK
  /\ DirInv
  /\ RunningInv
  /\ BatchInv
  /\ TimeoutsConfirmed
  /\ VerdictInv
  /\ AcceptedMeansAll
=============================================================================
