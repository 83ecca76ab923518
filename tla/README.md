# Verification of judge-agent

TLA+ models of the judge agent: the process that claims jobs from the ZOJ
backend, compiles and runs submissions in isolate boxes and Editor containers,
and reports the results. The models are translated from the code under `src/app`
and `src/editor-runtime`; TLC checks them on small instances, and TLAPS proves
theorems about all eight detailed models for every value of their constants.

Run a check with `tlc -config <cfg> <module>` and a proof with `tlapm <module>_proofs.tla`.
`PROJECT.json` lists the runs, the source lines of every definition, mutants for every
property (plausible bugs that make a run fail), the hazards and the findings.

## The system

| Component | State | Operations | Hard because of |
|---|---|---|---|
| Agent process (`main.py`, `backend_client.py`) | futures of its workers, one keepalive thread and event per worker, node id | register, heartbeat, claim, judge_one, renew, report, exit | workers beside the loop, requests and replies that get lost, leases that run out, restarts, retries that depend on the result |
| Judging of a job (`executor.py`: `judge`, `_run_testcases`; `main.py`: `report_case`) | job directory, futures of a batch, first failure, output budget, running maxima, results waiting to be sent | prepare, start a batch, collect, confirm a timed-out case, settle in order, report, remove the directory | completion in any order, a second run that replaces the first, exceptions at every await, budget shared by the cases, lost replies |
| Sandboxed run (`executor.py`: `_run_single_testcase`, `_run_isolate_box`, `_run_checker`) | isolate box, meta file, return code | init, run, decode, cleanup | many endings coded into one integer, failing tools, clean-up on all paths |
| Runtime policy and limits (`runtime_policy.py`, `executor.py`: `*_limit_*`) | none | precedence of limits, allowances of languages, guards, heap of a JVM | 0 and null in different fields, rounding at the boundaries |
| CPU leases (`cpu_pool.py`) | lock files and their flocks, isolate boxes, Editor containers | lease, run under the lease, release; sweeps of a starting agent | threads and processes that share the boxes, crashes, `docker rm` that fails |
| Checker cache (`executor.py`: `_ensure_cached_checker_binary`) | one file and one flock per checker | look up, compile, publish, copy to the job | competing threads and processes, torn files, waiting for a CPU with the lock held |
| Editor executor and protocol (`editor_executor.py`, `editor_protocol.py`) | working folder, docker client, container, result file | unpack, start, poll, validate, inspect, remove, reap | cancellation, deadlines, a client lost while its container goes on, partial output |
| Editor supervisor (`editor-runtime/`) | two process trees, samples, evidence of the launchers | start, watch, sample, stop, measure, await, print | endings that race with samples, programs that leave their process group, memory of the container |
| Log forwarder (`log_forwarder.py`) | buffer of a tee, bounded queue, a thread | write, append, drain, send, close | an unlocked buffer, appends beside drains, close beside a thread that still sends |
| Settings, object addresses, smoke programs, deployment scripts, images | environment | read once, or run by an operator | - |

How they interact: `main` gives each claimed job to a thread running `judge_one`, which
calls the executor and reports; the executor calls back to report progress.
Every program, checker and compiler the executor runs, and every Editor
container, is started under a lease of the CPU pool. Threads of the executor
meet at the checker cache, which itself asks for a lease to compile. Jobs of
one process share the job root, the lock directory, the cache and the boxes. All of them
print through the log forwarder.

What makes each part correct: a job's verdict does not depend on the race of
its cases, and every ending says what happened; a box or CPU serves one call
at a time and is given back on all paths; a cached checker is complete and
compiled once; a lease of the backend covers all work done under it, and
every job comes to a result; the result of an Editor task was measured, and nothing of
the task stays behind unnoticed; no line of the log is sent twice or out of order.

## Modules

    JudgeJobs            data of a job and the vocabulary of results
    InOrderVerdict       abstract: judge the cases one by one, in order of precedence
    CaseJudging          judge/_run_testcases in detail   -- implements InOrderVerdict
    CaseReports          CaseJudging composed with report_case and a backend that misses requests
    ResourceLimits       limits, guards and heaps as operators
    IsolateRun           one case: box, program, status, checker -- under ResourceLimits
    CpuLeases            lease, call and release; crashes and sweeps
    CheckerStore         abstract: a store filled once per key
    CheckerCache         the cache in detail              -- implements CheckerStore
    JudgeAgent           main, judge_one, keepalive, reports; backend and network
    EditorSupervisor     inside the container: supervisor, solution, interactor, clock, kernel
    EditorTask           _execute and docker around it    -- extends EditorSupervisor
    LogForwarder         the tee, the queue, its thread and close
    *_proofs             theorems about the module of that name
    MC*                  instances for TLC

**CaseJudging.** One behaviour is one call of `judge`. `state[i]` follows the
future of case i, `result[i]` is what it returned, `settled` are the cases that the loops over the batches have
gone through, each batch in display order, and `pc` is the position of the calling thread. Each way a case can end, the
callbacks that raise, and `_remove_tree` in the finally are actions. A case that exceeded its time limit
beside others is confirmed by `BeginConfirmation` and `Confirm`. Observations of a
collecting job take their output from one budget. `InOrderVerdict` lets the cases count one by one, with no run, thread, confirmation or
output in it; `ImplementsInOrder` is the refinement. The order it uses (`Precedes` of `JudgeJobs`) is the code's: the batches in the order of the list, and the
cases of a batch by display order. So the degree of parallelism decides which of two failures in different places of a list that is not sorted
by display order becomes the verdict, and with one worker it is the order of the list; for a sorted list all of them agree.

**CaseReports.** The composition of `CaseJudging` with the function that tells the backend of each
observation: `pending` is `pending_cases`, `received` what the backend has got. A step that observes a case (`Observes`) is
at the same time a call of `report_case`, which waits for a batch or sends; a request or its reply may be lost, and the results are
kept and sent again. Every other step of `CaseJudging` leaves the reports alone.

**ResourceLimits and IsolateRun.** One case of one submission. `ResourceLimits` computes the limits from what the job says
and the allowances of the language. A task of `IsolateRun` has a `request` (the limits a job names) and a `use` (what the program needs), so that
`Possible` says which limits the program can hit. `Ending` says how a command ended
(exit code, signal, limits exceeded, faults of isolate), and the model follows the
integer the code makes of it through `_isolate_returncode`, the wall timeout and
`_is_memory_limit_result` to the status, then the checker the same way. Any command may also end in an exception that no clause of `_run_isolate_box` or
`_run_command` names (an `OSError` when it is started, metadata that is no number), or not be started at all because its files
cannot be prepared. Such an ending goes through the same finally (`CleanupBox`), and only then on to the except clause of `_run_single_testcase`, or out of it when it is the checker's
(`Unwind`). Endings also include a signal that the metadata does not name (read as SIGKILL) and no metadata at all, with an exit code of isolate or without.
What was printed on stderr is abstracted to whether the memory messages occur.

**CpuLeases.** Threads of several agent processes walk the slots in order and
try each lock (`LOCK_NB`), with a wait when all are taken; with a lease they
init, run and clean up a box or start and remove a container. A crash of a
process frees its locks (flock) and leaves box and container; a starting process sweeps boxes and
containers before it takes jobs. `ContainersEscape` says whether a removal may leave its container running.

**CheckerCache.** Threads lock the file of their key, look for the binary, compile
under a CPU lease into a directory of their own, `chmod`, `os.replace`, and copy
the result into the job. Locks are those of open files, so two threads of one
process exclude each other too. `CheckerStore` has one atomic `Put` per key and
answers requests from it, or refuses them.

**JudgeAgent.** The main thread, a record per worker, the keepalive threads as
the set `renewing` of leases they renew, and an external backend: queue, leases,
recorded results. A fault loses a request or a reply (`RuntimeError` in
`_request`), or raises what `_request` does not catch (a connection closed without a reply,
a reply that is not JSON); the second kind ends a keepalive thread, skips the retries of a report and, at a claim or a heartbeat, leaves the loop
of `main`, which then waits for its workers and is restarted by docker. Results have three attempts if they
carry testcase results or belong to an Editor task, one otherwise.

**EditorSupervisor.** `supervise` as a loop of `Watch` (wait4), `Sample`, `Stop` and `Measure`, then `AwaitInteractor` and `PrintReply`.
The solution and the interactor run beside it: they exceed limits, end and leave (or fail to leave) the evidence of
`launch.c` between any two of its steps. What has really been exceeded (`over`) is told from what was seen of it (`shown`). A sample sees any part of it, because it adds up live
processes only; so does the evidence, because the launcher adds up the CPU time of the processes it reaps (not of those whose parent ignores SIGCHLD), and keeps the
memory of the largest process, while the limit is on the sum of all. A process tree is one program with its launcher, which ends after the last process of the tree; a process that left the
group survives `stop()`, of the solution or of the interactor, as one of the `strays`, and may write to the output while it is read. The memory limit of the container may kill any process, the supervisor too.

**EditorTask.** The thread in `_execute` (`pc`), the `docker run` client it starts, the container and `result.json`.
The client creates the container, starts it, copies its output and exits, and may be lost at any of those points; `docker rm` may remove the container,
come before it exists, fail, or not return in time (the exception then leaves the finally); so does the wait for a client that does not go when it is killed (`stuck`).
`folder` tells a folder on which `rmtree` was called, with success or without, from one that was left where it was.

**LogForwarder.** `write()` takes no lock, so each print is cut where CPython may switch threads: after a call, before a call, at
the end of a loop's body. Entries of the queue are named by their place in the history `appended`; `flight` holds the batches that are being sent by the thread
and by `close()`.

## What the runs check

| Run | Instance | Properties |
|---|---|---|
| judging (`MCCaseReports`) | jobs of 0 to 4 cases, one or two workers, listed in and out of order; jobs that stop at a failure, jobs that report all cases, a reference run; one message lost; batches of 2 reports | `WorkdirOutlivesRuns`, `TimeoutsConfirmed`, `ConfirmedAlone`, `RuntimeOfCountedRuns`, `AcceptedMeansAll`, `ObservedOutputs`, `HeardInOrder`, `EveryResultHeard`, `ProgressIsMonotone`, `NoRunAfterFailure`, `ImplementsInOrder`, `JobEnds` |
| confirm_last | up to 3 cases, batches of 2 | `ConfirmedAfterAllCases` (violated) |
| isolate_run (`MCIsolateRun`) | one case, isolate and local, with and without checker; limits from every place, four needs of a program | `AnswersAreEarned`, `LimitsAreNamed`, `EveryBoxIsSwept`, `ProblemLimitsSuffice`, `CaseEnds` |
| time_limit | the same | `TimeLimitMeansTime` (violated) |
| leases (`MCCpuLeases`) | one process, 3 threads on 2 slots, isolate and Editor, 2 crashes | `LeaseExcludes`, `OneCallPerCpu`, `BoxBelongsToCall`, `EveryCallReturns` |
| leases_sweep | 2 processes, the second starts later | `BoxBelongsToCall` (violated) |
| leases_orphan | removals that leave a container | `OneCallPerCpu` (violated) |
| cache (`MCCheckerCache`) | 3 processes, 2 keys, one CPU, 1 crash | `OneBuilderPerKey`, `NoPartialChecker`, `NeverAllWait`, `ImplementsStore`, `EveryRequestAnswered` |
| agent (`MCJudgeAgent`) | a collecting job and an Editor task on 2 slots, run once, 3 faults, 1 crash | `SlotsRespected`, `JudgedOnceAtATime`, `VerdictSurvives`, `ExitsWhenDone` |
| agent_live | a collecting job and an Editor task on 1 slot, 2 faults, 1 crash | `EveryJobSettled`, `CancelledTasksStop` |
| editor (`EditorTask`) | one task, plain or interactive; nothing is bounded | `CleanUpIsInOrder`, `ResultIsTrue`, `CancelledRaises`, `EverythingEnds` |
| logs (`LogForwarder`) | two prints of two threads, a queue of 2, batches of 1 | `LinesArriveInOrder`, `LonePrintsSurvive`, `CloseSendsAll`, `LinesLeaveTheQueue` |

Some properties are conjunctions of named parts: `ObservedOutputs` of `OutputOfReportedRun`, `OutputWithinBudget` and `CutsAreSaid`; `EveryResultHeard` of
`EveryResultReported`, `RepeatsOnlyAfterLoss` and `HeardBeforeVerdict`; `AnswersAreEarned` of `AcceptedIsEarned` and `WrongAnswerAfterCleanRun`;
`ResultIsTrue` of `OkIsMeasured`, `LimitIsReal`, `InteractorAccepts` and `ResultIsPrinted`; `CleanUpIsInOrder` of `NothingOutlivesTheCall` and `FolderOutlivesClient`;
`LinesArriveInOrder` of `LinesAccounted` and `SentInOrder`; `EverythingEnds` of `TaskEnds` and `EscapeesEnd`.

What the passing runs show, beyond single functions: the verdict of a parallel job is the one of judging its cases one by one, also when
cases are run twice, callbacks raise or the budget runs out, and the backend hears of the cases in that order and of all of them; no accident of isolate is
mistaken for an answer; every lease is given back; the lock that a compiling
thread holds while it waits for a CPU never closes a circle; a result of the backend is given up only after all its attempts;
an Editor result is what was measured, whatever part of docker is lost. The two runs that stop by themselves (editor, logs: no step is left once the
call has returned or the forwarder is closed) are checked without deadlock.

**Why the bounds are enough.** Four cases in batches of two give a full batch before and after
another, a ragged one, and two confirmations in one batch; a measured runtime and none
tell a replaced run from the one that counts; outputs of 1 and 3 under a capture of 2 and a budget of 3 are whole, cut by their own
limit, and cut by the budget. Reports in batches of 2 make three cases leave one waiting for the last. Limits of a job come from every place, with 0 where it means "none" and where it is a
limit, and the needs of programs lie on both sides of them. Three threads on two slots are the least
that make a thread wait for a slot beside a busy one. Three processes on two keys leave, after a crash, two that compete
for one key or cross on two; processes and threads exclude each other alike (flock of an open file), and the theorems hold for any number of both.
Three faults lose all attempts at a result of three attempts. One crash is taken at every step; a second one
can hit the sweep of the restart. A queue of two lines that is sent one by one overflows, and is drained, with two prints, because overlapping
writes can make more than two lines of them. The bounds of each run are the constants of its cfg: `MaxCases`, `MaxLost`, `MaxCrashes`, `MaxFaults`, `Calls`, `Jobs`, `Prints`, `Capacity`, `BatchLimit`.

**Fairness.** Threads of the agent are scheduled (weak fairness of their steps). A program, checker or compiler ends because
it runs with a wall limit, a subprocess timeout or a deadline (`executor.py:1006`,
`editor_executor.py:80`). An agent that ends is restarted by docker (`deploy/compose.yaml:36`). A thread
that polls the slots could be overtaken for ever by calls that come later, since nothing queues; `EveryCallReturns` is checked with
finitely many calls (`Calls`), where it is not. A backend takes back leases that are not renewed.
In JudgeAgent `FairSpec` assumes nothing of how long an executor runs: only that the keepalive thread
and the poll of `cancelled` go on; `EveryJobSettled` has the assumption that executors end (`ExecutorsEnd`) as its premise.
In EditorTask the executor thread, the supervisor and the clock go on, and neither docker nor the programs are trusted to: the task ends by its deadline,
the container by the wall limit of the supervisor. In LogForwarder only the sending thread is fair. Runs that have no liveness property use specifications without fairness.

## What is proved

Theorems of the form `Spec => ...` hold for every value of the constants that meets the module's `ASSUME`; `EditorTask` has no constants, there the proof
and the run cover the same behaviours by different means.

| Theorem | Statement |
|---|---|
| `CaseJudging_proofs!TypeCorrect` | the type invariant; no case runs a third time |
| `CaseJudging_proofs!DirectoryOutlivesRuns` | `[]WorkdirOutlivesRuns`: the job directory is never removed under a running program |
| `CaseJudging_proofs!TimeoutsAreConfirmed` | `[]TimeoutsConfirmed`: a parallel time limit counts only after a second run |
| `CaseJudging_proofs!SecondRunsAreAlone` | `[]ConfirmedAlone`: a second run is the job's only run at that time |
| `CaseJudging_proofs!AcceptedIsComplete` | `[]AcceptedMeansAll`: accepted means the last run of each case was |
| `CaseJudging_proofs!StopsAtFailure` | `NoRunAfterFailure`: no run starts after a failure that counts |
| `CaseJudging_proofs!JudgesInOrder` | `ImplementsInOrder`: batches, races, confirmations and early returns implement judging the cases one by one, in the order of `Precedes` |
| `CaseJudging_proofs!RuntimesCount` | `[]RuntimeOfCountedRuns`: a run that a confirmation replaced leaves no trace in the runtime |
| `CaseJudging_proofs!ReportsComplete` | `[]EveryResultReported`: a collecting job observes each case once, in order, and concludes with all of them |
| `CaseJudging_proofs!OutputsAreTrue` | `[]ObservedOutputs`: an observed output is that of the observed run, the outputs share the budget to its last byte, and cuts are marked |
| `CaseJudging_proofs!ProgressAdvances` | `ProgressIsMonotone`: progress never goes back and is complete when the job is accepted |
| `CaseReports_proofs!RefinesJudging` | `CaseReports` implements `CaseJudging`, so the theorems above hold of it |
| `CaseReports_proofs!ReportsAreInOrder` | `[]HeardInOrder`: whatever is lost, the backend hears of no case before an earlier one |
| `CaseReports_proofs!ResultsAreHeard` | `[]EveryResultHeard`: nothing is sent twice unless a reply was lost, and if nothing was lost the backend has heard of all cases before the verdict |
| `IsolateRun_proofs!AnswersEarned` | `[]AnswersAreEarned`: an accepted run earned it, a wrong answer comes from a run that ended well |
| `IsolateRun_proofs!LimitsNamed` | `[]LimitsAreNamed`: the limit that was hit survives the way through the return code, unless the agent itself fails after the run |
| `IsolateRun_proofs!BoxesSwept` | `[]EveryBoxIsSwept`: one clean-up for each box entered, after any return or exception, before anything follows from it |
| `IsolateRun_proofs!LimitsSuffice` | `[]ProblemLimitsSuffice`: no program within the limits of its problem is cut off |
| `IsolateRun_proofs!GuardsNested` | `[]GuardsNest`: CPU limit, wall limit and patience keep their distance; a heap is half to three quarters of its box |
| `IsolateRun_proofs!HeapGrowsSlowly` | one MiB more of memory is one MiB more of heap or none |
| `CpuLeases_proofs!TypeCorrect`, `LeasesExclude` | a slot is leased to one thread, any processes, crashes, failures of docker |
| `CpuLeases_proofs!BoxesBelongToCalls` | `[]BoxBelongsToCall` when there is one agent process (`OneAgent`) |
| `CpuLeases_proofs!CpusRunOneCall` | `[]OneCallPerCpu` with one agent process whose containers do not escape |
| `CheckerCache_proofs!BuildersExclude`, `CheckersAreComplete`, `EntriesAreStable` | one builder per key, complete executables only, published once |
| `CheckerCache_proofs!SomebodyGoesOn` | `[]NeverAllWait`: a thread waits for somebody who can go on, with any number of threads, entries and CPUs |
| `CheckerCache_proofs!CacheIsAStore` | `CheckerCache` implements `CheckerStore` |
| `JudgeAgent_proofs!TypeCorrect` | the type invariant; no result is reported a fourth time |
| `JudgeAgent_proofs!SlotsBoundWork` | `[]SlotsRespected`: never more work than slots |
| `JudgeAgent_proofs!LeasesCoverWork` | `[]JudgedOnceAtATime`: a job has two workers only if its lease was not renewed |
| `JudgeAgent_proofs!VerdictsSurvive` | `[]VerdictSurvives`: a verdict is given up only after all attempts at reporting it |
| `JudgeAgent_proofs!ExitsClean` | `[]ExitsWhenDone`: a process run once exits with nothing at work, and with every job done unless something failed |
| `EditorTask_proofs!ResultsAreTrue` | `[]ResultIsTrue`: an ok is of a tree that ended by itself and showed no excess; limits named were exceeded; an interactor that accepts exited with 0 and left a final transcript |
| `EditorTask_proofs!CleanUpInOrder` | `[]CleanUpIsInOrder`: a container stays only after a failed, late or early `docker rm`; the client, and a folder on which `rmtree` was not called, only if `docker rm` raised or the client could not be killed |
| `LogForwarder_proofs!TypeCorrect` | the type invariant, however unlocked writes interleave |
| `LogForwarder_proofs!LinesInOrder` | `[]LinesArriveInOrder`: a line is in one place, or was dropped by a full queue; lines are sent in order until somebody gives up waiting |
| `LogForwarder_proofs!LoneLines` | `[]LonePrintsSurvive`: a print that nothing overlaps becomes one whole line and does not raise |
| `LogForwarder_proofs!ClosedLines` | `[]CloseSendsAll`: when `close()` has returned without giving up, the line of each such print was sent or dropped by the full queue |

Each proof module uses the inductive invariant of its component, a conjunction of named parts (`IndInv` in the component's module, `IInv` in
`IsolateRun_proofs`, and the parts that a single theorem needs beside that theorem), and has one lemma per action or group of actions. TLC checked each of
these invariants on the instance of its run before it was proved; where the proof shows that it is inductive no run repeats it. The extra parts are needed
because the properties speak of consequences:

- **CaseJudging.** `WorkdirOutlivesRuns` needs that running cases belong to a batch in progress and that the directory is there while the calling thread is inside
  the `try`; `AcceptedMeansAll` needs that the settled cases come first in the order of precedence, all accepted unless a failure is recorded. For the refinement,
  `StepEffect` sorts every action into three kinds: it settles the next case, it concludes the job, or it changes nothing that the abstract
  specification sees. `OrderInv` says that what is settled comes before what is not (`OffsetInv`, `SettledFirst`), and that the failure on record is the
  first of them (`FailuresFollow`, `VerdictOnAll`); with it each kind of step is a step or a stutter of `InOrderVerdict` (`RefinesSettling`, `RefinesQuiet`).
  `RuntimesCount` and `ReportsComplete` go through the same three kinds.
  `ObservedOutputs` sums up the bytes of the observations so far. That sum is a recursive function over the length of the list; that it exists and what it
  does when the list grows (`SumExists`, `SavedInSum`) is shown by taking the least number for which it fails, since the induction theorems of
  the library are out of reach. `SlotInv` says which run the stored output of a case comes from. `ProgressIsMonotone` needs `CountInv`, that every case is counted once although
  it may be run twice, and `ProgressInv`, which relates what was told to what was counted in each of the three ways a job is judged.
- **CaseReports.** What was heard and what waits together are the observations, in order (`ReportsInv`). `DeliveryInv` adds that nothing is sent twice while no
  reply was lost, and that the queue is empty after the last case if nothing was lost.
- **IsolateRun.** `CodeInv` ties the return code to the ending it stands for, `BoxCodes` and `LocalCodes` say what such a code tells, `StatusTells` that nothing of it is lost
  in the status, and `ExceededInv` that a limit that was hit was exceeded; `AllowancesAdd` and `LimitsTyped` are the facts about limits.
- **CpuLeases.** `OneCallPerCpu` needs that orphans lie only on slots of an agent that has not finished its sweep. The two assumptions `OneAgent` and
  `~ContainersEscape` are not for the prover's convenience: without them the statements are false (runs leases_sweep and leases_orphan).
- **CheckerCache.** `NoPartialChecker` needs that a compiled file is published only from the directory of the thread that holds the lock; `NeverAllWait` needs
  `LeasesInv`, that the holders of CPUs are those who compile or test and nobody else, crashes included.
- **JudgeAgent.** `JudgedOnceAtATime` follows from `CoverInv` (a worker has the current lease of its job, which its keepalive thread renews until the job is done) and
  `LeaseInv` (a lease has one worker); `SlotsRespected` from `SlotsInv`, which says that the slots asked for are still
  free when the claim returns; `VerdictSurvives` from `LostInv` (under the current lease, only faults of the network fail
  a report) and `Consistent` (a worker that failed after judging used all its attempts). `ExitsWhenDone` needs `RenewInv` (a keepalive thread has a worker at
  work) and `LeasedInv` (until something fails, whatever is leased is worked on).
- **EditorTask.** `ReplyInv` says of a reply what `ResultIsTrue` says of a result, `SolutionInv` and
  `VerdictInv` what the supervisor knows step by step, and two frame lemmas (`CallKept`, `ContainerKept`) say what the steps on one side of the container's wall leave
  alone on the other.
- **LogForwarder.** `WriteInv` says who is writing and who had company, `LoneInv` that a print without company finds in the shared buffer what it left there.
  `QueueInv` describes the queue by the history of all lines: it holds the newest ones, everything older was taken or pushed out, and what is under way comes after
  what was sent. Every step leaves the queue alone, adds a line at its end (`Queues`), takes lines from its front (`Drains`) or sends a batch, and there is
  one lemma for each (`QueuesKeep`, `DrainsKeep`, `SendKeeps`). `CloseInv` says who can still send. The facts about `SubSeq`, `Append` and concatenation that this needs come first.

**Only model-checked.** All safety invariants of the passing runs are proved, and so are the three refinements. What stays with TLC is
what needs fairness: `JobEnds`, `CaseEnds`, `EveryCallReturns`, `EveryRequestAnswered`, `EveryJobSettled`, `CancelledTasksStop`, `CancelledRaises`, `EverythingEnds` and
`LinesLeaveTheQueue`. TLAPS does no `ENABLED` reasoning here, so no fairness condition can be used in a proof. The four runs that find a violation refute statements, which
leaves nothing to prove.

## Findings

- *confirm_last*: the deployment guide says that a timed-out case is run again after all other cases have ended; the code does so
  at the end of the batch of the case (`executor.py:409`).
- *time_limit*: the guide says only a run over its time limit is a time limit exceeded; a program that exits with code 124, or an `isolate --init`
  that hangs, gets that status too (`executor.py:514`, `1040`).
- *leases_sweep*: leases are said to serialize box reuse; an agent that starts cleans all boxes without taking leases,
  those in use by another process too (`main.py:29`).
- *leases_orphan*: leases are said to enforce one CPU per call; when `docker rm` fails, times out, or comes before the daemon has created the
  container, the container goes on while its CPU is leased to the next call (`editor_executor.py:104`).

Not findings, because nothing in the repository promises otherwise, but worth a reader's attention:
a contest verdict whose one report is lost becomes `system_error`; a job whose lease
ran out under a live worker can be judged twice at once by one process, in one directory (`JudgedOnceAtATime` says exactly when);
prints that overlap can lose, join or repeat lines of the log, and one of them can raise `ValueError` (`LonePrintsSurvive` says which prints are safe);
a second run that ends in an exception reports the output of the run it replaced;
a solution of several processes that together exceed the memory limit of the task only between two samples (the launcher records the largest one), or whose CPU time is that of children nobody
reaps, is reported ok (`OkIsMeasured` speaks of what was shown, for this reason); so is a case that isolate ended with exit code 0 and no metadata, if its output is right.

## Not modelled, and why

- Programs, outputs and their comparison, source text, archives and formatting are abstracted to the cases the
  properties tell apart; so are the checks of `validate_result` field by field, and `with_runtime_limits`, which replaces flags in a command line:
  pure functions of text. `runtime_fingerprint` asks tools for their versions.
- The lookup of a checker by its storage keys, before the lock and without it (`executor.py:581-586`): nothing in this code writes an entry under such a key, so it
  always misses; entries written by something else would be outside what `CheckerCache` shows.
- Settings, object addresses, deployment scripts, images and smoke programs keep no state of the agent. `configure_isolate` writes static
  configuration before any call; two processes that start at once are a hazard without a property.
- Box ids of an agent without CPU pinning (`_next_isolate_box_id`: process id plus a counter, modulo the range) have no lock and no promise; production uses the pool.
- What a directory that `_remove_tree` could not remove does to a second run, a Java program that prints a memory message and exits with 0, and power failures
  (as opposed to crashes of processes) are named as hazards that no property covers.
- A cancelled Editor task that still waits for a CPU learns of it only after it got one: the wait is in `CpuLeases`, the cancellation in `EditorTask`
  and `JudgeAgent`, and no run composes the three.

## Plan

The models of the plan are in place and the safety properties of the runs are proved. What is worth adding:

1. `EditorTask`: the safety part of `CancelledRaises`, that a call cancelled before the end of the polling loop never returns a result, as an invariant with its proof.
2. `CpuLeases`: that a thread that waits for a slot waits for one that can go on, as in `CheckerCache`, for any number of slots and processes.
3. `LogForwarder`: an abstract lossy queue (lines come in at one end, leave in order at the other, the oldest are dropped) that the forwarder implements until
   somebody gives up waiting.
4. The cancellation of an Editor task that still waits for its CPU, which needs `CpuLeases` composed with `EditorTask`.
