------------------------- MODULE CaseJudging_proofs -------------------------
(* Safety of the judging of one job, for every number of cases, degree of   *)
(* parallelism, budget and set of jobs.                                     *)
EXTENDS CaseJudging, FiniteSetTheorems, WellFoundedInduction, TLAPS

\* What the assumption on jobs says of the job at hand.
LEMMA JobFacts ==
  ASSUME job \in Jobs
  PROVE  /\ job.total \in 0..MaxCases
         /\ job.order \in [Cases -> Int]
         /\ Positions(job) \subseteq Cases
         /\ Positions(job) \subseteq Nat \ {0}
         /\ Workers(job) \in Nat
         /\ job.total > 0 => Workers(job) > 0
PROOF
  <1>1. job \in Job  BY JudgeJobsAssumption
  <1> QED BY <1>1, JudgeJobsAssumption DEF Job, Positions, Cases, Workers

\* The members of a batch.
LEMMA BatchFacts ==
  ASSUME job \in Jobs, offset \in Nat
  PROVE  /\ CurrentBatch \subseteq Positions(job)
         /\ \A i \in Positions(job) :
              i \in CurrentBatch <=> offset < i /\ i <= offset + Workers(job)
PROOF BY DEF CurrentBatch, Batch

\* The budget is a size, whatever the job.
LEMMA BudgetFacts == ASSUME job \in Jobs PROVE InitialBudget(job) \in Nat
PROOF BY CaseJudgingAssumption DEF InitialBudget

LEMMA InitIndInv == Init => IndInv
PROOF
  <1> SUFFICES ASSUME Init PROVE IndInv
    OBVIOUS
  <1>1. Running = {}  BY DEF Init, Running
  <1>2. TypeOK
    BY BudgetFacts, JobFacts, JudgeJobsAssumption
    DEF Init, TypeOK, States, Outputs, Result, NoResult, NoOutput, NoVerdict, VerdictStatuses
  <1>3. DirInv /\ RunningInv /\ BatchInv
    BY <1>1 DEF Init, DirInv, RunningInv, BatchInv, InBatch
  <1>4. TimeoutsConfirmed /\ VerdictInv /\ AcceptedMeansAll
    BY <1>1 DEF Init, TimeoutsConfirmed, VerdictInv, AcceptedMeansAll, NoVerdict
  <1> QED BY <1>2, <1>3, <1>4 DEF IndInv
-----------------------------------------------------------------------------
\* Leaving the block with a verdict or an exception, the cases untouched.
LEMMA LeaveInv ==
  ASSUME IndInv,
         pc \notin {"start", "done", "unwinding", "confirming"},
         NEW status \in VerdictStatuses,
         NEW case \in {0} \cup Cases,
         NEW t \in Runtimes \cup {None},
         Leave(Verdict(status, case, t)),
         progress' \in Nat \cup {None},
         UNCHANGED <<job, dir, offset, case_vars, loop_vars>>,
         status = "accepted" =>
           /\ Running = {}
           /\ \A i \in Positions(job) :
                runs[i] > 0 /\ run[i] = "collected" /\ result[i].status = "accepted"
  PROVE  IndInv'
PROOF
  <1> USE DEF IndInv
  <1>1. verdict' = [status |-> status, case |-> case, runtime |-> t] /\ pc' = "unwinding"
    BY DEF Leave, Verdict
  <1>2. TypeOK'
    BY <1>1 DEF TypeOK, States, case_vars, loop_vars
  <1>3. DirInv' /\ RunningInv'
    BY <1>1 DEF DirInv, RunningInv, Running, case_vars, loop_vars
  <1>4. BatchInv'
    BY <1>1 DEF BatchInv, InBatch, case_vars, loop_vars
  <1>5. TimeoutsConfirmed'
    BY DEF TimeoutsConfirmed, Parallel, case_vars, loop_vars
  <1>6. VerdictInv' /\ AcceptedMeansAll'
    BY <1>1 DEF VerdictInv, AcceptedMeansAll, Running, case_vars, loop_vars
  <1> QED BY <1>2, <1>3, <1>4, <1>5, <1>6

\* An exception out of a progress callback.
LEMMA CallbackRaisesInv ==
  ASSUME IndInv, CallbackRaises,
         pc \notin {"start", "done", "unwinding", "confirming"}
  PROVE  IndInv'
PROOF
  <1>1. "raised" \in VerdictStatuses /\ 0 \in {0} \cup Cases /\ None \in Runtimes \cup {None}
    BY DEF VerdictStatuses
  <1>2. progress' \in Nat \cup {None}
    BY DEF IndInv, TypeOK, CallbackRaises
  <1> QED BY <1>1, <1>2, LeaveInv DEF CallbackRaises, Raised

LEMMA OpenJobDirInv == ASSUME IndInv, OpenJobDir PROVE IndInv'
PROOF
  <1> USE DEF IndInv, OpenJobDir
  <1>1. TypeOK'
    BY DEF TypeOK, States, Raised, Verdict, VerdictStatuses, case_vars, loop_vars
  <1>2. Running = {} /\ Running' = {}
    BY DEF RunningInv, Running, case_vars
  <1>3. DirInv' /\ RunningInv'
    BY <1>2 DEF DirInv, RunningInv, case_vars, loop_vars
  <1>4. BatchInv'
    BY DEF BatchInv, InBatch, case_vars, loop_vars
  <1>5. TimeoutsConfirmed'
    BY DEF TimeoutsConfirmed, Parallel, case_vars, loop_vars
  <1>6. VerdictInv' /\ AcceptedMeansAll'
    BY <1>2 DEF VerdictInv, AcceptedMeansAll, Raised, Verdict, NoVerdict, case_vars, loop_vars
  <1> QED BY <1>1, <1>3, <1>4, <1>5, <1>6

LEMMA PrepareCommandInv == ASSUME IndInv, PrepareCommand PROVE IndInv'
PROOF
  <1>1. progress' \in Nat \cup {None}
    BY DEF PrepareCommand, CallbackRaises, IndInv, TypeOK
  <1>2. CASE CallbackRaises
    BY <1>2, CallbackRaisesInv DEF PrepareCommand
  <1>3. CASE /\ pc' = IF job.total > 0 THEN "checker" ELSE "final"
             /\ UNCHANGED verdict
             /\ UNCHANGED <<job, dir, offset, case_vars, loop_vars>>
    <2> USE <1>3 DEF IndInv, PrepareCommand
    <2>1. Running = {} /\ Running' = {}
      BY DEF RunningInv, Running, case_vars
    <2>2. TypeOK'
      BY <1>1 DEF TypeOK, States, case_vars, loop_vars
    <2>3. DirInv' /\ RunningInv'
      BY <2>1 DEF DirInv, RunningInv, case_vars, loop_vars
    <2>4. BatchInv'
      BY JobFacts DEF BatchInv, InBatch, TypeOK, case_vars, loop_vars
    <2>5. TimeoutsConfirmed'
      BY DEF TimeoutsConfirmed, Parallel, case_vars, loop_vars
    <2>6. VerdictInv' /\ AcceptedMeansAll'
      BY <2>1 DEF VerdictInv, AcceptedMeansAll, NoVerdict, case_vars, loop_vars
    <2> QED BY <2>2, <2>3, <2>4, <2>5, <2>6
  <1>4. CASE /\ \E s \in EarlyStatuses \cup {"raised"} : Leave(Verdict(s, 0, None))
             /\ UNCHANGED <<job, dir, offset, case_vars, loop_vars>>
    <2>1. PICK s \in EarlyStatuses \cup {"raised"} : Leave(Verdict(s, 0, None))
      BY <1>4
    <2>2. s \in VerdictStatuses /\ s # "accepted"
      BY DEF VerdictStatuses, EarlyStatuses
    <2> QED BY <1>1, <1>4, <2>1, <2>2, LeaveInv DEF PrepareCommand
  <1> QED BY <1>2, <1>3, <1>4 DEF PrepareCommand, Raised

LEMMA RunFinalInv == ASSUME IndInv, RunFinal PROVE IndInv'
PROOF
  <1>1. progress' \in Nat \cup {None}
    BY DEF RunFinal, IndInv, TypeOK
  <1>2. PICK s \in CaseStatuses \cup {"raised"}, t \in Runtimes \cup {None} :
          Leave(Verdict(s, 0, t))
    BY DEF RunFinal, Raised
  <1>3. s \in VerdictStatuses
    BY DEF VerdictStatuses
  <1>4. Running = {}
    BY DEF RunFinal, IndInv, RunningInv
  <1> QED BY <1>1, <1>2, <1>3, <1>4, LeaveInv DEF RunFinal, IndInv, BatchInv, Positions

LEMMA PrepareCheckerInv == ASSUME IndInv, PrepareChecker PROVE IndInv'
PROOF
  <1>1. progress' \in Nat \cup {None}
    BY DEF PrepareChecker, IndInv, TypeOK
  <1>2. CASE pc' = "dispatch" /\ UNCHANGED verdict
    <2> USE <1>2 DEF IndInv, PrepareChecker
    <2>1. Running = {} /\ Running' = {}
      BY DEF RunningInv, Running, case_vars
    <2>2. TypeOK'
      BY <1>1 DEF TypeOK, States, case_vars, loop_vars
    <2>3. DirInv' /\ RunningInv'
      BY <2>1 DEF DirInv, RunningInv, case_vars, loop_vars
    <2>4. BatchInv'
      BY JobFacts DEF BatchInv, InBatch, TypeOK, case_vars, loop_vars
    <2>5. TimeoutsConfirmed'
      BY DEF TimeoutsConfirmed, Parallel, case_vars, loop_vars
    <2>6. VerdictInv' /\ AcceptedMeansAll'
      BY <2>1 DEF VerdictInv, AcceptedMeansAll, NoVerdict, case_vars, loop_vars
    <2> QED BY <2>2, <2>3, <2>4, <2>5, <2>6
  <1>3. CASE \E s \in {"system_error", "raised"} : Leave(Verdict(s, 0, None))
    <2>1. PICK s \in {"system_error", "raised"} : Leave(Verdict(s, 0, None))
      BY <1>3
    <2>2. s \in VerdictStatuses /\ s # "accepted"
      BY DEF VerdictStatuses, EarlyStatuses
    <2> QED BY <1>1, <2>1, <2>2, LeaveInv DEF PrepareChecker
  <1> QED BY <1>2, <1>3 DEF PrepareChecker, Raised

LEMMA StartBatchInv == ASSUME IndInv, StartBatch PROVE IndInv'
PROOF
  <1> USE DEF IndInv
  <1>1. pc = "dispatch" /\ pc' = "collecting" /\ dir = "present" /\ Running = {}
    BY DEF StartBatch, DirInv, RunningInv
  <1>2. job' = job /\ offset' = offset /\ settled' = settled /\ result' = result
        /\ verdict' = verdict /\ firstFailure' = firstFailure
    BY DEF StartBatch, loop_vars
  <1>3. CurrentBatch' = CurrentBatch /\ CurrentBatch \subseteq Cases
        /\ \A i \in CurrentBatch : offset < i /\ i <= offset + Workers(job)
    BY <1>2, JobFacts, BatchFacts DEF CurrentBatch, TypeOK
  <1>4. \A i \in CurrentBatch : runs[i] = 0 /\ i \notin settled
    BY <1>1, <1>3 DEF BatchInv
  <1>5. /\ \A i \in CurrentBatch : run'[i] = "running" /\ runs'[i] = 1
        /\ \A i \in Cases \ CurrentBatch : run'[i] = run[i] /\ runs'[i] = runs[i]
    BY <1>3, <1>4 DEF StartBatch, TypeOK
  <1>6. Running' = CurrentBatch
    BY <1>1, <1>3, <1>5 DEF Running
  <1>7. TypeOK'
    <2>1. run' \in [Cases -> {"idle", "running", "returned", "raised", "collected"}]
      BY DEF StartBatch, TypeOK
    <2>2. runs' \in [Cases -> 0..2]
      <3>1. runs' = [i \in Cases |-> IF i \in CurrentBatch THEN runs[i] + 1 ELSE runs[i]]
        BY DEF StartBatch
      <3>2. \A i \in Cases : (IF i \in CurrentBatch THEN runs[i] + 1 ELSE runs[i]) \in 0..2
        BY <1>4 DEF TypeOK
      <3> QED BY <3>1, <3>2
    <2> QED BY <2>1, <2>2 DEF StartBatch, TypeOK, States, loop_vars
  <1>8. DirInv'
    BY <1>1 DEF DirInv, StartBatch
  <1>9. RunningInv'
    BY <1>1, <1>2, <1>3, <1>4, <1>5, <1>6 DEF RunningInv
  <1>10. BatchInv'
    <2>1. \A i \in Cases : i > offset + Workers(job) => runs[i] = 0 /\ i \notin settled
      BY <1>1, JobFacts DEF BatchInv, TypeOK, Cases
    <2>2. \A i \in settled : i \in Cases \ CurrentBatch
      BY <1>4, JobFacts DEF TypeOK
    <2>3. \A i \in Cases : i > offset + Workers(job) => i \notin CurrentBatch
      BY <1>3, JobFacts DEF TypeOK, Cases
    <2> QED BY <1>1, <1>2, <1>3, <1>4, <1>5, <2>1, <2>2, <2>3 DEF BatchInv, InBatch, Workers, Positions
  <1>11. TimeoutsConfirmed'
    BY <1>2, <1>4, <1>5, JobFacts DEF TimeoutsConfirmed, Parallel, TypeOK, Workers
  <1>12. VerdictInv' /\ AcceptedMeansAll'
    BY <1>1, <1>2 DEF VerdictInv, AcceptedMeansAll, NoVerdict
  <1> QED BY <1>7, <1>8, <1>9, <1>10, <1>11, <1>12

LEMMA FinishInv == ASSUME IndInv, Finish PROVE IndInv'
PROOF
  <1> USE DEF IndInv
  <1>1. pc = "dispatch" /\ Running = {}
    BY DEF Finish, RunningInv
  <1>2. progress' \in Nat \cup {None}
    BY DEF Finish, TypeOK
  <1>3. UNCHANGED <<job, dir, offset, case_vars, loop_vars>>
    BY DEF Finish
  <1>4. maxRuntime \in Runtimes \cup {None}
    BY DEF TypeOK
  <1>5. CASE firstFailure = 0
    <2>1. Leave(Verdict("accepted", 0, maxRuntime))
      BY <1>5 DEF Finish
    <2>2. \A i \in Positions(job) : i \in settled
      BY <1>1, JobFacts DEF Finish, BatchInv, TypeOK, Positions
    <2>3. \A i \in Positions(job) :
            runs[i] > 0 /\ run[i] = "collected" /\ result[i].status = "accepted"
      <3> TAKE i \in Positions(job)
      <3>1. i \in settled /\ i \in Cases
        BY <2>2, JobFacts DEF TypeOK
      <3>2. runs[i] \in 0..2
        BY <3>1 DEF TypeOK
      <3> QED BY <1>1, <1>5, <3>1, <3>2 DEF VerdictInv, BatchInv
    <2>4. "accepted" \in VerdictStatuses /\ 0 \in {0} \cup Cases
      BY DEF VerdictStatuses, CaseStatuses
    <2> QED BY <1>1, <1>2, <1>3, <1>4, <2>1, <2>3, <2>4, LeaveInv
  <1>6. CASE firstFailure # 0
    <2>1. Leave(Verdict(result[firstFailure].status, firstFailure, maxRuntime))
      BY <1>6 DEF Finish
    <2>2. firstFailure \in Cases /\ firstFailure \in settled
      BY <1>1, <1>6, JobFacts DEF TypeOK, VerdictInv
    <2>3. result[firstFailure].status \in CaseStatuses \cup {"none"}
          /\ result[firstFailure].status # "accepted"
      BY <1>1, <1>6, <2>2 DEF TypeOK, Result, NoResult, VerdictInv
    <2>4. result[firstFailure].status \in CaseStatuses
      <3>1. result[firstFailure] \in Result
        BY <2>2 DEF BatchInv
      <3> QED BY <3>1 DEF Result
    <2> QED BY <1>1, <1>2, <1>3, <1>4, <2>1, <2>2, <2>3, <2>4, LeaveInv DEF VerdictStatuses
  <1> QED BY <1>5, <1>6

\* A run that ends leaves a well-typed result and output.
LEMMA EndsRunType ==
  ASSUME IndInv, NEW i \in Cases, EndsRun(i)
  PROVE  /\ result' \in [Cases -> Result \cup {NoResult}]
         /\ result'[i] \in Result
         /\ \A k \in Cases \ {i} : result'[k] = result[k]
         /\ slot' \in [Cases -> Outputs]
PROOF
  <1> USE DEF IndInv, TypeOK
  <1>1. CASE BreaksRun(i)
    <2>1. [status |-> "system_error", runtime |-> None] \in Result
      BY DEF Result, CaseStatuses
    <2> QED BY <1>1, <2>1 DEF BreaksRun
  <1>2. CASE \E status \in CaseStatuses \ {"system_error"}, t \in Runtimes \cup {None},
                size \in OutputSizes :
               CompletesRun(i, status, t, size)
    <2>1. PICK status \in CaseStatuses \ {"system_error"}, t \in Runtimes \cup {None},
               size \in OutputSizes :
            CompletesRun(i, status, t, size)
      BY <1>2
    <2>2. [status |-> status, runtime |-> t] \in Result
      BY DEF Result
    <2>3. result' = [result EXCEPT ![i] = [status |-> status, runtime |-> t]]
      BY <2>1 DEF CompletesRun
    <2>4. Captured(size) \in Nat /\ size \in Nat
      BY CaseJudgingAssumption DEF Captured, Least
    <2>5. [run |-> runs[i], kept |-> Captured(size), size |-> size] \in Outputs
      BY <2>4 DEF Outputs
    <2> QED BY <2>1, <2>2, <2>3, <2>5 DEF CompletesRun
  <1> QED BY <1>1, <1>2 DEF EndsRun

LEMMA CaseReturnsInv ==
  ASSUME IndInv, NEW i \in Cases, CaseReturns(i) PROVE IndInv'
PROOF
  <1> USE DEF IndInv
  <1>1. i \in Running /\ i \notin settled /\ Running' = Running \ {i}
    BY DEF CaseReturns, RunningInv, Running, TypeOK
  <1>2. UNCHANGED <<job, pc, dir, offset, runs, loop_vars, progress, verdict>>
        /\ run' = [run EXCEPT ![i] = "returned"] /\ pc \in {"collecting", "unwinding"}
    BY DEF CaseReturns
  <1>3. /\ result' \in [Cases -> Result \cup {NoResult}]
        /\ result'[i] \in Result
        /\ \A k \in Cases \ {i} : result'[k] = result[k]
        /\ slot' \in [Cases -> Outputs]
    BY EndsRunType DEF CaseReturns
  <1>4. TypeOK'
    BY <1>2, <1>3 DEF TypeOK, loop_vars
  <1>5. DirInv' /\ RunningInv'
    BY <1>1, <1>2 DEF DirInv, RunningInv, CurrentBatch, loop_vars
  <1>6. BatchInv'
    BY <1>1, <1>2, <1>3, JobFacts DEF BatchInv, InBatch, CurrentBatch, TypeOK, loop_vars
  <1>7. TimeoutsConfirmed'
    BY <1>1, <1>2, <1>3, JobFacts DEF TimeoutsConfirmed, Parallel, TypeOK, loop_vars
  <1>8. VerdictInv' /\ AcceptedMeansAll'
    BY <1>1, <1>2, <1>3, JobFacts
    DEF VerdictInv, AcceptedMeansAll, NoVerdict, TypeOK, loop_vars
  <1> QED BY <1>4, <1>5, <1>6, <1>7, <1>8

LEMMA CaseRaisesInv ==
  ASSUME IndInv, NEW i \in Cases, CaseRaises(i) PROVE IndInv'
PROOF
  <1> USE DEF IndInv
  <1>1. i \in Running /\ i \notin settled /\ Running' = Running \ {i}
    BY DEF CaseRaises, RunningInv, Running, TypeOK
  <1>2. UNCHANGED <<job, pc, dir, offset, runs, result, slot, loop_vars, progress, verdict>>
        /\ run' = [run EXCEPT ![i] = "raised"] /\ pc \in {"collecting", "unwinding"}
    BY DEF CaseRaises
  <1>3. TypeOK'
    BY <1>2 DEF TypeOK, loop_vars
  <1>4. DirInv' /\ RunningInv'
    BY <1>1, <1>2 DEF DirInv, RunningInv, CurrentBatch, loop_vars
  <1>5. BatchInv'
    BY <1>1, <1>2, JobFacts DEF BatchInv, InBatch, CurrentBatch, TypeOK, loop_vars
  <1>6. TimeoutsConfirmed'
    BY <1>1, <1>2 DEF TimeoutsConfirmed, Parallel, TypeOK, loop_vars
  <1>7. VerdictInv' /\ AcceptedMeansAll'
    BY <1>1, <1>2, JobFacts DEF VerdictInv, AcceptedMeansAll, NoVerdict, TypeOK, loop_vars
  <1> QED BY <1>3, <1>4, <1>5, <1>6, <1>7

\* The collected case leaves its batch complete, or waiting for the others.
LEMMA CollectInv ==
  ASSUME IndInv, NEW i \in Cases, Collect(i) PROVE IndInv'
PROOF
  <1> USE DEF IndInv
  <1>1. CASE CallbackRaises
    BY <1>1, CallbackRaisesInv DEF Collect
  <1>2. CASE /\ run' = [run EXCEPT ![i] = "collected"]
             /\ completed' = completed + 1
             /\ progress' = IF Parallel /\ ~CollectAll(job) THEN CompletedCount ELSE progress
             /\ pc' = IF \A k \in CurrentBatch \ {i} : run[k] = "collected"
                      THEN "settling" ELSE "collecting"
             /\ UNCHANGED <<job, dir, offset, runs, result, slot, settled, maxRuntime,
                            firstFailure, budget, observations, verdict>>
    <2> USE <1>2
    <2>1. pc = "collecting" /\ run[i] = "returned" /\ Running' = Running
      BY DEF Collect, Running, TypeOK
    <2>2. TypeOK'
      BY <2>1 DEF TypeOK, States, CompletedCount
    <2>3. DirInv'
      BY <2>1 DEF DirInv
    <2>4. pc' = "settling" => Running = {}
      BY <2>1 DEF RunningInv, Running
    <2>5. RunningInv'
      BY <2>1, <2>4 DEF RunningInv, CurrentBatch
    <2>6. BatchInv'
      BY <2>1, JobFacts, BatchFacts DEF BatchInv, InBatch, CurrentBatch, TypeOK
    <2>7. TimeoutsConfirmed'
      BY DEF TimeoutsConfirmed, Parallel
    <2>8. VerdictInv' /\ AcceptedMeansAll'
      BY <2>1 DEF VerdictInv, AcceptedMeansAll, NoVerdict
    <2> QED BY <2>2, <2>3, <2>5, <2>6, <2>7, <2>8
  <1> QED BY <1>1, <1>2 DEF Collect

LEMMA CollectRaisedInv ==
  ASSUME IndInv, NEW i \in Cases, CollectRaised(i) PROVE IndInv'
PROOF
  <1>1. CallbackRaises
    BY DEF CollectRaised, CallbackRaises
  <1> QED BY <1>1, CallbackRaisesInv DEF CollectRaised

LEMMA BeginConfirmationInv ==
  ASSUME IndInv, NEW i \in Cases, BeginConfirmation(i) PROVE IndInv'
PROOF
  <1> USE DEF IndInv
  <1>1. /\ pc = "settling" /\ pc' = "confirming" /\ Running = {}
        /\ i \in CurrentBatch /\ i \notin settled /\ runs[i] = 1
        /\ UNCHANGED <<job, dir, offset, result, slot, loop_vars, progress, verdict>>
    BY DEF BeginConfirmation, IsNext, NeedsConfirmation, RunningInv
  <1>2. /\ run' = [run EXCEPT ![i] = "running"]
        /\ runs' = [runs EXCEPT ![i] = 2]
    BY <1>1 DEF BeginConfirmation, TypeOK
  <1>3. Running' = {i}
    BY <1>1, <1>2 DEF Running, TypeOK
  <1>4. TypeOK'
    BY <1>1, <1>2 DEF TypeOK, States, loop_vars
  <1>5. DirInv' /\ RunningInv'
    BY <1>1, <1>2, <1>3 DEF DirInv, RunningInv, CurrentBatch, TypeOK, loop_vars
  <1>6. BatchInv'
    BY <1>1, <1>2, JobFacts, BatchFacts DEF BatchInv, InBatch, CurrentBatch, TypeOK, Cases, loop_vars
  <1>7. TimeoutsConfirmed'
    BY <1>1, <1>2, JobFacts DEF TimeoutsConfirmed, Parallel, TypeOK, loop_vars
  <1>8. VerdictInv' /\ AcceptedMeansAll'
    BY <1>1 DEF VerdictInv, AcceptedMeansAll, NoVerdict, loop_vars
  <1> QED BY <1>4, <1>5, <1>6, <1>7, <1>8

LEMMA ConfirmInv ==
  ASSUME IndInv, NEW i \in Cases, Confirm(i) PROVE IndInv'
PROOF
  <1> USE DEF IndInv
  <1>1. /\ pc = "confirming" /\ Running = {i} /\ runs[i] = 2 /\ i \in CurrentBatch
        /\ i \notin settled /\ Running' = {}
        /\ UNCHANGED <<job, dir, offset, runs, loop_vars, progress>>
    <2>1. /\ pc = "confirming" /\ run[i] = "running"
          /\ UNCHANGED <<job, dir, offset, runs, loop_vars, progress>>
      BY DEF Confirm
    <2>2. PICK k \in CurrentBatch : Running = {k} /\ runs[k] = 2
      BY <2>1 DEF RunningInv
    <2>3. k = i /\ i \in Running
      BY <2>1, <2>2 DEF Running
    <2>4. i \notin settled
      BY <2>3 DEF RunningInv
    <2>5. run' = [run EXCEPT ![i] = "collected"] \/ run' = [run EXCEPT ![i] = "raised"]
      BY DEF Confirm
    <2>6. Running' = {}
      BY <2>2, <2>3, <2>5 DEF Running, TypeOK
    <2> QED BY <2>1, <2>2, <2>3, <2>4, <2>6
  <1>2. CASE EndsRun(i) /\ run' = [run EXCEPT ![i] = "collected"] /\ pc' = "settling"
             /\ UNCHANGED verdict
    <2>1. /\ result' \in [Cases -> Result \cup {NoResult}]
          /\ result'[i] \in Result
          /\ \A k \in Cases \ {i} : result'[k] = result[k]
          /\ slot' \in [Cases -> Outputs]
      BY <1>2, EndsRunType
    <2>2. TypeOK'
      BY <1>1, <1>2, <2>1 DEF TypeOK, States, loop_vars
    <2>3. DirInv' /\ RunningInv'
      BY <1>1, <1>2 DEF DirInv, RunningInv, loop_vars
    <2>4. BatchInv'
      <3>1. \A k \in CurrentBatch \ {i} : run[k] = "collected"
        BY <1>1, JobFacts, BatchFacts DEF BatchInv, Running, TypeOK
      <3> QED BY <1>1, <1>2, <2>1, <3>1, JobFacts, BatchFacts
              DEF BatchInv, InBatch, CurrentBatch, TypeOK, loop_vars
    <2>5. TimeoutsConfirmed'
      BY <1>1, <2>1, JobFacts DEF TimeoutsConfirmed, Parallel, TypeOK, loop_vars
    <2>6. VerdictInv' /\ AcceptedMeansAll'
      BY <1>1, <1>2, <2>1, JobFacts
      DEF VerdictInv, AcceptedMeansAll, NoVerdict, TypeOK, loop_vars
    <2> QED BY <2>2, <2>3, <2>4, <2>5, <2>6
  <1>3. CASE run' = [run EXCEPT ![i] = "raised"] /\ Leave(Raised) /\ UNCHANGED <<result, slot>>
    <2>1. pc' = "unwinding" /\ verdict' = Raised /\ dir = "present"
      BY <1>1, <1>3 DEF Leave, DirInv
    <2>2. TypeOK'
      BY <1>1, <1>3, <2>1 DEF TypeOK, States, Raised, Verdict, VerdictStatuses, loop_vars
    <2>3. DirInv' /\ RunningInv'
      BY <1>1, <2>1 DEF DirInv, RunningInv, loop_vars
    <2>4. BatchInv'
      BY <1>1, <1>3, <2>1 DEF BatchInv, InBatch, TypeOK, loop_vars
    <2>5. TimeoutsConfirmed'
      BY <1>1, <1>3 DEF TimeoutsConfirmed, Parallel, loop_vars
    <2>6. VerdictInv' /\ AcceptedMeansAll'
      BY <1>1, <2>1 DEF VerdictInv, AcceptedMeansAll, Raised, Verdict, loop_vars
    <2> QED BY <2>2, <2>3, <2>4, <2>5, <2>6
  <1> QED BY <1>2, <1>3 DEF Confirm

\* What settling a case does to the parts of the invariant it can disturb.
LEMMA SettlesFacts ==
  ASSUME IndInv, NEW i \in Cases, Settles(i)
  PROVE  /\ pc = "settling" /\ Running = {} /\ dir = "present"
         /\ i \in CurrentBatch /\ i \in Positions(job) /\ i \notin settled
         /\ run[i] = "collected" /\ runs[i] # 0
         /\ result[i] \in Result /\ result[i].status \in CaseStatuses
         /\ Parallel /\ result[i].status = "time_limit_exceeded" => runs[i] = 2
         /\ maxRuntime' \in Runtimes \cup {None}
         /\ settled' = settled \cup {i} /\ settled' \subseteq Positions(job)
PROOF
  <1> USE DEF IndInv
  <1>1. pc = "settling" /\ Running = {} /\ dir = "present"
        /\ i \in CurrentBatch /\ i \notin settled /\ settled' = settled \cup {i}
    BY DEF Settles, IsNext, RunningInv, DirInv
  <1>2. i \in Positions(job)
    BY <1>1, JobFacts, BatchFacts DEF TypeOK
  <1>3. run[i] = "collected" /\ runs[i] # 0 /\ result[i] \in Result
    BY <1>1 DEF BatchInv, InBatch
  <1>4. result[i].status \in CaseStatuses /\ result[i].runtime \in Runtimes \cup {None}
    BY <1>3 DEF Result
  <1>5. Parallel /\ result[i].status = "time_limit_exceeded" => runs[i] = 2
    BY <1>3 DEF Settles, NeedsConfirmation, TypeOK
  <1>6. maxRuntime' \in Runtimes \cup {None}
    BY <1>4 DEF Settles, MaxMetric, TypeOK
  <1> QED BY <1>1, <1>2, <1>3, <1>4, <1>5, <1>6 DEF TypeOK

\* observe() lowers the budget by what it saves, never below zero.
LEMMA ObservationType ==
  ASSUME IndInv, NEW i \in Positions(job), result[i].status \in CaseStatuses
  PROVE  /\ Observation(i) \in [case : Cases, status : CaseStatuses, run : 0..2, saved : Nat,
                                size : Nat, truncated : BOOLEAN]
         /\ budget - Observation(i).saved \in Nat
PROOF
  <1>1. /\ i \in Cases /\ slot[i] \in Outputs /\ budget \in Nat
    BY JobFacts DEF IndInv, TypeOK
  <1>2. /\ slot[i].run \in 0..2 /\ slot[i].kept \in Nat /\ slot[i].size \in Nat
    BY <1>1 DEF Outputs
  <1>3. /\ Least(slot[i].kept, budget) \in Nat
        /\ budget - Least(slot[i].kept, budget) \in Nat
    BY <1>1, <1>2 DEF Least
  <1> QED BY <1>1, <1>2, <1>3 DEF Observation

LEMMA ObserveCaseInv ==
  ASSUME IndInv, NEW i \in Cases, ObserveCase(i) PROVE IndInv'
PROOF
  <1> USE DEF IndInv
  <1>1. CASE ObserveRaises(i)
    BY <1>1, CallbackRaisesInv DEF ObserveRaises, IsNext
  <1>2. CASE Observes(i)
    <2> USE <1>2 DEF Observes
    <2>1. /\ pc = "settling" /\ Running = {} /\ Running' = {} /\ dir = "present"
          /\ i \in CurrentBatch /\ i \in Positions(job) /\ i \notin settled
          /\ run[i] = "collected" /\ runs[i] # 0 /\ result[i].status \in CaseStatuses
          /\ Parallel /\ result[i].status = "time_limit_exceeded" => runs[i] = 2
          /\ maxRuntime' \in Runtimes \cup {None}
          /\ settled' = settled \cup {i} /\ settled' \subseteq Positions(job)
      BY SettlesFacts DEF Running
    <2>2. TypeOK'
      <3>1. slot' \in [Cases -> Outputs]
        BY DEF TypeOK, NoOutput, Outputs
      <3>2. /\ observations' \in
                 Seq([case : Cases, status : CaseStatuses, run : 0..2, saved : Nat,
                      size : Nat, truncated : BOOLEAN])
            /\ progress' \in Nat
            /\ budget' \in Nat
        BY <2>1, ObservationType DEF TypeOK
      <3> QED BY <2>1, <3>1, <3>2 DEF TypeOK
    <2>3. DirInv' /\ RunningInv'
      BY <2>1 DEF DirInv, RunningInv
    <2>4. BatchInv'
      BY <2>1, JobFacts, BatchFacts DEF BatchInv, InBatch, CurrentBatch, TypeOK, Cases
    <2>5. TimeoutsConfirmed'
      BY <2>1 DEF TimeoutsConfirmed, Parallel
    <2>6. VerdictInv' /\ AcceptedMeansAll'
      BY <2>1 DEF VerdictInv, AcceptedMeansAll, NoVerdict, TypeOK, Positions
    <2> QED BY <2>2, <2>3, <2>4, <2>5, <2>6
  <1> QED BY <1>1, <1>2 DEF ObserveCase

LEMMA PassCaseInv ==
  ASSUME IndInv, NEW i \in Cases, PassCase(i) PROVE IndInv'
PROOF
  <1> USE DEF IndInv
  <1>1. CASE IsNext(i) /\ CallbackRaises
    BY <1>1, CallbackRaisesInv DEF IsNext
  <1>2. CASE /\ Settles(i)
             /\ progress' = IF Parallel THEN progress ELSE completed
             /\ UNCHANGED <<job, pc, dir, offset, case_vars, completed, firstFailure,
                            budget, observations, verdict>>
    <2> USE <1>2
    <2>1. /\ pc = "settling" /\ Running = {} /\ Running' = {} /\ dir = "present"
          /\ i \in CurrentBatch /\ i \in Positions(job) /\ i \notin settled
          /\ run[i] = "collected" /\ runs[i] # 0 /\ result[i].status = "accepted"
          /\ maxRuntime' \in Runtimes \cup {None}
          /\ settled' = settled \cup {i} /\ settled' \subseteq Positions(job)
      BY SettlesFacts DEF Running, PassCase, case_vars
    <2>2. TypeOK'
      BY <2>1 DEF TypeOK, case_vars
    <2>3. DirInv' /\ RunningInv'
      BY <2>1 DEF DirInv, RunningInv, case_vars
    <2>4. BatchInv'
      BY <2>1, JobFacts, BatchFacts DEF BatchInv, InBatch, CurrentBatch, TypeOK, Cases, case_vars
    <2>5. TimeoutsConfirmed'
      BY <2>1 DEF TimeoutsConfirmed, Parallel, case_vars
    <2>6. VerdictInv' /\ AcceptedMeansAll'
      BY <2>1 DEF VerdictInv, AcceptedMeansAll, NoVerdict, TypeOK, Positions, case_vars
    <2> QED BY <2>2, <2>3, <2>4, <2>5, <2>6
  <1> QED BY <1>1, <1>2 DEF PassCase

LEMMA FailCaseInv ==
  ASSUME IndInv, NEW i \in Cases, FailCase(i) PROVE IndInv'
PROOF
  <1> USE DEF IndInv
  <1>1. /\ pc = "settling" /\ Running = {} /\ Running' = {} /\ dir = "present"
        /\ i \in Positions(job) /\ run[i] = "collected" /\ runs[i] # 0
        /\ result[i].status \in CaseStatuses /\ result[i].status # "accepted"
        /\ result[i] \in Result
        /\ Parallel /\ result[i].status = "time_limit_exceeded" => runs[i] = 2
        /\ maxRuntime' \in Runtimes \cup {None}
        /\ settled' = settled \cup {i} /\ settled' \subseteq Positions(job)
    BY SettlesFacts DEF FailCase, Running, case_vars
  <1>2. pc' = "unwinding"
        /\ verdict' = [status |-> result[i].status, case |-> i, runtime |-> maxRuntime']
        /\ UNCHANGED <<job, dir, offset, case_vars, completed, firstFailure, budget,
                       observations, progress>>
    BY DEF FailCase, Leave, Verdict
  <1>3. TypeOK'
    BY <1>1, <1>2 DEF TypeOK, States, VerdictStatuses, case_vars
  <1>4. DirInv' /\ RunningInv'
    BY <1>1, <1>2 DEF DirInv, RunningInv
  <1>5. BatchInv'
    BY <1>1, <1>2 DEF BatchInv, InBatch, case_vars
  <1>6. TimeoutsConfirmed'
    BY <1>1, <1>2 DEF TimeoutsConfirmed, Parallel, case_vars
  <1>7. VerdictInv' /\ AcceptedMeansAll'
    BY <1>1, <1>2 DEF VerdictInv, AcceptedMeansAll
  <1> QED BY <1>3, <1>4, <1>5, <1>6, <1>7

LEMMA EndBatchInv == ASSUME IndInv, EndBatch PROVE IndInv'
PROOF
  <1> USE DEF IndInv
  <1>1. /\ pc = "settling" /\ pc' = "dispatch" /\ Running = {} /\ Running' = {}
        /\ offset' = offset + Workers(job) /\ CurrentBatch \subseteq settled
        /\ UNCHANGED <<job, dir, case_vars, loop_vars, progress, verdict>>
    BY DEF EndBatch, RunningInv, Running, case_vars
  <1>2. TypeOK'
    BY <1>1, JobFacts DEF TypeOK, States, case_vars, loop_vars
  <1>3. DirInv' /\ RunningInv'
    BY <1>1 DEF DirInv, RunningInv, loop_vars
  <1>4. BatchInv'
    <2>1. \A k \in Positions(job) : k <= offset + Workers(job) => k \in settled
      BY <1>1, JobFacts, BatchFacts DEF BatchInv, InBatch, TypeOK, Positions
    <2> QED BY <1>1, <2>1 DEF BatchInv, InBatch, case_vars, loop_vars
  <1>5. TimeoutsConfirmed'
    BY <1>1 DEF TimeoutsConfirmed, Parallel, case_vars, loop_vars
  <1>6. VerdictInv' /\ AcceptedMeansAll'
    BY <1>1 DEF VerdictInv, AcceptedMeansAll, NoVerdict, case_vars, loop_vars
  <1> QED BY <1>2, <1>3, <1>4, <1>5, <1>6

LEMMA RemoveJobDirInv == ASSUME IndInv, RemoveJobDir PROVE IndInv'
PROOF
  <1> USE DEF IndInv
  <1>1. /\ pc = "unwinding" /\ pc' = "done" /\ Running = {} /\ Running' = {}
        /\ dir' \in {"absent", "stale"}
        /\ UNCHANGED <<job, offset, case_vars, loop_vars, progress, verdict>>
    BY DEF RemoveJobDir, Running, case_vars
  <1>2. TypeOK'
    BY <1>1 DEF TypeOK, States, case_vars, loop_vars
  <1>3. DirInv' /\ RunningInv'
    BY <1>1 DEF DirInv, RunningInv
  <1>4. BatchInv'
    BY <1>1 DEF BatchInv, InBatch, case_vars, loop_vars
  <1>5. TimeoutsConfirmed'
    BY <1>1 DEF TimeoutsConfirmed, Parallel, case_vars, loop_vars
  <1>6. VerdictInv' /\ AcceptedMeansAll'
    BY <1>1 DEF VerdictInv, AcceptedMeansAll, case_vars, loop_vars
  <1> QED BY <1>2, <1>3, <1>4, <1>5, <1>6

LEMMA StutterInv == ASSUME IndInv, UNCHANGED vars PROVE IndInv'
PROOF
  <1> USE DEF IndInv, vars
  <1>1. Running' = Running
    BY DEF Running, case_vars
  <1>2. TypeOK' /\ DirInv'
    BY DEF TypeOK, DirInv, case_vars, loop_vars
  <1>3. RunningInv' /\ BatchInv'
    BY <1>1 DEF RunningInv, BatchInv, InBatch, CurrentBatch, case_vars, loop_vars
  <1>4. TimeoutsConfirmed' /\ VerdictInv' /\ AcceptedMeansAll'
    BY <1>1 DEF TimeoutsConfirmed, VerdictInv, AcceptedMeansAll, Parallel, case_vars, loop_vars
  <1> QED BY <1>2, <1>3, <1>4

-----------------------------------------------------------------------------
\* Every step of every thread preserves the invariant.
LEMMA NextIndInv == IndInv /\ [Next]_vars => IndInv'
PROOF
  <1> SUFFICES ASSUME IndInv, [Next]_vars PROVE IndInv'
    OBVIOUS
  <1>1. CASE OpenJobDir  BY <1>1, OpenJobDirInv
  <1>2. CASE PrepareCommand  BY <1>2, PrepareCommandInv
  <1>3. CASE RunFinal  BY <1>3, RunFinalInv
  <1>4. CASE PrepareChecker  BY <1>4, PrepareCheckerInv
  <1>5. CASE StartBatch  BY <1>5, StartBatchInv
  <1>6. CASE Finish  BY <1>6, FinishInv
  <1>7. CASE EndBatch  BY <1>7, EndBatchInv
  <1>8. CASE RemoveJobDir  BY <1>8, RemoveJobDirInv
  <1>9. ASSUME NEW i \in Cases,
               \/ Collect(i) \/ CollectRaised(i)
               \/ BeginConfirmation(i) \/ Confirm(i)
               \/ ObserveCase(i) \/ PassCase(i) \/ FailCase(i)
        PROVE  IndInv'
    BY <1>9, CollectInv, CollectRaisedInv, BeginConfirmationInv, ConfirmInv, ObserveCaseInv,
       PassCaseInv, FailCaseInv
  <1>10. ASSUME NEW i \in Cases, Worker(i) PROVE IndInv'
    BY <1>10, CaseReturnsInv, CaseRaisesInv DEF Worker
  <1>11. CASE Terminated \/ UNCHANGED vars
    BY <1>11, StutterInv DEF Terminated
  <1> QED BY <1>1, <1>2, <1>3, <1>4, <1>5, <1>6, <1>7, <1>8, <1>9, <1>10, <1>11
          DEF Next, CallingThread

LEMMA SpecIndInv == Spec => []IndInv
PROOF BY InitIndInv, NextIndInv, PTL DEF Spec

\* Every variable of the judging of a job stays in its range, and no testcase
\* is ever started a third time (app/executor.py:290-445).
THEOREM TypeCorrect == Spec => []TypeOK
PROOF
  <1>1. IndInv => TypeOK  BY DEF IndInv
  <1> QED BY <1>1, SpecIndInv, PTL

\* However judge() is left - verdict, early return, exception in a worker, in a
\* callback or in a confirmation - its working directory is only removed when
\* no program of the job is running (app/executor.py:159-161, 378).
THEOREM DirectoryOutlivesRuns == Spec => []WorkdirOutlivesRuns
PROOF
  <1>1. IndInv => WorkdirOutlivesRuns
    BY DEF IndInv, DirInv, RunningInv, WorkdirOutlivesRuns
  <1> QED BY <1>1, SpecIndInv, PTL

\* A time limit exceeded in a parallel batch counts only after a second run
\* (app/executor.py:408-432).
THEOREM TimeoutsAreConfirmed == Spec => []TimeoutsConfirmed
PROOF
  <1>1. IndInv => TimeoutsConfirmed  BY DEF IndInv
  <1> QED BY <1>1, SpecIndInv, PTL

\* The second run of a case is the only run of the job at that time.
THEOREM SecondRunsAreAlone == Spec => []ConfirmedAlone
PROOF
  <1>1. IndInv => ConfirmedAlone
    BY DEF IndInv, RunningInv, ConfirmedAlone
  <1> QED BY <1>1, SpecIndInv, PTL

\* A job is only accepted when the last run of each of its cases was accepted,
\* whatever the order of the list, the batches and the completions.
THEOREM AcceptedIsComplete == Spec => []AcceptedMeansAll
PROOF
  <1>1. IndInv => AcceptedMeansAll  BY DEF IndInv
  <1> QED BY <1>1, SpecIndInv, PTL

\* A step that starts a run starts it for one of two reasons.
LEMMA RunStarts ==
  ASSUME IndInv, [Next]_vars, NEW i \in Cases, runs'[i] # runs[i]
  PROVE  \/ StartBatch /\ i \in CurrentBatch
         \/ BeginConfirmation(i)
PROOF
  <1>1. runs \in [Cases -> 0..2]  BY DEF IndInv, TypeOK
  <1>2. CASE StartBatch
    BY <1>1, <1>2 DEF StartBatch
  <1>3. ASSUME NEW k \in Cases, BeginConfirmation(k) PROVE BeginConfirmation(i)
    BY <1>1, <1>3 DEF BeginConfirmation
  <1>4. CASE OpenJobDir \/ PrepareCommand \/ RunFinal \/ PrepareChecker \/ Finish
             \/ EndBatch \/ RemoveJobDir \/ Terminated \/ UNCHANGED vars
    BY <1>4 DEF OpenJobDir, PrepareCommand, RunFinal, PrepareChecker, Finish, EndBatch,
                RemoveJobDir, Terminated, CallbackRaises, vars, case_vars
  <1>5. ASSUME NEW k \in Cases,
               Collect(k) \/ CollectRaised(k) \/ Confirm(k) \/ ObserveCase(k) \/ PassCase(k)
                 \/ FailCase(k) \/ Worker(k)
        PROVE  FALSE
    BY <1>5 DEF Collect, CollectRaised, Confirm, ObserveCase, Observes, ObserveRaises, PassCase,
                FailCase, Worker,
                CaseReturns, CaseRaises, CallbackRaises, case_vars
  <1> QED BY <1>2, <1>3, <1>4, <1>5 DEF Next, CallingThread

\* Without collect_all_results nothing is run once a failure counts, and a case
\* is only ever run again because it timed out (app/executor.py:409, 437).
THEOREM StopsAtFailure == Spec => NoRunAfterFailure
PROOF
  <1> DEFINE A == \A i \in Cases : runs'[i] # runs[i] =>
                    /\ CollectAll(job) \/ \A k \in settled : result[k].status = "accepted"
                    /\ runs[i] = 1 => result[i].status = "time_limit_exceeded"
  <1>1. IndInv /\ [Next]_vars => A
    <2> SUFFICES ASSUME IndInv, [Next]_vars, NEW i \in Cases, runs'[i] # runs[i]
                 PROVE  /\ CollectAll(job) \/ \A k \in settled : result[k].status = "accepted"
                        /\ runs[i] = 1 => result[i].status = "time_limit_exceeded"
      OBVIOUS
    <2>1. CASE StartBatch /\ i \in CurrentBatch
      <3>1. runs[i] = 0
        BY <2>1, BatchFacts, JobFacts DEF IndInv, TypeOK, BatchInv, StartBatch
      <3> QED BY <2>1, <3>1 DEF StartBatch, IndInv, VerdictInv
    <2>2. CASE BeginConfirmation(i)
      BY <2>2 DEF BeginConfirmation, IsNext, NeedsConfirmation, IndInv, VerdictInv
    <2> QED BY <2>1, <2>2, RunStarts
  <1>2. IndInv /\ [Next]_vars => [A]_vars
    BY <1>1
  <1> QED BY <1>2, SpecIndInv, PTL DEF Spec, NoRunAfterFailure

-----------------------------------------------------------------------------
(* What a step does to the settled cases: nothing, one more case, or the    *)
(* verdict.  All that follows is shown for these three kinds of step.       *)

\* A step that settles nothing: what counts, and how it came to count, stays.
Quiet ==
  /\ UNCHANGED <<job, settled, maxRuntime, firstFailure, budget, observations>>
  /\ \A i \in settled : result'[i] = result[i] /\ runs'[i] = runs[i]

\* A step that settles case i, with or without an observation.
SettlesOne(i) ==
  /\ Settles(i)
  /\ UNCHANGED <<job, offset, run, runs, result>>
  /\ \/ Observes(i)
     \/ ~CollectAll(job) /\ UNCHANGED <<slot, budget, observations, firstFailure>>
  /\ verdict = NoVerdict
  /\ verdict' = IF ~CollectAll(job) /\ result[i].status # "accepted"
                THEN Verdict(result[i].status, i, maxRuntime') ELSE NoVerdict

\* The ways to a verdict that settle nothing: an exception, a job that ends before
\* its cases, a job without cases, and the end of the last batch.
Concludes ==
  /\ verdict = NoVerdict
  /\ \/ verdict' = Raised
     \/ settled = {} /\ \E s \in EarlyStatuses : verdict' = Verdict(s, 0, None)
     \/ /\ settled = {} /\ job.total = 0
        /\ \E s \in CaseStatuses \ {"system_error"}, t \in Runtimes \cup {None} :
             verdict' = Verdict(s, 0, t)
     \/ /\ settled = Positions(job) /\ job.total > 0
        /\ verdict' = IF firstFailure = 0 THEN Verdict("accepted", 0, maxRuntime)
                      ELSE Verdict(result[firstFailure].status, firstFailure, maxRuntime)

\* A run that ends concerns no settled case.
LEMMA RunsApart ==
  ASSUME IndInv, NEW i \in Cases, run[i] = "running"
  PROVE  i \notin settled
PROOF
  BY DEF IndInv, RunningInv, Running

\* Every step is quiet, settles one case, or concludes.
LEMMA StepEffect ==
  ASSUME IndInv, [Next]_vars
  PROVE  \/ Quiet /\ (verdict' = verdict \/ Concludes)
         \/ \E i \in Cases : SettlesOne(i)
PROOF
  <1> DEFINE Ends == verdict' = verdict \/ Concludes
  <1>1. pc \notin {"unwinding", "done"} => verdict = NoVerdict
    BY DEF IndInv, VerdictInv
  <1>2. ASSUME CallbackRaises, pc \notin {"unwinding", "done"} PROVE Quiet /\ Ends
    BY <1>1, <1>2 DEF CallbackRaises, Leave, case_vars, loop_vars, Quiet, Concludes
  <1>3. CASE OpenJobDir
    BY <1>1, <1>3 DEF OpenJobDir, case_vars, loop_vars, Quiet, Concludes
  <1>4. CASE PrepareCommand \/ PrepareChecker
    <2>1. pc \in {"prepare", "checker"} /\ settled = {}
      BY <1>4 DEF PrepareCommand, PrepareChecker, IndInv, BatchInv
    <2>2. CASE CallbackRaises
      BY <2>1, <2>2, <1>2
    <2>3. CASE ~CallbackRaises
      <3>1. UNCHANGED <<job, case_vars, loop_vars>>
        BY <1>4, <2>3 DEF PrepareCommand, PrepareChecker
      <3>2. \/ verdict' \in {verdict, Raised}
            \/ \E s \in EarlyStatuses : verdict' = Verdict(s, 0, None)
        BY <1>4, <2>3 DEF PrepareCommand, PrepareChecker, Leave, EarlyStatuses
      <3> QED BY <1>1, <2>1, <3>1, <3>2 DEF case_vars, loop_vars, Quiet, Concludes
    <2> QED BY <2>2, <2>3
  <1>5. CASE RunFinal
    <2>1. pc = "final" /\ settled = {} /\ job.total = 0
      BY <1>5 DEF RunFinal, IndInv, BatchInv
    <2> QED BY <1>1, <1>5, <2>1 DEF RunFinal, Leave, case_vars, loop_vars, Quiet, Concludes
  <1>6. CASE Finish
    <2>1. settled = Positions(job) /\ job.total > 0 /\ pc = "dispatch"
      <3>1. pc = "dispatch" /\ offset >= job.total /\ job.total > 0
            /\ settled \subseteq Positions(job)
            /\ \A i \in Positions(job) : i <= offset => i \in settled
        BY <1>6 DEF Finish, IndInv, TypeOK, BatchInv
      <3>2. job.total \in Nat /\ offset \in Nat
        BY JobFacts, JudgeJobsAssumption DEF IndInv, TypeOK
      <3>3. \A i \in Positions(job) : i <= offset
        BY <3>1, <3>2 DEF Positions
      <3> QED BY <3>1, <3>3
    <2> QED BY <1>1, <1>6, <2>1 DEF Finish, Leave, case_vars, loop_vars, Quiet, Concludes
  <1>7. CASE EndBatch \/ RemoveJobDir \/ Terminated \/ UNCHANGED vars
    BY <1>7 DEF EndBatch, RemoveJobDir, Terminated, vars, case_vars, loop_vars, Quiet
  <1>8. CASE StartBatch
    <2>1. \A k \in settled : k \in Cases /\ k \notin CurrentBatch
      BY <1>8, JobFacts, BatchFacts DEF StartBatch, IndInv, TypeOK, BatchInv
    <2>2. UNCHANGED <<job, result, loop_vars, verdict>> /\ \A k \in settled : runs'[k] = runs[k]
      BY <1>8, <2>1 DEF StartBatch
    <2> QED BY <2>2 DEF Quiet, loop_vars
  <1>9. ASSUME NEW i \in Cases, CaseReturns(i) \/ Confirm(i) PROVE Quiet /\ Ends
    <2>1. i \notin settled /\ settled \subseteq Cases
      BY <1>9, RunsApart, JobFacts DEF CaseReturns, Confirm, IndInv, TypeOK
    <2>2. UNCHANGED <<job, runs, loop_vars>>
      BY <1>9 DEF CaseReturns, Confirm
    <2>3. EndsRun(i) \/ UNCHANGED result
      BY <1>9 DEF CaseReturns, Confirm
    <2>4. \A k \in settled : result'[k] = result[k]
      BY <2>1, <2>3, EndsRunType
    <2>5. Ends
      BY <1>1, <1>9 DEF CaseReturns, Confirm, Leave, Concludes
    <2> QED BY <2>2, <2>4, <2>5 DEF Quiet, loop_vars
  <1>10. ASSUME NEW i \in Cases, CaseRaises(i) \/ Collect(i) \/ CollectRaised(i)
         PROVE  Quiet /\ Ends
    <2>1. CASE CallbackRaises /\ pc = "collecting"
      BY <1>2, <2>1
    <2>2. CASE ~(CallbackRaises /\ pc = "collecting")
      BY <1>1, <1>10, <2>2
      DEF CaseRaises, Collect, CollectRaised, Leave, case_vars, loop_vars, Quiet, Concludes
    <2> QED BY <2>1, <2>2
  <1>11. ASSUME NEW i \in Cases, BeginConfirmation(i) PROVE Quiet /\ Ends
    <2>1. i \notin settled /\ UNCHANGED <<job, result, loop_vars, verdict>>
      BY <1>11 DEF BeginConfirmation, IsNext
    <2>2. runs' = [runs EXCEPT ![i] = @ + 1] /\ runs \in [Cases -> 0..2] /\ settled \subseteq Cases
      BY <1>11, JobFacts DEF BeginConfirmation, IndInv, TypeOK
    <2> QED BY <2>1, <2>2 DEF Quiet, loop_vars
  <1>12. ASSUME NEW i \in Cases, ObserveCase(i) PROVE (Quiet /\ Ends) \/ SettlesOne(i)
    <2>1. CASE Observes(i)
      BY <1>1, <2>1 DEF Observes, SettlesOne, Settles, IsNext
    <2>2. CASE ObserveRaises(i)
      BY <1>2, <2>2 DEF ObserveRaises, IsNext
    <2> QED BY <1>12, <2>1, <2>2 DEF ObserveCase
  <1>13. ASSUME NEW i \in Cases, PassCase(i) PROVE (Quiet /\ Ends) \/ SettlesOne(i)
    <2>1. CASE CallbackRaises /\ IsNext(i)
      BY <1>2, <2>1 DEF IsNext
    <2>2. CASE ~(CallbackRaises /\ IsNext(i))
      BY <1>1, <1>13, <2>2 DEF PassCase, Settles, IsNext, SettlesOne, case_vars
    <2> QED BY <2>1, <2>2
  <1>14. ASSUME NEW i \in Cases, FailCase(i) PROVE SettlesOne(i)
    BY <1>1, <1>14 DEF FailCase, Settles, IsNext, Leave, SettlesOne, case_vars
  <1> QED BY <1>3, <1>4, <1>5, <1>6, <1>7, <1>8, <1>9, <1>10, <1>11, <1>12, <1>13, <1>14
      DEF Next, CallingThread, Worker

\* The runtime of the job is that of a run that counts: settling only ever
\* raises it to the runtime of the case that is settled.
LEMMA RuntimeStep ==
  ASSUME IndInv, RuntimeOfCountedRuns, [Next]_vars PROVE RuntimeOfCountedRuns'
PROOF
  <1>1. CASE Quiet
    BY <1>1 DEF Quiet, RuntimeOfCountedRuns
  <1>2. ASSUME NEW i \in Cases, SettlesOne(i) PROVE RuntimeOfCountedRuns'
    <2>1. /\ settled' = settled \cup {i} /\ i \notin settled /\ UNCHANGED result
          /\ maxRuntime' = MaxMetric(maxRuntime, result[i].runtime)
      BY <1>2, SettlesFacts DEF SettlesOne, Settles
    <2>2. /\ result[i].runtime \in Int /\ maxRuntime \in Int /\ None \in Int
          /\ \A k \in settled : result[k].runtime \in Int
      <3>1. Runtimes \cup {None} \subseteq Int
        BY CaseJudgingAssumption DEF None
      <3>2. \A k \in settled \cup {i} : k \in Cases /\ result[k] \in Result
        BY <1>2, SettlesFacts, JobFacts DEF SettlesOne, IndInv, TypeOK, BatchInv
      <3> QED BY <3>1, <3>2 DEF IndInv, TypeOK, Result, None
    <2>3. \A k \in settled' : result'[k].runtime <= maxRuntime'
      BY <2>1, <2>2 DEF RuntimeOfCountedRuns, MaxMetric
    <2>4. maxRuntime' # None => \E k \in settled' : result'[k].runtime = maxRuntime'
      BY <2>1, <2>2 DEF RuntimeOfCountedRuns, MaxMetric
    <2> QED BY <2>3, <2>4 DEF RuntimeOfCountedRuns
  <1> QED BY <1>1, <1>2, StepEffect

\* The runtime of a verdict is the largest of the runs that count; a run that a
\* confirmation replaced leaves no trace in it (app/executor.py:409-436).
THEOREM RuntimesCount == Spec => []RuntimeOfCountedRuns
PROOF
  <1>1. Init => RuntimeOfCountedRuns
    BY DEF Init, RuntimeOfCountedRuns
  <1>2. IndInv /\ RuntimeOfCountedRuns /\ [Next]_vars => RuntimeOfCountedRuns'
    BY RuntimeStep
  <1> QED BY <1>1, <1>2, SpecIndInv, PTL DEF Spec

-----------------------------------------------------------------------------
(* The order of precedence, and the batches that follow it.                 *)

\* The batch of a case is the quotient of its place by the width of a batch.
LEMMA BatchNumber ==
  ASSUME NEW w \in Nat \ {0}, NEW q \in Nat, NEW p \in Nat \ {0}
  PROVE  /\ (p - 1) \div w \in Nat
         /\ (p - 1) \div w < q <=> p <= q * w
         /\ (p - 1) \div w = q <=> q * w < p /\ p <= q * w + w
PROOF
  <1> DEFINE d == (p - 1) \div w
             r == (p - 1) % w
  <1>1. d \in Int /\ r \in 0..(w - 1) /\ p - 1 = w * d + r
    OBVIOUS
  <1> HIDE DEF d, r
  <1>2. d >= 0
    <2> SUFFICES ASSUME d <= -1 PROVE FALSE
      BY <1>1
    <2>1. w * d <= w * (-1)
      BY <1>1
    <2> QED BY <1>1, <2>1
  <1>3. ASSUME d < q PROVE p <= q * w
    <2>1. w * (d + 1) <= w * q
      BY <1>1, <1>2, <1>3
    <2> QED BY <1>1, <2>1
  <1>4. ASSUME d >= q PROVE q * w < p
    <2>1. w * q <= w * d
      BY <1>1, <1>4
    <2> QED BY <1>1, <2>1
  <1>5. ASSUME d < q + 1 PROVE p <= q * w + w
    <2>1. w * (d + 1) <= w * (q + 1)
      BY <1>1, <1>2, <1>5
    <2> QED BY <1>1, <2>1
  <1>6. ASSUME d >= q + 1 PROVE q * w + w < p
    <2>1. w * (q + 1) <= w * d
      BY <1>1, <1>6
    <2> QED BY <1>1, <2>1
  <1>7. q * w \in Int
    OBVIOUS
  <1> QED BY <1>1, <1>2, <1>3, <1>4, <1>5, <1>6, <1>7 DEF d

\* Precedence is a strict total order on the cases of a job.
LEMMA Order ==
  ASSUME NEW j \in Jobs
  PROVE  /\ \A i, k \in Positions(j) : i = k \/ Precedes(j, i, k) \/ Precedes(j, k, i)
         /\ \A i, k \in Positions(j) : ~(Precedes(j, i, k) /\ Precedes(j, k, i))
         /\ \A i, k, m \in Positions(j) :
              Precedes(j, i, k) /\ Precedes(j, k, m) => Precedes(j, i, m)
PROOF
  <1> DEFINE B(p) == (p - 1) \div Workers(j)
             O(p) == j.order[p]
  <1>1. j \in Job /\ DistinctOrders(j)
    BY JudgeJobsAssumption
  <1>2. \A p \in Positions(j) :
          p \in Nat \ {0} /\ Workers(j) \in Nat \ {0} /\ O(p) \in Int
    BY <1>1, JudgeJobsAssumption DEF Job, Positions, Cases, Workers
  <1>3. \A p \in Positions(j) : B(p) \in Int
    <2> TAKE p \in Positions(j)
    <2>1. p \in Nat \ {0} /\ Workers(j) \in Nat \ {0}
      BY <1>2
    <2> QED BY <2>1, BatchNumber
  <1>4. \A i, k \in Positions(j) : O(i) = O(k) => i = k
    BY <1>1 DEF DistinctOrders
  <1>5. \A i, k \in Positions(j) :
          Precedes(j, i, k) <=> B(i) < B(k) \/ (B(i) = B(k) /\ O(i) < O(k))
    BY DEF Precedes
  <1> HIDE DEF B, O
  <1>6. \A i, k \in Positions(j) : i = k \/ Precedes(j, i, k) \/ Precedes(j, k, i)
    BY <1>2, <1>3, <1>4, <1>5
  <1>7. \A i, k \in Positions(j) : ~(Precedes(j, i, k) /\ Precedes(j, k, i))
    BY <1>2, <1>3, <1>5
  <1>8. \A i, k, m \in Positions(j) :
          Precedes(j, i, k) /\ Precedes(j, k, m) => Precedes(j, i, m)
    BY <1>2, <1>3, <1>5
  <1> QED BY <1>6, <1>7, <1>8

\* Batches start at multiples of their width.
OffsetInv == \E q \in Nat : offset = q * Workers(job)

LEMMA OffsetStep ==
  ASSUME IndInv, OffsetInv, [Next]_vars PROVE OffsetInv'
PROOF
  <1>1. job' = job
    BY StepEffect DEF Quiet, SettlesOne
  <1>2. offset' = offset \/ offset' = offset + Workers(job)
    BY DEF Next, CallingThread, Worker, OpenJobDir, PrepareCommand, RunFinal, PrepareChecker,
           StartBatch, Finish, EndBatch, RemoveJobDir, Terminated, CallbackRaises, Collect,
           CollectRaised, BeginConfirmation, Confirm, ObserveCase, Observes, ObserveRaises,
           PassCase, FailCase, CaseReturns, CaseRaises, vars
  <1>3. PICK q \in Nat : offset = q * Workers(job)
    BY DEF OffsetInv
  <1>4. Workers(job) \in Nat /\ Workers(job') = Workers(job)
    BY <1>1, JobFacts DEF IndInv, TypeOK
  <1>5. q * Workers(job) + Workers(job) = (q + 1) * Workers(job) /\ q + 1 \in Nat
    BY <1>4
  <1> QED BY <1>2, <1>3, <1>4, <1>5 DEF OffsetInv

\* The next case to be settled precedes every other that is not settled.
LEMMA NextPrecedes ==
  ASSUME IndInv, OffsetInv, NEW i \in Cases, IsNext(i)
  PROVE  \A k \in Positions(job) \ settled : k # i => Precedes(job, i, k)
PROOF
  <1> SUFFICES ASSUME NEW k \in Positions(job) \ settled, k # i PROVE Precedes(job, i, k)
    OBVIOUS
  <1> DEFINE w == Workers(job)
  <1>1. /\ pc = "settling" /\ i \in CurrentBatch \ settled /\ job \in Jobs /\ offset \in Nat
        /\ \A m \in CurrentBatch \ settled : job.order[i] <= job.order[m]
    BY DEF IsNext, IndInv, TypeOK
  <1>2. /\ i \in Positions(job) /\ w \in Nat \ {0}
        /\ i \in Nat \ {0} /\ k \in Nat \ {0}
        /\ offset < i /\ i <= offset + w /\ k > offset
    BY <1>1, JobFacts, BatchFacts DEF IndInv, BatchInv, InBatch
  <1>3. PICK q \in Nat : offset = q * w
    BY DEF OffsetInv
  <1>4. (i - 1) \div w = q
    BY <1>2, <1>3, BatchNumber
  <1>5. CASE k <= offset + w
    <2>1. k \in CurrentBatch \ settled
      BY <1>1, <1>2, <1>5, BatchFacts
    <2>2. (k - 1) \div w = q
      BY <1>2, <1>3, <1>5, BatchNumber
    <2>3. job.order[i] < job.order[k]
      <3>1. job.order[i] # job.order[k] /\ job.order[i] <= job.order[k]
        BY <1>1, <1>2, <2>1, JudgeJobsAssumption DEF DistinctOrders
      <3>2. job.order[i] \in Int /\ job.order[k] \in Int
        BY <1>1, <1>2, JobFacts
      <3> QED BY <3>1, <3>2
    <2> QED BY <1>4, <2>2, <2>3 DEF Precedes
  <1>6. CASE k > offset + w
    <2>1. (k - 1) \div w \in Nat /\ ~((k - 1) \div w < q + 1)
      <3>1. offset + w = (q + 1) * w /\ q + 1 \in Nat
        BY <1>2, <1>3
      <3>2. ~(k <= (q + 1) * w)
        BY <1>2, <1>6, <3>1
      <3> QED BY <1>2, <3>1, <3>2, BatchNumber
    <2> QED BY <1>4, <2>1 DEF Precedes
  <1> QED BY <1>1, <1>2, <1>5, <1>6

-----------------------------------------------------------------------------
(* What is settled, observed and recorded as the first failure.             *)

\* What is settled comes before what is not; of the failures the first is recorded.
SettledFirst ==
  \A k \in settled, i \in Positions(job) \ settled : Precedes(job, k, i)

FailuresFollow ==
  firstFailure # 0 =>
    \A k \in settled : result[k].status # "accepted" =>
      k = firstFailure \/ Precedes(job, firstFailure, k)

\* A verdict on the cases of a collecting job is about all of them.
VerdictOnAll ==
  CollectAll(job) /\ (verdict.case # 0 \/ (verdict.status = "accepted" /\ job.total > 0)) =>
    settled = Positions(job) /\ verdict.case = firstFailure

\* The observations are about settled cases, in order, and say what counts.
ObservedInv ==
  /\ CollectAll(job) =>
       {observations[n].case : n \in DOMAIN observations} = settled
  /\ \A n \in DOMAIN observations :
       /\ observations[n].case \in settled
       /\ observations[n].status = result[observations[n].case].status
  /\ \A m, n \in DOMAIN observations :
       m < n => Precedes(job, observations[m].case, observations[n].case)

\* The three together with what the observations say.
OrderInv ==
  /\ OffsetInv
  /\ SettledFirst
  /\ FailuresFollow
  /\ VerdictOnAll
  /\ ObservedInv

\* An observation is added at the end.
LEMMA ObservationAdded ==
  ASSUME IndInv, NEW i \in Cases, Observes(i)
  PROVE  /\ Len(observations) \in Nat
         /\ DOMAIN observations = 1..Len(observations)
         /\ DOMAIN observations' = 1..(Len(observations) + 1)
         /\ Len(observations') = Len(observations) + 1
         /\ \A n \in 1..Len(observations) : observations'[n] = observations[n]
         /\ observations'[Len(observations) + 1] = Observation(i)
PROOF
  <1>1. observations' = Append(observations, Observation(i))
    BY DEF Observes
  <1>2. PICK S : observations \in Seq(S)
    BY DEF IndInv, TypeOK
  <1> HIDE DEF Observation
  <1> QED BY <1>1, <1>2

\* A step that settles nothing keeps the order, and so does one that settles the next.
LEMMA QuietOrder ==
  ASSUME IndInv, OrderInv, [Next]_vars, Quiet, verdict' = verdict \/ Concludes
  PROVE  OrderInv'
PROOF
  <1>1. OffsetInv'
    BY OffsetStep DEF OrderInv
  <1>2. SettledFirst' /\ FailuresFollow' /\ ObservedInv'
    <2>1. firstFailure # 0 => firstFailure \in Positions(job)
      BY DEF IndInv, TypeOK
    <2> QED BY <2>1 DEF OrderInv, Quiet, SettledFirst, FailuresFollow, ObservedInv
  <1>3. VerdictOnAll'
    <2>1. CASE verdict' = verdict
      BY <2>1 DEF OrderInv, VerdictOnAll, Quiet
    <2>2. CASE Concludes
      <3>1. \A s, t : /\ Verdict(s, 0, t).status = s /\ Verdict(s, 0, t).case = 0
                      /\ \A k : Verdict(s, k, t).case = k
        BY DEF Verdict
      <3>2. CASE verdict' = Raised \/ \E s \in EarlyStatuses : verdict' = Verdict(s, 0, None)
        BY <3>1, <3>2 DEF VerdictOnAll, Raised, EarlyStatuses
      <3>3. CASE job.total = 0 /\ \E s, t : verdict' = Verdict(s, 0, t)
        BY <3>1, <3>3 DEF VerdictOnAll, Quiet
      <3>4. CASE /\ settled = Positions(job)
                 /\ verdict' = IF firstFailure = 0 THEN Verdict("accepted", 0, maxRuntime)
                      ELSE Verdict(result[firstFailure].status, firstFailure, maxRuntime)
        BY <3>1, <3>4 DEF VerdictOnAll, Quiet
      <3> QED BY <2>2, <3>2, <3>3, <3>4 DEF Concludes
    <2> QED BY <2>1, <2>2
  <1> QED BY <1>1, <1>2, <1>3 DEF OrderInv

LEMMA SettlingOrder ==
  ASSUME IndInv, OrderInv, [Next]_vars, NEW i \in Cases, SettlesOne(i)
  PROVE  OrderInv'
PROOF
  <1>1. /\ settled' = settled \cup {i} /\ i \notin settled /\ i \in Positions(job)
        /\ UNCHANGED <<job, result>> /\ verdict = NoVerdict /\ pc = "settling"
        /\ settled \subseteq Positions(job)
    BY SettlesFacts DEF SettlesOne, IndInv, TypeOK
  <1>2. \A k \in Positions(job) \ settled : k # i => Precedes(job, i, k)
    BY NextPrecedes DEF SettlesOne, Settles, OrderInv
  <1>3. OffsetInv'
    BY OffsetStep DEF OrderInv
  <1>4. SettledFirst'
    BY <1>1, <1>2 DEF OrderInv, SettledFirst
  <1>5. Observes(i) =>
          firstFailure' = IF firstFailure = 0 /\ result[i].status # "accepted"
                          THEN i ELSE firstFailure
    BY DEF Observes
  <1>6. /\ firstFailure = 0 => \A k \in settled : result[k].status = "accepted"
        /\ firstFailure # 0 => firstFailure \in settled
    BY <1>1 DEF IndInv, VerdictInv
  <1>7. FailuresFollow'
    <2>1. CASE firstFailure' = firstFailure /\ (firstFailure = 0 => result[i].status = "accepted")
      <3>1. firstFailure # 0 => Precedes(job, firstFailure, i)
        BY <1>1, <1>6 DEF OrderInv, SettledFirst
      <3> QED BY <1>1, <2>1, <3>1 DEF OrderInv, FailuresFollow
    <2>2. CASE firstFailure = 0 /\ firstFailure' = i
      BY <1>1, <1>6, <2>2 DEF FailuresFollow
    <2>3. CASE firstFailure' = 0
      BY <2>3 DEF FailuresFollow
    <2> QED BY <1>5, <2>1, <2>2, <2>3 DEF SettlesOne
  <1>8. VerdictOnAll'
    BY <1>1 DEF SettlesOne, VerdictOnAll, NoVerdict
  <1>9. ObservedInv'
    <2>1. CASE Observes(i)
      <3> DEFINE L == Len(observations)
      <3>1. Observation(i).case = i /\ Observation(i).status = result[i].status
        BY DEF Observation
      <3>2. /\ L \in Nat /\ DOMAIN observations = 1..L /\ DOMAIN observations' = 1..(L + 1)
            /\ \A n \in 1..L : observations'[n] = observations[n]
            /\ observations'[L + 1].case = i
            /\ observations'[L + 1].status = result[i].status
        BY <2>1, <3>1, ObservationAdded
      <3> HIDE DEF L
      <3>3. {observations'[n].case : n \in DOMAIN observations'}
              = {observations[n].case : n \in DOMAIN observations} \cup {i}
        BY <3>2
      <3>4. \A n \in DOMAIN observations' :
              /\ observations'[n].case \in settled'
              /\ observations'[n].status = result'[observations'[n].case].status
        BY <1>1, <3>2 DEF OrderInv, ObservedInv
      <3>5. \A m, n \in DOMAIN observations' :
              m < n => Precedes(job, observations'[m].case, observations'[n].case)
        <4> SUFFICES ASSUME NEW m \in 1..(L + 1), NEW n \in 1..(L + 1), m < n
                     PROVE  Precedes(job, observations'[m].case, observations'[n].case)
          BY <3>2
        <4>1. CASE n \in 1..L
          BY <3>2, <4>1 DEF OrderInv, ObservedInv
        <4>2. CASE n = L + 1
          <5>1. m \in 1..L /\ observations'[m].case \in settled /\ observations'[n].case = i
            BY <3>2, <4>2 DEF OrderInv, ObservedInv
          <5> QED BY <1>1, <5>1 DEF OrderInv, SettledFirst
        <4> QED BY <3>2, <4>1, <4>2
      <3> QED BY <1>1, <3>3, <3>4, <3>5 DEF OrderInv, ObservedInv
    <2>2. CASE ~CollectAll(job) /\ UNCHANGED observations
      BY <1>1, <2>2 DEF OrderInv, ObservedInv
    <2> QED BY <2>1, <2>2 DEF SettlesOne
  <1> QED BY <1>3, <1>4, <1>7, <1>8, <1>9 DEF OrderInv

LEMMA SpecOrderInv == Spec => []OrderInv
PROOF
  <1>1. Init => OrderInv
    <2> SUFFICES ASSUME Init PROVE OrderInv
      OBVIOUS
    <2>1. OffsetInv
      <3>1. 0 = 0 * Workers(job)
        BY JobFacts DEF Init
      <3> QED BY <3>1 DEF Init, OffsetInv
    <2> QED BY <2>1 DEF Init, OrderInv, SettledFirst, FailuresFollow, VerdictOnAll, NoVerdict,
                        ObservedInv
  <1>2. IndInv /\ OrderInv /\ [Next]_vars => OrderInv'
    BY StepEffect, QuietOrder, SettlingOrder
  <1> QED BY <1>1, <1>2, SpecIndInv, PTL DEF Spec

\* A job that collects everything reports its cases in order of precedence, each
\* once, and its verdict is the first failure of all (app/executor.py:311-329).
THEOREM ReportsComplete == Spec => []EveryResultReported
PROOF
  <1>1. IndInv /\ OrderInv => EveryResultReported
    <2> SUFFICES ASSUME IndInv, OrderInv, CollectAll(job) PROVE EveryResultReported
      BY DEF EveryResultReported
    <2>1. ASSUME verdict.case # 0 \/ (verdict.status = "accepted" /\ job.total > 0),
                 NEW n \in DOMAIN observations, observations[n].status # "accepted"
          PROVE  \/ observations[n].case = verdict.case
                 \/ Precedes(job, verdict.case, observations[n].case)
      <3>1. /\ settled = Positions(job) /\ verdict.case = firstFailure
            /\ observations[n].case \in settled
            /\ result[observations[n].case].status # "accepted"
        BY <2>1 DEF OrderInv, VerdictOnAll, ObservedInv
      <3>2. firstFailure # 0
        <4>1. verdict.case = 0 => verdict.status = "accepted" /\ job.total > 0
          BY <2>1
        <4> QED BY <3>1, <4>1, JobFacts DEF IndInv, TypeOK, AcceptedMeansAll
      <3> QED BY <3>1, <3>2 DEF OrderInv, FailuresFollow
    <2> QED BY <2>1 DEF OrderInv, ObservedInv, VerdictOnAll, EveryResultReported
  <1> QED BY <1>1, SpecIndInv, SpecOrderInv, PTL

-----------------------------------------------------------------------------
(* The refinement of InOrderVerdict.                                        *)

\* The instance reads jobs as this module does.
LEMMA SameJobs ==
  /\ InOrder!Cases = Cases /\ InOrder!CaseStatuses = CaseStatuses
  /\ InOrder!EarlyStatuses = EarlyStatuses
  /\ \A j : InOrder!Positions(j) = Positions(j)
  /\ \A j : InOrder!CollectAll(j) <=> CollectAll(j)
  /\ \A j, i, k : InOrder!Precedes(j, i, k) <=> Precedes(j, i, k)
PROOF
  BY DEF InOrder!Cases, Cases, InOrder!CaseStatuses, CaseStatuses, InOrder!EarlyStatuses,
         EarlyStatuses, InOrder!Positions, Positions, InOrder!CollectAll, CollectAll,
         InOrder!Precedes, Precedes, InOrder!Workers, Workers

\* What the refinement mapping makes of the state.
LEMMA Mapped ==
  ASSUME IndInv
  PROVE  /\ InOrder!Judged = settled
         /\ InOrder!Failed = {k \in settled : result[k].status # "accepted"}
         /\ verdict = NoVerdict => [status |-> verdict.status, case |-> verdict.case] = InOrder!NoVerdict
PROOF
  <1>1. \A k \in settled : k \in Positions(job) /\ k \in Cases /\ result[k].status \in CaseStatuses
    <2>1. \A k \in settled : result[k] \in Result
      BY JobFacts DEF IndInv, TypeOK, BatchInv
    <2> QED BY <2>1, JobFacts DEF IndInv, TypeOK, Result
  <1>2. "unknown" \notin CaseStatuses /\ Positions(job) \subseteq Cases
    BY JobFacts DEF CaseStatuses, IndInv, TypeOK
  <1>3. InOrder!Judged = settled
    BY <1>1, <1>2, SameJobs DEF InOrder!Judged
  <1>4. InOrder!Failed = {k \in settled : result[k].status # "accepted"}
    BY <1>1, <1>3 DEF InOrder!Failed
  <1>5. verdict = NoVerdict => [status |-> verdict.status, case |-> verdict.case] = InOrder!NoVerdict
    BY DEF NoVerdict, InOrder!NoVerdict
  <1> QED BY <1>3, <1>4, <1>5

\* The first recorded failure is the first of all failures.
LEMMA FirstOfAll ==
  ASSUME IndInv, OrderInv, verdict = NoVerdict, pc \notin {"unwinding", "done"}, firstFailure # 0
  PROVE  InOrder!FirstFailure = firstFailure
PROOF
  <1> DEFINE F == {k \in settled : result[k].status # "accepted"}
  <1>1. /\ job \in Jobs /\ settled \subseteq Positions(job)
        /\ firstFailure \in F
    BY DEF IndInv, TypeOK, VerdictInv
  <1>2. \A k \in F : k # firstFailure => Precedes(job, firstFailure, k)
    BY DEF OrderInv, FailuresFollow
  <1>3. \A i \in F : (\A k \in F : k # i => Precedes(job, i, k)) => i = firstFailure
    BY <1>1, <1>2, Order
  <1>4. InOrder!FirstFailure = CHOOSE i \in F : \A k \in F : k # i => Precedes(job, i, k)
    BY Mapped, SameJobs DEF InOrder!FirstFailure
  <1> HIDE DEF F
  <1> QED BY <1>1, <1>2, <1>3, <1>4

\* Settling a case is judging it; every other step ends the judging or is not seen.
LEMMA RefinesSettling ==
  ASSUME IndInv, OrderInv, NEW i \in Cases, SettlesOne(i)
  PROVE  InOrder!Next
PROOF
  <1>1. /\ i \in Positions(job) /\ i \notin settled /\ settled' = settled \cup {i}
        /\ result[i].status \in CaseStatuses /\ UNCHANGED <<job, result>>
        /\ verdict = NoVerdict
    BY SettlesFacts DEF SettlesOne
  <1>2. \A k \in Positions(job) \ settled : k # i => Precedes(job, i, k)
    BY NextPrecedes DEF SettlesOne, Settles, OrderInv
  <1>3. [k \in Cases |-> IF k \in settled' THEN result'[k].status ELSE "unknown"] =
          [[k \in Cases |-> IF k \in settled THEN result[k].status ELSE "unknown"]
             EXCEPT ![i] = result[i].status]
    BY <1>1
  <1>4. [status |-> verdict'.status, case |-> verdict'.case] =
          IF result[i].status # "accepted" /\ ~CollectAll(job)
          THEN [status |-> result[i].status, case |-> i] ELSE InOrder!NoVerdict
    BY DEF SettlesOne, Verdict, NoVerdict, InOrder!NoVerdict
  <1>5. [k \in Cases |-> IF k \in settled THEN result[k].status ELSE "unknown"][i] = "unknown"
    BY <1>1
  <1>6. PICK s \in CaseStatuses : s = result[i].status
    BY <1>1
  <1>7. InOrder!Judge(i, s)
    BY <1>1, <1>2, <1>3, <1>4, <1>5, <1>6, Mapped, SameJobs DEF InOrder!Judge
  <1>8. i \in InOrder!Positions(job) /\ s \in InOrder!CaseStatuses
    BY <1>1, SameJobs
  <1> QED BY <1>7, <1>8 DEF InOrder!Next

LEMMA RefinesQuiet ==
  ASSUME IndInv, OrderInv, Quiet, verdict' = verdict \/ Concludes,
         pc \in {"unwinding", "done"} => verdict' = verdict
  PROVE  InOrder!Next \/ UNCHANGED InOrder!vars
PROOF
  <1>1. /\ UNCHANGED job
        /\ [k \in Cases |-> IF k \in settled' THEN result'[k].status ELSE "unknown"] =
             [k \in Cases |-> IF k \in settled THEN result[k].status ELSE "unknown"]
    BY DEF Quiet
  <1>2. CASE verdict' = verdict
    BY <1>1, <1>2 DEF InOrder!vars
  <1>3. CASE Concludes /\ pc \notin {"unwinding", "done"}
    <2>1. [status |-> verdict.status, case |-> verdict.case] = InOrder!NoVerdict
      BY <1>3, Mapped DEF Concludes
    <2>2. CASE verdict' = Raised
      BY <1>1, <2>1, <2>2 DEF InOrder!Next, InOrder!Raise, Raised, Verdict
    <2>3. CASE settled = {} /\ \E s \in EarlyStatuses : verdict' = Verdict(s, 0, None)
      <3>1. \E s \in EarlyStatuses :
              [status |-> verdict'.status, case |-> verdict'.case] = [status |-> s, case |-> 0]
        BY <2>3 DEF Verdict
      <3> QED BY <1>1, <2>1, <2>3, <3>1, Mapped, SameJobs DEF InOrder!Next, InOrder!EndWithoutCases
    <2>4. CASE /\ settled = {} /\ job.total = 0
               /\ \E s \in CaseStatuses \ {"system_error"}, t \in Runtimes \cup {None} :
                    verdict' = Verdict(s, 0, t)
      <3>1. \E s \in CaseStatuses \ {"system_error"} :
              [status |-> verdict'.status, case |-> verdict'.case] = [status |-> s, case |-> 0]
        BY <2>4 DEF Verdict
      <3> QED BY <1>1, <2>1, <2>4, <3>1, Mapped, SameJobs DEF InOrder!Next, InOrder!EndWithoutCases
    <2>5. CASE /\ settled = Positions(job) /\ job.total > 0
               /\ verdict' = IF firstFailure = 0 THEN Verdict("accepted", 0, maxRuntime)
                      ELSE Verdict(result[firstFailure].status, firstFailure, maxRuntime)
      <3>1. CASE firstFailure = 0
        <4>1. InOrder!Failed = {}
          BY <1>3, <3>1, Mapped DEF IndInv, VerdictInv
        <4>2. [status |-> verdict'.status, case |-> verdict'.case] = [status |-> "accepted", case |-> 0]
          BY <2>5, <3>1 DEF Verdict
        <4> QED BY <1>1, <2>1, <2>5, <4>1, <4>2, Mapped, SameJobs DEF InOrder!Next, InOrder!Conclude
      <3>2. CASE firstFailure # 0
        <4>1. /\ firstFailure \in settled /\ result[firstFailure].status # "accepted"
              /\ firstFailure \in Cases
          BY <1>3, <3>2, JobFacts DEF IndInv, TypeOK, VerdictInv
        <4>2. InOrder!Failed # {} /\ InOrder!FirstFailure = firstFailure
          BY <1>3, <3>2, <4>1, Mapped, FirstOfAll DEF Concludes
        <4>3. [status |-> verdict'.status, case |-> verdict'.case] =
                [status |-> result[firstFailure].status, case |-> firstFailure]
          BY <2>5, <3>2 DEF Verdict
        <4>4. [k \in Cases |-> IF k \in settled THEN result[k].status ELSE "unknown"][firstFailure]
                = result[firstFailure].status
          BY <4>1
        <4> QED BY <1>1, <2>1, <2>5, <4>2, <4>3, <4>4, Mapped, SameJobs
                DEF InOrder!Next, InOrder!Conclude
      <3> QED BY <3>1, <3>2
    <2> QED BY <1>3, <2>2, <2>3, <2>4, <2>5 DEF Concludes
  <1> QED BY <1>2, <1>3

\* Once a verdict is reached it stays.
LEMMA VerdictStays ==
  ASSUME IndInv, [Next]_vars, pc \in {"unwinding", "done"} PROVE verdict' = verdict
PROOF
  BY DEF Next, CallingThread, Worker, OpenJobDir, PrepareCommand, RunFinal, PrepareChecker,
         StartBatch, Finish, EndBatch, RemoveJobDir, Collect, CollectRaised, BeginConfirmation,
         Confirm, ObserveCase, Observes, ObserveRaises, PassCase, FailCase, CaseReturns,
         CaseRaises, Settles, IsNext, Terminated, vars

\* Parallel runs, second runs, budgets and early returns never change which failure
\* becomes the verdict: it is that of judging the cases one after the other.
THEOREM JudgesInOrder == Spec => ImplementsInOrder
PROOF
  <1>1. Init => InOrder!Init
    <2> SUFFICES ASSUME Init PROVE InOrder!Init
      OBVIOUS
    <2>1. [k \in Cases |-> IF k \in settled THEN result[k].status ELSE "unknown"] =
            [k \in Cases |-> "unknown"]
      BY DEF Init
    <2>2. [status |-> verdict.status, case |-> verdict.case] = InOrder!NoVerdict
      BY DEF Init, NoVerdict, InOrder!NoVerdict
    <2> QED BY <2>1, <2>2, SameJobs DEF Init, InOrder!Init
  <1>2. IndInv /\ OrderInv /\ [Next]_vars => [InOrder!Next]_(InOrder!vars)
    BY StepEffect, RefinesSettling, RefinesQuiet, VerdictStays
  <1> QED BY <1>1, <1>2, SpecIndInv, SpecOrderInv, PTL DEF Spec, ImplementsInOrder, InOrder!Spec

-----------------------------------------------------------------------------
(* What the observations have taken of the budget.                          *)

\* Every set of numbers has a least element; hence induction over a set of numbers.
LEMMA LeastNatural ==
  ASSUME NEW T, T \subseteq Nat, T # {}
  PROVE  \E m \in T : \A k \in T : m <= k
PROOF
  <1> DEFINE R == OpToRel(<, Nat)
  <1>1. IsWellFoundedOn(R, Nat)
    BY NatLessThanWellFounded
  <1>2. \A k, m \in T : k < m => <<k, m>> \in R
    BY DEF OpToRel
  <1> HIDE DEF R
  <1>3. PICK m \in T : \A k \in T : ~ (<<k, m>> \in R)
    BY <1>1, WFMin
  <1>4. ASSUME NEW k \in T PROVE m <= k
    <2>1. ~(k < m)
      BY <1>2, <1>3
    <2> QED BY <2>1
  <1> QED BY <1>4

LEMMA SetInduction ==
  ASSUME NEW S, 0 \in S, \A n \in Nat : n \in S => n + 1 \in S
  PROVE  Nat \subseteq S
PROOF
  <1> DEFINE T == Nat \ S
  <1> SUFFICES ASSUME T # {} PROVE FALSE
    OBVIOUS
  <1>1. PICK m \in T : \A k \in T : m <= k
    BY LeastNatural
  <1>2. m # 0 /\ m - 1 \in Nat /\ m - 1 \notin T
    BY <1>1
  <1> QED BY <1>1, <1>2

\* f adds up the bytes saved by the first observations of a list.
Adds(f, list, n) ==
  f = [k \in 0..n |-> IF k = 0 THEN 0 ELSE f[k - 1] + list[k].saved]

\* The function that SavedIn computes exists, by induction over its domain: the set of
\* the numbers for which it does has no least exception.
LEMMA SumExists ==
  ASSUME NEW list PROVE \A n \in Nat : \E f : Adds(f, list, n)
PROOF
  <1> DEFINE S == {n \in Nat : \E f : Adds(f, list, n)}
  <1>1. 0 \in S
    <2>1. Adds([k \in 0..0 |-> 0], list, 0)
      BY DEF Adds
    <2> QED BY <2>1
  <1>2. ASSUME NEW n \in Nat, n \in S PROVE n + 1 \in S
    <2>1. PICK f : Adds(f, list, n)
      BY <1>2
    <2> DEFINE g == [k \in 0..(n + 1) |-> IF k = n + 1 THEN f[n] + list[n + 1].saved ELSE f[k]]
    <2>2. \A k \in 0..n : f[k] = IF k = 0 THEN 0 ELSE f[k - 1] + list[k].saved
      BY <2>1 DEF Adds
    <2>3. ASSUME NEW k \in 0..(n + 1)
          PROVE  g[k] = IF k = 0 THEN 0 ELSE g[k - 1] + list[k].saved
      <3>1. CASE k = n + 1
        <4>1. g[n + 1] = f[n] + list[n + 1].saved /\ g[n] = f[n]
          OBVIOUS
        <4> QED BY <3>1, <4>1
      <3>2. CASE k \in 0..n
        <4>1. g[k] = f[k] /\ (k # 0 => g[k - 1] = f[k - 1])
          BY <3>2
        <4> HIDE DEF g
        <4> QED BY <2>2, <3>2, <4>1
      <3> QED BY <3>1, <3>2
    <2>4. g = [k \in 0..(n + 1) |-> g[k]]
      OBVIOUS
    <2> HIDE DEF g
    <2>5. Adds(g, list, n + 1)
      BY <2>3, <2>4 DEF Adds
    <2> QED BY <2>5
  <1> HIDE DEF S
  <1>3. Nat \subseteq S
    BY <1>1, <1>2, SetInduction
  <1> QED BY <1>3 DEF S

\* Sums of lists that begin alike begin alike.
LEMMA SumsAgree ==
  ASSUME NEW list, NEW more, NEW n \in Nat, NEW m \in Nat, n <= m, NEW f, NEW g,
         Adds(f, list, n), Adds(g, more, m), \A k \in 1..n : more[k] = list[k]
  PROVE  \A k \in 0..n : f[k] = g[k]
PROOF
  <1> DEFINE S == {k \in Nat : k <= n => f[k] = g[k]}
  <1>1. \A k \in 0..n : f[k] = IF k = 0 THEN 0 ELSE f[k - 1] + list[k].saved
    BY DEF Adds
  <1>2. \A k \in 0..m : g[k] = IF k = 0 THEN 0 ELSE g[k - 1] + more[k].saved
    BY DEF Adds
  <1>3. 0 \in S
    BY <1>1, <1>2
  <1>4. ASSUME NEW k \in Nat, k \in S PROVE k + 1 \in S
    <2> SUFFICES ASSUME k + 1 <= n PROVE f[k + 1] = g[k + 1]
      OBVIOUS
    <2>1. f[k] = g[k] /\ k + 1 \in 1..n /\ k + 1 \in 0..n /\ k + 1 \in 0..m /\ k + 1 # 0
          /\ (k + 1) - 1 = k
      BY <1>4
    <2>2. f[k + 1] = f[k] + list[k + 1].saved /\ g[k + 1] = g[k] + more[k + 1].saved
      BY <1>1, <1>2, <2>1
    <2> QED BY <2>1, <2>2
  <1> HIDE DEF S
  <1>5. Nat \subseteq S
    BY <1>3, <1>4, SetInduction
  <1> QED BY <1>5 DEF S

LEMMA SavedInSum ==
  ASSUME NEW list, NEW n \in Nat
  PROVE  \E f : Adds(f, list, n) /\ SavedIn(list, n) = f[n]
PROOF
  <1> DEFINE s == CHOOSE f : Adds(f, list, n)
  <1>1. Adds(s, list, n)
    BY SumExists
  <1>2. SavedIn(list, n) = s[n]
    BY DEF SavedIn, Adds
  <1> QED BY <1>1, <1>2

\* What is saved of a list that grows at its end.
LEMMA SavedFacts ==
  ASSUME NEW list, NEW more, NEW n \in Nat, \A k \in 1..n : more[k] = list[k]
  PROVE  /\ SavedIn(list, 0) = 0
         /\ SavedIn(more, n) = SavedIn(list, n)
         /\ SavedIn(more, n + 1) = SavedIn(more, n) + more[n + 1].saved
PROOF
  <1>1. SavedIn(list, 0) = 0
    BY SavedInSum DEF Adds
  <1>2. PICK f : Adds(f, list, n) /\ SavedIn(list, n) = f[n]
    BY SavedInSum
  <1>3. PICK g : Adds(g, more, n) /\ SavedIn(more, n) = g[n]
    BY SavedInSum
  <1>4. PICK h : Adds(h, more, n + 1) /\ SavedIn(more, n + 1) = h[n + 1]
    BY SavedInSum
  <1>5. f[n] = g[n]
    BY <1>2, <1>3, SumsAgree
  <1>6. g[n] = h[n]
    BY <1>3, <1>4, SumsAgree
  <1>7. h[n + 1] = h[n] + more[n + 1].saved
    BY <1>4 DEF Adds
  <1> QED BY <1>1, <1>2, <1>3, <1>4, <1>5, <1>6, <1>7

-----------------------------------------------------------------------------
(* The outputs of the runs.                                                 *)

\* A stored output is what the capture limit lets through of its run, and the output
\* of a run that came to its end is that of the case's latest run.
SlotInv ==
  /\ \A i \in Cases : slot[i].kept = Captured(slot[i].size)
  /\ CollectAll(job) =>
       \A i \in Cases \ settled :
         run[i] \in {"returned", "collected"} /\ result[i].status # "system_error" =>
           slot[i].run = runs[i]

\* An end of a run leaves its own output behind, or it was broken.
LEMMA EndsRunSlot ==
  ASSUME IndInv, SlotInv, NEW i \in Cases, EndsRun(i), UNCHANGED <<job, runs>>
  PROVE  /\ \A k \in Cases \ {i} : slot'[k] = slot[k]
         /\ \A k \in Cases : slot'[k].kept = Captured(slot'[k].size)
         /\ CollectAll(job) /\ result'[i].status # "system_error" => slot'[i].run = runs[i]
PROOF
  <1>1. slot \in [Cases -> Outputs] /\ result \in [Cases -> Result \cup {NoResult}]
    BY DEF IndInv, TypeOK
  <1>2. CASE BreaksRun(i)
    <2>1. slot' = slot /\ result'[i].status = "system_error"
      BY <1>1, <1>2 DEF BreaksRun
    <2> QED BY <2>1 DEF SlotInv
  <1>3. ASSUME NEW status \in CaseStatuses, NEW t \in Runtimes \cup {None}, NEW size \in OutputSizes,
               CompletesRun(i, status, t, size)
        PROVE  /\ \A k \in Cases \ {i} : slot'[k] = slot[k]
               /\ \A k \in Cases : slot'[k].kept = Captured(slot'[k].size)
               /\ CollectAll(job) => slot'[i].run = runs[i]
    <2>1. CASE ~CollectAll(job)
      BY <1>3, <2>1 DEF CompletesRun, SlotInv
    <2>2. CASE CollectAll(job)
      <3> DEFINE out == [run |-> runs[i], kept |-> Captured(size), size |-> size]
      <3>1. slot' = [slot EXCEPT ![i] = out]
        BY <1>3, <2>2 DEF CompletesRun
      <3>2. out.kept = Captured(out.size) /\ out.run = runs[i]
        OBVIOUS
      <3> HIDE DEF out
      <3>3. slot'[i] = out /\ \A k \in Cases \ {i} : slot'[k] = slot[k]
        BY <1>1, <3>1
      <3> QED BY <3>2, <3>3 DEF SlotInv
    <2> QED BY <2>1, <2>2
  <1> QED BY <1>2, <1>3 DEF EndsRun

\* The outputs that are stored are those of the runs.
LEMMA SlotStep ==
  ASSUME IndInv, SlotInv, [Next]_vars PROVE SlotInv'
PROOF
  <1>0. job' = job /\ \A s : Captured(s)' = Captured(s)
    <2>1. job' = job
      BY StepEffect DEF Quiet, SettlesOne
    <2> QED BY <2>1 DEF Captured
  <1>1. CASE UNCHANGED <<run, runs, result, slot, settled>>
    BY <1>0, <1>1 DEF SlotInv, Captured
  <1>2. CASE StartBatch
    BY <1>0, <1>2 DEF StartBatch, SlotInv, Captured, loop_vars, IndInv, TypeOK
  <1>3. ASSUME NEW i \in Cases, CaseReturns(i) \/ Confirm(i), EndsRun(i) PROVE SlotInv'
    <2>1. UNCHANGED <<job, runs, settled>>
      BY <1>3 DEF CaseReturns, Confirm, loop_vars
    <2>2. \A k \in Cases \ {i} : run'[k] = run[k] /\ result'[k] = result[k]
      BY <1>3, EndsRunType DEF CaseReturns, Confirm, IndInv, TypeOK
    <2> QED BY <1>0, <1>3, <2>1, <2>2, EndsRunSlot DEF SlotInv, Captured
  <1>4. ASSUME NEW i \in Cases,
               /\ UNCHANGED <<runs, result, slot, settled>>
               /\ \A k \in Cases : run'[k] \in {"returned", "collected"} =>
                                     run[k] \in {"returned", "collected"}
        PROVE  SlotInv'
    BY <1>0, <1>4 DEF SlotInv, Captured
  <1>5. ASSUME NEW i \in Cases, BeginConfirmation(i) PROVE SlotInv'
    <2>1. UNCHANGED <<result, slot, settled>>
      BY <1>5 DEF BeginConfirmation, loop_vars
    <2>2. run'[i] = "running" /\ \A k \in Cases \ {i} : run'[k] = run[k] /\ runs'[k] = runs[k]
      BY <1>5 DEF BeginConfirmation, IndInv, TypeOK
    <2> QED BY <1>0, <2>1, <2>2 DEF SlotInv, Captured
  <1>6. ASSUME NEW i \in Cases, SettlesOne(i) PROVE SlotInv'
    <2>1. settled' = settled \cup {i} /\ UNCHANGED <<run, runs, result>>
      BY <1>6, SettlesFacts DEF SettlesOne
    <2>2. slot' = slot \/ slot' = [slot EXCEPT ![i] = NoOutput]
      BY <1>6 DEF SettlesOne, Observes
    <2>3. NoOutput.kept = Captured(NoOutput.size)
      BY CaseJudgingAssumption DEF NoOutput, Captured, Least
    <2>4. \A k \in Cases : slot'[k] = slot[k] \/ (k = i /\ slot'[k] = NoOutput)
      BY <2>2 DEF IndInv, TypeOK
    <2> QED BY <1>0, <2>1, <2>3, <2>4 DEF SlotInv, Captured
  <1>7. CASE OpenJobDir \/ PrepareCommand \/ RunFinal \/ PrepareChecker \/ Finish \/ EndBatch
             \/ RemoveJobDir \/ Terminated \/ UNCHANGED vars
    BY <1>1, <1>7 DEF OpenJobDir, PrepareCommand, RunFinal, PrepareChecker, Finish, EndBatch,
                      RemoveJobDir, Terminated, CallbackRaises, vars, case_vars, loop_vars
  <1>8. ASSUME NEW i \in Cases, CaseRaises(i) \/ Collect(i) \/ CollectRaised(i) PROVE SlotInv'
    <2>1. UNCHANGED <<runs, result, slot, settled>>
      BY <1>8 DEF CaseRaises, Collect, CollectRaised, CallbackRaises, case_vars, loop_vars
    <2>2. \/ run' = [run EXCEPT ![i] = "raised"] \/ run' = run
          \/ run[i] = "returned" /\ run' = [run EXCEPT ![i] = "collected"]
      BY <1>8 DEF CaseRaises, Collect, CollectRaised, CallbackRaises, case_vars
    <2>3. \A k \in Cases : run'[k] \in {"returned", "collected"} =>
                             run[k] \in {"returned", "collected"}
      BY <2>2 DEF IndInv, TypeOK
    <2> QED BY <1>4, <2>1, <2>3
  <1>9. ASSUME NEW i \in Cases, CaseReturns(i) \/ Confirm(i), ~EndsRun(i) PROVE SlotInv'
    <2>1. UNCHANGED <<runs, result, slot, settled>> /\ run' = [run EXCEPT ![i] = "raised"]
      BY <1>9 DEF CaseReturns, Confirm, loop_vars
    <2>2. \A k \in Cases : run'[k] \in {"returned", "collected"} =>
                             run[k] \in {"returned", "collected"}
      BY <2>1 DEF IndInv, TypeOK
    <2> QED BY <1>4, <2>1, <2>2
  <1>10. ASSUME NEW i \in Cases, ObserveCase(i) \/ PassCase(i) \/ FailCase(i) PROVE SlotInv'
    <2>1. CASE CallbackRaises
      BY <1>1, <2>1 DEF CallbackRaises, case_vars, loop_vars
    <2>2. CASE ~CallbackRaises
      <3>1. verdict = NoVerdict
        BY <1>10, <2>2 DEF ObserveCase, Observes, ObserveRaises, PassCase, FailCase, Settles,
                           IsNext, IndInv, VerdictInv
      <3>2. SettlesOne(i)
        BY <1>10, <2>2, <3>1 DEF ObserveCase, Observes, ObserveRaises, PassCase, FailCase, Leave,
                           SettlesOne, case_vars
      <3> QED BY <1>6, <3>2
    <2> QED BY <2>1, <2>2
  <1> QED BY <1>2, <1>3, <1>5, <1>7, <1>8, <1>9, <1>10 DEF Next, CallingThread, Worker

-----------------------------------------------------------------------------
(* The outputs that are reported.                                           *)

\* What is saved is counted in bytes.
SavedTyped == \A n \in 0..Len(observations) : SavedBy(n) \in Nat

\* An observation reports the output of the run that counts, as far as the budget goes.
LEMMA ObservedWithin ==
  ASSUME IndInv, SlotInv, ObservedInv, SavedTyped, ObservedOutputs, NEW i \in Cases,
         SettlesOne(i), Observes(i)
  PROVE  SavedTyped' /\ ObservedOutputs'
PROOF
  <1> DEFINE L == Len(observations)
             out == slot[i]
             more == observations'
             saved == Observation(i).saved
  <1>1. /\ L \in Nat /\ DOMAIN observations = 1..L /\ DOMAIN more = 1..(L + 1)
        /\ Len(observations') = L + 1
        /\ \A n \in 1..L : more[n] = observations[n]
        /\ more[L + 1] = Observation(i)
    BY ObservationAdded
  <1>2. /\ UNCHANGED <<job, run, runs, result>> /\ budget' = budget - saved
        /\ CollectAll(job) /\ i \notin settled /\ run[i] = "collected"
    BY SettlesFacts DEF SettlesOne, Observes, IndInv, BatchInv, Settles, IsNext
  <1>3. /\ Observation(i).case = i /\ Observation(i).run = out.run
        /\ Observation(i).status = result[i].status /\ Observation(i).size = out.size
        /\ saved = Least(out.kept, budget)
    BY DEF Observation
  <1>4. out.kept \in Nat /\ budget \in Nat /\ out.kept = Captured(out.size)
    BY DEF IndInv, TypeOK, Outputs, SlotInv
  <1>5. /\ saved \in Nat /\ saved <= budget
        /\ saved < out.kept => saved = budget
    BY <1>3, <1>4 DEF Least
  <1> HIDE DEF L, saved, more
  <1>6. OutputOfReportedRun'
    <2>1. \A n \in 1..L : more[n].status # "system_error" => more[n].run = runs[more[n].case]
      BY <1>1 DEF ObservedOutputs, OutputOfReportedRun
    <2>2. more[L + 1].status # "system_error" => more[L + 1].run = runs[more[L + 1].case]
      BY <1>1, <1>2, <1>3 DEF SlotInv
    <2>3. \A n \in 1..(L + 1) : n \in 1..L \/ n = L + 1
      BY <1>1
    <2> QED BY <1>1, <1>2, <2>1, <2>2, <2>3 DEF OutputOfReportedRun, more
  <1>7. \A n \in 0..L : SavedIn(more, n) = SavedIn(observations, n)
    <2> TAKE n \in 0..L
    <2>1. n \in Nat /\ \A k \in 1..n : more[k] = observations[k]
      BY <1>1
    <2> QED BY <2>1, SavedFacts
  <1>8. SavedIn(more, L + 1) = SavedIn(observations, L) + saved
    <2>1. SavedIn(more, L + 1) = SavedIn(more, L) + more[L + 1].saved
      BY <1>1, SavedFacts
    <2> QED BY <1>1, <1>7, <2>1 DEF saved
  <1>9. /\ \A n \in 0..L : SavedIn(observations, n) \in Nat
        /\ SavedIn(observations, L) + budget = InitialBudget(job)
        /\ \A n \in 1..L : observations[n].saved < Captured(observations[n].size) =>
             SavedIn(observations, n) = InitialBudget(job)
    BY <1>1 DEF SavedTyped, ObservedOutputs, OutputWithinBudget, SavedBy, L
  <1>10. SavedTyped'
    <2>1. \A n \in 0..(L + 1) : n \in 0..L \/ n = L + 1
      BY <1>1
    <2> QED BY <1>1, <1>5, <1>7, <1>8, <1>9, <2>1 DEF SavedTyped, SavedBy, more
  <1>11. OutputWithinBudget'
    <2>1. InitialBudget(job') = InitialBudget(job) /\ InitialBudget(job) \in Nat
      BY <1>2, BudgetFacts DEF IndInv, TypeOK
    <2>2. SavedIn(observations, L) \in Nat
      BY <1>1, <1>9
    <2>3. /\ SavedIn(more, L + 1) <= InitialBudget(job)
          /\ SavedIn(more, L + 1) + budget' = InitialBudget(job)
          /\ saved < out.kept => SavedIn(more, L + 1) = InitialBudget(job)
      BY <1>2, <1>4, <1>5, <1>8, <1>9, <2>1, <2>2
    <2>5. ASSUME NEW n \in 1..(L + 1), more[n].saved < Captured(more[n].size)
          PROVE  SavedIn(more, n) = InitialBudget(job)
      <3>1. CASE n \in 1..L
        BY <1>1, <1>7, <1>9, <2>5, <3>1
      <3>2. CASE n = L + 1
        BY <1>1, <1>3, <1>4, <2>3, <2>5, <3>2 DEF saved
      <3> QED BY <1>1, <3>1, <3>2
    <2>6. /\ SavedBy(Len(observations))' = SavedIn(more, L + 1)
          /\ \A n : SavedBy(n)' = SavedIn(more, n)
      BY <1>1 DEF SavedBy, more
    <2>7. \A n \in DOMAIN observations' :
            observations'[n].saved <
                Least(observations'[n].size,
                      IF ReferenceOutput(job) THEN ReferenceBudget ELSE CaseCapture) =>
              SavedBy(n)' = InitialBudget(job)
      BY <1>1, <2>5, <2>6 DEF Captured, more
    <2>8. ReferenceOutput(job') = ReferenceOutput(job)
      BY <1>2
    <2> QED BY <2>1, <2>3, <2>6, <2>7, <2>8 DEF OutputWithinBudget, Captured
  <1>12. CutsAreSaid'
    <2>1. \A n \in 1..L : more[n].truncated <=> more[n].saved < more[n].size
      BY <1>1 DEF ObservedOutputs, CutsAreSaid
    <2>2. more[L + 1].truncated <=> more[L + 1].saved < more[L + 1].size
      <3>1. /\ Observation(i).truncated = (Least(out.kept, budget) < out.size)
            /\ Observation(i).saved = Least(out.kept, budget)
            /\ Observation(i).size = out.size
        BY Zenon DEF Observation
      <3> QED BY <1>1, <3>1, Zenon
    <2>3. \A n \in 1..(L + 1) : n \in 1..L \/ n = L + 1
      BY <1>1
    <2> QED BY <1>1, <2>1, <2>2, <2>3 DEF CutsAreSaid, more
  <1> QED BY <1>6, <1>10, <1>11, <1>12 DEF ObservedOutputs

\* A step that settles a case reports its output; the others report none.
LEMMA OutputsStep ==
  ASSUME IndInv, OrderInv, SlotInv, SavedTyped, ObservedOutputs, [Next]_vars
  PROVE  SavedTyped' /\ ObservedOutputs'
PROOF
  <1>1. ASSUME UNCHANGED <<job, budget, observations>>,
               \A k \in settled : runs'[k] = runs[k]
        PROVE  SavedTyped' /\ ObservedOutputs'
    <2>1. \A n \in DOMAIN observations : observations[n].case \in settled
      BY DEF OrderInv, ObservedInv
    <2>2. OutputOfReportedRun'
      BY <1>1, <2>1 DEF ObservedOutputs, OutputOfReportedRun
    <2>3. SavedTyped' /\ OutputWithinBudget'
      BY <1>1 DEF ObservedOutputs, OutputWithinBudget, SavedTyped, SavedBy, InitialBudget, Captured
    <2>4. CutsAreSaid'
      BY <1>1 DEF ObservedOutputs, CutsAreSaid
    <2> QED BY <2>2, <2>3, <2>4 DEF ObservedOutputs
  <1>2. CASE Quiet
    BY <1>1, <1>2 DEF Quiet
  <1>3. ASSUME NEW i \in Cases, SettlesOne(i) PROVE SavedTyped' /\ ObservedOutputs'
    <2>1. CASE Observes(i)
      BY <1>3, <2>1, ObservedWithin DEF OrderInv
    <2>2. CASE ~Observes(i)
      BY <1>1, <1>3, <2>2 DEF SettlesOne
    <2> QED BY <2>1, <2>2
  <1> QED BY <1>2, <1>3, StepEffect

\* The output reported for a case is that of the run whose status is reported, the
\* outputs of a job share its budget to the last byte, and what is cut is said to be
\* (app/executor.py:311-329).
THEOREM OutputsAreTrue == Spec => []ObservedOutputs
PROOF
  <1> DEFINE Inv == SlotInv /\ SavedTyped /\ ObservedOutputs
  <1>1. Init => Inv
    <2> SUFFICES ASSUME Init PROVE Inv
      OBVIOUS
    <2>1. SlotInv
      BY CaseJudgingAssumption DEF Init, SlotInv, NoOutput, Captured, Least
    <2>2. Len(observations) = 0 /\ DOMAIN observations = {} /\ budget = InitialBudget(job)
          /\ InitialBudget(job) \in Nat
      BY BudgetFacts DEF Init
    <2>3. SavedBy(0) = 0
      BY SavedFacts DEF SavedBy
    <2> QED BY <2>1, <2>2, <2>3
            DEF SavedTyped, ObservedOutputs, OutputOfReportedRun, OutputWithinBudget, CutsAreSaid
  <1>2. IndInv /\ OrderInv /\ Inv /\ [Next]_vars => Inv'
    BY SlotStep, OutputsStep
  <1> QED BY <1>1, <1>2, SpecIndInv, SpecOrderInv, PTL DEF Spec

-----------------------------------------------------------------------------
(* The progress of the job.                                                 *)

\* The cases of the job that as_completed has yielded, and so has counted.
Counted == {i \in Positions(job) : runs[i] # 0 /\ (run[i] = "collected" \/ runs[i] = 2)}

\* The calling thread is at the cases: between the checker and the verdict.
AtCases == pc = "dispatch" \/ InBatch

\* Each case is counted once, however often it is run, and observed once.
CountInv ==
  /\ \A i \in Cases : runs[i] = 0 => run[i] = "idle"
  /\ \A i \in Cases \ Positions(job) : runs[i] = 0
  /\ pc \in {"start", "prepare", "final", "checker"} => completed = 0
  /\ AtCases => completed = Cardinality(Counted)
  /\ CollectAll(job) => Len(observations) = Cardinality(settled)

\* What the backend was told of the progress, by the way the job is judged.
ProgressInv ==
  /\ progress <= job.total
  /\ pc \in {"start", "prepare"} => progress = None
  /\ pc = "checker" => progress = 0
  /\ verdict.status = "accepted" /\ job.total > 0 => progress = job.total
  /\ AtCases =>
       /\ CollectAll(job) => progress = Len(observations)
       /\ ~CollectAll(job) => progress <= completed
       /\ ~CollectAll(job) /\ Parallel => progress = completed
       /\ ~CollectAll(job) /\ (pc = "dispatch" \/ (pc = "settling" /\ CurrentBatch \subseteq settled))
            => progress = completed

\* The sets of cases of a job are finite, and the whole has job.total members.
LEMMA Sizes ==
  ASSUME job \in Jobs
  PROVE  /\ job.total \in Nat /\ Cardinality(Positions(job)) = job.total
         /\ \A T \in SUBSET Positions(job) :
              IsFiniteSet(T) /\ Cardinality(T) \in Nat /\ Cardinality(T) <= job.total
PROOF
  <1>1. job.total \in Nat
    BY JobFacts, JudgeJobsAssumption
  <1>2. IsFiniteSet(Positions(job)) /\ Cardinality(Positions(job)) = job.total
    <2>1. /\ IsFiniteSet(1..job.total)
          /\ Cardinality(1..job.total) = IF 1 > job.total THEN 0 ELSE job.total - 1 + 1
      <3>1. 1 \in Int /\ job.total \in Int
        BY <1>1
      <3> QED BY <3>1, FS_Interval
    <2>2. Cardinality(1..job.total) = job.total
      BY <1>1, <2>1
    <2> QED BY <2>1, <2>2 DEF Positions
  <1>3. \A T \in SUBSET Positions(job) :
          IsFiniteSet(T) /\ Cardinality(T) \in Nat /\ Cardinality(T) <= job.total
    BY <1>2, FS_Subset, FS_CardinalityType
  <1> QED BY <1>1, <1>2, <1>3

\* A case that returns to the calling thread is one of the batch and is not counted yet.
LEMMA Uncounted ==
  ASSUME IndInv, CountInv, pc = "collecting", NEW i \in Cases, run[i] \in {"running", "returned", "raised"}
  PROVE  i \in CurrentBatch /\ runs[i] = 1 /\ i \notin Counted
PROOF
  <1>1. runs[i] # 0 /\ i \in Positions(job)
    BY DEF CountInv
  <1>2. i > offset /\ i <= offset + Workers(job)
    <2>1. ~(i <= offset)
      BY <1>1 DEF IndInv, BatchInv, InBatch
    <2>2. ~(i > offset + Workers(job))
      BY <1>1 DEF IndInv, BatchInv, InBatch
    <2>3. i \in Int /\ offset \in Int /\ Workers(job) \in Int
      BY <1>1, JobFacts DEF IndInv, TypeOK
    <2> QED BY <2>1, <2>2, <2>3
  <1>3. i \in CurrentBatch
    BY <1>1, <1>2, BatchFacts DEF IndInv, TypeOK
  <1>4. runs[i] = 1
    BY <1>3 DEF IndInv, BatchInv
  <1> QED BY <1>3, <1>4 DEF Counted

\* Steps that count nothing and observe nothing.
LEMMA CountStays ==
  ASSUME IndInv, CountInv, UNCHANGED <<job, completed, settled, observations>>,
         AtCases' => AtCases /\ Counted' = Counted,
         pc' \in {"start", "prepare", "final", "checker"} => pc \in {"start", "prepare", "final", "checker"},
         \A i \in Cases : runs'[i] = 0 => runs[i] = 0 /\ run'[i] = run[i],
         \A i \in Cases \ Positions(job) : runs'[i] = runs[i]
  PROVE  CountInv'
PROOF
  <1>1. /\ \A i \in Cases : runs'[i] = 0 => run'[i] = "idle"
        /\ \A i \in Cases \ Positions(job') : runs'[i] = 0
        /\ pc' \in {"start", "prepare", "final", "checker"} => completed' = 0
    BY DEF CountInv
  <1>2. AtCases' => completed' = Cardinality(Counted')
    BY DEF CountInv
  <1>3. CollectAll(job') => Len(observations') = Cardinality(settled')
    BY DEF CountInv
  <1> QED BY <1>1, <1>2, <1>3 DEF CountInv

\* Every step of every thread keeps the count, and advances the progress.
LEMMA CountStep ==
  ASSUME IndInv, CountInv, [Next]_vars PROVE CountInv'
PROOF
  <1> USE DEF AtCases, InBatch
  <1>0. /\ runs \in [Cases -> 0..2] /\ job \in Jobs
        /\ run \in [Cases -> {"idle", "running", "returned", "raised", "collected"}]
        /\ Positions(job) \subseteq Cases
    BY JobFacts DEF IndInv, TypeOK
  <1>1. ASSUME UNCHANGED <<job, run, runs, completed, settled, observations>>,
               AtCases' => AtCases,
               pc' \in {"start", "prepare", "final", "checker"} =>
                 pc \in {"start", "prepare", "final", "checker"}
        PROVE  CountInv'
    <2>1. Counted' = Counted
      BY <1>1 DEF Counted
    <2> HIDE DEF AtCases
    <2> QED BY <1>1, <2>1, CountStays
  <1>2. ASSUME CallbackRaises PROVE CountInv'
    BY <1>1, <1>2 DEF CallbackRaises, Leave, case_vars, loop_vars
  <1>3. CASE OpenJobDir \/ PrepareCommand \/ RunFinal \/ Finish \/ EndBatch \/ RemoveJobDir
             \/ Terminated \/ UNCHANGED vars
    <2>1. CASE CallbackRaises
      BY <1>2, <2>1
    <2>2. CASE ~CallbackRaises
      BY <1>1, <1>3, <2>2 DEF OpenJobDir, PrepareCommand, RunFinal, Finish, EndBatch, RemoveJobDir,
                    Terminated, Leave, vars, case_vars, loop_vars
    <2> QED BY <2>1, <2>2
  <1>4. CASE PrepareChecker
    <2>1. pc = "checker" /\ completed = 0 /\ offset = 0
      BY <1>4 DEF PrepareChecker, CountInv, IndInv, BatchInv
    <2>2. UNCHANGED <<job, run, runs, completed, settled, observations>>
      BY <1>4 DEF PrepareChecker, case_vars, loop_vars
    <2>3. CASE pc' = "dispatch"
      <3>1. \A i \in Positions(job) : runs[i] = 0
        BY <1>0, <2>1, JobFacts DEF IndInv, BatchInv
      <3>2. Counted' = {}
        BY <2>2, <3>1 DEF Counted
      <3>3. Cardinality({}) = 0
        BY FS_EmptySet
      <3> QED BY <2>1, <2>2, <2>3, <3>2, <3>3 DEF CountInv
    <2>4. CASE pc' # "dispatch"
      BY <1>1, <1>4, <2>2, <2>4 DEF PrepareChecker, Leave
    <2> QED BY <2>3, <2>4
  <1>5. CASE StartBatch
    <2>1. \A i \in CurrentBatch : runs[i] = 0 /\ i \in Positions(job)
      BY <1>0, <1>5, BatchFacts DEF StartBatch, IndInv, TypeOK, BatchInv
    <2>2. /\ \A i \in CurrentBatch : run'[i] = "running" /\ runs'[i] = 1
          /\ \A i \in Cases \ CurrentBatch : run'[i] = run[i] /\ runs'[i] = runs[i]
      BY <1>0, <1>5, <2>1 DEF StartBatch
    <2>3. UNCHANGED <<job, completed, settled, observations>> /\ pc = "dispatch" /\ pc' = "collecting"
      BY <1>5 DEF StartBatch, loop_vars
    <2>4. Counted' = Counted
      BY <1>0, <2>1, <2>2, <2>3 DEF Counted
    <2>5. AtCases /\ pc' \notin {"start", "prepare", "final", "checker"}
      BY <2>3
    <2>6. \A i \in Cases : runs'[i] = 0 => runs[i] = 0 /\ run'[i] = run[i]
      BY <2>2
    <2>7. \A i \in Cases \ Positions(job) : runs'[i] = runs[i]
      BY <2>1, <2>2
    <2> HIDE DEF AtCases
    <2> QED BY <2>3, <2>4, <2>5, <2>6, <2>7, CountStays
  <1>6. ASSUME NEW i \in Cases, CaseReturns(i) \/ CaseRaises(i) PROVE CountInv'
    <2>1. /\ UNCHANGED <<job, pc, runs, completed, settled, observations>>
          /\ run[i] = "running" /\ pc \in {"collecting", "unwinding"}
          /\ \A k \in Cases \ {i} : run'[k] = run[k]
          /\ run'[i] \in {"returned", "raised"}
      BY <1>0, <1>6 DEF CaseReturns, CaseRaises, loop_vars
    <2>2. AtCases => Counted' = Counted
      <3>1. AtCases => runs[i] = 1
        BY <2>1, Uncounted
      <3> QED BY <1>0, <2>1, <3>1 DEF Counted
    <2>3. runs[i] # 0
      BY <2>1 DEF CountInv
    <2>4. AtCases' => AtCases
      BY <2>1
    <2> HIDE DEF AtCases
    <2> QED BY <2>1, <2>2, <2>3, <2>4, CountStays
  <1>7. ASSUME NEW i \in Cases, Collect(i) PROVE CountInv'
    <2>1. CASE CallbackRaises
      BY <1>2, <2>1
    <2>2. CASE ~CallbackRaises
      <3>1. /\ UNCHANGED <<job, runs, settled, observations>> /\ completed' = completed + 1
            /\ pc = "collecting" /\ pc' \in {"collecting", "settling"}
            /\ run[i] = "returned" /\ run'[i] = "collected"
            /\ \A k \in Cases \ {i} : run'[k] = run[k]
        BY <1>0, <1>7, <2>2 DEF Collect
      <3>2. i \in CurrentBatch /\ runs[i] = 1 /\ i \notin Counted /\ i \in Positions(job)
        BY <3>1, Uncounted, BatchFacts DEF IndInv, TypeOK
      <3>3. Counted' = Counted \cup {i}
        BY <1>0, <3>1, <3>2 DEF Counted
      <3>4. IsFiniteSet(Counted)
        BY Sizes DEF Counted, IndInv, TypeOK
      <3>5. Cardinality(Counted') = Cardinality(Counted) + 1
        BY <3>2, <3>3, <3>4, FS_AddElement
      <3> QED BY <3>1, <3>2, <3>5 DEF CountInv
    <2> QED BY <2>1, <2>2
  <1>8. ASSUME NEW i \in Cases, CollectRaised(i) PROVE CountInv'
    BY <1>2, <1>8 DEF CollectRaised, CallbackRaises
  <1>9. ASSUME NEW i \in Cases, BeginConfirmation(i) PROVE CountInv'
    <2>1. /\ UNCHANGED <<job, completed, settled, observations>>
          /\ pc = "settling" /\ pc' = "confirming" /\ runs[i] = 1 /\ i \in CurrentBatch
          /\ run' = [run EXCEPT ![i] = "running"] /\ runs' = [runs EXCEPT ![i] = @ + 1]
      BY <1>9 DEF BeginConfirmation, IsNext, NeedsConfirmation, loop_vars
    <2>2. run[i] = "collected" /\ i \in Positions(job)
      BY <2>1, BatchFacts DEF IndInv, TypeOK, BatchInv
    <2>3. /\ runs'[i] = 2
          /\ \A k \in Cases \ {i} : run'[k] = run[k] /\ runs'[k] = runs[k]
      BY <1>0, <2>1
    <2>4. Counted' = Counted
      BY <1>0, <2>1, <2>2, <2>3 DEF Counted
    <2>5. AtCases /\ pc' \notin {"start", "prepare", "final", "checker"}
      BY <2>1
    <2> HIDE DEF AtCases
    <2> QED BY <2>1, <2>2, <2>3, <2>4, <2>5, CountStays
  <1>10. ASSUME NEW i \in Cases, Confirm(i) PROVE CountInv'
    <2>1. /\ UNCHANGED <<job, runs, completed, settled, observations>>
          /\ pc = "confirming" /\ pc' \in {"settling", "unwinding"} /\ run[i] = "running"
          /\ pc' = "settling" => run'[i] = "collected"
          /\ run'[i] # "idle"
          /\ \A k \in Cases \ {i} : run'[k] = run[k]
      BY <1>0, <1>10 DEF Confirm, Leave, loop_vars
    <2>2. runs[i] = 2
      BY <2>1 DEF IndInv, RunningInv, Running
    <2>3. pc' = "settling" => Counted' = Counted
      BY <1>0, <2>1, <2>2 DEF Counted
    <2>4. AtCases /\ pc' \notin {"start", "prepare", "final", "checker"}
          /\ (AtCases' => Counted' = Counted)
      BY <2>1, <2>3
    <2> HIDE DEF AtCases
    <2> QED BY <2>1, <2>2, <2>4, CountStays
  <1>11. ASSUME NEW i \in Cases, ObserveCase(i) \/ PassCase(i) \/ FailCase(i) PROVE CountInv'
    <2>1. CASE CallbackRaises
      BY <1>2, <2>1
    <2>2. CASE ~CallbackRaises
      <3>1. /\ Settles(i) /\ UNCHANGED <<job, run, runs, completed>> /\ pc = "settling"
            /\ pc' \in {"settling", "unwinding"}
            /\ Observes(i) \/ (~CollectAll(job) /\ observations' = observations)
        BY <1>11, <2>2 DEF ObserveCase, Observes, ObserveRaises, PassCase, FailCase, Settles,
                           IsNext, Leave, case_vars
      <3>2. Counted' = Counted
        BY <3>1 DEF Counted
      <3>3. CollectAll(job) => Len(observations') = Cardinality(settled')
        <4> SUFFICES ASSUME CollectAll(job) PROVE Len(observations') = Cardinality(settled')
          OBVIOUS
        <4>1. Len(observations') = Len(observations) + 1
          BY <3>1, ObservationAdded
        <4>2. settled' = settled \cup {i} /\ i \notin settled /\ IsFiniteSet(settled)
          BY <3>1, SettlesFacts, Sizes DEF IndInv, TypeOK
        <4>3. Cardinality(settled') = Cardinality(settled) + 1
          BY <4>2, FS_AddElement
        <4> QED BY <4>1, <4>3 DEF CountInv
      <3> QED BY <3>1, <3>2, <3>3 DEF CountInv
    <2> QED BY <2>1, <2>2
  <1> QED BY <1>3, <1>4, <1>5, <1>6, <1>7, <1>8, <1>9, <1>10, <1>11
      DEF Next, CallingThread, Worker

\* The work that is counted or observed is bounded by the cases of the job.
LEMMA Bounds ==
  ASSUME IndInv, CountInv
  PROVE  /\ job.total \in Nat
         /\ AtCases => completed \in Nat /\ completed <= job.total
         /\ CollectAll(job) => Len(observations) \in Nat /\ Len(observations) <= job.total
         /\ settled = Positions(job) /\ AtCases => completed = job.total
         /\ settled = Positions(job) /\ CollectAll(job) => Len(observations) = job.total
PROOF
  <1>1. /\ job.total \in Nat /\ Cardinality(Positions(job)) = job.total
        /\ \A T \in SUBSET Positions(job) : Cardinality(T) \in Nat /\ Cardinality(T) <= job.total
    BY Sizes DEF IndInv, TypeOK
  <1>2. Counted \in SUBSET Positions(job) /\ settled \in SUBSET Positions(job)
    BY DEF Counted, IndInv, TypeOK
  <1>3. settled = Positions(job) => Counted = Positions(job)
    BY DEF Counted, IndInv, BatchInv
  <1> QED BY <1>1, <1>2, <1>3 DEF CountInv

\* What ProgressIsMonotone says of one step.
Advances == progress' >= progress

LEMMA ProgressStep ==
  ASSUME IndInv, CountInv, ProgressInv, [Next]_vars PROVE ProgressInv' /\ Advances
PROOF
  <1> USE DEF AtCases, InBatch
  <1>0. /\ job \in Jobs /\ progress \in Int /\ None \in Int /\ None <= 0 /\ None < 0
        /\ job.total \in Nat /\ progress \in Nat \cup {None}
        /\ job' = job
    <2>1. job' = job
      BY StepEffect DEF Quiet, SettlesOne
    <2> QED BY <2>1, Bounds DEF IndInv, TypeOK, None
  <1>1. pc \notin {"unwinding", "done"} => verdict = NoVerdict
    BY DEF IndInv, VerdictInv
  <1>2. ASSUME UNCHANGED progress, ~AtCases', pc' \notin {"start", "prepare", "checker"},
               verdict' = verdict \/ verdict'.status # "accepted" \/ job.total = 0
        PROVE  ProgressInv' /\ Advances
    BY <1>0, <1>2 DEF ProgressInv, Advances
  <1>3. ASSUME CallbackRaises PROVE ProgressInv' /\ Advances
    <2>1. UNCHANGED progress /\ pc' = "unwinding" /\ verdict'.status # "accepted"
      BY <1>3 DEF CallbackRaises, Leave, Raised, Verdict
    <2> QED BY <1>2, <2>1
  <1>4. CASE OpenJobDir
    BY <1>0, <1>4, <1>1 DEF OpenJobDir, ProgressInv, Advances, Raised, Verdict, NoVerdict
  <1>5. CASE PrepareCommand \/ PrepareChecker
    <2>1. CASE CallbackRaises
      BY <1>3, <2>1
    <2>2. CASE ~CallbackRaises
      <3>1. /\ pc \in {"prepare", "checker"}
            /\ pc = "prepare" => pc' \in {"checker", "final", "unwinding"}
            /\ pc = "prepare" => progress' = IF job.total > 0 THEN 0 ELSE progress
            /\ pc = "checker" => pc' \in {"dispatch", "unwinding"} /\ progress' \in {0, progress}
            /\ pc' = "dispatch" => progress' = 0
            /\ pc' = "checker" => progress' = 0
            /\ UNCHANGED <<completed, observations>>
        BY <1>5, <2>2 DEF PrepareCommand, PrepareChecker, Leave, loop_vars
      <3>2. verdict'.status # "accepted"
        BY <1>1, <1>5, <2>2, <3>1 DEF PrepareCommand, PrepareChecker, Leave, Raised, Verdict,
           NoVerdict, EarlyStatuses
      <3>3. pc = "checker" => completed = 0 /\ settled = {}
        BY DEF CountInv, IndInv, BatchInv
      <3>4. pc = "checker" /\ CollectAll(job) => Len(observations) = 0
        BY <3>3, FS_EmptySet DEF CountInv
      <3> QED BY <1>0, <3>1, <3>2, <3>3, <3>4 DEF ProgressInv, Advances
    <2> QED BY <1>5, <2>1, <2>2
  <1>6. CASE RunFinal
    <2>1. job.total = 0 /\ UNCHANGED progress /\ pc' = "unwinding"
      BY <1>6 DEF RunFinal, IndInv, BatchInv, Leave
    <2> QED BY <1>2, <2>1
  <1>7. CASE StartBatch
    BY <1>0, <1>1, <1>7 DEF StartBatch, ProgressInv, Advances, loop_vars, NoVerdict, Parallel
  <1>8. CASE Finish
    <2>1. pc = "dispatch" /\ UNCHANGED progress /\ pc' = "unwinding" /\ offset >= job.total
      BY <1>8 DEF Finish, Leave
    <2>2. settled = Positions(job)
      <3>1. \A i \in Positions(job) : i \in settled
        <4>1. offset \in Nat /\ \A i \in Positions(job) : i <= offset
          BY <1>0, <2>1 DEF IndInv, TypeOK, Positions
        <4> QED BY <2>1, <4>1 DEF IndInv, BatchInv
      <3> QED BY <3>1 DEF IndInv, TypeOK
    <2>3. progress = job.total
      BY <2>1, <2>2, Bounds DEF ProgressInv
    <2> QED BY <1>0, <2>1, <2>3 DEF ProgressInv, Advances
  <1>9. CASE EndBatch
    BY <1>0, <1>9 DEF EndBatch, ProgressInv, Advances, loop_vars, Parallel
  <1>10. CASE RemoveJobDir \/ Terminated \/ UNCHANGED vars
    BY <1>0, <1>10 DEF RemoveJobDir, Terminated, vars, loop_vars, ProgressInv, Advances,
                      CurrentBatch, Parallel
  <1>11. ASSUME NEW i \in Cases, CaseReturns(i) \/ CaseRaises(i) PROVE ProgressInv' /\ Advances
    BY <1>0, <1>11 DEF CaseReturns, CaseRaises, loop_vars, ProgressInv, Advances, Parallel
  <1>12. ASSUME NEW i \in Cases, Collect(i) PROVE ProgressInv' /\ Advances
    <2>1. CASE CallbackRaises
      BY <1>3, <2>1
    <2>2. CASE ~CallbackRaises
      <3>1. /\ UNCHANGED <<job, offset, settled, observations, verdict>>
            /\ completed' = completed + 1
            /\ progress' = IF Parallel /\ ~CollectAll(job) THEN completed + 1 ELSE progress
            /\ pc = "collecting" /\ pc' \in {"collecting", "settling"} /\ run[i] = "returned"
        BY <1>12, <2>2 DEF Collect, CompletedCount
      <3>2. i \in CurrentBatch /\ i \notin settled /\ CurrentBatch' = CurrentBatch
        BY <3>1, Uncounted DEF IndInv, BatchInv, CurrentBatch
      <3>3. completed \in Nat /\ completed' <= job.total
        <4>1. CountInv' /\ IndInv'
          BY CountStep, NextIndInv
        <4>2. Cardinality(Counted') <= job.total /\ completed' = Cardinality(Counted')
          <5>1. job' \in Jobs
            BY <1>0
          <5>2. Counted' \in SUBSET Positions(job)
            BY <1>0 DEF Counted
          <5> QED BY <1>0, <3>1, <4>1, <5>2, Sizes DEF CountInv
        <4> QED BY <3>1, <4>2, Bounds
      <3>4. Parallel' = Parallel /\ CollectAll(job') = CollectAll(job)
        BY <1>0 DEF Parallel
      <3> QED BY <1>0, <1>1, <3>1, <3>2, <3>3, <3>4 DEF ProgressInv, Advances, NoVerdict
    <2> QED BY <2>1, <2>2
  <1>13. ASSUME NEW i \in Cases, CollectRaised(i) PROVE ProgressInv' /\ Advances
    BY <1>3, <1>13 DEF CollectRaised, CallbackRaises
  <1>14. ASSUME NEW i \in Cases, BeginConfirmation(i) PROVE ProgressInv' /\ Advances
    BY <1>0, <1>14 DEF BeginConfirmation, IsNext, loop_vars, ProgressInv, Advances, Parallel
  <1>15. ASSUME NEW i \in Cases, Confirm(i) PROVE ProgressInv' /\ Advances
    <2>1. UNCHANGED <<job, offset, loop_vars, progress>> /\ pc = "confirming"
      BY <1>15 DEF Confirm
    <2>2. CASE pc' = "settling" /\ UNCHANGED verdict
      <3>1. ~(CurrentBatch \subseteq settled) /\ CurrentBatch' = CurrentBatch
        <4>1. \E k \in CurrentBatch : k \in Running
          BY <2>1 DEF IndInv, RunningInv
        <4> QED BY <2>1, <4>1 DEF IndInv, RunningInv, CurrentBatch
      <3> QED BY <1>0, <2>1, <2>2, <3>1 DEF loop_vars, ProgressInv, Advances, Parallel
    <2>3. CASE Leave(Raised)
      BY <1>2, <2>1, <2>3 DEF Leave, Raised, Verdict
    <2> QED BY <1>15, <2>2, <2>3 DEF Confirm
  <1>16. ASSUME NEW i \in Cases, ObserveCase(i) \/ PassCase(i) \/ FailCase(i)
         PROVE  ProgressInv' /\ Advances
    <2>1. CASE CallbackRaises
      BY <1>3, <2>1
    <2>2. CASE Observes(i)
      <3>1. /\ pc = "settling" /\ pc' = pc /\ verdict' = verdict
            /\ progress' = Len(observations) + 1 /\ CollectAll(job)
        BY <2>2 DEF Observes, Settles, IsNext
      <3>2. progress = Len(observations) /\ Len(observations') = Len(observations) + 1
        BY <2>2, <3>1, ObservationAdded DEF ProgressInv
      <3>3. Len(observations') <= job.total
        <4>1. CountInv' /\ IndInv'
          BY CountStep, NextIndInv
        <4>2. settled' \in SUBSET Positions(job)
          BY <1>0, <4>1 DEF IndInv, TypeOK
        <4> QED BY <1>0, <3>1, <4>1, <4>2, Sizes DEF CountInv
      <3> QED BY <1>0, <1>1, <3>1, <3>2, <3>3 DEF ProgressInv, Advances, NoVerdict
    <2>3. CASE PassCase(i) /\ ~CallbackRaises
      <3>1. /\ pc = "settling" /\ pc' = pc /\ UNCHANGED <<job, completed, observations, verdict>>
            /\ progress' = IF Parallel THEN progress ELSE completed
            /\ ~CollectAll(job)
        BY <2>3 DEF PassCase, Settles, IsNext
      <3>2. completed \in Nat /\ completed <= job.total
        BY <3>1, Bounds
      <3>3. Parallel' = Parallel /\ CollectAll(job') = CollectAll(job)
        BY <1>0 DEF Parallel
      <3> QED BY <1>0, <1>1, <3>1, <3>2, <3>3 DEF ProgressInv, Advances, NoVerdict
    <2>4. CASE FailCase(i)
      <3>1. UNCHANGED progress /\ pc' = "unwinding" /\ verdict'.status # "accepted"
        BY <2>4 DEF FailCase, Leave, Verdict
      <3> QED BY <1>2, <3>1
    <2> QED BY <1>16, <2>1, <2>2, <2>3, <2>4 DEF ObserveCase, ObserveRaises
  <1> QED BY <1>4, <1>5, <1>6, <1>7, <1>8, <1>9, <1>10, <1>11, <1>12, <1>13, <1>14, <1>15, <1>16
      DEF Next, CallingThread, Worker

LEMMA SpecProgressInv == Spec => [](CountInv /\ ProgressInv)
PROOF
  <1>1. Init => CountInv /\ ProgressInv
    <2> SUFFICES ASSUME Init PROVE CountInv /\ ProgressInv
      OBVIOUS
    <2>1. CountInv
      BY FS_EmptySet DEF Init, CountInv, AtCases, InBatch
    <2>2. ProgressInv
      BY JobFacts, JudgeJobsAssumption DEF Init, ProgressInv, AtCases, InBatch, None, NoVerdict
    <2> QED BY <2>1, <2>2
  <1>2. IndInv /\ CountInv /\ ProgressInv /\ [Next]_vars => CountInv' /\ ProgressInv'
    BY CountStep, ProgressStep
  <1> QED BY <1>1, <1>2, SpecIndInv, PTL DEF Spec

\* The progress a backend sees of a job never goes back, never exceeds its cases and
\* is complete when the job is accepted (app/executor.py:311-436).
THEOREM ProgressAdvances == Spec => ProgressIsMonotone
PROOF
  <1>1. IndInv /\ CountInv /\ ProgressInv /\ [Next]_vars =>
          /\ progress' >= progress
          /\ progress' <= job.total
          /\ verdict'.status = "accepted" /\ job.total > 0 => progress' = job.total
    <2> SUFFICES ASSUME IndInv, CountInv, ProgressInv, [Next]_vars
                 PROVE  /\ progress' >= progress
                        /\ progress' <= job.total
                        /\ verdict'.status = "accepted" /\ job.total > 0 => progress' = job.total
      OBVIOUS
    <2>1. job' = job
      BY StepEffect DEF Quiet, SettlesOne
    <2>2. ProgressInv' /\ Advances
      BY ProgressStep
    <2> QED BY <2>1, <2>2 DEF ProgressInv, Advances
  <1> QED BY <1>1, SpecIndInv, SpecProgressInv, PTL DEF Spec, ProgressIsMonotone
=============================================================================
