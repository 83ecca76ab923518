----------------------------- MODULE JudgeJobs -----------------------------
(***************************************************************************)
(* A judge job as app/executor.py sees it once its bundle is hydrated: how *)
(* many testcases it lists, in which display order, and the three fields   *)
(* that decide whether every case is reported (collect_all_results) and    *)
(* whether it only produces a reference answer (reference_output).         *)
(*                                                                         *)
(* Cases are the positions 1..total of job["testcases"]; order[i] is the   *)
(* display_order of the case at position i.                                *)
(***************************************************************************)
EXTENDS Integers

CONSTANTS MaxCases,  \* bound on the testcases of one job
          Jobs       \* the jobs the backend may hand out

Cases == 1..MaxCases

SubmissionKinds == {"contest", "operator_test", "editor_verification"}

\* parallelism is the testcase_parallelism of the agent that judges the job.
Job == [ total       : 0..MaxCases,
         order       : [Cases -> Int],
         kind        : SubmissionKinds,
         collectAll  : BOOLEAN,
         reference   : BOOLEAN,
         parallelism : Nat \ {0} ]

Positions(j) == 1..j.total

\* Display orders are unique in a job: the backend keys its testcases by them.
DistinctOrders(j) ==
  \A i, k \in Positions(j) : j.order[i] = j.order[k] => i = k

ASSUME JudgeJobsAssumption ==
  /\ MaxCases \in Nat
  /\ Jobs \subseteq Job
  /\ \A j \in Jobs : DistinctOrders(j)

\* Every case is run and reported, instead of stopping at the first failure.
CollectAll(j) ==
  j.collectAll /\ j.kind \in {"editor_verification", "operator_test"}

\* The run itself produces the expected output: nothing to compare it with.
ReferenceOutput(j) ==
  /\ j.reference
  /\ j.collectAll
  /\ j.kind = "editor_verification"
  /\ j.total = 1

Workers(j) == IF j.total < j.parallelism THEN j.total ELSE j.parallelism

\* The batch that starts after the first `offset` cases.
Batch(j, offset) == {i \in Positions(j) : offset < i /\ i <= offset + Workers(j)}

\* The order in which cases count: the batches in the order of the list, and the cases
\* of a batch by display order.  With one worker that is the order of the list.
Precedes(j, i, k) ==
  LET batchOf(p) == (p - 1) \div Workers(j)
  IN  \/ batchOf(i) < batchOf(k)
      \/ batchOf(i) = batchOf(k) /\ j.order[i] < j.order[k]

-----------------------------------------------------------------------------
CaseStatuses == {"accepted", "rejected", "time_limit_exceeded", "system_error"}
  \* "rejected" stands for wrong_answer, runtime_error, memory_limit_exceeded
  \* and output_limit_exceeded, which this component treats alike

\* Statuses of a job that ends before any testcase is judged.
EarlyStatuses == {"compile_error", "system_error"}

VerdictStatuses == CaseStatuses \cup EarlyStatuses \cup {"raised"}
  \* "raised": judge() lets an exception through to judge_one
=============================================================================
