---------------------------- MODULE CaseReports ----------------------------
(***************************************************************************)
(* What the backend hears of the cases while a job that collects every     *)
(* result is judged: report_case in judge_one (app/main.py), called by     *)
(* observe() in the judging thread (CaseJudging).                          *)
(*                                                                         *)
(* Results are kept in pending_cases and sent in one request with the      *)
(* progress; a request that fails with RuntimeError keeps them, so that    *)
(* the next one repeats them, although the backend may have received them. *)
(***************************************************************************)
EXTENDS CaseJudging, Functions

CONSTANTS BatchSize,   \* the 16 of report_case
          MaxLost      \* bound: requests and replies that are lost

ASSUME CaseReportsAssumption ==
  /\ BatchSize \in Nat \ {0}
  /\ MaxLost \in Nat

VARIABLES
  pending,        \* pending_cases: the cases whose results wait
  received,       \* the cases whose results the backend has received, in order
  lostRequests,
  lostReplies

report_vars == <<pending, received, lostRequests, lostReplies>>
all_vars == <<vars, report_vars>>

-----------------------------------------------------------------------------
InitReports ==
  /\ Init
  /\ pending = <<>>
  /\ received = <<>>
  /\ lostRequests = 0
  /\ lostReplies = 0

Heard == Range(received)
Waiting == Range(pending)

Observed == Len(observations) + 1

\* Mutant: the last result is not sent at once.
MayWaitToTheEnd(queue) ==
  /\ Observed # 1
  /\ Len(queue) < BatchSize

\* The result may wait for company.  It does so for less than half a second.
MayWait(queue) ==
  /\ Observed # 1
  /\ Observed # job.total
  /\ Len(queue) < BatchSize

LosesRequest == lostRequests + lostReplies < MaxLost /\ lostRequests' = lostRequests + 1
LosesReply   == lostRequests + lostReplies < MaxLost /\ lostReplies' = lostReplies + 1

\* Mutant: the results are taken out before they are sent.
SendForgets(queue) ==
  /\ pending' = <<>>
  /\ \/ received' = received \o queue /\ UNCHANGED <<lostRequests, lostReplies>>
     \/ LosesRequest /\ UNCHANGED <<received, lostReplies>>

\* Mutant: the results are not taken out.
SendRepeats(queue) ==
  /\ pending' = queue
  /\ received' = received \o queue
  /\ UNCHANGED <<lostRequests, lostReplies>>

\* report_progress with testcase_results, which may fail with RuntimeError.
Send(queue) ==
  \/ /\ received' = received \o queue
     /\ pending' = <<>>
     /\ UNCHANGED <<lostRequests, lostReplies>>
  \/ LosesRequest /\ pending' = queue /\ UNCHANGED <<received, lostReplies>>
  \/ LosesReply /\ pending' = queue /\ received' = received \o queue /\ UNCHANGED lostRequests

ReportCase(i) ==
  LET queue == Append(pending, i)
  IN  \/ MayWait(queue) /\ pending' = queue
                        /\ UNCHANGED <<received, lostRequests, lostReplies>>
      \/ Send(queue)

\* An exception of another kind leaves report_case, observe and judge.
ReportBreaks(i) ==
  LET queue == Append(pending, i)
  IN  /\ pending' = queue
      /\ received' \in {received, received \o queue}
      /\ UNCHANGED <<lostRequests, lostReplies>>

NextReports ==
  \/ \E i \in Cases : Observes(i) /\ ReportCase(i)
  \/ \E i \in Cases : ObserveRaises(i) /\ ReportBreaks(i)
  \/ UNCHANGED <<observations, report_vars>> /\ Next

SpecReports == InitReports /\ [][NextReports]_all_vars

\* The fairness of CaseJudging.
FairReports ==
  /\ SpecReports
  /\ WF_vars(CallingThread)
  /\ \A i \in Cases : WF_vars(Worker(i))
-----------------------------------------------------------------------------
(* Properties.                                                              *)

\* The backend hears of the cases in the order of their settling: of none before
\* an earlier one, and what it has not heard of is still to be sent.
HeardInOrder ==
  verdict # Raised =>
    \A m, n \in DOMAIN observations :
      /\ observations[m].case \in Heard \cup Waiting
      /\ m < n /\ observations[n].case \in Heard => observations[m].case \in Heard

\* A result is only repeated because the reply to it was lost.
RepeatsOnlyAfterLoss ==
  lostReplies = 0 => Len(received) = Cardinality(Heard)

\* When nothing was lost, the backend has every result before the verdict.
HeardBeforeVerdict ==
  CollectAll(job) /\ lostRequests + lostReplies = 0 =>
    (verdict.case # 0 \/ verdict.status = "accepted" => Heard = Positions(job))

\* The results of a collecting job on their way: observed of every case and in
\* order, sent once unless a reply was lost, and all there before the verdict.
EveryResultHeard == EveryResultReported /\ RepeatsOnlyAfterLoss /\ HeardBeforeVerdict
=============================================================================
