--------------------------- MODULE InOrderVerdict ---------------------------
(***************************************************************************)
(* What the judging of one job promises, whatever runs in parallel below:  *)
(* the cases count one at a time, in the order of Precedes (by batches,    *)
(* and by display order inside a batch), each with one outcome; the        *)
(* verdict is the first failure of that order, or accepted when every case *)
(* passed.  A job that only wants a verdict stops at that failure; one     *)
(* that collects every result goes on to the end.                          *)
(***************************************************************************)
EXTENDS JudgeJobs

VARIABLES job,      \* the job, fixed for the behaviour
          outcome,  \* case -> its status, or "unknown" while it does not count yet
          verdict   \* [status, case], status "none" until there is one

vars == <<job, outcome, verdict>>

NoVerdict == [status |-> "none", case |-> 0]

Judged == {i \in Positions(job) : outcome[i] # "unknown"}

Failed == {i \in Judged : outcome[i] # "accepted"}

FirstFailure ==
  CHOOSE i \in Failed : \A k \in Failed : k # i => Precedes(job, i, k)

Init ==
  /\ job \in Jobs
  /\ outcome = [i \in Cases |-> "unknown"]
  /\ verdict = NoVerdict

\* The next case of the order gets its only outcome.
Judge(i, status) ==
  /\ verdict = NoVerdict
  /\ outcome[i] = "unknown"
  /\ \A k \in Positions(job) \ Judged : k # i => Precedes(job, i, k)
  /\ outcome' = [outcome EXCEPT ![i] = status]
  /\ verdict' = IF status # "accepted" /\ ~CollectAll(job)
                THEN [status |-> status, case |-> i]
                ELSE NoVerdict
  /\ UNCHANGED job

\* Every case is judged.
Conclude ==
  /\ verdict = NoVerdict
  /\ job.total > 0
  /\ Judged = Positions(job)
  /\ verdict' = IF Failed = {} THEN [status |-> "accepted", case |-> 0]
                ELSE [status |-> outcome[FirstFailure], case |-> FirstFailure]
  /\ UNCHANGED <<job, outcome>>

\* A job without testcases is judged by one run, and a job may end before its
\* first case counts (it does not compile, its checker cannot be built).
EndWithoutCases ==
  /\ verdict = NoVerdict
  /\ Judged = {}
  /\ \E s \in EarlyStatuses \cup (IF job.total = 0 THEN CaseStatuses \ {"system_error"} ELSE {}) :
       verdict' = [status |-> s, case |-> 0]
  /\ UNCHANGED <<job, outcome>>

\* An exception ends the job at any moment.
Raise ==
  /\ verdict = NoVerdict
  /\ verdict' = [status |-> "raised", case |-> 0]
  /\ UNCHANGED <<job, outcome>>

Next ==
  \/ \E i \in Positions(job), s \in CaseStatuses : Judge(i, s)
  \/ Conclude
  \/ EndWithoutCases
  \/ Raise

Spec == Init /\ [][Next]_vars
=============================================================================
