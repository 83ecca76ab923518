--------------------------- MODULE MCCaseReports ---------------------------
(* Small jobs for TLC: up to four cases, in two full batches or with a      *)
(* ragged last one, listed in and out of display order, judged by one       *)
(* worker or by two.                                                        *)
EXTENDS CaseReports

MCJob(total, order, kind, collectAll, reference, parallelism) ==
  [total |-> total, order |-> [i \in Cases |-> order[i]], kind |-> kind,
   collectAll |-> collectAll, reference |-> reference, parallelism |-> parallelism]

InOrderList == <<1, 2, 3, 4>>
ShuffledList == <<3, 1, 4, 2>>

\* Contest jobs, one of them carrying a collect flag its kind does not honour.
VerdictJobs ==
  {MCJob(n, o, "contest", FALSE, FALSE, 2) :
     n \in {0, 1, 3, 4} \cap 0..MaxCases, o \in {InOrderList, ShuffledList}}
    \cup {MCJob(2, ShuffledList, "contest", TRUE, FALSE, 2),
          MCJob(3, ShuffledList, "contest", FALSE, FALSE, 1)}

\* Jobs that report every case; the one of a single case may be a reference run.
CollectJobs ==
  {MCJob(3, ShuffledList, "operator_test", TRUE, FALSE, p) : p \in {1, 2}}
    \cup {MCJob(3, InOrderList, "operator_test", TRUE, FALSE, 2),
          MCJob(2, ShuffledList, "editor_verification", TRUE, TRUE, 2)}
    \cup {MCJob(1, InOrderList, "editor_verification", TRUE, reference, 2) :
            reference \in BOOLEAN}

AllJobs == VerdictJobs \cup CollectJobs
=============================================================================
