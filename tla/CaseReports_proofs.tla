------------------------- MODULE CaseReports_proofs -------------------------
(* Proofs for CaseReports: the judging with its reports is a judging, so    *)
(* what CaseJudging_proofs establishes holds of it, and the backend hears   *)
(* of the cases in order.                                                   *)
EXTENDS CaseReports, CaseJudging_proofs

\* A step with its reports is a step of the judging, or leaves it alone.
LEMMA StepRefines ==
  ASSUME [NextReports]_all_vars PROVE [Next]_vars
PROOF
  <1>1. CASE \E i \in Cases : Observes(i) /\ ReportCase(i)
    BY <1>1 DEF Next, CallingThread, ObserveCase
  <1>2. CASE \E i \in Cases : ObserveRaises(i) /\ ReportBreaks(i)
    BY <1>2 DEF Next, CallingThread, ObserveCase
  <1>3. CASE UNCHANGED all_vars
    BY <1>3 DEF all_vars
  <1> QED BY <1>1, <1>2, <1>3 DEF NextReports

\* The composition implements the judging of module CaseJudging: report_case
\* never stands in its way nor makes it do something else (app/executor.py:325).
THEOREM RefinesJudging == SpecReports => Spec
PROOF
  <1>1. InitReports => Init
    BY DEF InitReports
  <1>2. [NextReports]_all_vars => [Next]_vars
    BY StepRefines
  <1> QED BY <1>1, <1>2, PTL DEF SpecReports, Spec

-----------------------------------------------------------------------------
LEMMA RangeAppend ==
  ASSUME NEW S, NEW s \in Seq(S), NEW e \in S
  PROVE  Range(Append(s, e)) = Range(s) \cup {e}
PROOF
  <1> DEFINE t == Append(s, e)
  <1>1. /\ Len(s) \in Nat /\ DOMAIN s = 1..Len(s)
        /\ DOMAIN t = 1..(Len(s) + 1)
        /\ \A k \in 1..Len(s) : t[k] = s[k]
        /\ t[Len(s) + 1] = e
    OBVIOUS
  <1> HIDE DEF t
  <1>2. {t[k] : k \in DOMAIN t} = {s[k] : k \in DOMAIN s} \cup {e}
    BY <1>1
  <1> QED BY <1>2 DEF t, Range

LEMMA RangeConcat ==
  ASSUME NEW S, NEW s \in Seq(S), NEW t \in Seq(S)
  PROVE  Range(s \o t) = Range(s) \cup Range(t)
PROOF
  <1> DEFINE u == s \o t
  <1>1. /\ Len(s) \in Nat /\ DOMAIN s = 1..Len(s)
        /\ Len(t) \in Nat /\ DOMAIN t = 1..Len(t)
        /\ DOMAIN u = 1..(Len(s) + Len(t))
        /\ \A k \in 1..Len(s) : u[k] = s[k]
        /\ \A k \in 1..Len(t) : u[Len(s) + k] = t[k]
    OBVIOUS
  <1> HIDE DEF u
  <1>2. ASSUME NEW k \in DOMAIN u
        PROVE  u[k] \in {s[j] : j \in DOMAIN s} \cup {t[j] : j \in DOMAIN t}
    <2>1. CASE k <= Len(s)  BY <1>1, <2>1
    <2>2. CASE k > Len(s)
      <3>1. k - Len(s) \in 1..Len(t) /\ k = Len(s) + (k - Len(s))
        BY <1>1, <2>2
      <3> QED BY <1>1, <3>1
    <2> QED BY <1>1, <2>1, <2>2
  <1>3. ASSUME NEW j \in DOMAIN s  PROVE s[j] \in {u[k] : k \in DOMAIN u}
    <2>1. j \in DOMAIN u /\ u[j] = s[j]  BY <1>1
    <2> QED BY <2>1
  <1>4. ASSUME NEW j \in DOMAIN t  PROVE t[j] \in {u[k] : k \in DOMAIN u}
    <2>1. Len(s) + j \in DOMAIN u /\ u[Len(s) + j] = t[j]  BY <1>1
    <2> QED BY <2>1
  <1>5. {u[k] : k \in DOMAIN u} = {s[k] : k \in DOMAIN s} \cup {t[k] : k \in DOMAIN t}
    BY <1>2, <1>3, <1>4
  <1> QED BY <1>5 DEF u, Range

\* What is heard or waits has been settled, and so has what is observed.
ReportsTyped ==
  /\ pending \in Seq(Cases)
  /\ received \in Seq(Cases)
  /\ verdict # Raised => Heard \cup Waiting \subseteq settled
  /\ \A n \in DOMAIN observations : observations[n].case \in settled

ReportsInv == ReportsTyped /\ HeardInOrder

\* A job that has raised has raised for good.
LEMMA RaisedStays ==
  ASSUME IndInv, Next, verdict = Raised PROVE verdict' = Raised
PROOF
  <1>1. pc \in {"unwinding", "done"}
    BY DEF IndInv, VerdictInv, NoVerdict, Raised, Verdict
  <1> QED BY <1>1 DEF Next, CallingThread, Worker, OpenJobDir, PrepareCommand, RunFinal,
       PrepareChecker, StartBatch, Finish, EndBatch, RemoveJobDir, Collect, CollectRaised,
       BeginConfirmation, Confirm, ObserveCase, Observes, ObserveRaises, PassCase, FailCase,
       CaseReturns, CaseRaises, Settles, IsNext, Terminated, vars, CallbackRaises

\* No step takes a case out of the settled ones.
LEMMA SettledGrows ==
  ASSUME Next PROVE settled \subseteq settled'
PROOF
  <1> QED BY DEF Next, CallingThread, Worker, OpenJobDir, PrepareCommand, RunFinal,
       PrepareChecker, StartBatch, Finish, EndBatch, RemoveJobDir, Collect, CollectRaised,
       BeginConfirmation, Confirm, ObserveCase, Observes, ObserveRaises, PassCase, FailCase,
       CaseReturns, CaseRaises, Settles, IsNext, Terminated, vars, CallbackRaises, Leave,
       loop_vars, case_vars

LEMMA ReportObserved ==
  ASSUME IndInv, ReportsInv, NEW i \in Cases, Observes(i), ReportCase(i)
  PROVE  ReportsInv'
PROOF
  <1> DEFINE queue == Append(pending, i)
  <1>1. /\ i \notin settled /\ settled' = settled \cup {i}
        /\ observations' = Append(observations, Observation(i))
        /\ verdict' = verdict /\ verdict # Raised
    <2>1. verdict = NoVerdict
      BY DEF Observes, Settles, IsNext, IndInv, VerdictInv
    <2> QED BY <2>1 DEF Observes, Settles, IsNext, NoVerdict, Raised, Verdict
  <1>2. /\ Len(observations) \in Nat /\ DOMAIN observations = 1..Len(observations)
        /\ DOMAIN observations' = 1..(Len(observations) + 1)
        /\ \A n \in 1..Len(observations) : observations'[n] = observations[n]
        /\ observations'[Len(observations) + 1].case = i
    <2>1. Observation(i).case = i
      BY DEF Observation
    <2> QED BY <1>1, <2>1 DEF IndInv, TypeOK
  <1>3. queue \in Seq(Cases) /\ Range(queue) = Waiting \cup {i}
    BY RangeAppend DEF ReportsInv, ReportsTyped, Waiting
  <1> HIDE DEF queue
  <1>4. /\ received' \in Seq(Cases) /\ pending' \in Seq(Cases)
        /\ \/ Heard' = Heard /\ Waiting' = Waiting \cup {i}
           \/ Heard' = Heard \cup Waiting \cup {i} /\ Waiting' \subseteq Waiting \cup {i}
    <2>1. CASE received' = received /\ pending' = queue
      BY <1>3, <2>1 DEF ReportsInv, ReportsTyped, Heard, Waiting
    <2>2. CASE received' = received \o queue /\ pending' \in {<<>>, queue}
      <3>1. received \in Seq(Cases) /\ received \o queue \in Seq(Cases)
        BY <1>3 DEF ReportsInv, ReportsTyped
      <3>2. Range(received \o queue) = Heard \cup Range(queue)
        BY <1>3, <3>1, RangeConcat DEF Heard
      <3>3. Heard' = Heard \cup Waiting \cup {i} /\ received' \in Seq(Cases)
        BY <1>3, <2>2, <3>1, <3>2 DEF Heard
      <3>4. CASE pending' = queue
        BY <1>3, <3>3, <3>4 DEF Waiting
      <3>5. CASE pending' = <<>>
        <4>1. Waiting' = {} /\ pending' \in Seq(Cases)
          BY <3>5 DEF Waiting, Range
        <4> QED BY <3>3, <4>1
      <3> QED BY <2>2, <3>4, <3>5
    <2> QED BY <2>1, <2>2 DEF ReportCase, Send, LosesRequest, LosesReply, queue
  <1>5. ReportsTyped'
    BY <1>1, <1>2, <1>4 DEF ReportsInv, ReportsTyped
  <1>6. HeardInOrder'
    BY <1>1, <1>2, <1>4 DEF ReportsInv, ReportsTyped, HeardInOrder
  <1> QED BY <1>5, <1>6 DEF ReportsInv

LEMMA ReportsStep ==
  ASSUME IndInv, ReportsInv, [NextReports]_all_vars PROVE ReportsInv'
PROOF
  <1>1. ASSUME NEW i \in Cases, Observes(i), ReportCase(i) PROVE ReportsInv'
    BY <1>1, ReportObserved
  <1>2. ASSUME NEW i \in Cases, ObserveRaises(i), ReportBreaks(i) PROVE ReportsInv'
    <2>1. verdict' = Raised /\ UNCHANGED <<settled, observations>>
      BY <1>2 DEF ObserveRaises, CallbackRaises, Leave, loop_vars
    <2>2. Append(pending, i) \in Seq(Cases) /\ received \in Seq(Cases)
      BY DEF ReportsInv, ReportsTyped
    <2>3. received \o Append(pending, i) \in Seq(Cases)
      BY <2>2
    <2>4. pending' \in Seq(Cases) /\ received' \in Seq(Cases)
      BY <1>2, <2>2, <2>3 DEF ReportBreaks
    <2> QED BY <2>1, <2>4 DEF ReportsInv, ReportsTyped, HeardInOrder
  <1>3. CASE UNCHANGED <<observations, report_vars>> /\ Next
    BY <1>3, RaisedStays, SettledGrows
    DEF ReportsInv, ReportsTyped, HeardInOrder, Heard, Waiting, report_vars
  <1>4. CASE UNCHANGED all_vars
    BY <1>4 DEF all_vars, vars, loop_vars, report_vars, ReportsInv, ReportsTyped,
                HeardInOrder, Heard, Waiting
  <1> QED BY <1>1, <1>2, <1>3, <1>4 DEF NextReports
LEMMA SpecReportsInv == SpecReports => []ReportsInv
PROOF
  <1>1. InitReports => ReportsInv
    BY DEF InitReports, Init, ReportsInv, ReportsTyped, HeardInOrder, Heard, Waiting, Range
  <1>2. IndInv /\ ReportsInv /\ [NextReports]_all_vars => ReportsInv'
    BY ReportsStep
  <1>3. SpecReports => []IndInv
    BY RefinesJudging, SpecIndInv
  <1> QED BY <1>1, <1>2, <1>3, PTL DEF SpecReports

\* The backend hears of the cases in the order of their settling, whatever is lost;
\* what it has not heard of waits to be sent again (app/main.py:83-97).
THEOREM ReportsAreInOrder == SpecReports => []HeardInOrder
PROOF
  <1>1. ReportsInv => HeardInOrder
    BY DEF ReportsInv
  <1> QED BY <1>1, SpecReportsInv, PTL

-----------------------------------------------------------------------------
(* What the backend has heard when a job ends.                              *)

\* Nothing is sent twice unless a reply was lost, and the last result never waits.
DeliveryInv ==
  /\ lostRequests \in Nat
  /\ lostReplies \in Nat
  /\ lostReplies = 0 => Len(received) = Cardinality(Heard)
  /\ lostReplies = 0 /\ verdict # Raised =>
       Len(pending) = Cardinality(Waiting) /\ Heard \cap Waiting = {}
  /\ /\ lostRequests + lostReplies = 0
     /\ verdict # Raised
     /\ Len(observations) = job.total
     => pending = <<>>

\* A queue of cases the backend has not heard of, with one more case at its end.
LEMMA QueueFacts ==
  ASSUME IndInv, ReportsInv, DeliveryInv, verdict # Raised, NEW i \in Cases, i \notin settled
  PROVE  /\ Append(pending, i) \in Seq(Cases)
         /\ Range(Append(pending, i)) = Waiting \cup {i}
         /\ received \o Append(pending, i) \in Seq(Cases)
         /\ Range(received \o Append(pending, i)) = Heard \cup Waiting \cup {i}
         /\ lostReplies = 0 =>
              /\ Len(Append(pending, i)) = Cardinality(Waiting \cup {i})
              /\ Heard \cap (Waiting \cup {i}) = {}
              /\ Len(received \o Append(pending, i)) = Cardinality(Heard \cup Waiting \cup {i})
PROOF
  <1> DEFINE queue == Append(pending, i)
  <1>1. pending \in Seq(Cases) /\ received \in Seq(Cases) /\ Heard \cup Waiting \subseteq settled
    BY DEF ReportsInv, ReportsTyped
  <1>2. queue \in Seq(Cases) /\ Len(queue) = Len(pending) + 1 /\ Len(pending) \in Nat
    BY <1>1
  <1>3. Range(queue) = Waiting \cup {i}
    BY <1>1, RangeAppend DEF Waiting
  <1> HIDE DEF queue
  <1>4. /\ received \o queue \in Seq(Cases) /\ Len(received \o queue) = Len(received) + Len(queue)
        /\ Len(received) \in Nat
    BY <1>1, <1>2
  <1>5. Range(received \o queue) = Heard \cup Waiting \cup {i}
    BY <1>1, <1>2, <1>3, RangeConcat DEF Heard
  <1>6. ASSUME lostReplies = 0
        PROVE  /\ Len(queue) = Cardinality(Waiting \cup {i})
               /\ Heard \cap (Waiting \cup {i}) = {}
               /\ Len(received \o queue) = Cardinality(Heard \cup Waiting \cup {i})
    <2>1. /\ Len(received) = Cardinality(Heard) /\ Len(pending) = Cardinality(Waiting)
          /\ Heard \cap Waiting = {} /\ i \notin Heard /\ i \notin Waiting
      BY <1>1, <1>6 DEF DeliveryInv
    <2>2. IsFiniteSet(Heard) /\ IsFiniteSet(Waiting)
      <3>1. Heard \in SUBSET Positions(job) /\ Waiting \in SUBSET Positions(job)
        BY <1>1 DEF IndInv, TypeOK
      <3> QED BY <3>1, Sizes DEF IndInv, TypeOK
    <2>3. IsFiniteSet(Waiting \cup {i}) /\ Cardinality(Waiting \cup {i}) = Cardinality(Waiting) + 1
      BY <2>1, <2>2, FS_AddElement
    <2>4. Heard \cap (Waiting \cup {i}) = {}
      BY <2>1
    <2>5. Cardinality(Heard \cup (Waiting \cup {i}))
            = Cardinality(Heard) + Cardinality(Waiting \cup {i}) - Cardinality({})
      BY <2>2, <2>3, <2>4, FS_Union
    <2>6. /\ Cardinality(Heard) \in Nat /\ Cardinality(Waiting) \in Nat /\ Cardinality({}) = 0
          /\ Heard \cup (Waiting \cup {i}) = Heard \cup Waiting \cup {i}
      BY <2>2, FS_CardinalityType, FS_EmptySet
    <2>7. Len(queue) = Cardinality(Waiting \cup {i})
      BY <1>2, <2>1, <2>3
    <2>8. Cardinality(Heard \cup Waiting \cup {i}) = Len(received) + Len(queue)
      <3>1. Cardinality(Heard \cup (Waiting \cup {i})) = Len(received) + Len(queue)
        <4>1. Cardinality(Waiting \cup {i}) \in Nat
          BY <2>3, FS_CardinalityType
        <4> QED BY <2>1, <2>5, <2>6, <2>7, <4>1
      <3> QED BY <2>6, <3>1
    <2> QED BY <1>4, <2>4, <2>7, <2>8
  <1> QED BY <1>2, <1>3, <1>4, <1>5, <1>6 DEF queue

\* Every step keeps what is known of the deliveries.
LEMMA DeliveryStep ==
  ASSUME IndInv, ReportsInv, DeliveryInv, [NextReports]_all_vars PROVE DeliveryInv'
PROOF
  <1>1. ASSUME NEW i \in Cases, Observes(i), ReportCase(i) PROVE DeliveryInv'
    <2> DEFINE queue == Append(pending, i)
    <2>1. verdict # Raised /\ verdict' # Raised /\ i \notin settled /\ job' = job
      <3>1. verdict = NoVerdict /\ verdict' = verdict
        BY <1>1 DEF Observes, Settles, IsNext, IndInv, VerdictInv
      <3> QED BY <1>1, <3>1 DEF Observes, Settles, IsNext, NoVerdict, Raised, Verdict
    <2>2. /\ Range(queue) = Waiting \cup {i}
          /\ Range(received \o queue) = Heard \cup Waiting \cup {i}
          /\ lostReplies = 0 =>
               /\ Len(queue) = Cardinality(Waiting \cup {i})
               /\ Heard \cap (Waiting \cup {i}) = {}
               /\ Len(received \o queue) = Cardinality(Heard \cup Waiting \cup {i})
      BY <2>1, QueueFacts
    <2>3. Len(observations') = Observed
      BY <1>1, ObservationAdded DEF Observed
    <2> HIDE DEF queue
    <2>4. /\ lostRequests \in Nat /\ lostReplies \in Nat
          /\ lostReplies = 0 => Len(received) = Cardinality(Heard)
          /\ lostReplies = 0 => Heard \cap Waiting = {}
      BY <2>1 DEF DeliveryInv
    <2>5. CASE MayWait(queue) /\ pending' = queue /\ UNCHANGED <<received, lostRequests, lostReplies>>
      BY <2>1, <2>2, <2>3, <2>4, <2>5 DEF MayWait, DeliveryInv, Heard, Waiting
    <2>6. CASE received' = received \o queue /\ pending' = <<>> /\ UNCHANGED <<lostRequests, lostReplies>>
      <3>1. Waiting' = {} /\ Len(pending') = 0 /\ Cardinality({}) = 0
        BY <2>6, FS_EmptySet DEF Waiting, Range
      <3>2. Heard' = Heard \cup Waiting \cup {i}
        BY <2>2, <2>6 DEF Heard
      <3> QED BY <2>2, <2>4, <2>6, <3>1, <3>2 DEF DeliveryInv
    <2>7. CASE LosesRequest /\ pending' = queue /\ UNCHANGED <<received, lostReplies>>
      <3>1. Heard' = Heard /\ Waiting' = Waiting \cup {i}
        BY <2>2, <2>7 DEF Heard, Waiting
      <3>2. lostRequests' \in Nat /\ lostRequests' + lostReplies' # 0
        BY <2>4, <2>7 DEF LosesRequest
      <3> QED BY <2>2, <2>4, <2>7, <3>1, <3>2 DEF DeliveryInv
    <2>8. CASE LosesReply /\ UNCHANGED lostRequests
      BY <2>4, <2>8 DEF LosesReply, DeliveryInv
    <2> QED BY <1>1, <2>5, <2>6, <2>7, <2>8 DEF ReportCase, Send, queue
  <1>2. ASSUME NEW i \in Cases, ObserveRaises(i), ReportBreaks(i) PROVE DeliveryInv'
    <2>1. verdict' = Raised /\ verdict # Raised /\ i \notin settled
      <3>1. verdict = NoVerdict
        BY <1>2 DEF ObserveRaises, IsNext, IndInv, VerdictInv
      <3> QED BY <1>2, <3>1 DEF ObserveRaises, IsNext, CallbackRaises, Leave, NoVerdict, Raised, Verdict
    <2>2. /\ UNCHANGED <<lostRequests, lostReplies>>
          /\ received' \in {received, received \o Append(pending, i)}
      BY <1>2 DEF ReportBreaks
    <2>3. lostReplies = 0 => Len(received') = Cardinality(Heard')
      BY <2>1, <2>2, QueueFacts DEF DeliveryInv, Heard
    <2> QED BY <2>1, <2>2, <2>3 DEF DeliveryInv
  <1>3. CASE UNCHANGED <<observations, report_vars>> /\ Next
    <2>1. job' = job
      BY <1>3, StepEffect DEF Quiet, SettlesOne
    <2> QED BY <1>3, <2>1, RaisedStays DEF DeliveryInv, Heard, Waiting, report_vars
  <1>4. CASE UNCHANGED all_vars
    BY <1>4 DEF all_vars, vars, loop_vars, report_vars, DeliveryInv, Heard, Waiting
  <1> QED BY <1>1, <1>2, <1>3, <1>4 DEF NextReports

\* A verdict on the cases comes after the last observation, with which the queue is
\* sent.
LEMMA DeliveredBeforeVerdict ==
  ASSUME IndInv, OrderInv, CountInv, ReportsInv, DeliveryInv
  PROVE  HeardBeforeVerdict
PROOF
  <1> SUFFICES ASSUME CollectAll(job), lostRequests + lostReplies = 0,
                      verdict.case # 0 \/ verdict.status = "accepted"
               PROVE  Heard = Positions(job)
    BY DEF HeardBeforeVerdict
  <1>1. verdict # Raised
    BY DEF Raised, Verdict
  <1>2. /\ Heard \cup Waiting \subseteq settled /\ settled \subseteq Positions(job)
        /\ \A n \in DOMAIN observations : observations[n].case \in Heard \cup Waiting
        /\ {observations[n].case : n \in DOMAIN observations} = settled
    BY <1>1 DEF ReportsInv, ReportsTyped, HeardInOrder, IndInv, TypeOK, OrderInv, ObservedInv
  <1>3. Heard \cup Waiting = settled
    BY <1>2
  <1>4. CASE job.total = 0
    <2>1. Positions(job) = {}
      BY <1>4 DEF Positions
    <2> QED BY <1>2, <2>1
  <1>5. CASE job.total # 0
    <2>1. job.total > 0
      BY <1>5, Bounds
    <2>2. settled = Positions(job)
      BY <2>1 DEF OrderInv, VerdictOnAll
    <2>3. pending = <<>>
      BY <1>1, <2>2, Bounds DEF DeliveryInv
    <2>4. Waiting = {}
      BY <2>3 DEF Waiting, Range
    <2> QED BY <1>3, <2>2, <2>4
  <1> QED BY <1>4, <1>5

\* A collecting job reports every case in order, sends it again only when a reply was
\* lost, and has told the backend of all of them before its verdict if nothing was
\* lost (app/main.py:83-97).
THEOREM ResultsAreHeard == SpecReports => []EveryResultHeard
PROOF
  <1>1. SpecReports => [](IndInv /\ OrderInv /\ CountInv /\ EveryResultReported)
    <2>1. Spec => []CountInv
      BY SpecProgressInv, PTL
    <2> QED BY <2>1, RefinesJudging, SpecIndInv, SpecOrderInv, ReportsComplete, PTL
  <1>2. InitReports => DeliveryInv
    <2> SUFFICES ASSUME InitReports PROVE DeliveryInv
      OBVIOUS
    <2>1. Heard = {} /\ Waiting = {} /\ Cardinality({}) = 0
      BY FS_EmptySet DEF InitReports, Heard, Waiting, Range
    <2> QED BY <2>1 DEF InitReports, DeliveryInv
  <1>3. IndInv /\ ReportsInv /\ DeliveryInv /\ [NextReports]_all_vars => DeliveryInv'
    BY DeliveryStep
  <1>4. SpecReports => []DeliveryInv
    BY <1>1, <1>2, <1>3, SpecReportsInv, PTL DEF SpecReports
  <1>5. DeliveryInv => RepeatsOnlyAfterLoss
    BY DEF DeliveryInv, RepeatsOnlyAfterLoss
  <1>6. IndInv /\ OrderInv /\ CountInv /\ ReportsInv /\ DeliveryInv /\ EveryResultReported
          => EveryResultHeard
    BY <1>5, DeliveredBeforeVerdict DEF EveryResultHeard
  <1> QED BY <1>1, <1>4, <1>6, SpecReportsInv, PTL
=============================================================================
