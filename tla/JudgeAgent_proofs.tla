------------------------- MODULE JudgeAgent_proofs -------------------------
(***************************************************************************)
(* Proofs about the agent process: the slots bound its workers, a lease    *)
(* covers all the work that is done under it, a result is given up only    *)
(* after all attempts at reporting it, and nothing is left at an exit.     *)
(***************************************************************************)
EXTENDS JudgeAgent, FiniteSetTheorems, TLAPS

\* Putting `next` in the place of w does not make a finite set larger.
LEMMA Replacing ==
  ASSUME NEW S, IsFiniteSet(S), NEW w \in S, NEW next
  PROVE  /\ IsFiniteSet((S \ {w}) \cup {next})
         /\ Cardinality((S \ {w}) \cup {next}) <= Cardinality(S)
PROOF
  <1>1. /\ IsFiniteSet(S \ {w}) /\ Cardinality(S \ {w}) = Cardinality(S) - 1
    BY FS_RemoveElement
  <1>2. /\ IsFiniteSet((S \ {w}) \cup {next})
        /\ Cardinality((S \ {w}) \cup {next}) \in {Cardinality(S \ {w}), Cardinality(S \ {w}) + 1}
    BY <1>1, FS_AddElement
  <1>3. Cardinality(S) \in Nat /\ Cardinality(S \ {w}) \in Nat
    BY <1>1, FS_CardinalityType
  <1> QED BY <1>1, <1>2, <1>3

\* Adding one element per job of a set makes a finite set larger by that set at most.
LEMMA Adding ==
  ASSUME NEW S, IsFiniteSet(S), NEW given \in SUBSET Jobs, NEW T, IsFiniteSet(T),
         Cardinality(T) <= Cardinality(given)
  PROVE  /\ IsFiniteSet(S \cup T)
         /\ Cardinality(S \cup T) <= Cardinality(S) + Cardinality(given)
PROOF
  <1>1. IsFiniteSet(given)
    BY FS_Subset, JudgeAgentAssumption
  <1>2. /\ IsFiniteSet(S \cup T) /\ IsFiniteSet(S \cap T)
        /\ Cardinality(S \cup T) = Cardinality(S) + Cardinality(T) - Cardinality(S \cap T)
    BY FS_Union, FS_Intersection
  <1>3. /\ Cardinality(S) \in Nat /\ Cardinality(T) \in Nat
        /\ Cardinality(S \cap T) \in Nat /\ Cardinality(given) \in Nat
    BY <1>1, <1>2, FS_CardinalityType
  <1> QED BY <1>2, <1>3

-----------------------------------------------------------------------------
LEMMA InitIndInv == Init => IndInv
PROOF
  <1> SUFFICES ASSUME Init PROVE IndInv
    OBVIOUS
  <1> USE JudgeAgentAssumption DEF Init
  <1>1. \A j \in Jobs : record[j] = Unreported("none")
    OBVIOUS
  <1>2. TypeOK
    BY DEF TypeOK, Unreported
  <1>3. IsFiniteSet(running) /\ Cardinality(running) = 0
    BY FS_EmptySet
  <1>4. VerdictSurvives
    BY <1>1 DEF VerdictSurvives, Unreported
  <1> QED BY <1>2, <1>3, <1>4 DEF IndInv, LeaseInv, LostInv, CoverInv, SlotsInv, AtWork

\* What the steps of judge_one and of its keepalive thread have in common: one
\* worker w goes on as `next`, the job may be done, the thread may be stopped.
Step(w, next) ==
  /\ Becomes(w, next)
  /\ next.job = w.job /\ next.lease = w.lease
  /\ w.pc = "ended" => next.pc = "ended"
  /\ Consistent(next)
  /\ UNCHANGED <<lease, main, asked, crashes>>
  /\ faults' \in 0..MaxFaults
  /\ unrenewed' = unrenewed \/ unrenewed' = unrenewed \cup {w.job}
  /\ \/ state' = state /\ record' = record /\ (Current(w) => next.lost = next.tries)
     \/ /\ Current(w)
        /\ state' = [state EXCEPT ![w.job] = "done"]
        /\ \E what \in {"verdict", "system_error"} :
             /\ record' = [record EXCEPT ![w.job] = Record(what, w)]
             /\ what = "system_error" => w.pc = "failing"
  /\ \/ renewing' = renewing
     \/ /\ renewing' = renewing \ {<<w.job, w.lease>>}
        /\ next.pc = "ended" \/ ~Current(w) \/ w.job \in unrenewed'
  /\ next.pc = "ended" => <<w.job, w.lease>> \notin renewing'
  /\ next.pc = "ended" /\ w.pc # "ended" /\ Current(w) => faults' # 0 \/ state'[w.job] = "done"

LEMMA StepPreserves ==
  ASSUME IndInv, NEW w \in running, NEW next \in Workers, Step(w, next)
  PROVE  IndInv'
PROOF
  <1> USE DEF IndInv
  <1>1. /\ running' = (running \ {w}) \cup {next}
        /\ next.job = w.job /\ next.lease = w.lease
        /\ w.pc = "ended" => next.pc = "ended"
        /\ Consistent(next)
        /\ lease' = lease /\ main' = main /\ asked' = asked /\ crashes' = crashes
        /\ faults' \in 0..MaxFaults
        /\ unrenewed' = unrenewed \/ unrenewed' = unrenewed \cup {w.job}
    BY DEF Step, Becomes
  <1>2. /\ w \in Workers /\ w.job \in Jobs /\ w.lease \in Nat
        /\ next.lost \in Nat /\ next.tries \in Nat /\ w.lost \in Nat /\ w.tries \in Nat
    BY DEF TypeOK, Workers
  <1>3. /\ state' \in [Jobs -> {"queued", "leased", "done"}]
        /\ \A j \in Jobs : state'[j] = state[j] \/ (j = w.job /\ Current(w) /\ state'[j] = "done")
        /\ Current(w) /\ state' = state => next.lost = next.tries
    <2>1. CASE state' = state /\ record' = record /\ (Current(w) => next.lost = next.tries)
      BY <2>1 DEF TypeOK
    <2>2. CASE Current(w) /\ state' = [state EXCEPT ![w.job] = "done"]
      BY <2>2, <1>2 DEF TypeOK, Current
    <2> QED BY <2>1, <2>2 DEF Step
  <1>4. /\ renewing' \subseteq renewing
        /\ \A j \in Jobs, n \in Nat : <<j, n>> \in renewing =>
             <<j, n>> \in renewing' \/ (j = w.job /\ n = w.lease /\ (next.pc = "ended" \/ ~Current(w) \/ w.job \in unrenewed'))
    BY DEF Step
  <1>5. TypeOK'
    <2>1. record' \in [Jobs -> [what : {"none", "verdict", "system_error", "cancelled"},
                                judged : BOOLEAN, full : BOOLEAN, lost : 0..3, odd : BOOLEAN]]
      <3>1. \A what \in {"verdict", "system_error"} :
              Record(what, w) \in [what : {"none", "verdict", "system_error", "cancelled"},
                                   judged : BOOLEAN, full : BOOLEAN, lost : 0..3, odd : BOOLEAN]
        BY <1>2 DEF Record, Workers
      <3> QED BY <3>1, <1>2 DEF Step, TypeOK
    <2>2. running' \subseteq Workers
      BY <1>1 DEF TypeOK
    <2> QED BY <1>1, <1>2, <1>3, <1>4, <2>1, <2>2 DEF TypeOK
  <1>6. \A v \in running' : Consistent(v)
    BY <1>1
  <1>7. LeaseInv'
    BY <1>1 DEF LeaseInv
  <1>8. LostInv'
    <2> SUFFICES ASSUME NEW v \in running', Current(v)'
                 PROVE  v.lost = v.tries
      BY DEF LostInv
    <2>1. v \in Workers /\ v.job \in Jobs
      BY <1>5 DEF TypeOK, Workers
    <2>2. Current(v) /\ state'[v.job] = "leased"
      BY <1>1, <1>3, <2>1 DEF Current
    <2>3. CASE v \in running /\ v # w
      BY <2>2, <2>3 DEF LostInv
    <2>4. CASE v = next
      <3>1. Current(w) /\ state'[w.job] = "leased"
        BY <1>1, <2>2, <2>4 DEF Current
      <3> QED BY <1>2, <3>1, <2>4 DEF Step, TypeOK
    <2> QED BY <1>1, <2>3, <2>4
  <1>9. CoverInv'
    <2> SUFFICES ASSUME NEW v \in running', v.pc # "ended", v.job \notin unrenewed'
                 PROVE  /\ lease'[v.job] = v.lease
                        /\ state'[v.job] = "done" \/ (state'[v.job] = "leased" /\ <<v.job, v.lease>> \in renewing')
      BY DEF CoverInv, AtWork, Renews
    <2>1. v \in Workers /\ v.job \in Jobs /\ v.lease \in Nat
      BY <1>5 DEF TypeOK, Workers
    <2>2. PICK u \in running : /\ u.pc # "ended" /\ u.job = v.job /\ u.lease = v.lease
                               /\ u = v \/ (u = w /\ v = next)
      BY <1>1
    <2>3. /\ lease[v.job] = v.lease
          /\ state[v.job] = "done" \/ (state[v.job] = "leased" /\ <<v.job, v.lease>> \in renewing)
      BY <1>1, <2>2 DEF CoverInv, AtWork, Renews
    <2>4. CASE state[v.job] = "done"
      BY <1>1, <1>3, <2>1, <2>3, <2>4
    <2>5. CASE state[v.job] = "leased" /\ <<v.job, v.lease>> \in renewing /\ <<v.job, v.lease>> \in renewing'
      BY <1>1, <1>3, <2>1, <2>3, <2>5
    <2>6. CASE state[v.job] = "leased" /\ <<v.job, v.lease>> \in renewing /\ <<v.job, v.lease>> \notin renewing'
      <3>1. v.job = w.job /\ v.lease = w.lease /\ (next.pc = "ended" \/ ~Current(w))
        BY <1>4, <2>1, <2>6
      <3>2. Current(w)
        BY <2>3, <2>6, <3>1 DEF Current
      <3>3. u = w
        BY <2>2, <3>1 DEF LeaseInv
      <3>4. v # next
        BY <3>1, <3>2
      <3>5. v = w /\ v # next /\ v \in running'
        BY <2>2, <3>3, <3>4
      <3> QED BY <1>1, <3>5
    <2> QED BY <2>3, <2>4, <2>5, <2>6
  <1>10. SlotsInv'
    <2>1. /\ IsFiniteSet(running') /\ Cardinality(running') <= Cardinality(running)
      BY <1>1, Replacing DEF SlotsInv
    <2>2. Cardinality(running) \in Nat /\ Cardinality(running') \in Nat
      BY <2>1, FS_CardinalityType DEF SlotsInv
    <2> QED BY <1>1, <2>1, <2>2, JudgeAgentAssumption DEF SlotsInv, TypeOK
  <1>11. VerdictSurvives'
    <2>1. CASE record' = record
      BY <2>1 DEF VerdictSurvives
    <2>2. ASSUME NEW what \in {"verdict", "system_error"}, Current(w),
                 record' = [record EXCEPT ![w.job] = Record(what, w)],
                 what = "system_error" => w.pc = "failing"
          PROVE  VerdictSurvives'
      <3>1. what = "system_error" /\ w.judged =>
              w.odd \/ w.lost >= IF w.job \in EditorTasks \/ w.full THEN 3 ELSE 1
        BY <1>2, <2>2 DEF LostInv, Consistent, Attempts
      <3>2. \A j \in Jobs : j # w.job => record'[j] = record[j]
        BY <2>2 DEF TypeOK
      <3>3. record'[w.job] = Record(what, w)
        BY <1>2, <2>2 DEF TypeOK
      <3> QED BY <3>1, <3>2, <3>3 DEF VerdictSurvives, Record
    <2> QED BY <2>1, <2>2 DEF Step
  <1> QED BY <1>5, <1>6, <1>7, <1>8, <1>9, <1>10, <1>11

-----------------------------------------------------------------------------
\* The worker that a step of judge_one leaves.
LEMMA JudgeStep ==
  ASSUME IndInv, NEW w \in running,
         \/ Judge(w) \/ ReportLost(w) \/ ReportBreaks(w) \/ FailLost(w)
         \/ RenewalRefused(w) \/ KeepaliveDies(w)
  PROVE  \E next \in Workers : Step(w, next)
PROOF
  <1>1. /\ w \in Workers /\ Consistent(w) /\ (Current(w) => w.lost = w.tries)
        /\ faults \in 0..MaxFaults
    BY DEF IndInv, TypeOK, LostInv
  <1> USE <1>1, JudgeAgentAssumption DEF Workers, Consistent, Attempts, Step, Becomes, Goes, Ends,
        main_vars, backend_vars, Retried, Fault
  <1>2. CASE JudgeReturns(w)
    <2>1. PICK full \in BOOLEAN :
            /\ w.pc = "judging"
            /\ Goes(w, [w EXCEPT !.pc = "reporting", !.judged = TRUE, !.full = full])
            /\ UNCHANGED <<backend_vars, main_vars, unrenewed, faults>>
      BY <1>2 DEF JudgeReturns
    <2>2. w.tries = 0 /\ w.lost = 0 /\ ~w.odd
      BY <2>1
    <2> DEFINE next == [w EXCEPT !.pc = "reporting", !.judged = TRUE, !.full = full]
    <2>3. /\ next \in Workers /\ next.job = w.job /\ next.lease = w.lease
          /\ next.tries = 0 /\ next.lost = 0 /\ next.pc = "reporting" /\ next.judged /\ ~next.odd
      BY <1>2, <2>1, <2>2 DEF JudgeReturns
    <2>4. Step(w, next)
      <3> HIDE DEF next
      <3> QED BY <1>2, <2>1, <2>3 DEF JudgeReturns, next
    <2> HIDE DEF next, Step, Workers
    <2> QED BY <2>3, <2>4
  <1>3. CASE JudgeRaises(w)
    <2> DEFINE next == [w EXCEPT !.pc = "failing"]
    <2>2. /\ next \in Workers /\ next.job = w.job /\ next.lease = w.lease
          /\ next.judged = w.judged /\ next.full = w.full /\ next.odd = w.odd
          /\ next.tries = w.tries /\ next.lost = w.lost /\ next.pc = "failing"
      BY <1>3 DEF JudgeRaises
    <2>3. Step(w, next)
      <3> HIDE DEF next
      <3> QED BY <1>3, <2>2 DEF JudgeRaises, next
    <2> HIDE DEF next, Step, Workers
    <2> QED BY <2>2, <2>3
  <1>4. CASE Report(w)
    <2> DEFINE next == [w EXCEPT !.pc = "ended"]
    <2>2. /\ next \in Workers /\ next.job = w.job /\ next.lease = w.lease
          /\ next.judged = w.judged /\ next.full = w.full /\ next.odd = w.odd
          /\ next.tries = w.tries /\ next.lost = w.lost /\ next.pc = "ended"
      BY <1>4 DEF Report
    <2>3. Step(w, next)
      <3>1. Current(w) => state'[w.job] = "done"
        BY <1>4 DEF Report, Receives, IndInv, TypeOK
      <3>2. Step(w, next) \/ ~(Current(w) => state'[w.job] = "done")
        <4> HIDE DEF next
        <4> QED BY <1>4, <2>2 DEF Report, Receives, next
      <3> QED BY <3>1, <3>2
    <2> HIDE DEF next, Step, Workers
    <2> QED BY <2>2, <2>3
  <1>5. CASE ReportRefused(w)
    <2>1. /\ w.pc = "reporting" /\ w.tries + 1 \in 0..3 /\ w.lost + 1 \in 0..3
          /\ w.judged /\ ~w.odd
      BY <1>5 DEF ReportRefused
    <2>2. /\ Retried(w) \in Workers /\ Retried(w).job = w.job /\ Retried(w).lease = w.lease
          /\ Retried(w).judged = w.judged /\ Retried(w).full = w.full /\ Retried(w).odd = w.odd
          /\ Retried(w).tries = w.tries + 1 /\ Retried(w).lost = w.lost
          /\ Retried(w).pc = IF w.tries + 1 < Attempts(w) THEN "reporting" ELSE "failing"
      BY <2>1
    <2> DEFINE next == Retried(w)
    <2>3. /\ next \in Workers /\ next.job = w.job /\ next.lease = w.lease
          /\ next.judged = w.judged /\ next.full = w.full /\ next.odd = w.odd
          /\ next.tries = w.tries + 1 /\ next.lost = w.lost
          /\ next.pc = IF w.tries + 1 < Attempts(w) THEN "reporting" ELSE "failing"
      BY <2>2
    <2>4. Step(w, next)
      <3> HIDE DEF next
      <3> QED BY <1>5, <2>1, <2>3 DEF ReportRefused, next
    <2> HIDE DEF next, Step, Workers
    <2> QED BY <2>3, <2>4
  <1>6. CASE ReportLost(w)
    <2>1. /\ w.pc = "reporting" /\ w.tries + 1 \in 0..3 /\ w.lost + 1 \in 0..3
          /\ w.judged /\ ~w.odd
      BY <1>6 DEF ReportLost
    <2>2. /\ Retried(w) \in Workers /\ Retried(w).job = w.job /\ Retried(w).lease = w.lease
          /\ Retried(w).judged = w.judged /\ Retried(w).full = w.full /\ Retried(w).odd = w.odd
          /\ Retried(w).tries = w.tries + 1 /\ Retried(w).lost = w.lost
          /\ Retried(w).pc = IF w.tries + 1 < Attempts(w) THEN "reporting" ELSE "failing"
      BY <2>1
    <2> DEFINE next == [Retried(w) EXCEPT !.lost = @ + 1]
    <2>3. /\ next \in Workers /\ next.job = w.job /\ next.lease = w.lease
          /\ next.judged = w.judged /\ next.full = w.full /\ next.odd = w.odd
          /\ next.tries = w.tries + 1 /\ next.lost = w.lost + 1
          /\ next.pc = IF w.tries + 1 < Attempts(w) THEN "reporting" ELSE "failing"
      BY <2>1, <2>2 DEF Workers
    <2>4. Step(w, next)
      <3>1. /\ Becomes(w, next)
            /\ UNCHANGED <<renewing, main, asked, crashes, unrenewed>>
            /\ faults' \in 0..MaxFaults
            /\ Receives(w, "verdict") \/ UNCHANGED <<state, lease, record>>
        BY <1>6 DEF ReportLost
      <3> HIDE DEF next, Retried
      <3>2. Consistent(next)
        BY <2>1, <2>3
      <3>3. Current(w) => next.lost = next.tries
        BY <2>3
      <3>4. \/ state' = state /\ record' = record /\ lease' = lease
            \/ /\ Current(w) /\ lease' = lease
               /\ state' = [state EXCEPT ![w.job] = "done"]
               /\ record' = [record EXCEPT ![w.job] = Record("verdict", w)]
        <4>1. CASE Receives(w, "verdict")
          <5>1. CASE Current(w)
            BY <4>1, <5>1 DEF Receives
          <5>2. CASE ~Current(w)
            BY <4>1, <5>2 DEF Receives
          <5> QED BY <5>1, <5>2
        <4>2. CASE UNCHANGED <<state, lease, record>>
          BY <4>2
        <4> QED BY <3>1, <4>1, <4>2
      <3> HIDE DEF Consistent, Attempts, Workers
      <3> QED BY <3>1, <3>2, <3>3, <3>4, <2>1, <2>3
    <2> HIDE DEF next, Step, Workers
    <2> QED BY <2>3, <2>4
  <1>7. CASE ReportBreaks(w)
    <2> DEFINE next == [w EXCEPT !.pc = "failing", !.odd = TRUE]
    <2>2. /\ next \in Workers /\ next.job = w.job /\ next.lease = w.lease
          /\ next.judged = w.judged /\ next.full = w.full /\ next.odd
          /\ next.tries = w.tries /\ next.lost = w.lost /\ next.pc = "failing"
      BY <1>7 DEF ReportBreaks
    <2>3. Step(w, next)
      <3> HIDE DEF next
      <3> QED BY <1>7, <2>2 DEF ReportBreaks, Receives, next
    <2> HIDE DEF next, Step, Workers
    <2> QED BY <2>2, <2>3
  <1>8. CASE Fail(w)
    <2> DEFINE next == [w EXCEPT !.pc = "ended"]
    <2>2. /\ next \in Workers /\ next.job = w.job /\ next.lease = w.lease
          /\ next.judged = w.judged /\ next.full = w.full /\ next.odd = w.odd
          /\ next.tries = w.tries /\ next.lost = w.lost /\ next.pc = "ended"
      BY <1>8 DEF Fail
    <2>3. Step(w, next)
      <3>1. Current(w) => state'[w.job] = "done"
        BY <1>8 DEF Fail, Receives, IndInv, TypeOK
      <3>2. \/ state' = state /\ record' = record /\ lease' = lease
            \/ /\ Current(w) /\ lease' = lease
               /\ state' = [state EXCEPT ![w.job] = "done"]
               /\ record' = [record EXCEPT ![w.job] = Record("system_error", w)]
        BY <1>8 DEF Fail, Receives
      <3>3. /\ Becomes(w, next) /\ renewing' = renewing \ {<<w.job, w.lease>>}
            /\ UNCHANGED <<main, asked, crashes, unrenewed, faults>> /\ w.pc = "failing"
        BY <1>8 DEF Fail
      <3> HIDE DEF next
      <3>4. Consistent(next) /\ (Current(w) => next.lost = next.tries)
        BY <2>2, <3>3
      <3> HIDE DEF Consistent, Attempts, Workers, Becomes
      <3> QED BY <2>2, <3>1, <3>2, <3>3, <3>4
    <2> HIDE DEF next, Step, Workers
    <2> QED BY <2>2, <2>3
  <1>9. CASE FailLost(w)
    <2> DEFINE next == [w EXCEPT !.pc = "ended"]
    <2>2. /\ next \in Workers /\ next.job = w.job /\ next.lease = w.lease
          /\ next.judged = w.judged /\ next.full = w.full /\ next.odd = w.odd
          /\ next.tries = w.tries /\ next.lost = w.lost /\ next.pc = "ended"
      BY <1>9 DEF FailLost
    <2>3. Step(w, next)
      <3>1. faults' \in 0..MaxFaults /\ faults' # 0
        BY <1>9 DEF FailLost
      <3>2. \/ state' = state /\ record' = record /\ lease' = lease
            \/ /\ Current(w) /\ lease' = lease
               /\ state' = [state EXCEPT ![w.job] = "done"]
               /\ record' = [record EXCEPT ![w.job] = Record("system_error", w)]
        BY <1>9 DEF FailLost, Receives
      <3>3. /\ Becomes(w, next) /\ renewing' = renewing \ {<<w.job, w.lease>>}
            /\ UNCHANGED <<main, asked, crashes, unrenewed>> /\ w.pc = "failing"
        BY <1>9 DEF FailLost
      <3> HIDE DEF next
      <3>4. Consistent(next) /\ (Current(w) => next.lost = next.tries)
        BY <2>2, <3>3
      <3> HIDE DEF Consistent, Attempts, Workers, Becomes
      <3> QED BY <2>2, <3>1, <3>2, <3>3, <3>4
    <2> HIDE DEF next, Step, Workers
    <2> QED BY <2>2, <2>3
  <1>10. CASE RenewalRefused(w)
    <2> DEFINE next == [w EXCEPT !.told = TRUE]
    <2>2. /\ next \in Workers /\ next.job = w.job /\ next.lease = w.lease
          /\ next.judged = w.judged /\ next.full = w.full /\ next.odd = w.odd
          /\ next.tries = w.tries /\ next.lost = w.lost /\ next.pc = w.pc
      BY <1>10 DEF RenewalRefused
    <2>3. Step(w, next)
      <3> HIDE DEF next
      <3> QED BY <1>10, <2>2 DEF RenewalRefused, next
    <2> HIDE DEF next, Step, Workers
    <2> QED BY <2>2, <2>3
  <1>11. CASE KeepaliveDies(w)
    <2>1. (running \ {w}) \cup {w} = running
      OBVIOUS
    <2>2. Step(w, w)
      BY <1>11, <2>1 DEF KeepaliveDies
    <2> QED BY <2>2
  <1> QED BY <1>2, <1>3, <1>4, <1>5, <1>6, <1>7, <1>8, <1>9, <1>10, <1>11 DEF Judge

-----------------------------------------------------------------------------
\* The backend gives leases, with or without workers that get to know of them.
LEMMA LeasesAfter ==
  ASSUME IndInv, NEW given \in SUBSET Queued, Leases(given)
  PROVE  /\ state' \in [Jobs -> {"queued", "leased", "done"}]
         /\ lease' \in [Jobs -> Nat]
         /\ record' = record
         /\ \A j \in Jobs : j \in given => /\ state[j] = "queued" /\ state'[j] = "leased"
                                           /\ lease'[j] = lease[j] + 1
         /\ \A j \in Jobs : j \notin given => state'[j] = state[j] /\ lease'[j] = lease[j]
         /\ \A w \in running :
              /\ w.lease <= lease'[w.job]
              /\ Current(w)' => w.lost = w.tries
              /\ w.pc # "ended" /\ w.job \notin unrenewed =>
                   /\ lease'[w.job] = w.lease
                   /\ state'[w.job] = "done" \/ (state'[w.job] = "leased" /\ Renews(w))
PROOF
  <1> USE DEF IndInv, TypeOK, Leases, Queued
  <1>1. \A w \in running : w.job \in Jobs /\ w.lease \in Nat /\ w.lease <= lease[w.job]
    BY DEF Workers, LeaseInv
  <1>2. /\ state' \in [Jobs -> {"queued", "leased", "done"}]
        /\ lease' \in [Jobs -> Nat]
    OBVIOUS
  <1>3. \A w \in running : w.job \in given => lease'[w.job] = lease[w.job] + 1 /\ w.lease < lease'[w.job]
    BY <1>1
  <1>4. ASSUME NEW w \in running
        PROVE  /\ w.lease <= lease'[w.job]
               /\ Current(w)' => w.lost = w.tries
    BY <1>1, <1>3 DEF LostInv, Current
  <1>5. ASSUME NEW w \in running, w.pc # "ended", w.job \notin unrenewed
        PROVE  /\ lease'[w.job] = w.lease
               /\ state'[w.job] = "done" \/ (state'[w.job] = "leased" /\ Renews(w))
    <2>1. /\ lease[w.job] = w.lease
          /\ state[w.job] = "done" \/ (state[w.job] = "leased" /\ Renews(w))
      BY <1>5 DEF CoverInv, AtWork
    <2>2. w.job \notin given
      BY <2>1
    <2> QED BY <1>1, <2>1, <2>2
  <1> QED BY <1>2, <1>4, <1>5

LEMMA ClaimPreserves ==
  ASSUME IndInv, Claim
  PROVE  IndInv'
PROOF
  <1>1. PICK given \in SUBSET Queued :
          /\ Leases(given) /\ StartWorkers(given)
          /\ main = "claiming" /\ main' \in {"exited", "loop"}
          /\ UNCHANGED <<asked, unrenewed, faults, crashes>>
    BY DEF Claim
  <1> DEFINE New == {NewWorker(j) : j \in given}
  <1>2. /\ running' = running \cup New
        /\ renewing' = renewing \cup {<<j, lease[j] + 1>> : j \in given}
    BY <1>1 DEF StartWorkers
  <1>3. given \in SUBSET Jobs /\ Cardinality(given) <= asked
    BY <1>1 DEF Queued, Leases
  <1>4. \A v \in New : /\ v \in Workers /\ v.job \in given /\ v.lease = lease[v.job] + 1
                       /\ v.tries = 0 /\ v.lost = 0 /\ v.pc = "judging"
                       /\ ~v.full /\ ~v.odd /\ ~v.judged
                       /\ v = NewWorker(v.job)
    <2> SUFFICES ASSUME NEW j \in given, NEW v, v = NewWorker(j)
                 PROVE  /\ v \in Workers /\ v.job = j /\ v.lease = lease[j] + 1
                        /\ v.tries = 0 /\ v.lost = 0 /\ v.pc = "judging"
                        /\ ~v.full /\ ~v.odd /\ ~v.judged
      OBVIOUS
    <2>1. j \in Jobs /\ lease[j] + 1 \in Nat
      BY <1>3 DEF IndInv, TypeOK
    <2> QED BY <2>1 DEF NewWorker, Workers
  <1>5. \A w \in running : w \in Workers /\ w.job \in Jobs /\ w.lease \in Nat /\ w.lease <= lease[w.job]
    BY DEF IndInv, TypeOK, Workers, LeaseInv
  <1>6. /\ state' \in [Jobs -> {"queued", "leased", "done"}]
        /\ lease' \in [Jobs -> Nat]
        /\ record' = record
        /\ \A j \in Jobs : j \in given => state'[j] = "leased" /\ lease'[j] = lease[j] + 1
        /\ \A w \in running :
             /\ w.lease <= lease'[w.job]
             /\ Current(w)' => w.lost = w.tries
             /\ w.pc # "ended" /\ w.job \notin unrenewed =>
                  /\ lease'[w.job] = w.lease
                  /\ state'[w.job] = "done" \/ (state'[w.job] = "leased" /\ Renews(w))
    BY <1>1, LeasesAfter
  <1> HIDE DEF New
  <1>7. TypeOK'
    <2>1. running' \subseteq Workers
      BY <1>2, <1>4, <1>5
    <2>2. renewing' \subseteq Jobs \X Nat
      BY <1>2, <1>3 DEF IndInv, TypeOK
    <2> QED BY <1>1, <1>6, <2>1, <2>2 DEF IndInv, TypeOK
  <1>8. \A v \in running' : Consistent(v)
    <2>1. \A v \in New : Attempts(v) \in {1, 3}
      BY DEF Attempts
    <2>2. \A v \in New : Consistent(v)
      BY <1>4, <2>1 DEF Consistent
    <2> QED BY <1>2, <2>2 DEF IndInv
  <1>9. LeaseInv'
    <2>1. ASSUME NEW v \in New
          PROVE  /\ v.lease <= lease'[v.job]
                 /\ \A w \in running : ~(w.job = v.job /\ w.lease = v.lease)
      <3>1. v.job \in Jobs /\ lease[v.job] \in Nat
        BY <1>3, <1>4 DEF IndInv, TypeOK
      <3> QED BY <1>4, <1>5, <1>6, <2>1, <3>1
    <2>2. \A v, w \in New : v.job = w.job => v = w
      BY <1>4
    <2>3. \A w \in running : w.lease <= lease'[w.job]
      BY <1>6
    <2> QED BY <1>2, <2>1, <2>2, <2>3 DEF IndInv, LeaseInv
  <1>10. LostInv'
    BY <1>2, <1>4, <1>6 DEF LostInv
  <1>11. CoverInv'
    <2>1. ASSUME NEW v \in New
          PROVE  /\ lease'[v.job] = v.lease
                 /\ state'[v.job] = "leased"
                 /\ <<v.job, v.lease>> \in renewing'
      BY <1>2, <1>3, <1>4, <1>6
    <2>2. \A w \in running : Renews(w) => Renews(w)'
      BY <1>2 DEF Renews
    <2> QED BY <1>1, <1>2, <1>6, <2>1, <2>2 DEF CoverInv, AtWork, Renews
  <1>12. SlotsInv'
    <2>1. IsFiniteSet(given)
      BY <1>3, FS_Subset, JudgeAgentAssumption
    <2>2. IsFiniteSet(New) /\ Cardinality(New) <= Cardinality(given)
      <3> DEFINE f == [j \in given |-> NewWorker(j)]
      <3>1. f \in Surjection(given, New)
        BY DEF Surjection, New
      <3> HIDE DEF f
      <3> QED BY <2>1, <3>1, FS_Surjection
    <2>3. /\ IsFiniteSet(running')
          /\ Cardinality(running') <= Cardinality(running) + Cardinality(given)
      BY <1>2, <1>3, <2>2, Adding DEF IndInv, SlotsInv
    <2>4. Cardinality(running) + asked <= TotalSlots
      BY <1>1 DEF IndInv, SlotsInv
    <2>5. /\ Cardinality(running') \in Nat /\ Cardinality(running) \in Nat
          /\ Cardinality(given) \in Nat /\ asked \in Nat /\ TotalSlots \in Nat
      BY <2>1, <2>3, FS_CardinalityType, JudgeAgentAssumption DEF IndInv, TypeOK, SlotsInv
    <2> QED BY <1>1, <1>3, <2>3, <2>4, <2>5 DEF SlotsInv
  <1>13. VerdictSurvives'
    BY <1>6 DEF IndInv, VerdictSurvives
  <1> QED BY <1>7, <1>8, <1>9, <1>10, <1>11, <1>12, <1>13 DEF IndInv

\* A claim whose reply the agent does not get, or a heartbeat that breaks off.
LEMMA LostClaimPreserves ==
  ASSUME IndInv, ClaimLost \/ ClaimBreaks \/ HeartbeatBreaks
  PROVE  IndInv'
PROOF
  <1>1. /\ main' \in {"loop", "draining"} /\ faults' \in 0..MaxFaults
        /\ UNCHANGED <<asked, running, renewing, unrenewed, crashes>>
        /\ UNCHANGED backend_vars \/ \E given \in SUBSET Queued : Leases(given)
    BY JudgeAgentAssumption DEF ClaimLost, ClaimBreaks, HeartbeatBreaks, Fault, IndInv, TypeOK
  <1>2. CASE UNCHANGED backend_vars
    BY <1>1, <1>2 DEF backend_vars, IndInv, TypeOK, LeaseInv, LostInv, CoverInv, AtWork, Renews, Current,
       SlotsInv, VerdictSurvives
  <1>3. ASSUME NEW given \in SUBSET Queued, Leases(given)
        PROVE  IndInv'
    <2>1. /\ state' \in [Jobs -> {"queued", "leased", "done"}]
          /\ lease' \in [Jobs -> Nat]
          /\ record' = record
          /\ \A w \in running :
               /\ w.lease <= lease'[w.job]
               /\ Current(w)' => w.lost = w.tries
               /\ w.pc # "ended" /\ w.job \notin unrenewed =>
                    /\ lease'[w.job] = w.lease
                    /\ state'[w.job] = "done" \/ (state'[w.job] = "leased" /\ Renews(w))
      BY <1>3, LeasesAfter
    <2>2. TypeOK'
      BY <1>1, <2>1 DEF IndInv, TypeOK
    <2>3. LeaseInv' /\ LostInv' /\ CoverInv'
      BY <1>1, <2>1 DEF IndInv, LeaseInv, LostInv, CoverInv, AtWork, Renews
    <2>4. SlotsInv' /\ VerdictSurvives' /\ \A w \in running' : Consistent(w)
      BY <1>1, <2>1 DEF IndInv, SlotsInv, VerdictSurvives
    <2> QED BY <2>2, <2>3, <2>4 DEF IndInv
  <1> QED BY <1>1, <1>2, <1>3

-----------------------------------------------------------------------------
LEMMA MainPreserves ==
  ASSUME IndInv, Register \/ CollectAndAsk \/ Drained \/ Crash
  PROVE  IndInv'
PROOF
  <1> USE DEF IndInv
  <1>1. /\ UNCHANGED <<state, lease, record, unrenewed, faults>>
        /\ running' \subseteq running
        /\ AtWork' = AtWork \/ running' = {}
        /\ renewing' \subseteq renewing /\ (renewing' = renewing \/ running' = {})
        /\ main' \in {"down", "loop", "claiming"}
        /\ crashes' \in 0..MaxCrashes
    BY JudgeAgentAssumption DEF Register, CollectAndAsk, Drained, Crash, backend_vars, AtWork, TypeOK
  <1>2. /\ IsFiniteSet(running') /\ Cardinality(running') <= Cardinality(running)
        /\ Cardinality(running') \in Nat /\ Cardinality(running) \in Nat
    BY <1>1, FS_Subset, FS_CardinalityType DEF SlotsInv
  <1>3. /\ asked' \in 0..TotalSlots
        /\ main' = "claiming" => Cardinality(running') + asked' <= TotalSlots
    <2>1. CASE CollectAndAsk
      BY <1>2, <2>1, JudgeAgentAssumption DEF CollectAndAsk
    <2>2. CASE Register \/ Drained \/ Crash
      BY <2>2 DEF Register, Drained, Crash, TypeOK
    <2> QED BY <2>1, <2>2
  <1>4. TypeOK'
    BY <1>1, <1>3 DEF TypeOK
  <1>5. SlotsInv'
    BY <1>2, <1>3, JudgeAgentAssumption DEF SlotsInv
  <1>6. LeaseInv' /\ LostInv' /\ VerdictSurvives' /\ \A w \in running' : Consistent(w)
    BY <1>1 DEF LeaseInv, LostInv, VerdictSurvives, Current
  <1>7. CoverInv'
    <2>1. CASE AtWork' = AtWork /\ renewing' = renewing
      BY <1>1, <2>1 DEF CoverInv, Renews
    <2>2. CASE running' = {}
      BY <2>2 DEF CoverInv, AtWork
    <2> QED BY <1>1, <2>1, <2>2
  <1> QED BY <1>4, <1>5, <1>6, <1>7

LEMMA BackendPreserves ==
  ASSUME IndInv, NEW j \in Jobs, Expire(j) \/ ExpireInOutage(j) \/ Cancel(j)
  PROVE  IndInv'
PROOF
  <1> USE DEF IndInv
  <1>1. /\ UNCHANGED <<lease, main, asked, running, renewing, crashes>>
        /\ faults' \in 0..MaxFaults
        /\ unrenewed \subseteq unrenewed' /\ unrenewed' \subseteq Jobs
        /\ state' \in [Jobs -> {"queued", "leased", "done"}]
        /\ \A k \in Jobs : k # j => state'[k] = state[k]
        /\ \/ state'[j] = "done"
           \/ state'[j] = "queued" /\ state[j] = "leased" /\ (~Kept(j) \/ j \in unrenewed')
        /\ record' = record \/ record' = [record EXCEPT ![j] = Unreported("cancelled")]
    BY JudgeAgentAssumption DEF Expire, ExpireInOutage, Cancel, Fault, TypeOK, main_vars
  <1>2. \A w \in running : w.job \in Jobs /\ w.lease \in Nat
    BY DEF TypeOK, Workers
  <1>3. TypeOK'
    <2>1. Unreported("cancelled") \in [what : {"none", "verdict", "system_error", "cancelled"},
                                       judged : BOOLEAN, full : BOOLEAN, lost : 0..3, odd : BOOLEAN]
      BY DEF Unreported
    <2> QED BY <1>1, <2>1 DEF TypeOK
  <1>4. LostInv'
    BY <1>1, <1>2 DEF LostInv, Current
  <1>5. CoverInv'
    <2> SUFFICES ASSUME NEW w \in running, w.pc # "ended", w.job \notin unrenewed'
                 PROVE  /\ lease[w.job] = w.lease
                        /\ state'[w.job] = "done" \/ (state'[w.job] = "leased" /\ Renews(w))
      BY <1>1 DEF CoverInv, AtWork, Renews
    <2>1. /\ lease[w.job] = w.lease
          /\ state[w.job] = "done" \/ (state[w.job] = "leased" /\ Renews(w))
      BY <1>1 DEF CoverInv, AtWork
    <2>2. CASE w.job # j
      BY <1>1, <1>2, <2>1, <2>2
    <2>3. CASE w.job = j
      BY <1>1, <2>1, <2>3 DEF Kept, Renews
    <2> QED BY <2>2, <2>3
  <1>6. VerdictSurvives'
    <2>1. \A k \in Jobs : record'[k] = record[k] \/ record'[k] = Unreported("cancelled")
      BY <1>1 DEF TypeOK
    <2> QED BY <2>1 DEF VerdictSurvives, Unreported
  <1>7. LeaseInv' /\ SlotsInv' /\ \A w \in running' : Consistent(w)
    BY <1>1 DEF LeaseInv, SlotsInv
  <1> QED BY <1>3, <1>4, <1>5, <1>6, <1>7

LEMMA NextIndInv == IndInv /\ [Next]_vars => IndInv'
PROOF
  <1> SUFFICES ASSUME IndInv, [Next]_vars PROVE IndInv'
    OBVIOUS
  <1>1. CASE UNCHANGED vars
    BY <1>1 DEF vars, backend_vars, main_vars, IndInv, TypeOK, LeaseInv, LostInv, CoverInv, AtWork, Renews,
       Current, SlotsInv, VerdictSurvives
  <1>2. CASE Register \/ CollectAndAsk \/ Drained \/ Crash
    BY <1>2, MainPreserves
  <1>3. CASE Claim
    BY <1>3, ClaimPreserves
  <1>4. CASE ClaimLost \/ ClaimBreaks \/ HeartbeatBreaks
    BY <1>4, LostClaimPreserves
  <1>5. ASSUME NEW w \in running,
               \/ Judge(w) \/ ReportLost(w) \/ ReportBreaks(w) \/ FailLost(w)
               \/ RenewalRefused(w) \/ KeepaliveDies(w)
        PROVE  IndInv'
    BY <1>5, JudgeStep, StepPreserves
  <1>6. ASSUME NEW j \in Jobs, Expire(j) \/ ExpireInOutage(j) \/ Cancel(j)
        PROVE  IndInv'
    BY <1>6, BackendPreserves
  <1> QED BY <1>1, <1>2, <1>3, <1>4, <1>5, <1>6 DEF Next, MainStep, Settled

LEMMA SpecIndInv == Spec => []IndInv
PROOF
  <1> QED BY InitIndInv, NextIndInv, PTL DEF Spec

-----------------------------------------------------------------------------
\* The variables of the agent and of the backend stay in their ranges: no report
\* is attempted a fourth time (the loops over attempts in judge_one).
THEOREM TypeCorrect == Spec => []TypeOK
PROOF
  <1>1. IndInv => TypeOK
    BY DEF IndInv
  <1> QED BY <1>1, SpecIndInv, PTL

\* The agent never works on more jobs than it has slots (free_slots in main).
THEOREM SlotsBoundWork == Spec => []SlotsRespected
PROOF
  <1>1. IndInv => SlotsRespected
    <2> SUFFICES ASSUME IndInv PROVE SlotsRespected
      OBVIOUS
    <2>1. IsFiniteSet(running) /\ Cardinality(running) <= TotalSlots /\ AtWork \subseteq running
      BY DEF IndInv, SlotsInv, AtWork
    <2>2. /\ Cardinality(AtWork) <= Cardinality(running)
          /\ Cardinality(AtWork) \in Nat /\ Cardinality(running) \in Nat
      BY <2>1, FS_Subset, FS_CardinalityType
    <2> QED BY <2>1, <2>2, JudgeAgentAssumption DEF SlotsRespected
  <1> QED BY <1>1, SpecIndInv, PTL

\* Two workers of the agent are on one job only if its lease was not renewed
\* (keepalive in judge_one, stopped in its finally).
THEOREM LeasesCoverWork == Spec => []JudgedOnceAtATime
PROOF
  <1>1. IndInv => JudgedOnceAtATime
    BY DEF IndInv, LeaseInv, CoverInv, JudgedOnceAtATime, AtWork
  <1> QED BY <1>1, SpecIndInv, PTL

\* A judged job is recorded as system_error only after all attempts at reporting
\* its result were lost, or one broke off (the except clause of judge_one).
THEOREM VerdictsSurvive == Spec => []VerdictSurvives
PROOF
  <1>1. IndInv => VerdictSurvives
    BY DEF IndInv
  <1> QED BY <1>1, SpecIndInv, PTL

-----------------------------------------------------------------------------
(* Who is at work when the process exits.                                   *)

\* A keepalive thread has a worker at work under its lease.
RenewInv ==
  \A j \in Jobs, n \in Nat : <<j, n>> \in renewing =>
    \E w \in AtWork : w.job = j /\ w.lease = n

\* Until something fails, whatever is leased is worked on, and the process exits
\* with nothing left to do.
LeasedInv ==
  faults = 0 /\ crashes = 0 =>
    \A j \in Jobs : state[j] = "leased" =>
      \E w \in AtWork : w.job = j /\ w.lease = lease[j]

ExitInv ==
  main = "exited" =>
    /\ running = {}
    /\ faults = 0 /\ crashes = 0 => \A j \in Jobs : state[j] = "done"

WorkInv == RenewInv /\ LeasedInv /\ ExitInv

\* A step of a worker.
LEMMA WorkerWork ==
  ASSUME IndInv, WorkInv, NEW w \in running, NEW next \in Workers, Step(w, next),
         faults' \in {faults, faults + 1}
  PROVE  WorkInv'
PROOF
  <1>1. /\ running' = (running \ {w}) \cup {next} /\ next.job = w.job /\ next.lease = w.lease
        /\ w.pc = "ended" => next.pc = "ended"
        /\ UNCHANGED <<lease, main, crashes>>
        /\ renewing' \subseteq renewing
        /\ next.pc = "ended" => <<w.job, w.lease>> \notin renewing'
        /\ next.pc = "ended" /\ w.pc # "ended" /\ Current(w) => faults' # 0 \/ state'[w.job] = "done"
    BY DEF Step, Becomes
  <1>2. /\ w.job \in Jobs /\ w.lease \in Nat /\ faults \in Nat
        /\ state \in [Jobs -> {"queued", "leased", "done"}]
    BY JudgeAgentAssumption DEF IndInv, TypeOK, Workers
  <1>3. \A j \in Jobs : state'[j] = state[j] \/ (j = w.job /\ state'[j] = "done")
    BY <1>2 DEF Step
  <1>4. /\ \A v \in AtWork : v # w => v \in AtWork'
        /\ next.pc # "ended" => next \in AtWork'
    BY <1>1 DEF AtWork
  <1>5. RenewInv'
    <2> SUFFICES ASSUME NEW j \in Jobs, NEW n \in Nat, <<j, n>> \in renewing'
                 PROVE  \E v \in AtWork' : v.job = j /\ v.lease = n
      BY DEF RenewInv
    <2>1. PICK v \in AtWork : v.job = j /\ v.lease = n
      BY <1>1 DEF WorkInv, RenewInv
    <2>2. CASE v # w
      BY <1>4, <2>1, <2>2
    <2>3. CASE v = w
      BY <1>1, <1>4, <2>1, <2>3
    <2> QED BY <2>2, <2>3
  <1>6. LeasedInv'
    <2> SUFFICES ASSUME faults' = 0, crashes' = 0, NEW j \in Jobs, state'[j] = "leased"
                 PROVE  \E v \in AtWork' : v.job = j /\ v.lease = lease[j]
      BY <1>1 DEF LeasedInv
    <2>1. faults = 0 /\ crashes = 0 /\ state[j] = "leased"
      BY <1>1, <1>2, <1>3
    <2>2. PICK v \in AtWork : v.job = j /\ v.lease = lease[j]
      BY <2>1 DEF WorkInv, LeasedInv
    <2>3. CASE v # w
      BY <1>4, <2>2, <2>3
    <2>4. CASE v = w
      BY <1>1, <1>4, <2>1, <2>2, <2>4 DEF AtWork, Current
    <2> QED BY <2>3, <2>4
  <1>7. ExitInv'
    BY <1>1 DEF WorkInv, ExitInv
  <1> QED BY <1>5, <1>6, <1>7 DEF WorkInv

\* The long poll of a claim.
LEMMA ClaimWork ==
  ASSUME IndInv, WorkInv, Claim PROVE WorkInv'
PROOF
  <1>1. PICK given \in SUBSET Queued :
          /\ Leases(given) /\ StartWorkers(given)
          /\ main' = IF RunOnce /\ running' = {} THEN "exited" ELSE "loop"
          /\ UNCHANGED <<asked, unrenewed, faults, crashes>>
    BY DEF Claim
  <1>2. /\ running' = running \cup {NewWorker(j) : j \in given}
        /\ renewing' = renewing \cup {<<j, lease[j] + 1>> : j \in given}
    BY <1>1 DEF StartWorkers
  <1>3. /\ given \subseteq Jobs
        /\ \A j \in given : /\ NewWorker(j).job = j /\ NewWorker(j).lease = lease[j] + 1
                            /\ NewWorker(j).pc = "judging"
    BY <1>1 DEF Queued, NewWorker
  <1>4. /\ state' \in [Jobs -> {"queued", "leased", "done"}]
        /\ \A j \in Jobs : j \in given => state'[j] = "leased" /\ lease'[j] = lease[j] + 1
        /\ \A j \in Jobs : j \notin given => state'[j] = state[j] /\ lease'[j] = lease[j]
    BY <1>1, LeasesAfter
  <1>5. AtWork \subseteq AtWork' /\ \A j \in given : NewWorker(j) \in AtWork'
    BY <1>2, <1>3 DEF AtWork
  <1> HIDE DEF NewWorker
  <1>6. RenewInv'
    <2> SUFFICES ASSUME NEW j \in Jobs, NEW n \in Nat, <<j, n>> \in renewing'
                 PROVE  \E v \in AtWork' : v.job = j /\ v.lease = n
      BY DEF RenewInv
    <2>1. CASE <<j, n>> \in renewing
      BY <1>5, <2>1 DEF WorkInv, RenewInv
    <2>2. CASE j \in given /\ n = lease[j] + 1
      BY <1>3, <1>5, <2>2
    <2> QED BY <1>2, <2>1, <2>2
  <1>7. LeasedInv'
    <2> SUFFICES ASSUME faults' = 0, crashes' = 0, NEW j \in Jobs, state'[j] = "leased"
                 PROVE  \E v \in AtWork' : v.job = j /\ v.lease = lease'[j]
      BY DEF LeasedInv
    <2>1. CASE j \in given
      BY <1>3, <1>4, <1>5, <2>1
    <2>2. CASE j \notin given
      BY <1>1, <1>4, <1>5, <2>2 DEF WorkInv, LeasedInv
    <2> QED BY <2>1, <2>2
  <1>8. ExitInv'
    <2> SUFFICES ASSUME main' = "exited" PROVE ExitInv'
      BY DEF ExitInv
    <2>1. running' = {} /\ given = {}
      BY <1>1, <1>2
    <2>2. AtWork' = {}
      BY <2>1 DEF AtWork
    <2>3. \A j \in Jobs : state[j] # "queued" /\ state'[j] = state[j]
      BY <1>1, <1>4, <2>1 DEF Leases
    <2>4. faults' = 0 /\ crashes' = 0 => \A j \in Jobs : state'[j] = "done"
      BY <1>4, <1>7, <2>2, <2>3 DEF LeasedInv
    <2> QED BY <2>1, <2>4 DEF ExitInv
  <1> QED BY <1>6, <1>7, <1>8 DEF WorkInv

\* Every step of the agent and of the backend.
LEMMA WorkStep ==
  ASSUME IndInv, WorkInv, [Next]_vars PROVE WorkInv'
PROOF
  <1>0. faults \in Nat /\ crashes \in Nat
    BY JudgeAgentAssumption DEF IndInv, TypeOK
  <1>1. ASSUME NEW w \in running,
               \/ Judge(w) \/ ReportLost(w) \/ ReportBreaks(w) \/ FailLost(w)
               \/ RenewalRefused(w) \/ KeepaliveDies(w)
        PROVE  WorkInv'
    <2>1. PICK next \in Workers : Step(w, next)
      BY <1>1, JudgeStep
    <2>2. faults' \in {faults, faults + 1}
      BY <1>1 DEF Judge, JudgeReturns, JudgeRaises, Report, ReportRefused, Fail, ReportLost,
                  ReportBreaks, FailLost, RenewalRefused, KeepaliveDies, Fault
    <2> QED BY <2>1, <2>2, WorkerWork
  <1>2. CASE Claim
    BY <1>2, ClaimWork
  <1>3. CASE ClaimLost \/ ClaimBreaks \/ HeartbeatBreaks
    <2>1. faults' # 0 /\ UNCHANGED <<running, renewing>> /\ main' # "exited"
      BY <1>0, <1>3 DEF ClaimLost, ClaimBreaks, HeartbeatBreaks, Fault
    <2> QED BY <2>1 DEF WorkInv, RenewInv, LeasedInv, ExitInv, AtWork
  <1>4. CASE Register \/ CollectAndAsk
    <2>1. /\ UNCHANGED <<backend_vars, renewing, faults, crashes>> /\ main' # "exited"
          /\ AtWork' = AtWork
      BY <1>4 DEF Register, CollectAndAsk, AtWork
    <2> QED BY <2>1 DEF WorkInv, RenewInv, LeasedInv, ExitInv, backend_vars
  <1>5. CASE Drained
    <2>1. AtWork = {} /\ UNCHANGED <<backend_vars, faults, crashes>> /\ main' # "exited"
          /\ renewing' = {} /\ running' = {}
      BY <1>5 DEF Drained, AtWork
    <2> QED BY <2>1 DEF WorkInv, RenewInv, LeasedInv, ExitInv, backend_vars
  <1>6. CASE Crash
    BY <1>0, <1>6 DEF Crash, WorkInv, RenewInv, LeasedInv, ExitInv
  <1>7. ASSUME NEW j \in Jobs, Expire(j) \/ ExpireInOutage(j) \/ Cancel(j) PROVE WorkInv'
    <2>1. /\ UNCHANGED <<lease, main, running, renewing, crashes>>
          /\ faults' \in {faults, faults + 1}
          /\ \A k \in Jobs : k # j => state'[k] = state[k]
          /\ state'[j] = "done" \/ (state'[j] = "queued" /\ state[j] = "leased")
      BY <1>7 DEF Expire, ExpireInOutage, Cancel, Fault, main_vars, IndInv, TypeOK
    <2>2. faults' = 0 => faults = 0
      BY <1>0, <2>1
    <2>3. RenewInv' /\ LeasedInv'
      BY <2>1, <2>2 DEF WorkInv, RenewInv, LeasedInv, AtWork
    <2>4. ExitInv'
      BY <2>1, <2>2 DEF WorkInv, ExitInv
    <2> QED BY <2>3, <2>4 DEF WorkInv
  <1>8. CASE Settled \/ UNCHANGED vars
    BY <1>8 DEF Settled, vars, backend_vars, main_vars, WorkInv, RenewInv, LeasedInv, ExitInv, AtWork
  <1> QED BY <1>1, <1>2, <1>3, <1>4, <1>5, <1>6, <1>7, <1>8 DEF Next, MainStep

\* A process run with JUDGE_RUN_ONCE exits with no thread at work and, if nothing
\* failed, with a result for every job (app/main.py:205-211).
THEOREM ExitsClean == Spec => []ExitsWhenDone
PROOF
  <1>1. Init => WorkInv
    BY DEF Init, WorkInv, RenewInv, LeasedInv, ExitInv
  <1>2. IndInv /\ WorkInv /\ [Next]_vars => WorkInv'
    BY WorkStep
  <1>3. IndInv /\ WorkInv => ExitsWhenDone
    <2> SUFFICES ASSUME IndInv, WorkInv, main = "exited" PROVE ExitsWhenDone
      BY DEF ExitsWhenDone
    <2>1. AtWork = {} /\ running = {}
      BY DEF WorkInv, ExitInv, AtWork
    <2>2. renewing = {}
      BY <2>1 DEF WorkInv, RenewInv, IndInv, TypeOK
    <2> QED BY <2>1, <2>2 DEF WorkInv, ExitInv, ExitsWhenDone
  <1> QED BY <1>1, <1>2, <1>3, SpecIndInv, PTL DEF Spec
=============================================================================
