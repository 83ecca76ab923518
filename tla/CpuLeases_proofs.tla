-------------------------- MODULE CpuLeases_proofs --------------------------
(* Safety of the CPU leases, for every number of agent processes, threads,  *)
(* CPUs, boxes, calls and crashes.                                          *)
EXTENDS CpuLeases, TLAPS

LEMMA NobodyIsNoThread == Nobody \notin Threads
PROOF BY DEF Nobody, Threads

LEMMA ThreadsHaveAgents == \A t \in Threads : AgentOf(t) \in Agents
PROOF BY DEF Threads, AgentOf

\* The pool has a slot, and the scan stays inside it.
LEMMA SlotFacts ==
  /\ Size \in Nat \ {0}
  /\ 0 \in Slots
  /\ \A i \in Slots : (i + 1) % Size \in Slots
PROOF
  <1>1. Size \in Nat \ {0}
    BY CpuLeasesAssumption DEF Size, Spare
  <1>2. 0 \in Slots
    BY <1>1 DEF Slots
  <1>3. ASSUME NEW i \in Slots PROVE (i + 1) % Size \in Slots
    <2>1. i + 1 \in Int
      BY <1>1 DEF Slots
    <2> QED BY <1>1, <2>1 DEF Slots
  <1> QED BY <1>1, <1>2, <1>3

LEMMA InitIndInv == Init => IndInv
PROOF
  <1> SUFFICES ASSUME Init PROVE IndInv
    OBVIOUS
  <1>1. TypeOK
    BY SlotFacts, CpuLeasesAssumption DEF Init, TypeOK
  <1>2. LeaseExcludes
    BY DEF Init, LeaseExcludes, Leased
  <1>3. WorkersOfLiveAgents /\ ContainersAttended /\ OrphansOfTheDead
    BY DEF Init, WorkersOfLiveAgents, ContainersAttended, OrphansOfTheDead
  <1>4. BoxBelongsToCall
    BY DEF Init, BoxBelongsToCall
  <1> QED BY <1>1, <1>2, <1>3, <1>4 DEF IndInv
-----------------------------------------------------------------------------
\* The start of a process has no thread in a call; where there is no other
\* process, its sweep meets no box of a call.
LEMMA StartUpInv ==
  ASSUME IndInv, NEW a \in Agents, StartUp(a)
  PROVE  IndInv'
PROOF
  <1> USE DEF IndInv, start_vars, thread_vars
  <1>1. UNCHANGED <<pc, kind, at, attached, calls, lock, crashes>>
    BY DEF StartUp, Start, SweepBox, EndSweep, RemoveOrphans
  <1>2. TypeOK'
    <2>1. CASE Start(a)
      BY <2>1, SlotFacts DEF Start, TypeOK
    <2>2. CASE SweepBox(a)
      <3>1. swept[a] \in Slots
        BY <2>2, SlotFacts DEF SweepBox, TypeOK, Slots
      <3> QED BY <2>2, <3>1, SlotFacts DEF SweepBox, TypeOK
    <2>3. CASE EndSweep(a)
      BY <2>3 DEF EndSweep, TypeOK
    <2>4. CASE RemoveOrphans(a)
      BY <2>4 DEF RemoveOrphans, TypeOK
    <2> QED BY <2>1, <2>2, <2>3, <2>4 DEF StartUp
  <1>3. LeaseExcludes'
    BY <1>1 DEF LeaseExcludes
  <1>4. WorkersOfLiveAgents'
    BY <1>1, ThreadsHaveAgents
    DEF WorkersOfLiveAgents, TypeOK, StartUp, Start, SweepBox, EndSweep, RemoveOrphans
  <1>5. ContainersAttended'
    BY <1>1 DEF ContainersAttended
  <1>6. OrphansOfTheDead'
    BY DEF OrphansOfTheDead, TypeOK, StartUp, Start, SweepBox, EndSweep, RemoveOrphans
  <1>7. ASSUME OneAgent PROVE BoxBelongsToCall'
    <2>1. \A t \in Threads : pc[t] = "idle"
      BY <1>7, ThreadsHaveAgents
      DEF OneAgent, WorkersOfLiveAgents, StartUp, Start, SweepBox, EndSweep, RemoveOrphans
    <2> QED BY <1>1, <2>1 DEF BoxBelongsToCall
  <1> QED BY <1>2, <1>3, <1>4, <1>5, <1>6, <1>7 DEF OneAgent

LEMMA AskInv ==
  ASSUME IndInv, NEW t \in Threads, Ask(t)
  PROVE  IndInv'
PROOF
  <1> USE DEF IndInv, Ask, start_vars
  <1>1. TypeOK'
    <2>1. calls[t] - 1 \in Nat
      BY DEF TypeOK
    <2> QED BY <2>1, SlotFacts DEF TypeOK
  <1>2. LeaseExcludes'
    BY NobodyIsNoThread DEF LeaseExcludes, Leased, TypeOK
  <1>3. WorkersOfLiveAgents'
    BY DEF WorkersOfLiveAgents, TypeOK
  <1>4. ContainersAttended'
    BY DEF ContainersAttended, TypeOK
  <1>5. OrphansOfTheDead'
    BY DEF OrphansOfTheDead
  <1>6. ASSUME OneAgent PROVE BoxBelongsToCall'
    BY <1>6 DEF BoxBelongsToCall, TypeOK
  <1> QED BY <1>1, <1>2, <1>3, <1>4, <1>5, <1>6 DEF OneAgent

\* The scan: only a free slot is taken, so that no other lease is disturbed.
LEMMA ScanInv ==
  ASSUME IndInv, NEW t \in Threads, Lock(t) \/ Skip(t)
  PROVE  IndInv'
PROOF
  <1> USE DEF IndInv, Lock, Skip, start_vars
  <1>1. pc[t] = "scan" /\ at[t] \in Slots
    BY DEF TypeOK
  <1>2. TypeOK'
    BY <1>1, SlotFacts DEF TypeOK, Leased
  <1>3. LeaseExcludes'
    BY <1>1, NobodyIsNoThread DEF LeaseExcludes, Leased, TypeOK
  <1>4. WorkersOfLiveAgents' /\ ContainersAttended' /\ OrphansOfTheDead'
    BY <1>1 DEF WorkersOfLiveAgents, ContainersAttended, OrphansOfTheDead, TypeOK
  <1>5. ASSUME OneAgent PROVE BoxBelongsToCall'
    BY <1>1, <1>5 DEF BoxBelongsToCall, TypeOK
  <1> QED BY <1>2, <1>3, <1>4, <1>5 DEF OneAgent

LEMMA UnlockInv ==
  ASSUME IndInv, NEW t \in Threads, Unlock(t)
  PROVE  IndInv'
PROOF
  <1> USE DEF IndInv, Unlock, start_vars
  <1>1. lock[at[t]] = t /\ at[t] \in Slots
    BY DEF LeaseExcludes, Leased, TypeOK
  <1>2. TypeOK'
    BY <1>1 DEF TypeOK
  <1>3. LeaseExcludes'
    BY <1>1, NobodyIsNoThread DEF LeaseExcludes, Leased, TypeOK
  <1>4. WorkersOfLiveAgents' /\ ContainersAttended' /\ OrphansOfTheDead'
    BY DEF WorkersOfLiveAgents, ContainersAttended, OrphansOfTheDead, TypeOK
  <1>5. ASSUME OneAgent PROVE BoxBelongsToCall'
    BY <1>5 DEF BoxBelongsToCall, TypeOK
  <1> QED BY <1>2, <1>3, <1>4, <1>5 DEF OneAgent

\* Inside the lease a thread touches the box of its own slot only.
LEMMA CallInv ==
  ASSUME IndInv, NEW t \in Threads,
         \/ RaiseEarly(t) \/ InitBox(t) \/ InitBoxFails(t) \/ RunBox(t) \/ EndRun(t) \/ CleanBox(t)
         \/ StartContainer(t) \/ LeaveContainer(t) \/ RemoveContainer(t)
  PROVE  IndInv'
PROOF
  <1> USE DEF IndInv, start_vars, IsolateRuns
  <1> USE DEF RaiseEarly, InitBox, InitBoxFails, RunBox, EndRun, CleanBox,
              StartContainer, LeaveContainer, RemoveContainer
  <1>1. pc[t] \in Leased \ {"unlock"} /\ at[t] \in Slots /\ lock[at[t]] = t
    BY DEF LeaseExcludes, Leased, TypeOK
  <1>2. /\ UNCHANGED <<agent, swept, crashes, kind, at, calls, lock>>
        /\ pc' \in {[pc EXCEPT ![t] = s] : s \in Leased}
    BY DEF Leased
  <1>3. TypeOK'
    <2>1. box' \in [Slots -> Threads \cup {Nobody}]
      BY <1>1 DEF TypeOK
    <2>2. attached' \in [Threads -> BOOLEAN]
      BY DEF TypeOK
    <2>3. orphans' \subseteq Agents \X Slots
      BY <1>1, ThreadsHaveAgents DEF TypeOK
    <2> QED BY <1>2, <2>1, <2>2, <2>3 DEF TypeOK, Leased
  <1>4. LeaseExcludes'
    BY <1>1, <1>2 DEF LeaseExcludes, TypeOK
  <1>5. WorkersOfLiveAgents'
    BY <1>1, <1>2 DEF WorkersOfLiveAgents, TypeOK, Leased
  <1>6. ContainersAttended'
    BY DEF ContainersAttended, TypeOK
  <1>7. OrphansOfTheDead'
    BY <1>2 DEF OrphansOfTheDead
  <1>8. ASSUME OneAgent PROVE BoxBelongsToCall'
    <2>1. ASSUME NEW u \in Threads, u # t, pc[u] \in {"ready", "running"}
          PROVE  at[u] # at[t]
      BY <1>1, <2>1 DEF LeaseExcludes, Leased
    <2>2. ASSUME NEW u \in Threads, u # t, kind[u] = "isolate", pc[u] \in {"ready", "running"}
          PROVE  box'[at[u]] = u
      BY <1>1, <1>8, <2>1, <2>2 DEF BoxBelongsToCall, TypeOK
    <2>3. kind[t] = "isolate" /\ pc'[t] \in {"ready", "running"} => box'[at[t]] = t
      BY <1>1, <1>8 DEF BoxBelongsToCall, TypeOK
    <2> QED BY <1>2, <2>2, <2>3 DEF BoxBelongsToCall, TypeOK
  <1> QED BY <1>3, <1>4, <1>5, <1>6, <1>7, <1>8, <1>2 DEF OneAgent

LEMMA ContainerEndsInv ==
  ASSUME IndInv, NEW t \in Threads, ContainerEnds(t)
  PROVE  IndInv'
PROOF BY DEF IndInv, ContainerEnds, start_vars, TypeOK, LeaseExcludes, WorkersOfLiveAgents,
             ContainersAttended, OrphansOfTheDead, OneAgent, BoxBelongsToCall

LEMMA OrphanEndsInv ==
  ASSUME IndInv, NEW o \in orphans, OrphanEnds(o)
  PROVE  IndInv'
PROOF BY DEF IndInv, OrphanEnds, start_vars, thread_vars, TypeOK, LeaseExcludes,
             WorkersOfLiveAgents, ContainersAttended, OrphansOfTheDead, OneAgent, BoxBelongsToCall

\* A crash empties the calls of the process and the locks they held, together.
LEMMA CrashInv ==
  ASSUME IndInv, NEW a \in Agents, Crash(a)
  PROVE  IndInv'
PROOF
  <1> USE DEF IndInv, Crash
  <1>1. TypeOK'
    BY ThreadsHaveAgents DEF TypeOK
  <1>2. LeaseExcludes'
    <2>1. ASSUME NEW t \in Threads, pc'[t] \in Leased
          PROVE  lock'[at'[t]] = t
      BY <2>1 DEF LeaseExcludes, Leased, TypeOK
    <2>2. ASSUME NEW i \in Slots, lock'[i] # Nobody
          PROVE  pc'[lock'[i]] \in Leased /\ at'[lock'[i]] = i
      BY <2>2 DEF LeaseExcludes, TypeOK
    <2> QED BY <2>1, <2>2 DEF LeaseExcludes
  <1>3. WorkersOfLiveAgents'
    BY DEF WorkersOfLiveAgents, TypeOK
  <1>4. ContainersAttended'
    BY DEF ContainersAttended, TypeOK
  <1>5. OrphansOfTheDead'
    BY DEF OrphansOfTheDead, TypeOK
  <1>6. ASSUME OneAgent PROVE BoxBelongsToCall'
    BY <1>6 DEF BoxBelongsToCall, TypeOK
  <1> QED BY <1>1, <1>2, <1>3, <1>4, <1>5, <1>6 DEF OneAgent

LEMMA NextIndInv == IndInv /\ [Next]_vars => IndInv'
PROOF
  <1> SUFFICES ASSUME IndInv, [Next]_vars PROVE IndInv'
    OBVIOUS
  <1>1. CASE UNCHANGED vars
    BY <1>1 DEF vars, IndInv, TypeOK, LeaseExcludes, WorkersOfLiveAgents, ContainersAttended,
                OrphansOfTheDead, OneAgent, BoxBelongsToCall
  <1>2. ASSUME NEW a \in Agents, StartUp(a) \/ Crash(a) PROVE IndInv'
    BY <1>2, StartUpInv, CrashInv
  <1>3. ASSUME NEW t \in Threads, Ask(t) \/ Proceed(t) \/ ContainerEnds(t) PROVE IndInv'
    BY <1>3, AskInv, ScanInv, UnlockInv, CallInv, ContainerEndsInv DEF Proceed
  <1>4. ASSUME NEW o \in orphans, OrphanEnds(o) PROVE IndInv'
    BY <1>4, OrphanEndsInv
  <1> QED BY <1>1, <1>2, <1>3, <1>4 DEF Next, Finished

\* Type correctness of the leases (CpuPool.lease and its users).
THEOREM TypeCorrect == Spec => []TypeOK
PROOF
  <1>1. IndInv => TypeOK
    BY DEF IndInv
  <1> QED BY InitIndInv, NextIndInv, <1>1, PTL DEF Spec

\* For any number of processes, threads, slots and crashes, the lock of a slot
\* is held by the one thread inside the lease of that slot, and by nobody if
\* there is none: leases of a slot exclude each other and none is lost.
THEOREM LeasesExclude == Spec => []LeaseExcludes
PROOF
  <1>1. IndInv => LeaseExcludes
    BY DEF IndInv
  <1> QED BY InitIndInv, NextIndInv, <1>1, PTL DEF Spec

\* With one agent process, whatever its crashes, nobody touches the isolate box
\* of a call between its --init and its --cleanup.
THEOREM BoxesBelongToCalls == OneAgent => (Spec => []BoxBelongsToCall)
PROOF
  <1> SUFFICES ASSUME OneAgent PROVE Spec => []BoxBelongsToCall
    OBVIOUS
  <1>1. IndInv => BoxBelongsToCall
    BY DEF IndInv
  <1> QED BY InitIndInv, NextIndInv, <1>1, PTL DEF Spec

\* With one agent process and containers that docker rm finds and removes, a CPU of the
\* pool executes at most one call at a time, through crashes and restarts.
THEOREM CpusRunOneCall == OneAgent /\ ~ContainersEscape => (Spec => []OneCallPerCpu)
PROOF
  <1> SUFFICES ASSUME OneAgent, ~ContainersEscape PROVE Spec => []OneCallPerCpu
    OBVIOUS
  <1>1. ASSUME IndInv PROVE OneCallPerCpu
    <2> USE <1>1 DEF IndInv
    <2>1. ASSUME NEW t \in Threads, NEW i \in Slots, OnCpu(t, i)
          PROVE  lock[i] = t /\ agent[AgentOf(t)] = "up"
      BY <2>1, ThreadsHaveAgents
      DEF OnCpu, IsolateRuns, ContainersAttended, LeaseExcludes, WorkersOfLiveAgents, Leased, TypeOK
    <2>2. ASSUME NEW t \in Threads, NEW i \in Slots, NEW a \in Agents,
                 OnCpu(t, i), <<a, i>> \in orphans
          PROVE  FALSE
      <3>1. agent[a] # "up"
        BY <2>2 DEF OrphansOfTheDead
      <3>2. AgentOf(t) = a
        BY ThreadsHaveAgents DEF OneAgent
      <3> QED BY <2>1, <2>2, <3>1, <3>2
    <2> QED BY <2>1, <2>2 DEF OneCallPerCpu
  <1> QED BY InitIndInv, NextIndInv, <1>1, PTL DEF Spec
=============================================================================
