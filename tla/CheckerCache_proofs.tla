------------------------- MODULE CheckerCache_proofs -------------------------
(* Safety of the checker cache and its refinement of CheckerStore, for every *)
(* number of processes, threads, keys, CPUs and crashes.                      *)
EXTENDS CheckerCache, FiniteSetTheorems, TLAPS

LEMMA NobodyIsNoThread == Nobody \notin Threads
PROOF BY DEF Nobody, Threads

LEMMA Files == NoFile \in File /\ Good \in File /\ Partial \in File /\ NoFile # Good
PROOF BY DEF NoFile, Good, Partial, File

LEMMA InitIndInv == Init => IndInv
PROOF
  <1> SUFFICES ASSUME Init PROVE IndInv
    OBVIOUS
  <1>1. TypeOK
    BY Files, CheckerCacheAssumption DEF Init, TypeOK
  <1>2. OneBuilderPerKey
    BY DEF Init, OneBuilderPerKey, Building
  <1>3. NoPartialChecker
    BY DEF Init, NoPartialChecker
  <1>4. BuildInv
    BY DEF Init, BuildInv, Building
  <1> QED BY <1>1, <1>2, <1>3, <1>4 DEF IndInv

\* A thread at work on the entry of its key meets no other one there.
LEMMA Alone ==
  ASSUME OneBuilderPerKey, NEW t \in Threads, NEW u \in Threads,
         pc[t] \in Building, pc[u] \in Building, key[t] = key[u]
  PROVE  t = u
PROOF BY DEF OneBuilderPerKey

LEMMA RequestInv == ASSUME IndInv, NEW t \in Threads, Request(t) PROVE IndInv'
PROOF
  <1> USE DEF IndInv, Request, Goto
  <1>1. TypeOK'
    <2>1. jobs[t] - 1 \in Nat
      BY DEF TypeOK
    <2> QED BY <2>1 DEF TypeOK
  <1>2. OneBuilderPerKey'
    BY NobodyIsNoThread DEF OneBuilderPerKey, Building, TypeOK
  <1>3. NoPartialChecker' /\ BuildInv'
    BY DEF NoPartialChecker, BuildInv, Building, TypeOK
  <1> QED BY <1>1, <1>2, <1>3

LEMMA LockInv == ASSUME IndInv, NEW t \in Threads, Lock(t) PROVE IndInv'
PROOF
  <1> USE DEF IndInv, Lock, Goto
  <1>1. TypeOK'
    BY DEF TypeOK, Building
  <1>2. OneBuilderPerKey'
    BY NobodyIsNoThread DEF OneBuilderPerKey, Building, TypeOK
  <1>3. NoPartialChecker' /\ BuildInv'
    BY DEF NoPartialChecker, BuildInv, Building, TypeOK
  <1> QED BY <1>1, <1>2, <1>3

\* The ways out of the lock: a hit, the end of a build, a failure.
LEMMA ReleaseInv ==
  ASSUME IndInv, NEW t \in Threads,
         Hit(t) \/ Return(t) \/ Raise(t) \/ CompileFails(t)
  PROVE  IndInv'
PROOF
  <1> USE DEF IndInv, Goto, Unlock, Fail
  <1> USE DEF Hit, Return, Raise, CompileFails
  <1>1. /\ UNCHANGED <<key, binary, copy, jobs, crashes>>
        /\ pc' \in {[pc EXCEPT ![t] = "copying"], [pc EXCEPT ![t] = "failed"]}
        /\ lock' = [lock EXCEPT ![key[t]] = Nobody]
        /\ built' \in {built, [built EXCEPT ![t] = NoFile]}
        /\ leases' \in {leases, leases \ {t}}
    OBVIOUS
  <1>2. pc[t] \in Building
    BY DEF Building
  <1>3. pc'[t] = "copying" => binary[key[t]] = Good
    BY DEF NoPartialChecker, BuildInv, TypeOK
  <1>4. TypeOK'
    BY <1>1, Files DEF TypeOK, Building
  <1>5. OneBuilderPerKey'
    BY <1>1, <1>2, NobodyIsNoThread DEF OneBuilderPerKey, Building, TypeOK
  <1>6. NoPartialChecker'
    BY <1>1 DEF NoPartialChecker, TypeOK
  <1>7. BuildInv'
    BY <1>1, <1>3 DEF BuildInv, Building, TypeOK
  <1> QED BY <1>4, <1>5, <1>6, <1>7

\* The steps of a build that publish nothing.
LEMMA BuildStepInv ==
  ASSUME IndInv, NEW t \in Threads,
         Miss(t) \/ Compile(t) \/ Compiled(t) \/ Chmod(t)
  PROVE  IndInv'
PROOF
  <1> USE DEF IndInv, Goto
  <1> USE DEF Miss, Compile, Compiled, Chmod
  <1>1. UNCHANGED <<key, lock, binary, copy, jobs, crashes>>
    OBVIOUS
  <1>2. pc[t] \in Building /\ binary[key[t]] = NoFile
    BY DEF Building, BuildInv
  <1>3. /\ pc' \in {[pc EXCEPT ![t] = s] : s \in {"queued", "compiling", "checked", "executable"}}
        /\ leases' \in {leases, leases \cup {t}, leases \ {t}}
    OBVIOUS
  <1>4. built' \in [Threads -> File] /\ (Chmod(t) => built'[t] = Good)
    <2>1. CASE Miss(t) \/ Compile(t)
      BY <2>1, Files DEF TypeOK
    <2>2. CASE Compiled(t)
      BY <2>2 DEF TypeOK, File
    <2>3. CASE Chmod(t)
      <3>1. built[t] \in File /\ built[t].whole
        BY <2>3 DEF TypeOK, BuildInv
      <3>2. [whole |-> built[t].whole, mode755 |-> TRUE] = Good
        BY <3>1 DEF File, Good
      <3>3. built' = [built EXCEPT ![t] = Good]
        BY <2>3, <3>2
      <3> QED BY <2>3, <3>3, Files DEF TypeOK
    <2> QED BY <2>1, <2>2, <2>3
  <1>5. TypeOK'
    BY <1>1, <1>3, <1>4 DEF TypeOK, Building
  <1>6. OneBuilderPerKey'
    BY <1>1, <1>2, <1>3 DEF OneBuilderPerKey, Building, TypeOK
  <1>7. NoPartialChecker'
    BY <1>1, <1>3 DEF NoPartialChecker, TypeOK
  <1>8. BuildInv'
    <2>1. ASSUME NEW u \in Threads, pc'[u] = "checked" PROVE built'[u].whole
      BY <2>1 DEF BuildInv, TypeOK
    <2>2. ASSUME NEW u \in Threads, pc'[u] = "executable" PROVE built'[u] = Good
      BY <1>4, <2>2 DEF BuildInv, TypeOK
    <2>3. \A u \in Threads :
            pc'[u] \in Building \ {"locked", "published"} => binary[key[u]] = NoFile
      BY <1>2, <1>3 DEF BuildInv, TypeOK
    <2>4. \A u \in Threads : pc'[u] \in {"published", "copying"} => binary[key[u]] = Good
      BY <1>3 DEF BuildInv, TypeOK
    <2> QED BY <1>1, <2>1, <2>2, <2>3, <2>4 DEF BuildInv
  <1> QED BY <1>5, <1>6, <1>7, <1>8

\* The publication: no other thread is at work on the entry.
LEMMA PublishInv == ASSUME IndInv, NEW t \in Threads, Publish(t) PROVE IndInv'
PROOF
  <1> USE DEF IndInv, Publish, Goto
  <1>1. built[t] = Good /\ pc[t] \in Building
    BY DEF BuildInv, Building
  <1>2. TypeOK'
    BY <1>1, Files DEF TypeOK, Building
  <1>3. OneBuilderPerKey'
    BY DEF OneBuilderPerKey, Building, TypeOK
  <1>4. NoPartialChecker'
    BY <1>1 DEF NoPartialChecker, TypeOK
  <1>5. BuildInv'
    <2>1. ASSUME NEW u \in Threads, pc'[u] \in Building \ {"locked", "published"}
          PROVE  binary'[key[u]] = NoFile
      <3>1. u # t /\ pc[u] = pc'[u]
        BY <2>1 DEF TypeOK
      <3>2. key[u] # key[t]
        BY <1>1, <2>1, <3>1, Alone
      <3> QED BY <2>1, <3>1, <3>2 DEF BuildInv, TypeOK
    <2>2. ASSUME NEW u \in Threads, pc'[u] \in {"published", "copying"}
          PROVE  binary'[key[u]] = Good
      BY <1>1, <2>2 DEF BuildInv, TypeOK
    <2>3. \A u \in Threads : /\ pc'[u] = "checked" => built'[u].whole
                             /\ pc'[u] = "executable" => built'[u] = Good
      BY DEF BuildInv, TypeOK
    <2> QED BY <2>1, <2>2, <2>3 DEF BuildInv
  <1> QED BY <1>2, <1>3, <1>4, <1>5

\* After the lock: the copy and the runs of the job.
LEMMA UseInv ==
  ASSUME IndInv, NEW t \in Threads, Copy(t) \/ Test(t) \/ EndJob(t)
  PROVE  IndInv'
PROOF
  <1> USE DEF IndInv, Goto
  <1> USE DEF Copy, Test, EndJob
  <1>1. /\ UNCHANGED <<key, lock, built, binary, jobs, crashes>>
        /\ pc' \in {[pc EXCEPT ![t] = s] : s \in {"prepared", "testing", "failed", "idle"}}
        /\ pc[t] \notin Building
    BY DEF Building
  <1>2. TypeOK'
    <2>1. copy' \in [Threads -> File]
      BY Files DEF TypeOK
    <2>2. leases' \subseteq Threads
      BY DEF TypeOK
    <2> QED BY <1>1, <2>1, <2>2 DEF TypeOK
  <1>3. OneBuilderPerKey'
    BY <1>1, NobodyIsNoThread DEF OneBuilderPerKey, Building, TypeOK
  <1>4. NoPartialChecker'
    BY DEF NoPartialChecker, BuildInv, TypeOK
  <1>5. BuildInv'
    BY <1>1 DEF BuildInv, Building, TypeOK
  <1> QED BY <1>2, <1>3, <1>4, <1>5

\* A crash drops the locks of the threads it ends, and no file of the cache.
LEMMA CrashInv == ASSUME IndInv, NEW a \in Agents, Crash(a) PROVE IndInv'
PROOF
  <1> USE DEF IndInv, Crash
  <1>1. TypeOK'
    BY Files DEF TypeOK
  <1>2. OneBuilderPerKey'
    <2>1. ASSUME NEW t \in Threads, pc'[t] \in Building
          PROVE  lock'[key'[t]] = t
      BY <2>1 DEF OneBuilderPerKey, Building, TypeOK
    <2>2. ASSUME NEW k \in Keys, lock'[k] # Nobody
          PROVE  pc'[lock'[k]] \in Building /\ key'[lock'[k]] = k
      BY <2>2 DEF OneBuilderPerKey, TypeOK
    <2> QED BY <2>1, <2>2 DEF OneBuilderPerKey
  <1>3. NoPartialChecker'
    BY DEF NoPartialChecker, TypeOK
  <1>4. BuildInv'
    BY DEF BuildInv, Building, TypeOK
  <1> QED BY <1>1, <1>2, <1>3, <1>4

LEMMA NextIndInv == IndInv /\ [Next]_vars => IndInv'
PROOF
  <1> SUFFICES ASSUME IndInv, [Next]_vars PROVE IndInv'
    OBVIOUS
  <1>1. CASE UNCHANGED vars
    BY <1>1 DEF vars, IndInv, TypeOK, OneBuilderPerKey, NoPartialChecker, BuildInv
  <1>2. ASSUME NEW t \in Threads, Request(t) \/ Proceed(t) PROVE IndInv'
    BY <1>2, RequestInv, LockInv, ReleaseInv, BuildStepInv, PublishInv, UseInv DEF Proceed
  <1>3. ASSUME NEW a \in Agents, Crash(a) PROVE IndInv'
    BY <1>3, CrashInv
  <1> QED BY <1>1, <1>2, <1>3 DEF Next, Finished

LEMMA AlwaysIndInv == Spec => []IndInv
PROOF BY InitIndInv, NextIndInv, PTL DEF Spec

\* For any processes, threads and crashes the .compile.lock of an entry is held
\* by exactly the thread that builds it (_ensure_cached_checker_binary).
THEOREM BuildersExclude == Spec => []OneBuilderPerKey
PROOF
  <1>1. IndInv => OneBuilderPerKey
    BY DEF IndInv
  <1> QED BY AlwaysIndInv, <1>1, PTL

\* Only complete executables are in the cache and in the hands of jobs,
\* whatever compilation fails and whatever process dies at whatever step.
THEOREM CheckersAreComplete == Spec => []NoPartialChecker
PROOF
  <1>1. IndInv => NoPartialChecker
    BY DEF IndInv
  <1> QED BY AlwaysIndInv, <1>1, PTL

\* Who holds a CPU: the threads that run the compiler or their tests, no others.
LeasesInv == leases = {t \in Threads : pc[t] \in {"compiling", "testing"}}

\* A step of a thread takes or gives back its own lease.
LEMMA LeasesStep ==
  ASSUME TypeOK, LeasesInv, NEW t \in Threads, Request(t) \/ Proceed(t)
  PROVE  LeasesInv'
PROOF
  <1>1. pc \in [Threads -> Building \cup {"idle", "waiting", "copying", "prepared", "testing", "failed"}]
    BY DEF TypeOK
  <1> DEFINE Moves(here, holders) ==
               pc' = [pc EXCEPT ![t] = here] /\ leases' = holders
  <1>2. \/ pc[t] \in {"queued", "prepared"} /\ \E h \in {"compiling", "testing"} : Moves(h, leases \cup {t})
        \/ pc[t] = "compiling" /\ \E h \in {"checked", "failed"} : Moves(h, leases \ {t})
        \/ pc[t] \in {"testing", "failed"} /\ Moves("idle", leases \ {t})
        \/ /\ pc[t] \notin {"compiling", "testing"}
           /\ \E h \in (Building \ {"compiling"}) \cup {"waiting", "copying", "prepared", "failed"} :
                Moves(h, leases)
    <2>1. CASE Request(t) \/ Lock(t)
      BY <2>1 DEF Request, Lock, Goto, Building
    <2>2. CASE Hit(t) \/ Miss(t)
      BY <2>2 DEF Hit, Miss, Goto, Building
    <2>3. CASE Raise(t)
      BY <2>3, <1>1 DEF Raise, Fail, Goto, Building
    <2>4. CASE Compile(t) \/ Test(t)
      BY <2>4 DEF Compile, Test, Goto
    <2>5. CASE Compiled(t) \/ CompileFails(t)
      BY <2>5 DEF Compiled, CompileFails, Fail, Goto
    <2>6. CASE Chmod(t) \/ Publish(t) \/ Return(t)
      BY <2>6 DEF Chmod, Publish, Return, Goto, Building
    <2>7. CASE Copy(t)
      BY <2>7 DEF Copy, Goto, Building
    <2>8. CASE EndJob(t)
      BY <2>8 DEF EndJob, Goto
    <2> QED BY <2>1, <2>2, <2>3, <2>4, <2>5, <2>6, <2>7, <2>8 DEF Proceed
  <1>3. ASSUME NEW h, pc' = [pc EXCEPT ![t] = h]
        PROVE  pc'[t] = h /\ \A u \in Threads : u # t => pc'[u] = pc[u]
    BY <1>1, <1>3
  <1>4. CASE \E h \in {"compiling", "testing"} : Moves(h, leases \cup {t})
    BY <1>3, <1>4 DEF LeasesInv
  <1>5. CASE \E h \in {"checked", "failed", "idle"} : Moves(h, leases \ {t})
    BY <1>3, <1>5 DEF LeasesInv
  <1>6. CASE /\ pc[t] \notin {"compiling", "testing"}
             /\ \E h \in (Building \ {"compiling"}) \cup {"waiting", "copying", "prepared", "failed"} :
                  Moves(h, leases)
    BY <1>3, <1>6 DEF LeasesInv, Building
  <1> QED BY <1>2, <1>4, <1>5, <1>6

LEMMA AlwaysLeasesInv == Spec => []LeasesInv
PROOF
  <1>1. Init => LeasesInv
    BY DEF Init, LeasesInv
  <1>2. TypeOK /\ LeasesInv /\ [Next]_vars => LeasesInv'
    <2> SUFFICES ASSUME TypeOK, LeasesInv, [Next]_vars PROVE LeasesInv'
      OBVIOUS
    <2>1. CASE Finished \/ UNCHANGED vars
      BY <2>1 DEF Finished, vars, LeasesInv
    <2>2. ASSUME NEW a \in Agents, Crash(a) PROVE LeasesInv'
      BY <2>2 DEF Crash, LeasesInv
    <2> QED BY <2>1, <2>2, LeasesStep DEF Next
  <1>3. IndInv => TypeOK
    BY DEF IndInv
  <1> QED BY <1>1, <1>2, <1>3, AlwaysIndInv, PTL DEF Spec

\* No circle of threads waits for the locks of entries and for CPUs, with any number of
\* threads, processes, entries and CPUs: the holder of a lock waits at most for a CPU,
\* and the holder of a CPU for nothing (app/executor.py:660-674).
THEOREM SomebodyGoesOn == Spec => []NeverAllWait
PROOF
  <1>1. ASSUME IndInv, LeasesInv, NEW t \in Threads, Waits(t)
        PROVE  \E u \in Threads : (lock[key[t]] = u \/ u \in leases) /\ ~Waits(u)
    <2>1. ASSUME Cardinality(leases) >= CpuSlots
          PROVE  \E u \in Threads : (lock[key[t]] = u \/ u \in leases) /\ ~Waits(u)
      <3>1. leases # {}
        BY <2>1, FS_EmptySet, CheckerCacheAssumption
      <3>2. PICK u \in Threads : u \in leases /\ pc[u] \in {"compiling", "testing"}
        BY <1>1, <3>1 DEF LeasesInv
      <3> QED BY <3>2 DEF Waits
    <2>2. CASE pc[t] = "waiting" /\ lock[key[t]] # Nobody
      <3> DEFINE h == lock[key[t]]
      <3>1. h \in Threads /\ pc[h] \in Building
        BY <1>1, <2>2 DEF IndInv, TypeOK, OneBuilderPerKey
      <3>2. CASE Waits(h)
        BY <2>1, <3>1, <3>2 DEF Waits, Building
      <3>3. CASE ~Waits(h)
        BY <3>1, <3>3
      <3> QED BY <3>2, <3>3
    <2> QED BY <1>1, <2>1, <2>2 DEF Waits
  <1>2. IndInv /\ LeasesInv => NeverAllWait
    BY <1>1 DEF NeverAllWait
  <1> QED BY <1>2, AlwaysIndInv, AlwaysLeasesInv, PTL

\* The one step that changes an entry finds it empty.
LEMMA BinaryStep ==
  ASSUME IndInv, [Next]_vars
  PROVE  \/ UNCHANGED binary
         \/ \E t \in Threads : Publish(t)
PROOF
  <1>1. ASSUME NEW t \in Threads, Request(t) \/ Proceed(t), ~Publish(t)
        PROVE  UNCHANGED binary
    BY <1>1 DEF Request, Proceed, Lock, Hit, Miss, Raise, Compile, Compiled, CompileFails, Chmod,
                Return, Copy, Test, EndJob
  <1> QED BY <1>1 DEF Next, Crash, Finished, vars, Proceed

\* A checker once published is the checker of its entry for ever: the second
\* look at the entry under the lock is enough (_ensure_cached_checker_binary).
THEOREM EntriesAreStable == Spec => PublishedOnce
PROOF
  <1>1. IndInv /\ [Next]_vars => [\A k \in Keys : binary[k] # NoFile => binary'[k] = binary[k]]_vars
    <2> SUFFICES ASSUME IndInv, [Next]_vars, NEW k \in Keys, binary[k] # NoFile
                 PROVE  binary'[k] = binary[k]
      OBVIOUS
    <2>1. CASE \E t \in Threads : Publish(t)
      <3>1. PICK t \in Threads : Publish(t)
        BY <2>1
      <3>2. k # key[t]
        BY <3>1 DEF IndInv, BuildInv, Building, Publish
      <3> QED BY <3>1, <3>2 DEF Publish, IndInv, TypeOK
    <2> QED BY <2>1, BinaryStep
  <1> QED BY AlwaysIndInv, <1>1, PTL DEF Spec, PublishedOnce
-----------------------------------------------------------------------------
\* The refinement of CheckerStore.

LEMMA AnswerFacts ==
  /\ \A here \in {"prepared", "testing"} : AnswerOf(here, Good) = "good"
  /\ \A file : AnswerOf("failed", file) = "error"
  /\ \A here \in Building \cup {"idle", "waiting", "copying"} : \A file : AnswerOf(here, file) = "none"
PROOF BY DEF AnswerOf, Building

LEMMA RefinesInit == Init => Store!Init
PROOF
  <1> SUFFICES ASSUME Init PROVE Store!Init
    OBVIOUS
  <1>1. Available = {}
    BY Files DEF Init, Available
  <1>2. Wanted = [t \in Threads |-> NoKey]
    BY DEF Init, Wanted
  <1>3. Answers = [t \in Threads |-> "none"]
    <2>1. \A t \in Threads : AnswerOf(pc[t], copy[t]) = "none"
      BY AnswerFacts DEF Init
    <2> QED BY <2>1 DEF Answers
  <1> QED BY <1>1, <1>2, <1>3 DEF Store!Init

\* Steps that leave the cache alone and the answer of their thread what it was.
LEMMA StutterStep ==
  ASSUME TypeOK, NEW t \in Threads, NEW here,
         pc' = [pc EXCEPT ![t] = here],
         UNCHANGED <<key, binary>>,
         \/ {pc[t], here} \subseteq Building \cup {"waiting", "copying"} /\ UNCHANGED copy
         \/ {pc[t], here} \subseteq {"prepared", "testing"} /\ UNCHANGED copy
  PROVE  UNCHANGED Store!vars
PROOF
  <1>1. Available' = Available
    BY DEF Available
  <1>2. Wanted' = Wanted
    BY DEF Wanted, TypeOK, Building
  <1>3. UNCHANGED copy /\ AnswerOf(here, copy[t]) = AnswerOf(pc[t], copy[t])
    BY AnswerFacts DEF AnswerOf
  <1>4. Answers' = Answers
    BY <1>3 DEF Answers, TypeOK
  <1> QED BY <1>1, <1>2, <1>4 DEF Store!vars

LEMMA RefinesRequest ==
  ASSUME TypeOK, NEW t \in Threads, Request(t)
  PROVE  Store!Next
PROOF
  <1> USE DEF Request, Goto
  <1>1. PICK k \in Keys : key' = [key EXCEPT ![t] = k]
    OBVIOUS
  <1>2. Available' = Available
    BY DEF Available
  <1>3. Wanted[t] = NoKey /\ Wanted' = [Wanted EXCEPT ![t] = k]
    BY <1>1 DEF Wanted, TypeOK
  <1>4. Answers' = Answers
    <2>1. AnswerOf("idle", copy[t]) = AnswerOf("waiting", copy[t])
      BY AnswerFacts
    <2>2. \A u \in Threads : AnswerOf(pc'[u], copy'[u]) = AnswerOf(pc[u], copy[u])
      BY <2>1 DEF TypeOK
    <2> QED BY <2>2 DEF Answers
  <1>5. Store!Request(t, k)
    BY <1>2, <1>3, <1>4 DEF Store!Request
  <1> QED BY <1>5 DEF Store!Next

LEMMA RefinesPublish ==
  ASSUME IndInv, NEW t \in Threads, Publish(t)
  PROVE  Store!Next
PROOF
  <1> USE DEF Publish, Goto, IndInv
  <1>1. built[t] = Good /\ binary[key[t]] = NoFile /\ key[t] \in Keys
    BY DEF BuildInv, Building, TypeOK
  <1>2. Available' = Available \cup {key[t]} /\ key[t] \notin Available
    BY <1>1, Files DEF Available, TypeOK
  <1>3. Wanted' = Wanted /\ Wanted[t] = key[t]
    BY DEF Wanted, TypeOK
  <1>4. Answers' = Answers /\ Answers[t] = "none"
    BY AnswerFacts DEF Answers, TypeOK, Building
  <1>5. Store!Put(key[t])
    BY <1>2, <1>3, <1>4 DEF Store!Put
  <1> QED BY <1>1, <1>5 DEF Store!Next

LEMMA RefinesFailure ==
  ASSUME TypeOK, NEW t \in Threads,
         pc[t] \in Building \cup {"copying"},
         pc' = [pc EXCEPT ![t] = "failed"],
         UNCHANGED <<key, binary, copy>>
  PROVE  Store!Next
PROOF
  <1>1. Available' = Available
    BY DEF Available
  <1>2. Wanted' = Wanted /\ Wanted[t] # NoKey
    BY CheckerCacheAssumption DEF Wanted, TypeOK, Building
  <1>3. Answers[t] = "none" /\ Answers' = [Answers EXCEPT ![t] = "error"]
    BY AnswerFacts DEF Answers, TypeOK
  <1> QED BY <1>1, <1>2, <1>3 DEF Store!Next, Store!Refuse

LEMMA RefinesCopy ==
  ASSUME IndInv, NEW t \in Threads, Copy(t)
  PROVE  Store!Next
PROOF
  <1> USE DEF IndInv, Copy, Goto
  <1>1. CASE pc' = [pc EXCEPT ![t] = "failed"] /\ copy' = copy
    BY <1>1, RefinesFailure DEF Building
  <1>2. CASE pc' = [pc EXCEPT ![t] = "prepared"] /\ copy' = [copy EXCEPT ![t] = binary[key[t]]]
    <2>1. binary[key[t]] = Good /\ key[t] \in Keys
      BY DEF BuildInv, TypeOK
    <2>2. Available' = Available /\ key[t] \in Available
      BY <2>1 DEF Available
    <2>3. Wanted' = Wanted /\ Wanted[t] = key[t]
      BY <1>2 DEF Wanted, TypeOK
    <2>4. Answers[t] = "none" /\ Answers' = [Answers EXCEPT ![t] = "good"]
      BY <1>2, <2>1, AnswerFacts DEF Answers, TypeOK
    <2> QED BY <2>2, <2>3, <2>4 DEF Store!Next, Store!Serve
  <1> QED BY <1>1, <1>2

\* The end of a job, and that of a process, drop what their threads asked for.
LEMMA RefinesDrop ==
  ASSUME TypeOK, NEW R \in SUBSET Threads,
         pc' = [t \in Threads |-> IF t \in R THEN "idle" ELSE pc[t]],
         \A t \in Threads \ R : copy'[t] = copy[t],
         UNCHANGED <<key, binary>>
  PROVE  Store!Next
PROOF
  <1>1. Available' = Available
    BY DEF Available
  <1>2. Wanted' = [t \in Threads |-> IF t \in R THEN NoKey ELSE Wanted[t]]
    BY DEF Wanted
  <1>3. Answers' = [t \in Threads |-> IF t \in R THEN "none" ELSE Answers[t]]
    BY AnswerFacts DEF Answers
  <1> QED BY <1>1, <1>2, <1>3 DEF Store!Next, Store!Leave

LEMMA RefinesProceed ==
  ASSUME IndInv, NEW t \in Threads, Proceed(t)
  PROVE  Store!Next \/ UNCHANGED Store!vars
PROOF
  <1>0. TypeOK
    BY DEF IndInv
  <1>1. CASE Lock(t) \/ Hit(t) \/ Miss(t) \/ Compile(t) \/ Compiled(t) \/ Chmod(t) \/ Return(t) \/ Test(t)
    <2>1. \E here : /\ pc' = [pc EXCEPT ![t] = here]
                    /\ \/ {pc[t], here} \subseteq Building \cup {"waiting", "copying"}
                       \/ {pc[t], here} \subseteq {"prepared", "testing"}
      BY <1>1 DEF Lock, Hit, Miss, Compile, Compiled, Chmod, Return, Test, Goto, Building
    <2>2. UNCHANGED <<key, binary, copy>>
      BY <1>1 DEF Lock, Hit, Miss, Compile, Compiled, Chmod, Return, Test
    <2> QED BY <1>0, <2>1, <2>2, StutterStep
  <1>2. CASE Raise(t) \/ CompileFails(t)
    BY <1>0, <1>2, RefinesFailure DEF Raise, CompileFails, Fail, Goto, Building
  <1>3. CASE Publish(t)
    BY <1>3, RefinesPublish
  <1>4. CASE Copy(t)
    BY <1>4, RefinesCopy
  <1>5. CASE EndJob(t)
    <2>1. pc' = [u \in Threads |-> IF u \in {t} THEN "idle" ELSE pc[u]]
      BY <1>0, <1>5 DEF EndJob, Goto, TypeOK
    <2>2. \A u \in Threads \ {t} : copy'[u] = copy[u]
      BY <1>0, <1>5 DEF EndJob, TypeOK
    <2> QED BY <1>0, <1>5, <2>1, <2>2, RefinesDrop DEF EndJob
  <1> QED BY <1>1, <1>2, <1>3, <1>4, <1>5 DEF Proceed

LEMMA RefinesNext == IndInv /\ [Next]_vars => [Store!Next]_(Store!vars)
PROOF
  <1> SUFFICES ASSUME IndInv, [Next]_vars PROVE Store!Next \/ UNCHANGED Store!vars
    OBVIOUS
  <1>1. CASE UNCHANGED vars
    BY <1>1 DEF vars, Store!vars, Available, Wanted, Answers
  <1>2. ASSUME NEW t \in Threads, Request(t) PROVE Store!Next
    BY <1>2, RefinesRequest DEF IndInv
  <1>3. ASSUME NEW t \in Threads, Proceed(t) PROVE Store!Next \/ UNCHANGED Store!vars
    BY <1>3, RefinesProceed
  <1>4. ASSUME NEW a \in Agents, Crash(a) PROVE Store!Next
    <2> DEFINE dead == {t \in Threads : AgentOf(t) = a}
    <2>1. dead \in SUBSET Threads
      OBVIOUS
    <2>2. \A t \in Threads \ dead : copy'[t] = copy[t]
      BY <1>4 DEF Crash
    <2>3. pc' = [t \in Threads |-> IF t \in dead THEN "idle" ELSE pc[t]]
      BY <1>4 DEF Crash
    <2>4. UNCHANGED <<key, binary>>
      BY <1>4 DEF Crash
    <2> HIDE DEF dead
    <2> QED BY <2>1, <2>2, <2>3, <2>4, RefinesDrop DEF IndInv
  <1> QED BY <1>1, <1>2, <1>3, <1>4 DEF Next, Finished

\* The cache on disk, shared by threads and processes that fail and die at any
\* step, behaves like one store whose entries are filled once and for all.
THEOREM CacheIsAStore == Spec => ImplementsStore
PROOF
  <1>1. Init => Store!Init
    BY RefinesInit
  <1>2. IndInv /\ [Next]_vars => [Store!Next]_(Store!vars)
    BY RefinesNext
  <1> QED BY <1>1, <1>2, AlwaysIndInv, PTL DEF Spec, ImplementsStore, Store!Spec
=============================================================================
