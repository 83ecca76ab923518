---------------------------- MODULE CheckerCache ----------------------------
(***************************************************************************)
(* The cache of compiled checkers that the jobs, threads and agent         *)
(* processes of a node share on disk: _prepare_checker and                 *)
(* _ensure_cached_checker_binary (app/executor.py), for checkers in C and  *)
(* C++.  A thread that prepared its checker goes on to test with it, under *)
(* a CPU lease; the compiler needs a lease as well, inside the file lock   *)
(* of the cache entry.                                                     *)
(***************************************************************************)
EXTENDS Integers, FiniteSets

CONSTANTS Agents,           \* agent processes that share the cache directory
          WorkersPerAgent,  \* threads of one process
          Keys,             \* cache keys: digests of the checker and its resources
          CpuSlots,         \* number of CPU leases there are
          Jobs,             \* bound: checkers one thread prepares
          MaxCrashes,       \* bound: crashes of agent processes
          NoKey

ASSUME CheckerCacheAssumption ==
  /\ WorkersPerAgent \in Nat
  /\ CpuSlots \in Nat \ {0}
  /\ Jobs \in Nat
  /\ MaxCrashes \in Nat
  /\ NoKey \notin Keys

VARIABLES
  pc,       \* thread -> where it is
  key,      \* thread -> key of the checker it prepares
  lock,     \* key -> thread that holds the flock on the entry's .compile.lock, or Nobody
  leases,   \* threads that hold a CPU lease
  built,    \* thread -> checker in its .build- directory
  binary,   \* key -> the checker file published in the entry
  copy,     \* thread -> checker it copied to the directory of its job
  jobs,     \* thread -> checkers it may still prepare
  crashes

vars == <<pc, key, lock, leases, built, binary, copy, jobs, crashes>>

-----------------------------------------------------------------------------
Threads == Agents \X (1..WorkersPerAgent)
AgentOf(t) == t[1]
Nobody == <<>>

\* A checker file: is it all there, and may every box execute it?
File == [whole : BOOLEAN, mode755 : BOOLEAN]
NoFile == [whole |-> FALSE, mode755 |-> FALSE]
Good == [whole |-> TRUE, mode755 |-> TRUE]
Partial == [whole |-> FALSE, mode755 |-> TRUE]

\* Inside `with ... .compile.lock`.
Building == {"locked", "queued", "compiling", "checked", "executable", "published"}

Init ==
  /\ pc = [t \in Threads |-> "idle"]
  /\ key \in [Threads -> Keys]
  /\ lock = [k \in Keys |-> Nobody]
  /\ leases = {}
  /\ built = [t \in Threads |-> NoFile]
  /\ binary = [k \in Keys |-> NoFile]
  /\ copy = [t \in Threads |-> NoFile]
  /\ jobs = [t \in Threads |-> Jobs]
  /\ crashes = 0

Goto(t, here) == pc' = [pc EXCEPT ![t] = here]
Unlock(t) == lock' = [lock EXCEPT ![key[t]] = Nobody]

\* Out of the lock with an ExecutionResult "system_error" or an exception; the
\* temporary directory goes.
Fail(t) ==
  /\ Goto(t, "failed")
  /\ Unlock(t)
  /\ built' = [built EXCEPT ![t] = NoFile]

-----------------------------------------------------------------------------
\* The sources are fetched and the entry's directory and lock file opened.  The
\* lookup before that, without the lock and by storage keys (app/executor.py:581-586),
\* is left out: nothing in this code writes an entry under such a key, so it misses.
Request(t) ==
  /\ pc[t] = "idle"
  /\ jobs[t] > 0
  /\ key' \in {[key EXCEPT ![t] = k] : k \in Keys}
  /\ jobs' = [jobs EXCEPT ![t] = @ - 1]
  /\ Goto(t, "waiting")
  /\ UNCHANGED <<lock, leases, built, binary, copy, crashes>>

\* Mutant: the lock is taken when it is held (each open file has its own).
LockShared(t) ==
  /\ pc[t] = "waiting"
  /\ lock' = [lock EXCEPT ![key[t]] = t]
  /\ Goto(t, "locked")
  /\ UNCHANGED <<key, leases, built, binary, copy, jobs, crashes>>

\* flock(LOCK_EX) waits.
Lock(t) ==
  /\ pc[t] = "waiting"
  /\ lock[key[t]] = Nobody
  /\ lock' = [lock EXCEPT ![key[t]] = t]
  /\ Goto(t, "locked")
  /\ UNCHANGED <<key, leases, built, binary, copy, jobs, crashes>>

\* The entry is there, published by an earlier holder of the lock.
Hit(t) ==
  /\ pc[t] = "locked"
  /\ binary[key[t]] # NoFile
  /\ Goto(t, "copying")
  /\ Unlock(t)
  /\ UNCHANGED <<key, leases, built, binary, copy, jobs, crashes>>

\* A .build- directory with the sources.
Miss(t) ==
  /\ pc[t] = "locked"
  /\ binary[key[t]] = NoFile
  /\ Goto(t, "queued")
  /\ UNCHANGED <<key, lock, leases, built, binary, copy, jobs, crashes>>

\* Any exception inside the lock (a full disk, say) leaves both `with` blocks.
Raise(t) ==
  /\ pc[t] \in Building \ {"compiling"}
  /\ Fail(t)
  /\ UNCHANGED <<key, leases, binary, copy, jobs, crashes>>

\* Mutant: the compiler writes into the entry itself.
CompileInPlace(t) ==
  /\ pc[t] = "queued"
  /\ Cardinality(leases) < CpuSlots
  /\ leases' = leases \cup {t}
  /\ binary' = [binary EXCEPT ![key[t]] = Partial]
  /\ Goto(t, "compiling")
  /\ UNCHANGED <<key, lock, built, copy, jobs, crashes>>

\* The compiler waits for its CPU lease, then the linker writes the file.
Compile(t) ==
  /\ pc[t] = "queued"
  /\ Cardinality(leases) < CpuSlots
  /\ leases' = leases \cup {t}
  /\ built' = [built EXCEPT ![t] = Partial]
  /\ Goto(t, "compiling")
  /\ UNCHANGED <<key, lock, binary, copy, jobs, crashes>>

\* Mutant: the lease of the compiler lasts until the job ends.
CompiledKeepsCpu(t) ==
  /\ pc[t] = "compiling"
  /\ \E m \in BOOLEAN : built' = [built EXCEPT ![t] = [whole |-> TRUE, mode755 |-> m]]
  /\ Goto(t, "checked")
  /\ UNCHANGED <<key, lock, leases, binary, copy, jobs, crashes>>

\* The compiler succeeds and left a regular file; its mode depends on the box.
Compiled(t) ==
  /\ pc[t] = "compiling"
  /\ leases' = leases \ {t}
  /\ \E m \in BOOLEAN : built' = [built EXCEPT ![t] = [whole |-> TRUE, mode755 |-> m]]
  /\ Goto(t, "checked")
  /\ UNCHANGED <<key, lock, binary, copy, jobs, crashes>>

\* Mutant: the early return keeps the lock.
CompileFailsLocked(t) ==
  /\ pc[t] = "compiling"
  /\ leases' = leases \ {t}
  /\ Goto(t, "failed")
  /\ UNCHANGED <<key, lock, built, binary, copy, jobs, crashes>>

\* Mutant: a compilation that fails is tried again.
CompileFailsRetries(t) ==
  /\ pc[t] = "compiling"
  /\ leases' = leases \ {t}
  /\ Goto(t, "queued")
  /\ UNCHANGED <<key, lock, built, binary, copy, jobs, crashes>>

\* A non-zero exit code, no regular file, or an exception.
CompileFails(t) ==
  /\ pc[t] = "compiling"
  /\ leases' = leases \ {t}
  /\ Fail(t)
  /\ UNCHANGED <<key, binary, copy, jobs, crashes>>

\* Mutant: the mode of the file is left as the box made it.
ChmodSkipped(t) ==
  /\ pc[t] = "checked"
  /\ Goto(t, "executable")
  /\ UNCHANGED <<key, lock, leases, built, binary, copy, jobs, crashes>>

Chmod(t) ==
  /\ pc[t] = "checked"
  /\ built' = [built EXCEPT ![t] = [whole |-> @.whole, mode755 |-> TRUE]]
  /\ Goto(t, "executable")
  /\ UNCHANGED <<key, lock, leases, binary, copy, jobs, crashes>>

\* os.replace
Publish(t) ==
  /\ pc[t] = "executable"
  /\ binary' = [binary EXCEPT ![key[t]] = built[t]]
  /\ built' = [built EXCEPT ![t] = NoFile]
  /\ Goto(t, "published")
  /\ UNCHANGED <<key, lock, leases, copy, jobs, crashes>>

\* The end of both `with` blocks with the path of the entry.
Return(t) ==
  /\ pc[t] = "published"
  /\ Goto(t, "copying")
  /\ Unlock(t)
  /\ UNCHANGED <<key, leases, built, binary, copy, jobs, crashes>>

\* shutil.copy2 into the directory of the job, outside the lock.
Copy(t) ==
  /\ pc[t] = "copying"
  /\ \/ copy' = [copy EXCEPT ![t] = binary[key[t]]] /\ Goto(t, "prepared")
     \/ copy' = copy /\ Goto(t, "failed")
  /\ UNCHANGED <<key, lock, leases, built, binary, jobs, crashes>>

-----------------------------------------------------------------------------
\* What comes after, as far as it matters here: runs under a CPU lease.

Test(t) ==
  /\ pc[t] = "prepared"
  /\ Cardinality(leases) < CpuSlots
  /\ leases' = leases \cup {t}
  /\ Goto(t, "testing")
  /\ UNCHANGED <<key, lock, built, binary, copy, jobs, crashes>>

\* The job ends and its directory goes, with the copy in it.
EndJob(t) ==
  /\ pc[t] \in {"testing", "failed"}
  /\ leases' = leases \ {t}
  /\ copy' = [copy EXCEPT ![t] = NoFile]
  /\ Goto(t, "idle")
  /\ UNCHANGED <<key, lock, built, binary, jobs, crashes>>

\* The process dies: its locks are dropped, what it was building is garbage in a
\* directory nobody looks into; the published files stay.
Crash(a) ==
  /\ crashes < MaxCrashes
  /\ crashes' = crashes + 1
  /\ LET dead == {t \in Threads : AgentOf(t) = a} IN
     /\ pc' = [t \in Threads |-> IF t \in dead THEN "idle" ELSE pc[t]]
     /\ lock' = [k \in Keys |-> IF lock[k] \in dead THEN Nobody ELSE lock[k]]
     /\ leases' = leases \ dead
     /\ built' = [t \in Threads |-> IF t \in dead THEN NoFile ELSE built[t]]
     /\ copy' = [t \in Threads |-> IF t \in dead THEN NoFile ELSE copy[t]]
  /\ UNCHANGED <<key, binary, jobs>>

Proceed(t) ==
  \/ Lock(t) \/ Hit(t) \/ Miss(t) \/ Raise(t)
  \/ Compile(t) \/ Compiled(t) \/ CompileFails(t) \/ Chmod(t) \/ Publish(t) \/ Return(t)
  \/ Copy(t) \/ Test(t) \/ EndJob(t)

Finished ==
  /\ \A t \in Threads : pc[t] = "idle" /\ jobs[t] = 0
  /\ UNCHANGED vars

Next ==
  \/ \E t \in Threads : Request(t) \/ Proceed(t)
  \/ \E a \in Agents : Crash(a)
  \/ Finished

Spec == Init /\ [][Next]_vars

\* Threads are scheduled and the compiler has a time limit; each competes for
\* the file lock and the CPU leases a bounded number of times.
FairSpec == Spec /\ \A t \in Threads : WF_vars(Proceed(t))

-----------------------------------------------------------------------------
TypeOK ==
  /\ pc \in [Threads -> Building \cup {"idle", "waiting", "copying", "prepared", "testing", "failed"}]
  /\ key \in [Threads -> Keys]
  /\ lock \in [Keys -> Threads \cup {Nobody}]
  /\ leases \subseteq Threads
  /\ built \in [Threads -> File]
  /\ binary \in [Keys -> File]
  /\ copy \in [Threads -> File]
  /\ jobs \in [Threads -> Nat]
  /\ crashes \in Nat

\* An entry is built by at most one thread of all processes, the one that holds
\* its lock; a lock is not kept by a thread that is done with it, or dead.
OneBuilderPerKey ==
  /\ \A t \in Threads : pc[t] \in Building => lock[key[t]] = t
  /\ \A k \in Keys : lock[k] # Nobody => pc[lock[k]] \in Building /\ key[lock[k]] = k

\* What is in the cache, and what a job tests with, is a complete executable,
\* whatever compilers failed and processes died on the way.
NoPartialChecker ==
  /\ \A k \in Keys : binary[k] \in {NoFile, Good}
  /\ \A t \in Threads : pc[t] \in {"prepared", "testing"} => copy[t] = Good

\* A published checker is never replaced or removed, so that no job reads it
\* while it changes.
PublishedOnce == [][\A k \in Keys : binary[k] # NoFile => binary'[k] = binary[k]]_vars

\* A thread that cannot go on by itself: its entry is locked, or all CPUs are leased.
Waits(t) ==
  \/ pc[t] = "waiting" /\ lock[key[t]] # Nobody
  \/ pc[t] \in {"queued", "prepared"} /\ Cardinality(leases) >= CpuSlots

\* A thread waits for somebody who can go on, though a thread keeps the lock of its
\* entry when it waits for a CPU (app/executor.py:660-674): the holder of that lock
\* or, when that one waits too, the holder of a CPU.
NeverAllWait ==
  \A t \in Threads :
    Waits(t) => \E u \in Threads : (lock[key[t]] = u \/ u \in leases) /\ ~Waits(u)

\* Every job that asks for a checker gets an answer (or dies with its process):
\* the file lock and the CPU leases do not wait for each other in a circle.
EveryRequestAnswered == \A t \in Threads : pc[t] = "waiting" ~> pc[t] \in {"prepared", "failed", "idle"}

\* The stages of a build.
BuildInv ==
  /\ \A t \in Threads : pc[t] = "checked" => built[t].whole
  /\ \A t \in Threads : pc[t] = "executable" => built[t] = Good
  /\ \A t \in Threads : pc[t] \in Building \ {"locked", "published"} => binary[key[t]] = NoFile
  /\ \A t \in Threads : pc[t] \in {"published", "copying"} => binary[key[t]] = Good

IndInv ==
  /\ TypeOK
  /\ OneBuilderPerKey
  /\ NoPartialChecker
  /\ BuildInv

-----------------------------------------------------------------------------
\* The cache implements the store of checkers.

Available == {k \in Keys : binary[k] = Good}

Wanted == [t \in Threads |-> IF pc[t] = "idle" THEN NoKey ELSE key[t]]

\* The answer a thread has in the hand when it is `here` with `file` as its copy.
AnswerOf(here, file) ==
  CASE here \in {"prepared", "testing"} -> IF file = Good THEN "good" ELSE "broken"
    [] here = "failed" -> "error"
    [] OTHER -> "none"

Answers == [t \in Threads |-> AnswerOf(pc[t], copy[t])]

Store == INSTANCE CheckerStore WITH
  Requesters <- Threads, store <- Available, want <- Wanted, answer <- Answers

ImplementsStore == Store!Spec
=============================================================================
