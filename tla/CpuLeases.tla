------------------------------ MODULE CpuLeases ------------------------------
(***************************************************************************)
(* The CPU leases of a judge node: CpuPool.lease (app/cpu_pool.py), and    *)
(* what its users do while they hold one: an isolate call of the judge     *)
(* (_run_isolate_command and _run_isolate_box in app/executor.py) or an    *)
(* Editor task (EditorExecutor.execute in app/editor_executor.py), with    *)
(* the crash of an agent process and the sweeps of its next start          *)
(* (cleanup_isolate_boxes and cleanup_editor_containers).                  *)
(*                                                                         *)
(* A slot stands for the pair of an isolate box and the CPU it is pinned   *)
(* to; box, lock file and CPU of a slot are numbered alike.                *)
(***************************************************************************)
EXTENDS Integers

CONSTANTS Agents,           \* agent processes that share /run/isolate
          WorkersPerAgent,  \* threads of one process that may ask for a lease
          Kinds,            \* kinds of call that are made: "isolate", "editor"
          AvailableCpus,    \* number of CPUs in sched_getaffinity
          BoxCount,         \* isolate_box_id_count
          Calls,            \* bound: calls one thread makes
          MaxCrashes,       \* bound: crashes of agent processes
          ContainersEscape  \* may docker rm fail, time out, or precede the container?

ASSUME CpuLeasesAssumption ==
  /\ Kinds \subseteq {"isolate", "editor"}
  /\ WorkersPerAgent \in Nat
  /\ AvailableCpus \in Nat \ {0}
  /\ BoxCount \in Nat \ {0}
  /\ Calls \in Nat
  /\ MaxCrashes \in Nat
  /\ ContainersEscape \in BOOLEAN

VARIABLES
  agent,     \* agent -> "down", "sweeping" (boxes), "removing" (containers) or "up"
  swept,     \* agent -> number of slots its sweep has dealt with
  pc,        \* thread -> where it is in its call
  kind,      \* thread -> kind of its call
  at,        \* thread -> slot it tries, or holds
  lock,      \* slot -> thread that holds the flock of the slot's file, or Nobody
  box,       \* slot -> thread that initialised the slot's isolate box, or Nobody
  attached,  \* thread -> does its Editor container run (on the CPU of its slot)?
  orphans,   \* <<agent, slot>> of the Editor containers that outlived their call
  calls,     \* thread -> calls it may still make
  crashes

thread_vars == <<pc, kind, at, attached, calls>>
start_vars  == <<agent, swept, crashes>>
vars == <<agent, swept, pc, kind, at, lock, box, attached, orphans, calls, crashes>>

-----------------------------------------------------------------------------
Threads == Agents \X (1..WorkersPerAgent)
AgentOf(t) == t[1]

\* CpuPool.__init__: one CPU is kept for the agent when there is another.
Spare == IF AvailableCpus > 1 THEN AvailableCpus - 1 ELSE AvailableCpus
Size  == IF Spare < BoxCount THEN Spare ELSE BoxCount
Slots == 0..(Size - 1)

Nobody == <<>>

\* Inside `with pool.lease()`.
Leased == {"leased", "ready", "running", "clean", "unlock"}

IsolateRuns(t) == kind[t] = "isolate" /\ pc[t] = "running"

Init ==
  /\ agent = [a \in Agents |-> "down"]
  /\ swept = [a \in Agents |-> 0]
  /\ pc = [t \in Threads |-> "idle"]
  /\ kind \in [Threads -> Kinds]
  /\ at = [t \in Threads |-> 0]
  /\ lock = [i \in Slots |-> Nobody]
  /\ box = [i \in Slots |-> Nobody]
  /\ attached = [t \in Threads |-> FALSE]
  /\ orphans = {}
  /\ calls = [t \in Threads |-> Calls]
  /\ crashes = 0

-----------------------------------------------------------------------------
\* The start of a process: the sweeps of main, which take no lease.

Start(a) ==
  /\ agent[a] = "down"
  /\ agent' = [agent EXCEPT ![a] = "sweeping"]
  /\ swept' = [swept EXCEPT ![a] = 0]
  /\ UNCHANGED <<thread_vars, lock, box, orphans, crashes>>

\* One `isolate --cleanup` of cleanup_isolate_boxes.  A failure is ignored, and
\* isolate itself refuses a box in which a program runs.
SweepBox(a) ==
  /\ agent[a] = "sweeping"
  /\ swept[a] < Size
  /\ \/ /\ \A t \in Threads : ~(IsolateRuns(t) /\ at[t] = swept[a])
        /\ box' = [box EXCEPT ![swept[a]] = Nobody]
     \/ box' = box
  /\ swept' = [swept EXCEPT ![a] = @ + 1]
  /\ UNCHANGED <<thread_vars, agent, lock, orphans, crashes>>

EndSweep(a) ==
  /\ agent[a] = "sweeping"
  /\ swept[a] = Size
  /\ agent' = [agent EXCEPT ![a] = "removing"]
  /\ UNCHANGED <<thread_vars, swept, lock, box, orphans, crashes>>

\* Mutant: the containers of the previous process are left alone.
RemoveOrphansSkipped(a) ==
  /\ agent[a] = "removing"
  /\ agent' = [agent EXCEPT ![a] = "up"]
  /\ UNCHANGED <<thread_vars, swept, lock, box, orphans, crashes>>

\* cleanup_editor_containers; its errors are ignored as well.
RemoveOrphans(a) ==
  /\ agent[a] = "removing"
  /\ LET mine == {o \in orphans : o[1] = a} IN
     \E left \in IF ContainersEscape THEN SUBSET mine ELSE {{}} :
       orphans' = (orphans \ mine) \cup left
  /\ agent' = [agent EXCEPT ![a] = "up"]
  /\ UNCHANGED <<thread_vars, swept, lock, box, crashes>>

-----------------------------------------------------------------------------
\* CpuPool.lease

Ask(t) ==
  /\ agent[AgentOf(t)] = "up"
  /\ pc[t] = "idle"
  /\ calls[t] > 0
  /\ pc' = [pc EXCEPT ![t] = "scan"]
  /\ at' = [at EXCEPT ![t] = 0]
  /\ kind' \in {[kind EXCEPT ![t] = k] : k \in Kinds}
  /\ calls' = [calls EXCEPT ![t] = @ - 1]
  /\ UNCHANGED <<start_vars, lock, box, attached, orphans>>

\* Mutant: flock in shared mode.
LockShared(t) ==
  /\ pc[t] = "scan"
  /\ lock' = [lock EXCEPT ![at[t]] = t]
  /\ pc' = [pc EXCEPT ![t] = "leased"]
  /\ UNCHANGED <<start_vars, kind, at, attached, calls, box, orphans>>

\* flock(LOCK_EX | LOCK_NB) on the file of the slot succeeds.
Lock(t) ==
  /\ pc[t] = "scan"
  /\ lock[at[t]] = Nobody
  /\ lock' = [lock EXCEPT ![at[t]] = t]
  /\ pc' = [pc EXCEPT ![t] = "leased"]
  /\ UNCHANGED <<start_vars, kind, at, attached, calls, box, orphans>>

\* BlockingIOError: the next slot, or 20 ms of sleep and all over again.
Skip(t) ==
  /\ pc[t] = "scan"
  /\ lock[at[t]] # Nobody
  /\ at' = [at EXCEPT ![t] = (@ + 1) % Size]
  /\ UNCHANGED <<start_vars, pc, kind, attached, calls, lock, box, orphans>>

\* Mutant: no `finally` around the yield, a failed call keeps its lock.
UnlockMissed(t) ==
  /\ pc[t] = "unlock"
  /\ pc' = [pc EXCEPT ![t] = "idle"]
  /\ UNCHANGED <<start_vars, lock, kind, at, attached, calls, box, orphans>>

\* The `finally` of the lease.
Unlock(t) ==
  /\ pc[t] = "unlock"
  /\ lock' = [lock EXCEPT ![at[t]] = Nobody]
  /\ pc' = [pc EXCEPT ![t] = "idle"]
  /\ UNCHANGED <<start_vars, kind, at, attached, calls, box, orphans>>

-----------------------------------------------------------------------------
\* An isolate call under its lease: _run_isolate_box

\* isolate --init, which may meet a box that was left over.
InitBox(t) ==
  /\ pc[t] = "leased" /\ kind[t] = "isolate"
  /\ box' = [box EXCEPT ![at[t]] = t]
  /\ pc' = [pc EXCEPT ![t] = "ready"]
  /\ UNCHANGED <<start_vars, kind, at, attached, calls, lock, orphans>>

\* --init fails or is not found: cleanup all the same.
InitBoxFails(t) ==
  /\ pc[t] = "leased" /\ kind[t] = "isolate"
  /\ pc' = [pc EXCEPT ![t] = "clean"]
  /\ UNCHANGED <<start_vars, kind, at, attached, calls, lock, box, orphans>>

\* An exception before the `try` (a directory or a temporary file of the call,
\* the archive of an Editor task): nothing to clean.
RaiseEarly(t) ==
  /\ pc[t] = "leased"
  /\ pc' = [pc EXCEPT ![t] = "unlock"]
  /\ UNCHANGED <<start_vars, kind, at, attached, calls, lock, box, orphans>>

RunBox(t) ==
  /\ pc[t] = "ready"
  /\ pc' = [pc EXCEPT ![t] = IF box[at[t]] = t THEN "running" ELSE "clean"]
  /\ UNCHANGED <<start_vars, kind, at, attached, calls, lock, box, orphans>>

\* Mutant: the lock is given back before the box is cleaned.
EndRunUnlocks(t) ==
  /\ IsolateRuns(t)
  /\ pc' = [pc EXCEPT ![t] = "clean"]
  /\ lock' = [lock EXCEPT ![at[t]] = Nobody]
  /\ UNCHANGED <<start_vars, kind, at, attached, calls, box, orphans>>

EndRun(t) ==
  /\ IsolateRuns(t)
  /\ pc' = [pc EXCEPT ![t] = "clean"]
  /\ UNCHANGED <<start_vars, kind, at, attached, calls, lock, box, orphans>>

\* isolate --cleanup in the `finally`; its failure is ignored.
CleanBox(t) ==
  /\ pc[t] = "clean" /\ kind[t] = "isolate"
  /\ box' \in {box, [box EXCEPT ![at[t]] = Nobody]}
  /\ pc' = [pc EXCEPT ![t] = "unlock"]
  /\ UNCHANGED <<start_vars, kind, at, attached, calls, lock, orphans>>

-----------------------------------------------------------------------------
\* An Editor task under its lease: EditorExecutor._execute

StartContainer(t) ==
  /\ pc[t] = "leased" /\ kind[t] = "editor"
  /\ pc' = [pc EXCEPT ![t] = "running"]
  /\ attached' = [attached EXCEPT ![t] = TRUE]
  /\ UNCHANGED <<start_vars, kind, at, calls, lock, box, orphans>>

\* The container ends by itself; its thread finds out later.
ContainerEnds(t) ==
  /\ attached[t]
  /\ attached' = [attached EXCEPT ![t] = FALSE]
  /\ UNCHANGED <<start_vars, pc, kind, at, calls, lock, box, orphans>>

\* It ended, or the task is cancelled, past its deadline or over its output limit.
LeaveContainer(t) ==
  /\ pc[t] = "running" /\ kind[t] = "editor"
  /\ pc' = [pc EXCEPT ![t] = "clean"]
  /\ UNCHANGED <<start_vars, kind, at, attached, calls, lock, box, orphans>>

\* docker rm -fv in the `finally`: its return code is ignored, a timeout of the
\* command leaves the `finally` by an exception, and a task that is cancelled at
\* once removes a container the daemon has yet to create (see EditorTask).
\* Either way the lease ends.
RemoveContainer(t) ==
  /\ pc[t] = "clean" /\ kind[t] = "editor"
  /\ \/ orphans' = orphans
     \/ /\ ContainersEscape /\ attached[t]
        /\ orphans' = orphans \cup {<<AgentOf(t), at[t]>>}
  /\ attached' = [attached EXCEPT ![t] = FALSE]
  /\ pc' = [pc EXCEPT ![t] = "unlock"]
  /\ UNCHANGED <<start_vars, kind, at, calls, lock, box>>

\* The supervisor in the container enforces the wall time of the task.
OrphanEnds(o) ==
  /\ orphans' = orphans \ {o}
  /\ UNCHANGED <<start_vars, thread_vars, lock, box>>

-----------------------------------------------------------------------------
\* The process dies: the kernel drops its flocks, its isolate runs die with the
\* PID namespace of the agent container; boxes and Editor containers stay.
Crash(a) ==
  /\ agent[a] # "down"
  /\ crashes < MaxCrashes
  /\ crashes' = crashes + 1
  /\ agent' = [agent EXCEPT ![a] = "down"]
  /\ pc' = [t \in Threads |-> IF AgentOf(t) = a THEN "idle" ELSE pc[t]]
  /\ lock' = [i \in Slots |-> IF lock[i] # Nobody /\ AgentOf(lock[i]) = a THEN Nobody ELSE lock[i]]
  /\ orphans' = orphans \cup {<<a, at[t]>> : t \in {u \in Threads : AgentOf(u) = a /\ attached[u]}}
  /\ attached' = [t \in Threads |-> attached[t] /\ AgentOf(t) # a]
  /\ UNCHANGED <<swept, kind, at, box, calls>>

StartUp(a) == Start(a) \/ SweepBox(a) \/ EndSweep(a) \/ RemoveOrphans(a)

\* What a thread does in a call, its container apart.
Proceed(t) ==
  \/ Lock(t) \/ Skip(t) \/ Unlock(t) \/ RaiseEarly(t)
  \/ InitBox(t) \/ InitBoxFails(t) \/ RunBox(t) \/ EndRun(t) \/ CleanBox(t)
  \/ StartContainer(t) \/ LeaveContainer(t) \/ RemoveContainer(t)

\* Everyone has done all the calls of this instance.
Finished ==
  /\ \A a \in Agents : agent[a] = "up"
  /\ \A t \in Threads : pc[t] = "idle" /\ calls[t] = 0
  /\ UNCHANGED vars

Next ==
  \/ \E a \in Agents : StartUp(a) \/ Crash(a)
  \/ \E t \in Threads : Ask(t) \/ Proceed(t) \/ ContainerEnds(t)
  \/ \E o \in orphans : OrphanEnds(o)
  \/ Finished

Spec == Init /\ [][Next]_vars

\* Threads are scheduled; every command of a call has a timeout; the container
\* is restarted (restart: unless-stopped in deploy/compose.yaml).
FairSpec ==
  /\ Spec
  /\ \A t \in Threads : WF_vars(Proceed(t))
  /\ \A a \in Agents : WF_vars(StartUp(a))

-----------------------------------------------------------------------------
TypeOK ==
  /\ agent \in [Agents -> {"down", "sweeping", "removing", "up"}]
  /\ swept \in [Agents -> 0..Size]
  /\ pc \in [Threads -> {"idle", "scan"} \cup Leased]
  /\ kind \in [Threads -> Kinds]
  /\ at \in [Threads -> Slots]
  /\ lock \in [Slots -> Threads \cup {Nobody}]
  /\ box \in [Slots -> Threads \cup {Nobody}]
  /\ attached \in [Threads -> BOOLEAN]
  /\ orphans \subseteq Agents \X Slots
  /\ calls \in [Threads -> Nat]
  /\ crashes \in Nat

\* The flock of a slot's file is held by the one thread that is inside the lease
\* of that slot, whatever processes the threads are of and however they end:
\* no two leases of a slot, and no lease that nobody gives back.
LeaseExcludes ==
  /\ \A t \in Threads : pc[t] \in Leased => lock[at[t]] = t
  /\ \A i \in Slots : lock[i] # Nobody => pc[lock[i]] \in Leased /\ at[lock[i]] = i

\* What runs on the CPU of a slot.
OnCpu(t, i) == at[t] = i /\ (attached[t] \/ IsolateRuns(t))

\* At most one call executes on a CPU of the pool, programs of earlier calls
\* included: neither a container that outlived its call nor a call of another
\* thread is on the CPU of a call that is being measured.
OneCallPerCpu ==
  \A i \in Slots :
    /\ \A t, u \in Threads : OnCpu(t, i) /\ OnCpu(u, i) => t = u
    /\ \A t \in Threads, a \in Agents : ~(OnCpu(t, i) /\ <<a, i>> \in orphans)

\* From isolate --init to isolate --cleanup the box of a call is the one this
\* call initialised: nobody else initialised it again or cleaned it.
BoxBelongsToCall ==
  \A t \in Threads :
    kind[t] = "isolate" /\ pc[t] \in {"ready", "running"} => box[at[t]] = t

\* A call that asks for a lease gets through, or dies with its process.
EveryCallReturns == \A t \in Threads : pc[t] = "scan" ~> pc[t] = "idle"

-----------------------------------------------------------------------------
\* The inductive invariant.

\* Only a process that is up has threads inside calls.
WorkersOfLiveAgents == \A t \in Threads : agent[AgentOf(t)] # "up" => pc[t] = "idle"

\* A container belongs to a task of its thread.
ContainersAttended ==
  \A t \in Threads : attached[t] => kind[t] = "editor" /\ pc[t] \in {"running", "clean"}

\* If docker rm removes what it should, orphans are of processes that have not started again.
OrphansOfTheDead == ~ContainersEscape => \A o \in orphans : agent[o[1]] # "up"

\* There is one agent process, as on a node deployed with deploy/compose.yaml.
OneAgent == \A a, b \in Agents : a = b

IndInv ==
  /\ TypeOK
  /\ LeaseExcludes
  /\ WorkersOfLiveAgents
  /\ ContainersAttended
  /\ OrphansOfTheDead
  /\ OneAgent => BoxBelongsToCall
=============================================================================
