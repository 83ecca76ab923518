--------------------------- MODULE ResourceLimits ---------------------------
(***************************************************************************)
(* The limits a command runs with: the precedence of the limits of a job   *)
(* and the allowances of its language (app/executor.py), the heap of a     *)
(* JVM (app/runtime_policy.py), and the two guards around the limit of     *)
(* time.  Times are in ms, memory is in MiB.                               *)
(***************************************************************************)
EXTENDS Integers

CONSTANTS DefaultTime,    \* settings.default_time_limit_seconds
          SandboxMemory   \* settings.sandbox_memory_mb

ASSUME ResourceLimitsAssumption ==
  /\ DefaultTime \in Nat \ {0}
  /\ SandboxMemory \in Nat \ 0..15     \* no less than the floor of a limit of a job

Unset == -1              \* a field that is null or missing
Field == Nat \cup {Unset}

Larger(a, b) == IF a >= b THEN a ELSE b
Smaller(a, b) == IF a <= b THEN a ELSE b

Languages == {"native", "java", "python", "pypy"}

\* What a job says of the limits of one of its testcases: of the problem, of the
\* problem for the language at hand, of the testcase.
Request == [ language : Languages,
             problemTime : Field, languageTime : Field, caseTime : Field,
             problemMemory : Field, languageMemory : Field, caseMemory : Field ]

-----------------------------------------------------------------------------
TimeFactor == [l \in Languages |-> CASE l = "native" -> 1 [] l = "java" -> 2 [] OTHER -> 3]
TimeBonus  == [l \in Languages |-> CASE l = "native" -> 0 [] l = "java" -> 1000 [] OTHER -> 2000]

MemoryFactor == [l \in Languages |-> IF l = "native" THEN 1 ELSE 2]
MemoryBonus  == [l \in Languages |-> CASE l = "native" -> 0 [] l = "java" -> 16
                                       [] l = "python" -> 32 [] OTHER -> 128]

ProblemTimeLimit(r) ==
  CASE r.languageTime # Unset -> Larger(r.languageTime, 100)
    [] r.languageTime = Unset /\ r.problemTime # Unset ->
         Larger(TimeFactor[r.language] * r.problemTime + TimeBonus[r.language], 100)
    [] OTHER -> DefaultTime

ProblemMemoryLimit(r) ==
  CASE r.languageMemory # Unset -> Larger(r.languageMemory, 16)
    [] r.languageMemory = Unset /\ r.problemMemory # Unset ->
         Larger(MemoryFactor[r.language] * r.problemMemory + MemoryBonus[r.language], 16)
    [] OTHER -> SandboxMemory

\* A field that is set, and not to 0, decides.
Decides(value) == value \notin {Unset, 0}

\* Mutant: any value that is not null decides.
TestcaseLimitsNotNull(r) ==
  [ time   |-> IF r.caseTime # Unset THEN Larger(r.caseTime, 100) ELSE ProblemTimeLimit(r),
    memory |-> IF r.caseMemory # Unset THEN Larger(r.caseMemory, 16)
               ELSE ProblemMemoryLimit(r) ]

TestcaseLimits(r) ==
  [ time   |-> IF Decides(r.caseTime) THEN Larger(r.caseTime, 100) ELSE ProblemTimeLimit(r),
    memory |-> IF Decides(r.caseMemory) THEN Larger(r.caseMemory, 16)
               ELSE ProblemMemoryLimit(r) ]

\* _run_checker: ten seconds, and the memory of a sandbox without a limit.
CheckerLimits == [time |-> 10000, memory |-> SandboxMemory]

\* The guard of isolate against programs that wait, and how long the agent waits
\* for isolate itself.
WallTime(time) == Larger(Larger(3 * time, time + 2000), 100)
Patience(time) == WallTime(time) + 5000

-----------------------------------------------------------------------------
HalfUp(m) == (m + 1) \div 2
QuarterUp(m) == (m + 3) \div 4

\* What is kept back for the code, the stacks and the metadata of a JVM.
Reserve(memory) == Smaller(HalfUp(memory), Larger(64, QuarterUp(memory)))

\* -Xmx and -Xms.
Heap(memory) == Larger(1, memory - Reserve(memory))
InitialHeap(memory) == Smaller(32, Heap(memory))
=============================================================================
