-------------------------- MODULE IsolateRun_proofs --------------------------
(* Proofs for ResourceLimits and IsolateRun, for any codes, signals, limits  *)
(* and needs of programs.                                                    *)
EXTENDS IsolateRun, TLAPS

(* ResourceLimits.                                                           *)

\* When the memory of a JVM's box grows by 1 MiB its heap grows by 1 MiB or not at
\* all: what is kept back never shrinks (deploy/README.md:158, jvm_heap_mb).
THEOREM HeapGrowsSlowly ==
  \A m \in Nat : Heap(m + 1) \in {Heap(m), Heap(m) + 1}
PROOF
  <1> SUFFICES ASSUME NEW m \in Nat PROVE Heap(m + 1) \in {Heap(m), Heap(m) + 1}
    OBVIOUS
  <1>1. HalfUp(m) \in Int /\ HalfUp(m + 1) \in {HalfUp(m), HalfUp(m) + 1}
    BY DEF HalfUp
  <1>2. QuarterUp(m) \in Int /\ QuarterUp(m + 1) \in {QuarterUp(m), QuarterUp(m) + 1}
    BY DEF QuarterUp
  <1>3. Reserve(m) \in Int /\ Reserve(m + 1) \in {Reserve(m), Reserve(m) + 1}
    BY <1>1, <1>2 DEF Reserve, Larger, Smaller
  <1> QED BY <1>3 DEF Heap, Larger

\* The heap of a JVM is between half and three quarters of the memory of its box.
LEMMA HeapFits ==
  ASSUME NEW m \in Nat, m >= 16
  PROVE  m \div 2 <= Heap(m) /\ 4 * Heap(m) <= 3 * m /\ InitialHeap(m) <= Heap(m)
PROOF
  <1>1. HalfUp(m) \in Int /\ HalfUp(m) + m \div 2 = m /\ m <= 2 * HalfUp(m) /\ m \div 2 >= 8
    BY DEF HalfUp
  <1>2. QuarterUp(m) \in Int /\ 4 * QuarterUp(m) >= m
    BY DEF QuarterUp
  <1>3. Reserve(m) \in Int /\ Reserve(m) <= HalfUp(m) /\ 4 * Reserve(m) >= m
    BY <1>1, <1>2 DEF Reserve, Larger, Smaller
  <1>4. Heap(m) = m - Reserve(m)
    BY <1>1, <1>3 DEF Heap, Larger
  <1> QED BY <1>1, <1>3, <1>4 DEF InitialHeap, Smaller

LEMMA FactorsTyped ==
  ASSUME NEW l \in Languages, NEW v \in Nat
  PROVE  /\ TimeFactor[l] * v + TimeBonus[l] \in Nat
         /\ TimeFactor[l] * v + TimeBonus[l] >= v
         /\ MemoryFactor[l] * v + MemoryBonus[l] \in Nat
         /\ MemoryFactor[l] * v + MemoryBonus[l] >= v
PROOF
  <1>1. CASE l = "native"
    BY <1>1 DEF TimeFactor, TimeBonus, MemoryFactor, MemoryBonus, Languages
  <1>2. CASE l = "java"
    BY <1>2 DEF TimeFactor, TimeBonus, MemoryFactor, MemoryBonus, Languages
  <1>3. CASE l = "python"
    BY <1>3 DEF TimeFactor, TimeBonus, MemoryFactor, MemoryBonus, Languages
  <1>4. CASE l = "pypy"
    BY <1>4 DEF TimeFactor, TimeBonus, MemoryFactor, MemoryBonus, Languages
  <1> QED BY <1>1, <1>2, <1>3, <1>4 DEF Languages

LEMMA LimitsTyped ==
  ASSUME NEW r \in Request
  PROVE  /\ TestcaseLimits(r).time \in Nat /\ TestcaseLimits(r).time > 0
         /\ TestcaseLimits(r).memory \in Nat /\ TestcaseLimits(r).memory >= 16
PROOF
  <1>1. /\ r.language \in Languages
        /\ r.problemTime \in Nat \/ r.problemTime = Unset
        /\ r.languageTime \in Nat \/ r.languageTime = Unset
        /\ r.caseTime \in Nat \/ r.caseTime = Unset
        /\ r.problemMemory \in Nat \/ r.problemMemory = Unset
        /\ r.languageMemory \in Nat \/ r.languageMemory = Unset
        /\ r.caseMemory \in Nat \/ r.caseMemory = Unset
    BY DEF Request, Field
  <1>2. ProblemTimeLimit(r) \in Nat /\ ProblemTimeLimit(r) > 0
    <2>1. CASE r.languageTime # Unset
      BY <1>1, <2>1 DEF ProblemTimeLimit, Larger
    <2>2. CASE r.languageTime = Unset /\ r.problemTime # Unset
      <3> DEFINE t == TimeFactor[r.language] * r.problemTime + TimeBonus[r.language]
      <3>1. t \in Nat
        BY <1>1, <2>2, FactorsTyped
      <3> HIDE DEF t
      <3>2. ProblemTimeLimit(r) = Larger(t, 100)
        BY <2>2 DEF ProblemTimeLimit, t
      <3> QED BY <3>1, <3>2 DEF Larger
    <2>3. CASE r.languageTime = Unset /\ r.problemTime = Unset
      BY <2>3, ResourceLimitsAssumption DEF ProblemTimeLimit
    <2> QED BY <2>1, <2>2, <2>3
  <1>3. ProblemMemoryLimit(r) \in Nat /\ ProblemMemoryLimit(r) >= 16
    <2>1. CASE r.languageMemory # Unset
      BY <1>1, <2>1 DEF ProblemMemoryLimit, Larger
    <2>2. CASE r.languageMemory = Unset /\ r.problemMemory # Unset
      <3> DEFINE t == MemoryFactor[r.language] * r.problemMemory + MemoryBonus[r.language]
      <3>1. t \in Nat
        BY <1>1, <2>2, FactorsTyped
      <3> HIDE DEF t
      <3>2. ProblemMemoryLimit(r) = Larger(t, 16)
        BY <2>2 DEF ProblemMemoryLimit, t
      <3> QED BY <3>1, <3>2 DEF Larger
    <2>3. CASE r.languageMemory = Unset /\ r.problemMemory = Unset
      BY <2>3, ResourceLimitsAssumption DEF ProblemMemoryLimit
    <2> QED BY <2>1, <2>2, <2>3
  <1> QED BY <1>1, <1>2, <1>3 DEF TestcaseLimits, Decides, Larger, Unset

\* A job that says no more than the limits of its problem gets at least those.
LEMMA AllowancesAdd ==
  ASSUME NEW r \in Request
  PROVE  /\ r.problemTime # Unset /\ r.languageTime = Unset /\ ~Decides(r.caseTime) =>
              TestcaseLimits(r).time >= r.problemTime
         /\ r.problemMemory # Unset /\ r.languageMemory = Unset /\ ~Decides(r.caseMemory) =>
              TestcaseLimits(r).memory >= r.problemMemory
PROOF
  <1>1. /\ r.language \in Languages
        /\ r.problemTime \in Nat \/ r.problemTime = Unset
        /\ r.problemMemory \in Nat \/ r.problemMemory = Unset
    BY DEF Request, Field
  <1>2. ASSUME r.problemTime # Unset, r.languageTime = Unset, ~Decides(r.caseTime)
        PROVE  TestcaseLimits(r).time >= r.problemTime
    <2> DEFINE t == TimeFactor[r.language] * r.problemTime + TimeBonus[r.language]
    <2>1. t \in Nat /\ t >= r.problemTime /\ r.problemTime \in Nat
      BY <1>1, <1>2, FactorsTyped
    <2> HIDE DEF t
    <2>2. TestcaseLimits(r).time = Larger(t, 100)
      BY <1>2 DEF TestcaseLimits, ProblemTimeLimit, t
    <2> QED BY <2>1, <2>2 DEF Larger
  <1>3. ASSUME r.problemMemory # Unset, r.languageMemory = Unset, ~Decides(r.caseMemory)
        PROVE  TestcaseLimits(r).memory >= r.problemMemory
    <2> DEFINE t == MemoryFactor[r.language] * r.problemMemory + MemoryBonus[r.language]
    <2>1. t \in Nat /\ t >= r.problemMemory /\ r.problemMemory \in Nat
      BY <1>1, <1>3, FactorsTyped
    <2> HIDE DEF t
    <2>2. TestcaseLimits(r).memory = Larger(t, 16)
      BY <1>3 DEF TestcaseLimits, ProblemMemoryLimit, t
    <2> QED BY <2>1, <2>2 DEF Larger
  <1> QED BY <1>2, <1>3
-----------------------------------------------------------------------------
(* The return codes.                                                         *)

LocalFaults == Faults({"missing", "raised"}, {0})
Seen == BoxEndings \cup RunFaults \cup InitFaults \cup LocalFaults

\* How a command ends without a sandbox.
Unboxed(e) ==
  /\ e.cause \in {"exit", "signal", "time_limit", "missing", "raised"}
  /\ ~e.oom
  /\ e.cause = "signal" => e.code # 0

EndingTyped(e) ==
  /\ e.cause \in Causes \ {"not_run"} /\ e.code \in 0..255
  /\ e.oom \in BOOLEAN /\ e.flood \in BOOLEAN /\ e.memoryText \in BOOLEAN
  /\ \/ e.cause = "exit" \/ e.cause = "signal" \/ e.cause = "time_limit"
     \/ e.cause = "no_meta" /\ e.code = 0
     \/ ~e.oom /\ ~e.flood /\ ~e.memoryText
  /\ e.cause = "signal" => e.code \in 0..64
  /\ e.cause = "init_failed" => e.code \in 1..255
  /\ e = Ending(e.cause, e.code, e.oom, e.flood, e.memoryText)

LEMMA EndingIsTyped ==
  ASSUME NEW c \in Causes \ {"not_run"}, NEW n \in 0..255,
         NEW o \in BOOLEAN, NEW f \in BOOLEAN, NEW m \in BOOLEAN,
         c = "signal" => n \in 0..64, c = "init_failed" => n \in 1..255,
         c \in {"exit", "signal", "time_limit"} \/ (c = "no_meta" /\ n = 0) \/ (~o /\ ~f /\ ~m)
  PROVE  EndingTyped(Ending(c, n, o, f, m))
PROOF
  BY DEF EndingTyped, Ending

LEMMA EndedTyped ==
  ASSUME NEW c \in Causes \ {"not_run"}, NEW N \in SUBSET (0..255),
         c = "signal" => N \subseteq 0..64,
         c \in {"exit", "signal", "time_limit"} \/ (c = "no_meta" /\ N = {0})
  PROVE  \A e \in Ended({c}, N) : EndingTyped(e)
PROOF
  <1> SUFFICES ASSUME NEW e \in Ended({c}, N) PROVE EndingTyped(e)
    OBVIOUS
  <1>1. PICK n \in N, o \in BOOLEAN, f \in BOOLEAN, m \in BOOLEAN : e = Ending(c, n, o, f, m)
    BY DEF Ended
  <1>2. n \in 0..255 /\ (c = "signal" => n \in 0..64) /\ (c = "no_meta" => n = 0)
        /\ c # "init_failed" /\ o \in BOOLEAN /\ f \in BOOLEAN /\ m \in BOOLEAN
    BY <1>1
  <1>3. EndingTyped(Ending(c, n, o, f, m))
    <2>1. \/ c \in {"exit", "signal", "time_limit"}
          \/ c = "no_meta" /\ n = 0
      OBVIOUS
    <2> QED BY <1>2, <2>1 DEF EndingTyped, Ending
  <1> QED BY <1>1, <1>3

LEMMA FaultsTyped ==
  ASSUME NEW c \in Causes \ {"not_run"}, NEW N \in SUBSET (0..255),
         c = "signal" => N \subseteq 0..64, c = "init_failed" => N \subseteq 1..255
  PROVE  \A e \in Faults({c}, N) : EndingTyped(e)
PROOF
  <1> SUFFICES ASSUME NEW e \in Faults({c}, N) PROVE EndingTyped(e)
    OBVIOUS
  <1>1. PICK k \in {c}, n \in N : e = Ending(k, n, FALSE, FALSE, FALSE)
    BY DEF Faults, Ending
  <1>2. k = c /\ n \in 0..255 /\ (c = "signal" => n \in 0..64) /\ (c = "init_failed" => n \in 1..255)
    OBVIOUS
  <1> QED BY <1>1, <1>2, EndingIsTyped

LEMMA SeenTyped == \A e \in Seen : EndingTyped(e)
PROOF
  <1>1. /\ ExitCodes \subseteq 0..255 /\ Signals \subseteq 0..255 /\ Signals \subseteq 0..64
        /\ InitCodes \subseteq 0..255 /\ InitCodes \subseteq 1..255
        /\ {0} \subseteq 0..255 /\ {0} \subseteq 0..64
    BY IsolateRunAssumption
  <1>2. \A e \in BoxEndings : EndingTyped(e)
    <2>1. \A e \in Ended({"exit"}, ExitCodes) : EndingTyped(e)
      BY <1>1, EndedTyped DEF Causes
    <2>2. \A e \in Ended({"signal"}, Signals) \cup Ended({"signal"}, {0}) : EndingTyped(e)
      BY <1>1, EndedTyped DEF Causes
    <2>3. \A e \in Ended({"time_limit"}, {0}) \cup Ended({"no_meta"}, {0}) : EndingTyped(e)
      BY <1>1, EndedTyped DEF Causes
    <2>4. Ended({"signal", "no_meta"}, {0}) = Ended({"signal"}, {0}) \cup Ended({"no_meta"}, {0})
      BY DEF Ended
    <2> QED BY <2>1, <2>2, <2>3, <2>4 DEF BoxEndings, ProgramEndings
  <1>3. \A c \in {"internal", "stuck", "raised", "init_stuck", "missing"} :
          \A e \in Faults({c}, {0}) : EndingTyped(e)
    BY <1>1, FaultsTyped DEF Causes
  <1>4. \A e \in Faults({"no_meta"}, InitCodes) : EndingTyped(e)
    BY <1>1, FaultsTyped DEF Causes
  <1>5. \A e \in Faults({"init_failed"}, InitCodes) : EndingTyped(e)
    BY <1>1, FaultsTyped DEF Causes
  <1>6. ASSUME NEW C, NEW e \in Faults(C, {0}) PROVE \E c \in C : e \in Faults({c}, {0})
    <2>1. PICK c \in C, n \in {0} : e = Ending(c, n, FALSE, FALSE, FALSE)
      BY <1>6 DEF Faults, Ending
    <2>2. e \in Faults({c}, {0})
      BY <2>1 DEF Faults
    <2> QED BY <2>2
  <1> QED BY <1>2, <1>3, <1>4, <1>5, <1>6 DEF Seen, RunFaults, InitFaults, LocalFaults

\* What the return code of a run in a box says of the run.
LEMMA BoxCodes ==
  ASSUME NEW e \in Seen, e.cause # "raised"
  PROVE  /\ BoxReturncode(e) \in -64..255
         /\ BoxReturncode(e) = 0 => EndedWell(e)
         /\ e.flood => BoxReturncode(e) = 125
         /\ ~e.flood /\ e.oom /\ e.cause # "no_meta" => BoxReturncode(e) = 137
         /\ ~e.flood /\ ~e.oom /\ e.cause = "time_limit" => BoxReturncode(e) = 124
PROOF
  <1>1. EndingTyped(e)
    BY SeenTyped
  <1>2. CASE e.cause \in {"init_stuck", "stuck"}
    BY <1>1, <1>2 DEF EndingTyped, BoxReturncode
  <1>3. CASE e.cause = "init_failed"
    BY <1>1, <1>3 DEF EndingTyped, BoxReturncode
  <1>4. CASE e.cause = "missing" \/ (e.cause = "no_meta" /\ e.code # 0)
    BY <1>1, <1>4 DEF EndingTyped, BoxReturncode
  <1>5. CASE \/ e.cause \in {"exit", "signal", "time_limit", "internal"}
             \/ e.cause = "no_meta" /\ e.code = 0
    <2>1. BoxReturncode(e) = IF e.flood THEN 125 ELSE IsolateReturncode(Meta(e))
      BY <1>5 DEF BoxReturncode
    <2>5. CASE ~e.flood /\ e.cause = "no_meta"
      <3>1. Meta(e).status = "" /\ Meta(e).oom = FALSE /\ Meta(e).exitcode = 0
        BY <2>5 DEF Meta
      <3>2. IsolateReturncode(Meta(e)) = 0
        BY <3>1 DEF IsolateReturncode
      <3> QED BY <1>1, <1>5, <2>1, <2>5, <3>2 DEF EndingTyped, EndedWell
    <2>2. CASE e.flood
      BY <2>1, <2>2, <1>1 DEF EndingTyped
    <2>3. CASE ~e.flood /\ e.oom /\ e.cause # "no_meta"
      <3>1. Meta(e).oom
        BY <2>3 DEF Meta
      <3>2. IsolateReturncode(Meta(e)) = 137
        BY <3>1 DEF IsolateReturncode
      <3> QED BY <2>1, <2>3, <3>2
    <2>4. CASE ~e.flood /\ ~e.oom /\ e.cause # "no_meta"
      <3>1. CASE e.cause = "time_limit"
        <4>1. Meta(e).status = "TO" /\ ~Meta(e).oom
          BY <2>4, <3>1 DEF Meta
        <4>2. IsolateReturncode(Meta(e)) = 124
          BY <4>1 DEF IsolateReturncode
        <4> QED BY <2>1, <2>4, <3>1, <4>2
      <3>2. CASE e.cause = "signal"
        <4>1. Meta(e).status = "SG" /\ Meta(e).oom = FALSE /\ Meta(e).exitsig = e.code
          BY <2>4, <3>2 DEF Meta
        <4>2. IsolateReturncode(Meta(e)) = CASE e.code = SIGXFSZ      -> 125
                                             [] e.code \in {0, SIGKILL} -> 137
                                             [] OTHER                -> -e.code
          BY <4>1 DEF IsolateReturncode
        <4>3. e.code \in 0..64
          BY <1>1, <3>2 DEF EndingTyped
        <4>4. IsolateReturncode(Meta(e)) \in -64..255 /\ IsolateReturncode(Meta(e)) # 0
          BY <4>2, <4>3 DEF SIGKILL, SIGXFSZ
        <4> QED BY <2>1, <2>4, <3>2, <4>4
      <3>3. CASE e.cause = "internal"
        BY <2>1, <2>4, <3>3 DEF IsolateReturncode, Meta
      <3>4. CASE e.cause = "exit"
        <4>1. Meta(e).status \in {"RE", ""} /\ Meta(e).oom = FALSE /\ Meta(e).exitcode = e.code
          BY <2>4, <3>4 DEF Meta
        <4>2. IsolateReturncode(Meta(e)) = e.code
          BY <4>1 DEF IsolateReturncode
        <4> QED BY <1>1, <2>1, <2>4, <3>4, <4>2 DEF EndingTyped, EndedWell
      <3> QED BY <1>5, <2>4, <3>1, <3>2, <3>3, <3>4
    <2> QED BY <1>1, <2>2, <2>3, <2>4, <2>5 DEF EndingTyped
  <1> QED BY <1>1, <1>2, <1>3, <1>4, <1>5 DEF EndingTyped, Causes

LEMMA LocalCodes ==
  ASSUME NEW e \in Seen, Unboxed(e), e.cause # "raised"
  PROVE  /\ LocalReturncode(e) \in -64..255
         /\ LocalReturncode(e) = 0 => EndedWell(e)
         /\ e.flood => LocalReturncode(e) = 125
         /\ ~e.flood /\ e.cause = "time_limit" => LocalReturncode(e) = 124
PROOF
  <1>1. EndingTyped(e)
    BY SeenTyped
  <1>2. CASE e.cause = "missing"
    BY <1>1, <1>2 DEF EndingTyped, LocalReturncode
  <1>3. CASE e.cause # "missing" /\ e.flood
    BY <1>1, <1>3 DEF EndingTyped, LocalReturncode
  <1>4. CASE e.cause = "time_limit" /\ ~e.flood
    BY <1>1, <1>4 DEF EndingTyped, LocalReturncode
  <1>5. CASE e.cause = "signal" /\ ~e.flood
    BY <1>1, <1>5 DEF EndingTyped, LocalReturncode, Unboxed
  <1>6. CASE e.cause = "exit" /\ ~e.flood
    BY <1>1, <1>6 DEF EndingTyped, LocalReturncode, EndedWell, Unboxed
  <1> QED BY <1>1, <1>2, <1>3, <1>4, <1>5, <1>6 DEF Unboxed

\* What a return code tells of the command it stands for.
Tells(rc, e) ==
  /\ rc = 0 => EndedWell(e)
  /\ e.flood => rc = 125
  /\ ~e.flood /\ e.oom /\ e.cause # "no_meta" => rc = 137
  /\ ~e.flood /\ ~e.oom /\ e.cause = "time_limit" => rc = 124

Verdicts == {"time_limit_exceeded", "output_limit_exceeded", "memory_limit_exceeded",
             "runtime_error", "ok"}

\* Nothing is lost between the return code and the status.
LEMMA StatusTells ==
  ASSUME NEW rc \in -64..255, NEW e, Tells(rc, e)
  PROVE  /\ RunStatus(rc, e) \in Verdicts
         /\ RunStatus(rc, e) = "ok" =>
              EndedWell(e) /\ (task.request.language # "native" => ~e.memoryText)
         /\ e.flood => RunStatus(rc, e) = "output_limit_exceeded"
         /\ ~e.flood /\ e.oom /\ e.cause # "no_meta" => RunStatus(rc, e) = "memory_limit_exceeded"
         /\ ~e.flood /\ ~e.oom /\ e.cause = "time_limit" =>
              RunStatus(rc, e) = "time_limit_exceeded"
PROOF
  <1>1. CASE rc = 124
    <2>1. rc \notin OutputLimitCodes
      BY <1>1 DEF OutputLimitCodes, SIGXFSZ
    <2>2. RunStatus(rc, e) = "time_limit_exceeded"
      BY <1>1, <2>1 DEF RunStatus
    <2> QED BY <1>1, <2>2 DEF Verdicts, Tells
  <1>2. CASE rc \in OutputLimitCodes
    <2>1. rc # 124 /\ rc # 137 /\ rc # 0
      BY <1>2 DEF OutputLimitCodes, SIGXFSZ
    <2>2. RunStatus(rc, e) = "output_limit_exceeded"
      BY <1>2, <2>1 DEF RunStatus
    <2> QED BY <2>1, <2>2 DEF Verdicts, Tells
  <1>3. CASE rc # 124 /\ rc \notin OutputLimitCodes /\ MemoryLimit(rc, e)
    <2>1. RunStatus(rc, e) = "memory_limit_exceeded"
      BY <1>3 DEF RunStatus
    <2>2. rc # 125
      BY <1>3 DEF OutputLimitCodes
    <2> QED BY <1>3, <2>1, <2>2 DEF Verdicts, Tells
  <1>4. CASE rc # 124 /\ rc \notin OutputLimitCodes /\ ~MemoryLimit(rc, e)
    <2>1. RunStatus(rc, e) = IF rc # 0 THEN "runtime_error" ELSE "ok"
      BY <1>4 DEF RunStatus
    <2>2. rc # 125 /\ rc # 137
      BY <1>4 DEF OutputLimitCodes, MemoryLimit
    <2>3. task.request.language # "native" => ~e.memoryText
      BY <1>4 DEF MemoryLimit
    <2> QED BY <1>4, <2>1, <2>2, <2>3 DEF Verdicts, Tells
  <1> QED BY <1>1, <1>2, <1>3, <1>4

-----------------------------------------------------------------------------
(* The inductive invariant.                                                  *)

Boxed(s) == task.mode[s] = "isolate"

\* A box is entered while a command runs in it and until it is cleaned.
SweepsInv ==
  /\ sweeps = (IF phase \in {"run", "cleanup"} THEN 1 ELSE 0)
  /\ phase \in {"run", "cleanup"} => Boxed(stage)

\* The return code at hand is that of the command at hand.
CodeInv ==
  /\ phase \in {"cleanup", "judge"} => outcome[stage] \in Seen
  /\ phase = "judge" => outcome[stage].cause # "raised"
  /\ phase \in {"cleanup", "judge"} /\ outcome[stage].cause # "raised" =>
       /\ Boxed(stage) => returncode = BoxReturncode(outcome[stage])
       /\ ~Boxed(stage) => /\ returncode = LocalReturncode(outcome[stage])
                           /\ Unboxed(outcome[stage])

\* The checker runs only after a program that ended well.
StageInv ==
  /\ stage = "program" /\ phase \in {"read", "launch", "run"} => outcome["program"] = NotRun
  /\ stage = "checker" =>
       /\ task.verifier = "checker"
       /\ EndedWell(outcome["program"])
       /\ task.request.language # "native" => ~outcome["program"].memoryText
  /\ status = "none" <=> phase # "done"

\* A limit that the program hit is one that it exceeds.
ExceededInv ==
  LET program == outcome["program"]
      limits == TestcaseLimits(task.request)
  IN  /\ program.cause = "time_limit" /\ Boxed("program") =>
           \/ task.use.cpu > limits.time
           \/ task.use.cpu + task.use.idle > WallTime(limits.time)
      /\ program.oom => task.use.memory > limits.memory

IInv ==
  /\ TypeOK
  /\ SweepsInv
  /\ CodeInv
  /\ StageInv
  /\ ExceededInv
  /\ AcceptedIsEarned
  /\ WrongAnswerAfterCleanRun
  /\ LimitsAreNamed

\* As long as there is no status nothing can be wrong with it.
Undecided == AcceptedIsEarned /\ WrongAnswerAfterCleanRun /\ LimitsAreNamed

LEMMA NoStatusYet == status = "none" => Undecided
PROOF
  BY DEF Undecided, AcceptedIsEarned, WrongAnswerAfterCleanRun, LimitsAreNamed

LEMMA NoStatusNext == status' = "none" => Undecided'
PROOF
  BY DEF Undecided, AcceptedIsEarned, WrongAnswerAfterCleanRun, LimitsAreNamed

LEMMA SeenIsRecord ==
  ASSUME NEW e \in Seen
  PROVE  e \in [cause : Causes, code : 0..255, oom : BOOLEAN,
                flood : BOOLEAN, memoryText : BOOLEAN]
PROOF
  <1>1. EndingTyped(e)
    BY SeenTyped
  <1>2. e = Ending(e.cause, e.code, e.oom, e.flood, e.memoryText)
    BY <1>1 DEF EndingTyped
  <1>3. /\ e.cause \in Causes /\ e.code \in 0..255 /\ e.oom \in BOOLEAN
        /\ e.flood \in BOOLEAN /\ e.memoryText \in BOOLEAN
    BY <1>1 DEF EndingTyped
  <1> QED BY <1>2, <1>3 DEF Ending

\* The end of the command at hand is written down, and of no other.
LEMMA Recording ==
  ASSUME TypeOK, ExceededInv, NEW e \in Seen,
         outcome' = [outcome EXCEPT ![stage] = e], task' = task, stage' = stage,
         Possible(e) \/ (e.cause # "time_limit" /\ ~e.oom)
  PROVE  /\ outcome' \in [Stages -> [cause : Causes, code : 0..255, oom : BOOLEAN,
                                     flood : BOOLEAN, memoryText : BOOLEAN]]
         /\ outcome'[stage] = e
         /\ stage = "checker" => outcome'["program"] = outcome["program"]
         /\ ExceededInv'
PROOF
  <1>1. outcome' \in [Stages -> [cause : Causes, code : 0..255, oom : BOOLEAN,
                                 flood : BOOLEAN, memoryText : BOOLEAN]]
    BY SeenIsRecord DEF TypeOK
  <1>2. outcome'[stage] = e
    BY DEF TypeOK
  <1>3. stage = "checker" => outcome'["program"] = outcome["program"]
    BY DEF TypeOK, Stages
  <1>4. ExceededInv'
    <2>1. CASE stage = "checker"
      BY <1>3, <2>1 DEF ExceededInv, Boxed
    <2>2. CASE stage = "program" /\ Possible(e)
      <3>1. Limits = TestcaseLimits(task.request)
        BY <2>2 DEF Limits
      <3>2. /\ (e.cause = "time_limit") = ExceedsTime
            /\ e.oom => task.use.memory > TestcaseLimits(task.request).memory
        BY <2>2, <3>1 DEF Possible
      <3>3. outcome'["program"] = e
        BY <1>2, <2>2
      <3> QED BY <3>1, <3>2, <3>3 DEF ExceededInv, Boxed, ExceedsTime
    <2>3. CASE stage = "program" /\ e.cause # "time_limit" /\ ~e.oom
      BY <1>2, <2>3 DEF ExceededInv
    <2> QED BY <2>1, <2>2, <2>3 DEF TypeOK, Stages
  <1> QED BY <1>1, <1>2, <1>3, <1>4

\* Isolate, or what stands for it, ended with a return code of its own.
LEMMA CodeIsTyped ==
  ASSUME NEW e \in Seen
  PROVE  e.cause # "raised" =>
           /\ BoxReturncode(e) \in -64..255
           /\ Unboxed(e) => LocalReturncode(e) \in -64..255
PROOF
  BY BoxCodes, LocalCodes

\* What the return code at hand tells when the status is decided.
LEMMA CodeTells ==
  ASSUME CodeInv, phase = "judge"
  PROVE  outcome[stage] \in Seen /\ Tells(returncode, outcome[stage])
PROOF
  <1>1. outcome[stage] \in Seen
    BY DEF CodeInv
  <1> DEFINE e == outcome[stage]
  <1>2. CASE Boxed(stage)
    <2>1. e \in Seen /\ e.cause # "raised" /\ returncode = BoxReturncode(e)
      BY <1>1, <1>2 DEF CodeInv
    <2> HIDE DEF e
    <2>2. Tells(returncode, e)
      BY <2>1, BoxCodes DEF Tells
    <2> QED BY <1>1, <2>2 DEF e
  <1>3. CASE ~Boxed(stage)
    <2>1. e \in Seen /\ e.cause # "raised" /\ Unboxed(e) /\ returncode = LocalReturncode(e)
      BY <1>1, <1>3 DEF CodeInv
    <2> HIDE DEF e
    <2>2. Tells(returncode, e)
      BY <2>1, LocalCodes DEF Tells, Unboxed
    <2> QED BY <1>1, <2>2 DEF e
  <1> QED BY <1>1, <1>2, <1>3

LEMMA InitIInv == Init => IInv
PROOF
  <1> SUFFICES ASSUME Init PROVE IInv
    OBVIOUS
  <1>1. TypeOK
    <2>1. NotRun \in [cause : Causes, code : 0..255, oom : BOOLEAN,
                      flood : BOOLEAN, memoryText : BOOLEAN]
      BY DEF NotRun, Ending, Causes
    <2> QED BY <2>1 DEF Init, TypeOK, Stages
  <1>2. outcome["program"] = NotRun /\ NotRun.cause = "not_run" /\ NotRun.oom = FALSE
    BY DEF Init, Stages, NotRun, Ending
  <1>3. SweepsInv /\ CodeInv
    BY DEF Init, SweepsInv, CodeInv
  <1>4. StageInv
    BY <1>2 DEF Init, StageInv
  <1>5. ExceededInv
    BY <1>2 DEF ExceededInv
  <1>6. Undecided
    BY NoStatusYet DEF Init
  <1> QED BY <1>1, <1>3, <1>4, <1>5, <1>6 DEF IInv, Undecided

LEMMA ReadInputIInv == IInv /\ ReadInput => IInv'
PROOF
  <1> SUFFICES ASSUME IInv, ReadInput PROVE IInv'
    OBVIOUS
  <1>1. /\ phase = "read" /\ phase' \in {"launch", "done"}
        /\ status' = (IF phase' = "done" THEN "system_error" ELSE status)
        /\ UNCHANGED <<task, stage, box, sweeps, outcome, returncode>>
    BY DEF ReadInput
  <1>2. TypeOK'
    BY <1>1 DEF IInv, TypeOK
  <1>3. SweepsInv' /\ CodeInv'
    BY <1>1 DEF IInv, SweepsInv, CodeInv
  <1>4. StageInv'
    BY <1>1 DEF IInv, StageInv
  <1>5. ExceededInv'
    BY <1>1 DEF IInv, ExceededInv, Boxed
  <1>6. Undecided'
    <2>1. CASE phase' = "launch"
      BY <1>1, <2>1, NoStatusNext DEF IInv, StageInv
    <2>2. CASE phase' = "done" /\ stage = "program"
      <3>1. outcome'["program"].cause = "not_run"
        BY <1>1, <2>2 DEF IInv, StageInv, NotRun, Ending
      <3> QED BY <1>1, <2>2, <3>1
            DEF Undecided, AcceptedIsEarned, WrongAnswerAfterCleanRun, LimitsAreNamed
    <2>3. CASE phase' = "done" /\ stage = "checker"
      BY <1>1, <2>3 DEF IInv, StageInv, EndedWell,
            Undecided, AcceptedIsEarned, WrongAnswerAfterCleanRun, LimitsAreNamed
    <2> QED BY <1>1, <2>1, <2>2, <2>3 DEF IInv, TypeOK, Stages
  <1> QED BY <1>2, <1>3, <1>4, <1>5, <1>6 DEF IInv, Undecided

LEMMA InitBoxIInv == IInv /\ InitBox => IInv'
PROOF
  <1> SUFFICES ASSUME IInv, InitBox PROVE IInv'
    OBVIOUS
  <1>1. /\ phase = "launch" /\ Boxed(stage) /\ sweeps' = sweeps + 1
        /\ sweeps = 0 /\ sweeps' = 1
        /\ UNCHANGED <<task, stage, status>> /\ status = "none"
    BY DEF InitBox, Boxed, IInv, SweepsInv, StageInv
  <1>2. Undecided'
    BY <1>1, NoStatusNext
  <1>3. CASE box' = "ready" /\ phase' = "run" /\ UNCHANGED <<outcome, returncode>>
    <2>1. TypeOK'
      BY <1>1, <1>3 DEF IInv, TypeOK
    <2>2. SweepsInv' /\ CodeInv'
      BY <1>1, <1>3 DEF IInv, SweepsInv, CodeInv, Boxed
    <2>3. StageInv'
      BY <1>1, <1>3 DEF IInv, StageInv
    <2>4. ExceededInv'
      BY <1>1, <1>3 DEF IInv, ExceededInv, Boxed
    <2> QED BY <1>2, <2>1, <2>2, <2>3, <2>4 DEF IInv, Undecided
  <1>4. ASSUME NEW e \in InitFaults, Ends(e, BoxReturncode(e)),
               box' \in {"free", "ready", box}, phase' = "cleanup"
        PROVE  IInv'
    <2> USE DEF Ends
    <2>1. e \in Seen /\ e.cause # "time_limit" /\ ~e.oom
      BY <1>4 DEF Seen, InitFaults, Faults, Ending
    <2>2. /\ outcome' \in [Stages -> [cause : Causes, code : 0..255, oom : BOOLEAN,
                                      flood : BOOLEAN, memoryText : BOOLEAN]]
          /\ outcome'[stage] = e
          /\ stage = "checker" => outcome'["program"] = outcome["program"]
          /\ ExceededInv'
      BY <1>1, <1>4, <2>1, Recording DEF IInv
    <2>3. TypeOK'
      BY <1>1, <1>4, <2>1, <2>2, CodeIsTyped DEF IInv, TypeOK
    <2>4. SweepsInv' /\ CodeInv'
      BY <1>1, <1>4, <2>1, <2>2 DEF SweepsInv, CodeInv, Boxed
    <2>5. StageInv'
      BY <1>1, <1>4, <2>2 DEF IInv, StageInv
    <2> QED BY <1>2, <2>2, <2>3, <2>4, <2>5 DEF IInv, Undecided
  <1> QED BY <1>3, <1>4 DEF InitBox

LEMMA RunBoxIInv == IInv /\ RunBox => IInv'
PROOF
  <1> SUFFICES ASSUME IInv, RunBox PROVE IInv'
    OBVIOUS
  <1>1. /\ phase = "run" /\ phase' = "cleanup" /\ Boxed(stage)
        /\ UNCHANGED <<task, stage, sweeps, status>> /\ status = "none"
    BY DEF RunBox, IInv, SweepsInv, StageInv
  <1> USE DEF Ends
  <1>2. PICK e \in {x \in BoxEndings : Possible(x)} \cup RunFaults :
               /\ Ends(e, BoxReturncode(e))
               /\ box' = IF e.cause = "stuck" THEN "busy" ELSE box
    BY DEF RunBox
  <1>3. e \in Seen /\ (Possible(e) \/ (e.cause # "time_limit" /\ ~e.oom))
    BY DEF Seen, RunFaults, Faults, Ending
  <1>4. /\ outcome' \in [Stages -> [cause : Causes, code : 0..255, oom : BOOLEAN,
                                    flood : BOOLEAN, memoryText : BOOLEAN]]
        /\ outcome'[stage] = e
        /\ stage = "checker" => outcome'["program"] = outcome["program"]
        /\ ExceededInv'
    BY <1>1, <1>2, <1>3, Recording DEF IInv
  <1>5. TypeOK'
    BY <1>1, <1>2, <1>3, <1>4, CodeIsTyped DEF IInv, TypeOK
  <1>6. SweepsInv' /\ CodeInv'
    BY <1>1, <1>2, <1>3, <1>4 DEF IInv, SweepsInv, CodeInv, Boxed
  <1>7. StageInv'
    BY <1>1, <1>4 DEF IInv, StageInv
  <1>8. Undecided'
    BY <1>1, NoStatusNext
  <1> QED BY <1>4, <1>5, <1>6, <1>7, <1>8 DEF IInv, Undecided

LEMMA RunLocalIInv == IInv /\ RunLocal => IInv'
PROOF
  <1> SUFFICES ASSUME IInv, RunLocal PROVE IInv'
    OBVIOUS
  <1>1. /\ phase = "launch" /\ phase' \in {"judge", "unwind"} /\ ~Boxed(stage)
        /\ UNCHANGED <<task, stage, box, sweeps, status>> /\ status = "none"
    BY DEF RunLocal, After, IInv, Boxed, StageInv
  <1> USE DEF Ends
  <1>2. PICK e \in {x \in ProgramEndings : ~x.oom /\ Possible(x)} \cup LocalFaults :
               Ends(e, LocalReturncode(e)) /\ phase' \in After(e)
    BY DEF RunLocal, LocalFaults
  <1>3. e \in Seen /\ (Possible(e) \/ (e.cause # "time_limit" /\ ~e.oom)) /\ Unboxed(e)
    <2>1. CASE e \in ProgramEndings /\ ~e.oom /\ Possible(e)
      <3>1. /\ e.cause \in {"exit", "signal", "time_limit"}
            /\ e.cause = "signal" => e.code \in Signals
        BY <2>1 DEF ProgramEndings, Ended, Ending
      <3>2. e.cause = "signal" => e.code # 0
        BY <3>1, IsolateRunAssumption
      <3> QED BY <2>1, <3>1, <3>2 DEF Seen, BoxEndings, Unboxed
    <2>2. CASE e \in LocalFaults
      BY <2>2 DEF Seen, LocalFaults, Faults, Ending, Unboxed
    <2> QED BY <1>2, <2>1, <2>2
  <1>4. /\ outcome' \in [Stages -> [cause : Causes, code : 0..255, oom : BOOLEAN,
                                    flood : BOOLEAN, memoryText : BOOLEAN]]
        /\ outcome'[stage] = e
        /\ stage = "checker" => outcome'["program"] = outcome["program"]
        /\ ExceededInv'
    BY <1>1, <1>2, <1>3, Recording DEF IInv
  <1>5. TypeOK'
    BY <1>1, <1>2, <1>3, <1>4, CodeIsTyped DEF IInv, TypeOK
  <1>6. SweepsInv' /\ CodeInv'
    BY <1>1, <1>2, <1>3, <1>4 DEF IInv, SweepsInv, CodeInv, Boxed, After
  <1>7. StageInv'
    BY <1>1, <1>4 DEF IInv, StageInv
  <1>8. Undecided'
    BY <1>1, NoStatusNext
  <1> QED BY <1>4, <1>5, <1>6, <1>7, <1>8 DEF IInv, Undecided

LEMMA CleanupBoxIInv == IInv /\ CleanupBox => IInv'
PROOF
  <1> SUFFICES ASSUME IInv, CleanupBox PROVE IInv'
    OBVIOUS
  <1>1. /\ phase = "cleanup" /\ phase' \in {"judge", "unwind"} /\ box' \in {"free", box}
        /\ phase' = "judge" => outcome[stage].cause # "raised"
        /\ sweeps' = sweeps - 1 /\ sweeps = 1 /\ sweeps' = 0
        /\ UNCHANGED <<task, stage, outcome, returncode, status>> /\ status = "none"
    BY DEF CleanupBox, After, IInv, SweepsInv, StageInv
  <1>2. TypeOK'
    BY <1>1 DEF IInv, TypeOK
  <1>3. SweepsInv'
    BY <1>1 DEF SweepsInv
  <1>4. CodeInv'
    BY <1>1 DEF IInv, CodeInv, Boxed
  <1>5. StageInv'
    BY <1>1 DEF IInv, StageInv
  <1>6. ExceededInv'
    BY <1>1 DEF IInv, ExceededInv, Boxed
  <1>7. Undecided'
    BY <1>1, NoStatusNext
  <1> QED BY <1>2, <1>3, <1>4, <1>5, <1>6, <1>7 DEF IInv, Undecided

LEMMA PreparationRaisesIInv == IInv /\ PreparationRaises => IInv'
PROOF
  <1> SUFFICES ASSUME IInv, PreparationRaises PROVE IInv'
    OBVIOUS
  <1>1. /\ phase = "launch" /\ phase' = "unwind"
        /\ UNCHANGED <<task, stage, box, sweeps, outcome, returncode, status>>
    BY DEF PreparationRaises
  <1>2. TypeOK'
    BY <1>1 DEF IInv, TypeOK
  <1>3. SweepsInv' /\ CodeInv'
    BY <1>1 DEF IInv, SweepsInv, CodeInv
  <1>4. StageInv' /\ status = "none"
    BY <1>1 DEF IInv, StageInv
  <1>5. ExceededInv'
    BY <1>1 DEF IInv, ExceededInv, Boxed
  <1>6. Undecided'
    BY <1>1, <1>4, NoStatusNext
  <1> QED BY <1>2, <1>3, <1>4, <1>5, <1>6 DEF IInv, Undecided

\* A decision changes nothing but the status and the phase.
LEMMA DecideIInv ==
  ASSUME IInv, phase \in {"judge", "unwind"}, NEW s, Decide(s), Undecided',
         s \in {"accepted", "wrong_answer", "time_limit_exceeded", "output_limit_exceeded",
                "memory_limit_exceeded", "runtime_error", "system_error", "raised"}
  PROVE  IInv'
PROOF
  <1>1. /\ status' = s /\ phase' = "done"
        /\ UNCHANGED <<task, stage, box, sweeps, outcome, returncode>>
    BY DEF Decide
  <1>2. TypeOK'
    BY <1>1 DEF IInv, TypeOK
  <1>3. SweepsInv' /\ CodeInv'
    BY <1>1 DEF IInv, SweepsInv, CodeInv
  <1>4. StageInv'
    BY <1>1 DEF IInv, StageInv
  <1>5. ExceededInv'
    BY <1>1 DEF IInv, ExceededInv, Boxed
  <1> QED BY <1>2, <1>3, <1>4, <1>5 DEF IInv, Undecided

LEMMA JudgeProgramIInv == IInv /\ JudgeProgram => IInv'
PROOF
  <1> SUFFICES ASSUME IInv, JudgeProgram PROVE IInv'
    OBVIOUS
  <1> DEFINE program == outcome["program"]
             s == RunStatus(returncode, program)
  <1>1. phase = "judge" /\ stage = "program" /\ Tells(returncode, program)
    BY CodeTells DEF JudgeProgram, IInv
  <1>2. returncode \in -64..255
    BY DEF IInv, TypeOK
  <1>3. /\ s \in Verdicts
        /\ s = "ok" => EndedWell(program) /\ (task.request.language # "native" => ~program.memoryText)
        /\ program.flood => s = "output_limit_exceeded"
        /\ ~program.flood /\ program.oom /\ program.cause # "no_meta" => s = "memory_limit_exceeded"
        /\ ~program.flood /\ ~program.oom /\ program.cause = "time_limit" =>
             s = "time_limit_exceeded"
    BY <1>1, <1>2, StatusTells
  <1>4. CASE s # "ok"
    <2>1. Decide(s)
      BY <1>4 DEF JudgeProgram
    <2>2. status' = s /\ UNCHANGED <<task, outcome>>
      BY <2>1 DEF Decide
    <2>3. s # "accepted" /\ s # "wrong_answer"
      BY <1>3 DEF Verdicts
    <2> HIDE DEF s
    <2>4. Undecided'
      BY <1>3, <2>2, <2>3
         DEF Undecided, AcceptedIsEarned, WrongAnswerAfterCleanRun, LimitsAreNamed
    <2> QED BY <1>1, <1>3, <1>4, <2>1, <2>4, DecideIInv DEF Verdicts
  <1>5. CASE s = "ok"
    <2>1. EndedWell(program) /\ (task.request.language # "native" => ~program.memoryText)
      BY <1>3, <1>5
    <2>2. CASE task.verifier = "reference"
      <3>1. Decide("accepted")
        BY <1>5, <2>2 DEF JudgeProgram
      <3>2. status' = "accepted" /\ UNCHANGED <<task, outcome>>
        BY <3>1 DEF Decide
      <3>3. Undecided'
        BY <2>1, <2>2, <3>2
           DEF EndedWell, Undecided, AcceptedIsEarned, WrongAnswerAfterCleanRun, LimitsAreNamed
      <3> QED BY <1>1, <3>1, <3>3, DecideIInv
    <2>3. CASE task.verifier = "compare"
      <3> DEFINE d == IF task.answer = "right" THEN "accepted" ELSE "wrong_answer"
      <3>1. Decide(d)
        BY <1>5, <2>3 DEF JudgeProgram
      <3>2. status' = d /\ UNCHANGED <<task, outcome>>
        BY <3>1 DEF Decide
      <3>3. Undecided'
        BY <2>1, <2>3, <3>2
           DEF EndedWell, Undecided, AcceptedIsEarned, WrongAnswerAfterCleanRun, LimitsAreNamed
      <3> QED BY <1>1, <3>1, <3>3, DecideIInv
    <2>4. CASE task.verifier = "checker"
      <3>1. /\ stage' = "checker" /\ phase' = "launch"
            /\ UNCHANGED <<task, box, sweeps, outcome, returncode, status>>
        BY <1>5, <2>4 DEF JudgeProgram
      <3>2. TypeOK'
        BY <3>1 DEF IInv, TypeOK, Stages
      <3>3. SweepsInv' /\ CodeInv'
        BY <1>1, <3>1 DEF IInv, SweepsInv, CodeInv
      <3>4. StageInv' /\ status' = "none"
        BY <1>1, <2>1, <2>4, <3>1 DEF IInv, StageInv, EndedWell
      <3>5. ExceededInv'
        BY <3>1 DEF IInv, ExceededInv, Boxed
      <3>6. Undecided'
        BY <3>4, NoStatusNext
      <3> QED BY <3>2, <3>3, <3>4, <3>5, <3>6 DEF IInv, Undecided
    <2> QED BY <2>2, <2>3, <2>4 DEF IInv, TypeOK, Tasks
  <1> QED BY <1>4, <1>5

LEMMA JudgeCheckerIInv == IInv /\ JudgeChecker => IInv'
PROOF
  <1> SUFFICES ASSUME IInv, JudgeChecker PROVE IInv'
    OBVIOUS
  <1> DEFINE d == IF returncode = 0 THEN "accepted" ELSE "wrong_answer"
  <1>1. phase = "judge" /\ stage = "checker" /\ Decide(d)
    BY DEF JudgeChecker
  <1>2. Tells(returncode, outcome["checker"])
    BY <1>1, CodeTells DEF IInv
  <1>3. status' = d /\ UNCHANGED <<task, outcome>>
    BY <1>1 DEF Decide
  <1>4. /\ EndedWell(outcome["program"]) /\ task.verifier = "checker"
        /\ task.request.language # "native" => ~outcome["program"].memoryText
    BY <1>1 DEF IInv, StageInv
  <1>5. Undecided'
    BY <1>2, <1>3, <1>4
       DEF Tells, EndedWell, Undecided, AcceptedIsEarned, WrongAnswerAfterCleanRun, LimitsAreNamed
  <1> QED BY <1>1, <1>5, DecideIInv

LEMMA UnwindIInv == IInv /\ Unwind => IInv'
PROOF
  <1> SUFFICES ASSUME IInv, Unwind PROVE IInv'
    OBVIOUS
  <1> DEFINE d == IF stage = "program" THEN "system_error" ELSE "raised"
  <1>1. phase = "unwind" /\ Decide(d) /\ d \in {"system_error", "raised"}
    BY DEF Unwind
  <1>2. status' = d /\ UNCHANGED <<task, outcome>>
    BY <1>1 DEF Decide
  <1>3. d = "raised" => EndedWell(outcome["program"])
    BY DEF IInv, StageInv, TypeOK, Stages
  <1> HIDE DEF d
  <1>4. Undecided'
    BY <1>1, <1>2, <1>3
       DEF EndedWell, Undecided, AcceptedIsEarned, WrongAnswerAfterCleanRun, LimitsAreNamed
  <1> QED BY <1>1, <1>4, DecideIInv

LEMMA StutterIInv == IInv /\ UNCHANGED vars => IInv'
PROOF
  <1> SUFFICES ASSUME IInv, UNCHANGED vars PROVE IInv'
    OBVIOUS
  <1> USE DEF vars
  <1>1. TypeOK'
    BY DEF IInv, TypeOK
  <1>2. SweepsInv' /\ CodeInv' /\ StageInv'
    BY DEF IInv, SweepsInv, CodeInv, StageInv, Boxed
  <1>3. ExceededInv'
    BY DEF IInv, ExceededInv, Boxed
  <1>4. Undecided'
    BY DEF IInv, Undecided, AcceptedIsEarned, WrongAnswerAfterCleanRun, LimitsAreNamed
  <1> QED BY <1>1, <1>2, <1>3, <1>4 DEF IInv, Undecided

LEMMA IInvAlways == Spec => []IInv
PROOF
  <1>1. Init => IInv
    BY InitIInv
  <1>2. IInv /\ [Next]_vars => IInv'
    BY ReadInputIInv, PreparationRaisesIInv, InitBoxIInv, RunBoxIInv, CleanupBoxIInv,
       RunLocalIInv, JudgeProgramIInv, JudgeCheckerIInv, UnwindIInv, StutterIInv DEF Next, Step, Terminated
  <1> QED BY <1>1, <1>2, PTL DEF Spec

-----------------------------------------------------------------------------
(* The theorems.                                                             *)

\* Every variable stays in its range, whatever the codes and limits.
THEOREM TypesAreRight == Spec => []TypeOK
PROOF
  BY IInvAlways, PTL DEF IInv

\* An accepted case exited with 0 within its limits and had its answer verified; a
\* wrong answer comes from a run that ended well (_run_single_testcase).
THEOREM AnswersEarned == Spec => []AnswersAreEarned
PROOF
  <1>1. IInv => AnswersAreEarned
    BY DEF IInv, AnswersAreEarned
  <1> QED BY <1>1, IInvAlways, PTL

\* The limit that a program hit is the status of its case (or, if the agent fails
\* after the run, system_error), through the return code
\* of isolate or of the loop without a sandbox.
THEOREM LimitsNamed == Spec => []LimitsAreNamed
PROOF
  BY IInvAlways, PTL DEF IInv

\* A box is cleaned once for each time it is entered, whatever ends the command in
\* it, before its result is read or an exception leaves _run_isolate_box.
THEOREM BoxesSwept == Spec => []EveryBoxIsSwept
PROOF
  <1>1. IInv => EveryBoxIsSwept
    BY DEF IInv, SweepsInv, EveryBoxIsSwept
  <1> QED BY <1>1, IInvAlways, PTL

\* No program that keeps to the limits of its problem is cut off by a limit that
\* the language, the guards or the defaults put in their place.
THEOREM LimitsSuffice == Spec => []ProblemLimitsSuffice
PROOF
  <1>1. IInv => ProblemLimitsSuffice
    <2> SUFFICES ASSUME IInv PROVE ProblemLimitsSuffice
      OBVIOUS
    <2> DEFINE r == task.request
               l == TestcaseLimits(r)
    <2>1. r \in Request /\ task.use.cpu \in Nat /\ task.use.idle \in Nat /\ task.use.memory \in Nat
      BY IsolateRunAssumption DEF IInv, TypeOK, Tasks
    <2>2. /\ r.problemTime \in Nat \/ r.problemTime = Unset
          /\ r.problemMemory \in Nat \/ r.problemMemory = Unset
      BY <2>1 DEF Request, Field
    <2>3. l.time \in Nat /\ l.memory \in Nat
      BY <2>1, LimitsTyped
    <2>4. ASSUME r.problemTime # Unset, r.languageTime = Unset, ~Decides(r.caseTime),
                 outcome["program"].cause = "time_limit", task.mode["program"] = "isolate"
          PROVE  task.use.cpu > r.problemTime \/ task.use.idle > 2000
      <3>1. l.time >= r.problemTime
        BY <2>1, <2>4, AllowancesAdd
      <3>2. task.use.cpu > l.time \/ task.use.cpu + task.use.idle > WallTime(l.time)
        BY <2>4 DEF IInv, ExceededInv, Boxed
      <3> HIDE DEF l
      <3>3. WallTime(l.time) >= l.time + 2000
        BY <2>3 DEF WallTime, Larger
      <3>4. WallTime(l.time) \in Nat
        BY <2>3 DEF WallTime, Larger
      <3> QED BY <2>1, <2>2, <2>3, <2>4, <3>1, <3>2, <3>3, <3>4
    <2>5. ASSUME r.problemMemory # Unset, r.languageMemory = Unset, ~Decides(r.caseMemory),
                 outcome["program"].oom
          PROVE  task.use.memory > r.problemMemory
      <3>1. l.memory >= r.problemMemory
        BY <2>1, <2>5, AllowancesAdd
      <3>2. task.use.memory > l.memory
        BY <2>5 DEF IInv, ExceededInv
      <3> HIDE DEF l
      <3> QED BY <2>1, <2>2, <2>3, <2>5, <3>1, <3>2
    <2> QED BY <2>4, <2>5 DEF ProblemLimitsSuffice
  <1> QED BY <1>1, IInvAlways, PTL

\* The CPU limit, the wall limit of isolate and the patience of the agent keep
\* their distance, and the heap of a JVM fits its box, whatever the job asks for.
THEOREM GuardsNested == Spec => []GuardsNest
PROOF
  <1>1. IInv => GuardsNest
    <2> SUFFICES ASSUME IInv PROVE GuardsNest
      OBVIOUS
    <2>1. Limits.time \in Nat /\ Limits.time > 0 /\ Limits.memory \in Nat /\ Limits.memory >= 16
      <3>1. CASE stage = "program"
        <4>1. task.request \in Request
          BY IsolateRunAssumption DEF IInv, TypeOK, Tasks
        <4> QED BY <3>1, <4>1, LimitsTyped DEF Limits
      <3>2. CASE stage = "checker"
        BY <3>2, ResourceLimitsAssumption DEF Limits, CheckerLimits
      <3> QED BY <3>1, <3>2 DEF IInv, TypeOK, Stages
    <2> DEFINE t == Limits.time
               m == Limits.memory
    <2>2. t \in Nat /\ t > 0 /\ m \in Nat /\ m >= 16
      BY <2>1
    <2> HIDE DEF t, m
    <2>3. t + 2000 <= WallTime(t) /\ t + 7000 <= Patience(t)
      BY <2>2 DEF WallTime, Patience, Larger
    <2>4. InitialHeap(m) <= Heap(m) /\ m \div 2 <= Heap(m) /\ 4 * Heap(m) <= 3 * m
      BY <2>2, HeapFits
    <2> QED BY <2>2, <2>3, <2>4 DEF GuardsNest, t, m
  <1> QED BY <1>1, IInvAlways, PTL
=============================================================================
