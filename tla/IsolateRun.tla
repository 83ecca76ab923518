----------------------------- MODULE IsolateRun -----------------------------
(***************************************************************************)
(* One testcase: _run_single_testcase and, under it, _run_command,         *)
(* _run_isolate_box, _isolate_returncode and _run_checker                  *)
(* (app/executor.py).  The program, then possibly the checker, runs in an  *)
(* isolate box (or directly, in local mode) under the limits of              *)
(* ResourceLimits; what became of it is squeezed into one integer, and the *)
(* status of the case is read off that integer.                            *)
(*                                                                         *)
(* The model keeps what really happened next to the integer, so that the   *)
(* properties can compare the status with the truth.                       *)
(***************************************************************************)
EXTENDS ResourceLimits

CONSTANTS ExitCodes,   \* exit codes of programs and checkers
          Signals,     \* signals that may end them
          InitCodes,   \* exit codes of an isolate that fails
          Requests,    \* what jobs say of their limits
          Uses         \* what programs need

SIGKILL == 9
SIGXFSZ == 25

ASSUME IsolateRunAssumption ==
  /\ ExitCodes \subseteq 0..255
  /\ Signals \subseteq 1..64
  /\ InitCodes \subseteq 1..255
  /\ Requests \subseteq Request
  /\ Uses \subseteq [cpu : Nat, idle : Nat, memory : Nat]

VARIABLES
  task,      \* what is to be judged and how, fixed for the behaviour
  stage,     \* "program" or "checker": the command at hand
  phase,     \* where the calling thread is; "unwind": an exception has left _run_command
  box,       \* the isolate box: "free", "ready" (initialised) or "busy"
  sweeps,    \* boxes entered and not cleaned yet: +1 at --init, -1 at --cleanup
  outcome,   \* stage -> what really happened to the command
  returncode,\* completed.returncode of the command at hand
  status     \* the status of the case

vars == <<task, stage, phase, box, sweeps, outcome, returncode, status>>

-----------------------------------------------------------------------------
Stages == {"program", "checker"}

Tasks == [ mode      : [Stages -> {"isolate", "local"}],  \* sandbox_mode, checker_sandbox_mode
           request   : Requests,
           use       : Uses,      \* CPU and idle time, memory it takes to its end
           verifier  : {"compare", "checker", "reference"},
           answer    : {"right", "wrong"} ]     \* of the output, if it is compared

\* How a command can end.  `oom`: the cgroup killed a process of the box, not
\* necessarily the last one to end; `flood`: stdout or stderr over the limit;
\* `memoryText`: a message of an interpreter that ran out of memory.
Ending(cause, code, oom, flood, memoryText) ==
  [cause |-> cause, code |-> code, oom |-> oom, flood |-> flood, memoryText |-> memoryText]

NotRun == Ending("not_run", 0, FALSE, FALSE, FALSE)

Ended(causes, codes) ==
  {Ending(c, n, o, f, m) : c \in causes, n \in codes, o \in BOOLEAN, f \in BOOLEAN, m \in BOOLEAN}

\* The program came to an end of its own, or at a limit of isolate.
ProgramEndings ==
  Ended({"exit"}, ExitCodes) \cup Ended({"signal"}, Signals) \cup Ended({"time_limit"}, {0})

\* In a box it may come to its end without much being known of it: a signal that the
\* metadata do not name (code 0), or an exit with 0 that left no metadata.
BoxEndings == ProgramEndings \cup Ended({"signal", "no_meta"}, {0})

Limits == IF stage = "program" THEN TestcaseLimits(task.request) ELSE CheckerLimits

\* isolate limits the CPU time and, generously, the wall time; without a sandbox
\* the limit is on the wall time.
ExceedsTime ==
  IF task.mode["program"] = "isolate"
  THEN \/ task.use.cpu > Limits.time
       \/ task.use.cpu + task.use.idle > WallTime(Limits.time)
  ELSE task.use.cpu + task.use.idle > Limits.time

\* The endings the program can have with what it needs; a checker can have any.
\* It may end before it took all the memory, or after a child of it did.
Possible(e) ==
  stage = "program" =>
    /\ (e.cause = "time_limit") = ExceedsTime
    /\ e.oom => task.use.memory > Limits.memory

Faults(causes, codes) == {Ending(c, n, FALSE, FALSE, FALSE) : c \in causes, n \in codes}

\* The sandbox failed around it: isolate failed without metadata, had an internal
\* error (status XX), or was still running after the wall limit and the agent's 5 s
\* of grace; or an exception was raised that no clause catches (a subprocess that
\* cannot be started, metadata that cannot be read).
RunFaults == Faults({"no_meta"}, InitCodes) \cup Faults({"internal", "stuck", "raised"}, {0})

InitFaults ==
  Faults({"init_failed"}, InitCodes) \cup Faults({"init_stuck", "missing", "raised"}, {0})

-----------------------------------------------------------------------------
\* What isolate writes in the --meta file for an ending, nothing of it for "no_meta".
Meta(e) ==
  [ oom      |-> e.oom /\ e.cause # "no_meta",
    status   |-> CASE e.cause = "time_limit" -> "TO"
                   [] e.cause = "signal" -> "SG"
                   [] e.cause = "internal" -> "XX"
                   [] e.cause = "exit" /\ e.code # 0 -> "RE"
                   [] OTHER -> "",
    exitsig  |-> e.code,
    exitcode |-> IF e.cause = "no_meta" THEN 0 ELSE e.code ]

\* _isolate_returncode
IsolateReturncode(meta) ==
  CASE meta.oom -> 137
    [] ~meta.oom /\ meta.status = "TO" -> 124
    [] ~meta.oom /\ meta.status = "SG" ->
         CASE meta.exitsig = SIGXFSZ      -> 125
           [] meta.exitsig \in {0, SIGKILL} -> 137     \* 0: not named
           [] OTHER                        -> -meta.exitsig
    [] ~meta.oom /\ meta.status \notin {"", "OK", "RE", "TO", "SG"} -> 127
    [] OTHER -> meta.exitcode

\* Mutant: an empty --meta file is read like any other.
BoxReturncodeTrustsMeta(e) ==
  CASE e.cause \in {"init_stuck", "stuck"} -> 124
    [] e.cause = "init_failed" -> e.code
    [] e.cause = "missing" -> 127
    [] OTHER -> IF e.flood THEN 125 ELSE IsolateReturncode(Meta(e))

\* The return code of _run_isolate_box.
BoxReturncode(e) ==
  CASE e.cause \in {"init_stuck", "stuck"} -> 124     \* subprocess.TimeoutExpired
    [] e.cause = "init_failed" -> e.code
    [] e.cause = "missing" \/ (e.cause = "no_meta" /\ e.code # 0) -> 127
    [] OTHER -> IF e.flood THEN 125 ELSE IsolateReturncode(Meta(e))

\* The return code of the loop in _run_command, without a sandbox: a signal is
\* negative, and the loop kills the command at its deadline.
LocalReturncode(e) ==
  CASE e.cause = "missing" -> 127
    [] e.cause # "missing" /\ e.flood -> 125
    [] e.cause = "time_limit" /\ ~e.flood -> 124
    [] e.cause = "signal" /\ ~e.flood -> -e.code
    [] OTHER -> e.code

OutputLimitCodes == {125, -SIGXFSZ}

\* _is_memory_limit_result: by return code, or by what an interpreter printed
\* (whatever its return code).
MemoryLimit(rc, e) ==
  \/ rc \in {137, -SIGKILL}
  \/ task.request.language # "native" /\ e.memoryText

\* Mutant: the memory messages are looked for before the return code.
RunStatusMemoryFirst(rc, e) ==
  CASE MemoryLimit(rc, e) -> "memory_limit_exceeded"
    [] ~MemoryLimit(rc, e) /\ rc = 124 -> "time_limit_exceeded"
    [] ~MemoryLimit(rc, e) /\ rc \in OutputLimitCodes -> "output_limit_exceeded"
    [] OTHER -> IF rc # 0 THEN "runtime_error" ELSE "ok"

\* Mutant: only positive return codes are failures.
RunStatusIgnoresSignals(rc, e) ==
  CASE rc = 124 -> "time_limit_exceeded"
    [] rc \in OutputLimitCodes -> "output_limit_exceeded"
    [] rc # 124 /\ rc \notin OutputLimitCodes /\ MemoryLimit(rc, e) -> "memory_limit_exceeded"
    [] OTHER -> IF rc > 0 THEN "runtime_error" ELSE "ok"

\* The status of a run whose output is not looked at; "ok" if it is.
RunStatus(rc, e) ==
  CASE rc = 124 -> "time_limit_exceeded"
    [] rc \in OutputLimitCodes -> "output_limit_exceeded"
    [] rc # 124 /\ rc \notin OutputLimitCodes /\ MemoryLimit(rc, e) -> "memory_limit_exceeded"
    [] OTHER -> IF rc # 0 THEN "runtime_error" ELSE "ok"

-----------------------------------------------------------------------------
Init ==
  /\ task \in Tasks
  /\ stage = "program"
  /\ phase = "read"
  /\ box = "free"
  /\ sweeps = 0
  /\ outcome = [s \in Stages |-> NotRun]
  /\ returncode = 0
  /\ status = "none"

\* Mutant: the except clause returns nothing.
ReadInputReturnsNone ==
  /\ phase = "read"
  /\ phase' \in {"launch", "done"}
  /\ UNCHANGED <<task, stage, box, sweeps, outcome, returncode, status>>

\* The case directory, the input and the expected output, the artifacts.
ReadInput ==
  /\ phase = "read"
  /\ \/ phase' = "launch" /\ UNCHANGED status
     \/ phase' = "done" /\ status' = "system_error"
  /\ UNCHANGED <<task, stage, box, sweeps, outcome, returncode>>

\* The command at hand is over, with a return code unless an exception was raised.
Ends(e, code) ==
  /\ outcome' = [outcome EXCEPT ![stage] = e]
  /\ returncode' = IF e.cause = "raised" THEN returncode ELSE code

\* Where an ending leads after the finally, which may raise as it closes its files.
After(e) == IF e.cause = "raised" THEN {"unwind"} ELSE {"judge", "unwind"}

\* Before the try: the checker's files, the box, the temporary files.
PreparationRaises ==
  /\ phase = "launch"
  /\ phase' = "unwind"
  /\ UNCHANGED <<task, stage, box, sweeps, outcome, returncode, status>>

\* Mutant: a failed --init returns before the try whose finally cleans up.
InitBoxOutsideTry ==
  /\ phase = "launch"
  /\ task.mode[stage] = "isolate"
  /\ sweeps' = sweeps + 1
  /\ \/ box' = "ready" /\ phase' = "run" /\ UNCHANGED <<outcome, returncode>>
     \/ \E e \in InitFaults :
          /\ Ends(e, BoxReturncode(e))
          /\ box' \in IF e.cause \in {"init_stuck", "raised"} THEN {"free", "ready"} ELSE {box}
          /\ phase' \in After(e)
  /\ UNCHANGED <<task, stage, status>>

InitBox ==
  /\ phase = "launch"
  /\ task.mode[stage] = "isolate"
  /\ sweeps' = sweeps + 1
  /\ \/ box' = "ready" /\ phase' = "run" /\ UNCHANGED <<outcome, returncode>>
     \/ \E e \in InitFaults :
          /\ Ends(e, BoxReturncode(e))
          /\ box' \in IF e.cause \in {"init_stuck", "raised"} THEN {"free", "ready"} ELSE {box}
          /\ phase' = "cleanup"
  /\ UNCHANGED <<task, stage, status>>

\* Mutant: clean-up in the clauses that catch an exception and before the return,
\* instead of the finally.
RunBoxSweepsWhatItCatches ==
  /\ phase = "run"
  /\ \E e \in {x \in BoxEndings : Possible(x)} \cup RunFaults :
       /\ Ends(e, BoxReturncode(e))
       /\ box' = IF e.cause = "stuck" THEN "busy" ELSE box
       /\ phase' = IF e.cause = "raised" THEN "unwind" ELSE "cleanup"
  /\ UNCHANGED <<task, stage, sweeps, status>>

RunBox ==
  /\ phase = "run"
  /\ \E e \in {x \in BoxEndings : Possible(x)} \cup RunFaults :
       /\ Ends(e, BoxReturncode(e))
       /\ box' = IF e.cause = "stuck" THEN "busy" ELSE box
  /\ phase' = "cleanup"
  /\ UNCHANGED <<task, stage, sweeps, status>>

\* finally: --cleanup, whose failure nobody hears of.
CleanupBox ==
  /\ phase = "cleanup"
  /\ box' \in {"free", box}
  /\ sweeps' = sweeps - 1
  /\ phase' \in After(outcome[stage])
  /\ UNCHANGED <<task, stage, outcome, returncode, status>>

RunLocal ==
  /\ phase = "launch"
  /\ task.mode[stage] = "local"
  /\ \E e \in {x \in ProgramEndings : ~x.oom /\ Possible(x)} \cup Faults({"missing", "raised"}, {0}) :
       /\ Ends(e, LocalReturncode(e))
       /\ phase' \in After(e)
  /\ UNCHANGED <<task, stage, box, sweeps, status>>

Decide(s) ==
  /\ status' = s
  /\ phase' = "done"
  /\ UNCHANGED <<task, stage, box, sweeps, outcome, returncode>>

JudgeProgram ==
  /\ phase = "judge"
  /\ stage = "program"
  /\ LET s == RunStatus(returncode, outcome["program"])
     IN  CASE s # "ok" -> Decide(s)
           [] s = "ok" /\ task.verifier = "reference" -> Decide("accepted")
           [] s = "ok" /\ task.verifier = "compare" ->
                Decide(IF task.answer = "right" THEN "accepted" ELSE "wrong_answer")
           [] OTHER ->
                /\ stage' = "checker"
                /\ phase' = "launch"
                /\ UNCHANGED <<task, box, sweeps, outcome, returncode, status>>

\* The checker accepts with exit code 0; any other return code rejects.
JudgeChecker ==
  /\ phase = "judge"
  /\ stage = "checker"
  /\ Decide(IF returncode = 0 THEN "accepted" ELSE "wrong_answer")

\* An exception that leaves the run of the program is a system_error of its case; one
\* that leaves the checker leaves _run_single_testcase.
Unwind ==
  /\ phase = "unwind"
  /\ Decide(IF stage = "program" THEN "system_error" ELSE "raised")

Terminated == phase = "done" /\ UNCHANGED vars

Step ==
  \/ ReadInput
  \/ PreparationRaises \/ InitBox \/ RunBox \/ CleanupBox \/ RunLocal
  \/ JudgeProgram \/ JudgeChecker \/ Unwind

Next == Step \/ Terminated

Spec == Init /\ [][Next]_vars

\* Every subprocess the agent waits for has a timeout.
FairSpec == Spec /\ WF_vars(Step)

-----------------------------------------------------------------------------
(* Properties.                                                              *)

Causes == {"not_run", "exit", "signal", "time_limit", "no_meta", "internal", "stuck",
           "init_failed", "init_stuck", "missing", "raised"}

\* Every variable stays in its range; the status is one the backend knows.
TypeOK ==
  /\ task \in Tasks
  /\ stage \in Stages
  /\ phase \in {"read", "launch", "run", "cleanup", "judge", "unwind", "done"}
  /\ box \in {"free", "ready", "busy"}
  /\ sweeps \in 0..1
  /\ outcome \in [Stages -> [cause : Causes, code : 0..255, oom : BOOLEAN,
                             flood : BOOLEAN, memoryText : BOOLEAN]]
  /\ returncode \in -64..255
  /\ status \in {"none", "accepted", "wrong_answer", "time_limit_exceeded",
                 "output_limit_exceeded", "memory_limit_exceeded", "runtime_error",
                 "system_error", "raised"}

\* Exit code 0 within every limit.  Of a box that left no metadata nothing is known
\* but that isolate itself exited with 0, and how much was printed.
EndedWell(e) ==
  /\ e.cause \in {"exit", "no_meta"} /\ e.code = 0
  /\ ~e.flood
  /\ e.cause = "exit" => ~e.oom

\* No failure of the program, of a limit or of the sandbox itself can end as
\* accepted: the program exited with 0 within every limit, and its answer was
\* compared, checked by a checker that itself exited with 0, or is the reference.
AcceptedIsEarned ==
  status = "accepted" =>
    /\ EndedWell(outcome["program"])
    /\ CASE task.verifier = "compare" -> task.answer = "right"
         [] task.verifier = "checker" -> EndedWell(outcome["checker"])
         [] OTHER -> TRUE

\* A limit the program really hit is the status of the case, the output limit
\* before the memory limit and the memory limit before the time limit, unless the
\* agent itself failed after the run.
LimitsAreNamed ==
  status \notin {"none", "system_error"} /\ outcome["program"].cause \in {"exit", "signal", "time_limit"} =>
    LET program == outcome["program"]
    IN  CASE program.flood -> status = "output_limit_exceeded"
          [] ~program.flood /\ program.oom -> status = "memory_limit_exceeded"
          [] ~program.flood /\ ~program.oom /\ program.cause = "time_limit" ->
               status = "time_limit_exceeded"
          [] OTHER -> TRUE

\* Whatever happened in it, an exception that no clause catches included, a box is
\* cleaned exactly once for each time it was entered, before the status is decided,
\* the exception goes on or the checker's box is entered.
EveryBoxIsSwept == phase \in {"launch", "judge", "unwind", "done"} => sweeps = 0

\* A wrong answer is only given to a program that ended well and within every
\* limit: a crash or a limit is never mistaken for an answer.
WrongAnswerAfterCleanRun ==
  status = "wrong_answer" =>
    /\ EndedWell(outcome["program"])
    /\ task.request.language # "native" => ~outcome["program"].memoryText

\* Without a limit of the testcase or of the language, a program that keeps to the
\* limits of the problem, and waits for less than 2 s, is cut off by none: the
\* allowance of its language and the guards only ever add to them.
ProblemLimitsSuffice ==
  LET program == outcome["program"]
      r == task.request
  IN  /\ program.cause = "time_limit" /\ task.mode["program"] = "isolate"
           /\ r.problemTime # Unset /\ r.languageTime = Unset /\ ~Decides(r.caseTime) =>
         task.use.cpu > r.problemTime \/ task.use.idle > 2000
      /\ program.oom /\ r.problemMemory # Unset /\ r.languageMemory = Unset
           /\ ~Decides(r.caseMemory) =>
         task.use.memory > r.problemMemory

\* The guards around a command lie inside each other with room between: the CPU
\* limit, 2 s before the wall limit of isolate (the room for the contention of
\* parallel cases), 5 s before the agent gives up; and a JVM is given half of the
\* memory of its box at least, three quarters at most (deploy/README.md:155-158).
GuardsNest ==
  /\ 0 < Limits.time
  /\ Limits.time + 2000 <= WallTime(Limits.time)
  /\ Limits.time + 7000 <= Patience(Limits.time)
  /\ InitialHeap(Limits.memory) <= Heap(Limits.memory)
  /\ Limits.memory \div 2 <= Heap(Limits.memory)
  /\ 4 * Heap(Limits.memory) <= 3 * Limits.memory

\* What the answer is worth: an accepted run earned it, a rejected one could have.
AnswersAreEarned == AcceptedIsEarned /\ WrongAnswerAfterCleanRun

\* Every case gets a status, though programs, isolate and its --init may hang.
CaseEnds == <>(phase = "done" /\ status # "none")

\* deploy/README.md:102-103: a case is finally a time limit exceeded only if it
\* exceeds the time limit when it runs alone.
TimeLimitMeansTime ==
  status = "time_limit_exceeded" =>
    outcome["program"].cause \in {"time_limit", "stuck"}
=============================================================================
