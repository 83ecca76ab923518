-------------------------- MODULE EditorSupervisor --------------------------
(***************************************************************************)
(* What runs inside the container of an Editor task: the supervisor        *)
(* (editor-runtime/execute.py), which starts the solution and, in an       *)
(* interactive task, the interactor, each under the launcher               *)
(* (editor-runtime/launch.c), samples the solution every 10 ms, stops it   *)
(* when it exceeds a limit or when the interactor gives up, and prints one *)
(* JSON object.                                                            *)
(*                                                                         *)
(* The supervisor, the two programs, the clock and the memory limit of the *)
(* container take steps of their own.  A program stands for its whole      *)
(* process tree with its launcher: the launcher, a subreaper, ends and     *)
(* writes its evidence only after the last process of the tree.            *)
(***************************************************************************)

VARIABLES
  interactive,   \* config["interactive"]
  sup,           \* where the supervisor is: "off" before the container starts
  solution,      \* the solution: "none", "running" or how it ended
  strays,        \* the programs with processes that outlive their launcher
  over,          \* the limits the solution has really exceeded
  shown,         \* those of them that the samples and the evidence have shown
  late,          \* has wall_seconds passed since supervise() began?
  interactor,    \* the interactor: "none", "running" or how it ended
  oom,           \* State.OOMKilled of the container
  verdict,       \* the local variable of supervise()
  stopped,       \* stopped_by_interactor
  reply          \* what the supervisor has printed

program_vars == <<solution, strays, over, shown, interactor>>
supervise_vars == <<verdict, stopped>>
supervisor_vars == <<interactive, sup, program_vars, late, oom, supervise_vars, reply>>

-----------------------------------------------------------------------------
Statuses == {"ok", "time-limit", "memory-limit", "wall-limit", "output-limit"}

\* What the evidence of a launcher can say; "killed" (by stop) and "broken" (by
\* the kernel, or a launcher that could not set up) leave no evidence.
Recorded == {"zero", "nonzero", "sigxcpu", "sigxfsz"}
Endings == Recorded \cup {"killed", "broken"}

\* A reply.  `final` is no field of it but the fact that nothing could write to the
\* output any more when it was read.  By its size it "fits", is "refused" by
\* validate_result (artifacts of more than 32 MiB together) or is "large" (more than
\* MAX_WIRE_BYTES).
Sizes == {"fits", "refused", "large"}

Reply == [status : Statuses, zero : BOOLEAN, stopped : BOOLEAN,
          interactor : {"none", "zero", "nonzero"}, final : BOOLEAN, size : Sizes]

NoReply == [status |-> "none", zero |-> FALSE, stopped |-> FALSE,
            interactor |-> "none", final |-> FALSE, size |-> "fits"]

Up == sup \notin {"off", "dead"}

InitSupervisor ==
  /\ interactive \in BOOLEAN
  /\ sup = "off"
  /\ solution = "none"
  /\ strays = {}
  /\ over = {}
  /\ shown = {}
  /\ late = FALSE
  /\ interactor = "none"
  /\ oom = FALSE
  /\ verdict = "ok"
  /\ stopped = FALSE
  /\ reply = NoReply

-----------------------------------------------------------------------------
(* The programs, the clock and the kernel.                                  *)

\* A process of the program may have left the group of its launcher and live on.
MayLeave(program) == strays' \in {strays, strays \cup {program}}

\* The solution exceeds a limit: its CPU time, or its memory.
Exceeds ==
  /\ solution = "running"
  /\ \E limit \in {"cpu", "memory"} : over' = over \cup {limit}
  /\ UNCHANGED <<interactive, sup, solution, strays, shown, late, interactor, oom,
                 supervise_vars, reply>>

\* Mutant: the launcher waits for its child alone.
ChildEnds ==
  /\ solution = "running"
  /\ solution' \in Recorded
  /\ MayLeave("solution")
  /\ UNCHANGED <<interactive, sup, over, shown, late, interactor, oom, supervise_vars, reply>>

\* The last process of the tree has ended, and the launcher records it.
SolutionEnds ==
  /\ solution = "running"
  /\ solution' \in Recorded
  /\ UNCHANGED <<interactive, sup, strays, over, shown, late, interactor, oom,
                 supervise_vars, reply>>

\* The launcher fails before its fork, or does not get to write its evidence.
SolutionBreaks ==
  /\ solution = "running"
  /\ solution' = "broken"
  /\ MayLeave("solution")
  /\ UNCHANGED <<interactive, sup, over, shown, late, interactor, oom, supervise_vars, reply>>

InteractorEnds ==
  /\ interactor = "running"
  /\ interactor' \in {"zero", "nonzero"}
  /\ UNCHANGED <<interactive, sup, solution, strays, over, shown, late, oom,
                 supervise_vars, reply>>

\* The launcher of the interactor fails, or is killed by the kernel.
InteractorBreaks ==
  /\ interactor = "running"
  /\ interactor' = "nonzero"
  /\ MayLeave("interactor")
  /\ UNCHANGED <<interactive, sup, solution, over, shown, late, oom, supervise_vars, reply>>

WallLimitPasses ==
  /\ sup \in {"watch", "sample"}
  /\ late' = TRUE
  /\ UNCHANGED <<interactive, sup, program_vars, oom, supervise_vars, reply>>

\* The container ends with its first process, and takes every other with it.
Down(printed) ==
  /\ sup' = "dead"
  /\ reply' = printed
  /\ solution' = IF solution = "running" THEN "killed" ELSE solution
  /\ interactor' = IF interactor = "running" THEN "killed" ELSE interactor
  /\ strays' = {}

\* The memory of the container is used up: some process is killed, of a program
\* (which ends by itself in this model), or the supervisor.
OutOfMemory ==
  /\ Up
  /\ oom' = TRUE
  /\ Down(reply) \/ UNCHANGED <<sup, reply, solution, interactor, strays>>
  /\ UNCHANGED <<interactive, over, shown, late, supervise_vars>>

-----------------------------------------------------------------------------
(* The supervisor.                                                          *)

\* An exception ends it without a reply.
Raise ==
  /\ Down(NoReply)
  /\ UNCHANGED <<interactive, over, shown, late, oom, supervise_vars>>

\* The files are written and the programs started, the interactor first.
StartPrograms ==
  /\ sup = "setup"
  /\ \/ /\ sup' = "watch"
        /\ solution' = "running"
        /\ interactor' = IF interactive THEN "running" ELSE "none"
        /\ UNCHANGED <<interactive, strays, over, shown, late, oom, supervise_vars, reply>>
     \/ Raise

\* wait4(WNOHANG).
Watch ==
  /\ sup = "watch"
  /\ sup' = IF solution \in Endings THEN "measure" ELSE "sample"
  /\ UNCHANGED <<interactive, program_vars, late, oom, supervise_vars, reply>>

\* Mutant: the wall limit is not tested.
SampleTimeless ==
  /\ sup = "sample"
  /\ \E seen \in SUBSET over :
       /\ shown' = shown \cup seen
       /\ verdict' = CASE "cpu" \in seen    -> "time-limit"
                       [] seen = {"memory"} -> "memory-limit"
                       [] OTHER             -> "ok"
  /\ stopped' = (verdict' = "ok" /\ interactor = "nonzero")
  /\ sup' = IF verdict' # "ok" \/ stopped' THEN "stop" ELSE "watch"
  /\ UNCHANGED <<interactive, solution, strays, over, interactor, late, oom, reply>>

\* One sample and the tests on it.  A sample adds up the live processes only: it
\* may miss what the solution has exceeded, and the solution may be gone by now.
Sample ==
  /\ sup = "sample"
  /\ \E seen \in SUBSET over :
       /\ shown' = shown \cup seen
       /\ verdict' = CASE "cpu" \in seen    -> "time-limit"
                       [] seen = {"memory"} -> "memory-limit"
                       [] seen = {} /\ late -> "wall-limit"
                       [] OTHER             -> "ok"
  /\ stopped' = (verdict' = "ok" /\ interactor = "nonzero")
  /\ sup' = IF verdict' # "ok" \/ stopped' THEN "stop" ELSE "watch"
  /\ UNCHANGED <<interactive, solution, strays, over, interactor, late, oom, reply>>

\* stop() kills the process group of the launcher; a process that has left the
\* group lives on.  The solution may have ended since the sample.
Stop ==
  /\ sup = "stop"
  /\ IF solution = "running"
     THEN solution' = "killed" /\ MayLeave("solution")
     ELSE UNCHANGED <<solution, strays>>
  /\ sup' = "measure"
  /\ UNCHANGED <<interactive, over, shown, late, interactor, oom, supervise_vars, reply>>

\* Mutant: the evidence corrects the exit code only.
MeasureSamplesOnly ==
  /\ sup = "measure"
  /\ LET recorded == solution \in Recorded
     IN  IF ~recorded /\ verdict = "ok" /\ ~stopped
         THEN Raise
         ELSE /\ \E evident \in SUBSET (IF recorded THEN over ELSE {}) : shown' = shown \cup evident
              /\ verdict' = CASE verdict # "ok"       -> verdict
                              [] solution = "sigxcpu" -> "time-limit"
                              [] solution = "sigxfsz" -> "output-limit"
                              [] OTHER                -> "ok"
              /\ sup' = IF interactive THEN "await" ELSE "print"
              /\ UNCHANGED <<interactive, solution, strays, over, interactor, late, oom,
                             stopped, reply>>

\* The evidence, when there is any, adds to the samples and corrects the exit code.
\* It need not show every excess: the launcher adds up the CPU time of the processes
\* it reaps (one whose parent ignores SIGCHLD is reaped by nobody), and it keeps the
\* memory of the largest of them, while the limit is on the sum.
Measure ==
  /\ sup = "measure"
  /\ LET recorded == solution \in Recorded
     IN  IF ~recorded /\ verdict = "ok" /\ ~stopped
         THEN Raise
         ELSE /\ \E evident \in SUBSET (IF recorded THEN over ELSE {}) : shown' = shown \cup evident
              /\ verdict' = CASE verdict # "ok"       -> verdict
                              [] solution = "sigxcpu" \/ "cpu" \in shown' -> "time-limit"
                              [] "memory" \in shown'  -> "memory-limit"
                              [] solution = "sigxfsz" -> "output-limit"
                              [] OTHER                -> "ok"
              /\ sup' = IF interactive THEN "await" ELSE "print"
              /\ UNCHANGED <<interactive, solution, strays, over, interactor, late, oom,
                             stopped, reply>>

\* The interactor gets two more seconds; then stop() kills its group, like that of
\* the solution.
AwaitInteractor ==
  /\ sup = "await"
  /\ IF interactor = "running"
     THEN interactor' = "killed" /\ MayLeave("interactor")
     ELSE UNCHANGED <<interactor, strays>>
  /\ sup' = "print"
  /\ UNCHANGED <<interactive, solution, over, shown, late, oom, supervise_vars, reply>>

\* The program that writes the output: the interactor its transcript, or else the
\* solution its stdout or file.
Writer == IF interactive THEN "interactor" ELSE "solution"

\* Mutant: the message is believed whatever the exit code.
PrintedAnyMessage(message, size) ==
  [ status     |-> IF verdict = "ok" /\ message THEN "memory-limit" ELSE verdict,
    zero       |-> solution = "zero",
    stopped    |-> stopped,
    interactor |-> IF interactor = "killed" THEN "nonzero" ELSE interactor,
    final      |-> Writer \notin strays,
    size       |-> size ]

\* Mutant: an interactor that had to be killed is not held against the solution.
PrintedForgiving(message, size) ==
  [ status     |-> IF verdict = "ok" /\ solution # "zero" /\ message
                   THEN "memory-limit" ELSE verdict,
    zero       |-> solution = "zero",
    stopped    |-> stopped,
    interactor |-> IF interactor = "killed" THEN "zero" ELSE interactor,
    final      |-> Writer \notin strays,
    size       |-> size ]

\* What is printed; `message` says that stderr holds a message of a runtime that
\* ran out of memory.
Printed(message, size) ==
  [ status     |-> IF verdict = "ok" /\ solution # "zero" /\ message
                   THEN "memory-limit" ELSE verdict,
    zero       |-> solution = "zero",
    stopped    |-> stopped,
    interactor |-> IF interactor = "killed" THEN "nonzero" ELSE interactor,
    final      |-> Writer \notin strays,
    size       |-> size ]

\* Output and artifacts are collected and printed, and the container exits.  The
\* artifacts of a compiler may be refused.
PrintReply ==
  /\ sup = "print"
  /\ \/ \E message \in BOOLEAN, size \in Sizes : Down(Printed(message, size))
     \/ Down(NoReply)
  /\ UNCHANGED <<interactive, over, shown, late, oom, supervise_vars>>

Supervisor ==
  \/ StartPrograms \/ Watch \/ Sample \/ Stop \/ Measure \/ AwaitInteractor \/ PrintReply

Surroundings ==
  \/ Exceeds \/ SolutionEnds \/ SolutionBreaks \/ InteractorEnds \/ InteractorBreaks
  \/ WallLimitPasses \/ OutOfMemory

-----------------------------------------------------------------------------
\* Every variable stays in its range.
SupervisorTypeOK ==
  /\ interactive \in BOOLEAN
  /\ sup \in {"off", "setup", "watch", "sample", "stop", "measure", "await",
              "print", "dead"}
  /\ solution \in {"none", "running"} \cup Endings
  /\ strays \subseteq {"solution", "interactor"}
  /\ over \subseteq {"cpu", "memory"}
  /\ shown \subseteq over
  /\ late \in BOOLEAN
  /\ interactor \in {"none", "running", "zero", "nonzero", "killed"}
  /\ oom \in BOOLEAN
  /\ verdict \in Statuses
  /\ stopped \in BOOLEAN
  /\ reply \in Reply \cup {NoReply}
=============================================================================
