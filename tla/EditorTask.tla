----------------------------- MODULE EditorTask -----------------------------
(***************************************************************************)
(* One call of EditorExecutor._execute (app/editor_executor.py): the       *)
(* executor thread, the `docker run` client it starts and polls, the       *)
(* container, and the supervisor inside it (EditorSupervisor).             *)
(*                                                                         *)
(* `docker run` creates the container, starts it, copies its output to     *)
(* result.json and exits after it; the client can be lost at any point,    *)
(* and nothing ties the life of the container to it.                       *)
(***************************************************************************)
EXTENDS EditorSupervisor

VARIABLES
  pc,         \* where the executor thread is
  folder,     \* the working folder: "none", "present", "deleted" or "undeletable"
  client,     \* the process of `docker run`
  container,  \* "none", "created", "started" or "removed"
  file,       \* result.json: "incomplete" (nothing, or no JSON), "whole" or "large"
  cancelled,  \* does cancelled() answer True?
  removal,    \* how `docker rm -fv` went
  outcome     \* what _execute returns or raises

task_vars == <<pc, folder, client, container, file, cancelled, removal, outcome>>
vars == <<task_vars, supervisor_vars>>

-----------------------------------------------------------------------------
Outcome(kind, value) == [kind |-> kind, reply |-> value]
Pending == Outcome("none", NoReply)
Raised  == Outcome("raised", NoReply)

\* The result made up for a container that ran out of memory.
OomReply == [status |-> "memory-limit", zero |-> FALSE, stopped |-> FALSE,
             interactor |-> "none", final |-> FALSE, size |-> "fits"]

ClientGone == client \in {"none", "exited", "killed"}

Init ==
  /\ InitSupervisor
  /\ pc = "fetch"
  /\ folder = "none"
  /\ client = "none"
  /\ container = "none"
  /\ file = "incomplete"
  /\ cancelled = FALSE
  /\ removal = "none"
  /\ outcome = Pending

\* The body of the try ends, with a result or an exception: on to the finally.
Leave(o) ==
  /\ outcome' = o
  /\ pc' = "remove"

-----------------------------------------------------------------------------
(* The executor thread.                                                     *)

\* The archive is read, checked and unpacked; nothing to clean up yet.
Fetch ==
  /\ pc = "fetch"
  /\ \/ pc' = "prepare" /\ folder' = "present" /\ UNCHANGED outcome
     \/ pc' = "done" /\ outcome' = Raised /\ UNCHANGED folder
  /\ UNCHANGED <<client, container, file, cancelled, removal, supervisor_vars>>

\* input.json is written and docker started.
Prepare ==
  /\ pc = "prepare"
  /\ \/ pc' = "polling" /\ client' = "creating" /\ UNCHANGED outcome
     \/ Leave(Raised) /\ UNCHANGED client
  /\ UNCHANGED <<folder, container, file, cancelled, removal, supervisor_vars>>

\* Mutant: no deadline, and nobody asks whether the task is cancelled.
PollForever ==
  /\ pc = "polling"
  /\ ClientGone
  /\ pc' = "settle"
  /\ UNCHANGED <<folder, client, container, file, cancelled, removal, outcome,
                 supervisor_vars>>

\* The polling loop ends: the client is gone, or a test in the body raises.  The
\* deadline (wall_seconds + 15 s) may have passed whenever it is looked at, and the
\* client may exit between proc.poll() and the tests.
Poll ==
  /\ pc = "polling"
  /\ \/ ClientGone /\ pc' = "settle" /\ UNCHANGED outcome
     \/ Leave(Raised)                    \* cancelled, overdue or file = "large"
  /\ UNCHANGED <<folder, client, container, file, cancelled, removal, supervisor_vars>>

\* Mutant: no test after the loop.
SettleAnyway ==
  /\ pc = "settle"
  /\ pc' = "parse"
  /\ UNCHANGED <<folder, client, container, file, cancelled, removal,
                 outcome, supervisor_vars>>

\* The tests after the loop.
Settle ==
  /\ pc = "settle"
  /\ IF cancelled \/ file = "large"
     THEN Leave(Raised)
     ELSE pc' = "parse" /\ UNCHANGED outcome
  /\ UNCHANGED <<folder, client, container, file, cancelled, removal,
                 supervisor_vars>>

\* Mutant: the result is not validated.
ParseUnvalidated ==
  /\ pc = "parse"
  /\ IF file = "whole"
     THEN Leave(Outcome("result", reply))
     ELSE pc' = "inspect" /\ UNCHANGED outcome
  /\ UNCHANGED <<folder, client, container, file, cancelled, removal, supervisor_vars>>

\* json.loads and validate_result.  The exit code of the client is not looked at.
Parse ==
  /\ pc = "parse"
  /\ CASE file = "whole" /\ reply.size = "refused" -> Leave(Raised)
       [] file = "whole" /\ reply.size # "refused" -> Leave(Outcome("result", reply))
       [] OTHER -> pc' = "inspect" /\ UNCHANGED outcome
  /\ UNCHANGED <<folder, client, container, file, cancelled, removal,
                 supervisor_vars>>

\* No JSON: docker inspect, which may fail, tells a container that ran out of
\* memory from a fault of the environment.
Inspect ==
  /\ pc = "inspect"
  /\ \/ container \in {"created", "started"} /\ oom /\ Leave(Outcome("result", OomReply))
     \/ Leave(Raised)
  /\ UNCHANGED <<folder, client, container, file, cancelled, removal,
                 supervisor_vars>>

\* The container is gone, with every process in it.
Removed ==
  /\ container \in {"created", "started"}
  /\ container' = "removed"
  /\ IF Up
     THEN Down(reply) /\ UNCHANGED <<interactive, over, shown, late, oom, supervise_vars>>
     ELSE UNCHANGED supervisor_vars

Unremoved == UNCHANGED <<container, supervisor_vars>>

\* Mutant: the container is taken to be gone with its client.
RemoveUnlessExited ==
  /\ pc = "remove"
  /\ \/ removal' = "ok" /\ client # "exited" /\ Removed
     \/ removal' = "ok" /\ client = "exited" /\ Unremoved
     \/ removal' = "missed" /\ container = "none" /\ Unremoved
  /\ pc' = IF client = "none" THEN "delete" ELSE "reap"
  /\ UNCHANGED <<folder, client, file, cancelled, outcome>>

\* docker rm -fv.  Its exit code is not looked at; if it cannot be started or
\* does not end in 15 s, the exception leaves the finally at once.
Remove ==
  /\ pc = "remove"
  /\ \/ /\ \/ removal' = "ok" /\ Removed
           \/ removal' = "missed" /\ container = "none" /\ Unremoved
           \/ removal' = "failed" /\ Unremoved
        /\ pc' = IF client = "none" THEN "delete" ELSE "reap"
        /\ UNCHANGED outcome
     \/ /\ removal' = "raised"
        /\ Removed \/ Unremoved
        /\ pc' = "done"
        /\ outcome' = Raised
  /\ UNCHANGED <<folder, client, file, cancelled>>

\* Mutant: the client is given its time, but not killed.
ReapPatiently ==
  /\ pc = "reap"
  /\ pc' = "delete"
  /\ UNCHANGED <<folder, client, container, file, cancelled, removal,
                 outcome, supervisor_vars>>

\* proc.wait(5), or five seconds pass and the client is killed; if it is not gone
\* after five more, the second TimeoutExpired leaves the finally.
Reap ==
  /\ pc = "reap"
  /\ \/ /\ client' = IF ClientGone THEN client ELSE "killed"
        /\ pc' = "delete"
        /\ UNCHANGED outcome
     \/ /\ ~ClientGone
        /\ client' = "stuck"
        /\ pc' = "done"
        /\ outcome' = Raised
  /\ UNCHANGED <<folder, container, file, cancelled, removal, supervisor_vars>>

\* Mutant: the folder is left where it is.
DeleteNothing ==
  /\ pc = "delete"
  /\ pc' = "done"
  /\ UNCHANGED <<folder, client, container, file, cancelled, removal, outcome,
                 supervisor_vars>>

\* rmtree with ignore_errors: what cannot be deleted stays.
Delete ==
  /\ pc = "delete"
  /\ folder' \in {"deleted", "undeletable"}
  /\ pc' = "done"
  /\ UNCHANGED <<client, container, file, cancelled, removal, outcome,
                 supervisor_vars>>

Executor ==
  \/ Fetch \/ Prepare \/ Poll \/ Settle \/ Parse \/ Inspect
  \/ Remove \/ Reap \/ Delete

-----------------------------------------------------------------------------
(* docker, and what happens around the call.                                *)

ClientCreates ==
  /\ client = "creating"
  /\ container = "none"
  /\ client' = "starting"
  /\ container' = "created"
  /\ UNCHANGED <<pc, folder, file, cancelled, removal, outcome, supervisor_vars>>

ClientStarts ==
  /\ client = "starting"
  /\ container = "created"
  /\ client' = "attached"
  /\ container' = "started"
  /\ sup' = "setup"
  /\ UNCHANGED <<pc, folder, file, cancelled, removal, outcome, interactive,
                 program_vars, late, oom, supervise_vars, reply>>

\* The client copies what the container printed, and exits once that is over.
ClientEnds ==
  /\ client = "attached"
  /\ sup = "dead"
  /\ file' = CASE reply = NoReply        -> "incomplete"
               [] reply.size = "large"   -> "large"
               [] OTHER                  -> "whole"
  /\ client' = "exited"
  /\ UNCHANGED <<pc, folder, container, cancelled, removal, outcome,
                 supervisor_vars>>

\* The client is refused by docker, or loses it: result.json stays incomplete.
ClientFails ==
  /\ client \in {"creating", "starting", "attached"}
  /\ client' = "exited"
  /\ file' \in IF reply.size = "large" THEN {"incomplete", "large"} ELSE {"incomplete"}
  /\ UNCHANGED <<pc, folder, container, cancelled, removal, outcome,
                 supervisor_vars>>

\* The task is cancelled in the backend, or the lease on it is lost.
Cancel ==
  /\ pc \in {"fetch", "prepare", "polling", "settle"}   \* later nothing reads it
  /\ cancelled' = TRUE
  /\ UNCHANGED <<pc, folder, client, container, file, removal, outcome,
                 supervisor_vars>>

Docker == ClientCreates \/ ClientStarts \/ ClientEnds \/ ClientFails

Next ==
  \/ Executor
  \/ Docker
  \/ Cancel
  \/ (Supervisor \/ Surroundings) /\ UNCHANGED task_vars

Spec == Init /\ [][Next]_vars

\* The executor thread, the supervisor and the clock go on.  Neither docker nor
\* the programs are trusted to.
FairSpec ==
  /\ Spec
  /\ WF_vars(Executor)
  /\ WF_vars(Supervisor /\ UNCHANGED task_vars)
  /\ WF_vars(WallLimitPasses /\ UNCHANGED task_vars)
-----------------------------------------------------------------------------
(* Properties.                                                              *)

\* Every variable stays in its range.
TypeOK ==
  /\ pc \in {"fetch", "prepare", "polling", "settle", "parse",
             "inspect", "remove", "reap", "delete", "done"}
  /\ folder \in {"none", "present", "deleted", "undeletable"}
  /\ client \in {"none", "creating", "starting", "attached", "exited", "killed", "stuck"}
  /\ container \in {"none", "created", "started", "removed"}
  /\ file \in {"incomplete", "whole", "large"}
  /\ cancelled \in BOOLEAN
  /\ removal \in {"none", "ok", "missed", "failed", "raised"}
  /\ outcome \in [kind : {"none", "raised", "result"}, reply : Reply \cup {NoReply}]
  /\ SupervisorTypeOK

\* What a call may leave behind when it is over, and after what: a container if
\* docker rm raised, failed or came before the container (never with a result in
\* that last case); the client if docker rm raised, or if the client could not be
\* killed and the call raised for it; its folder in these two cases, or if rmtree
\* was called and could not delete it.
NothingOutlivesTheCall ==
  pc = "done" =>
    /\ container \in {"created", "started"} =>
         \/ removal \in {"failed", "raised"}
         \/ removal = "missed" /\ outcome = Raised
    /\ ~ClientGone => removal = "raised" \/ (client = "stuck" /\ outcome = Raised)
    /\ folder = "present" => removal = "raised" \/ client = "stuck"

\* As long as the client may write to it, the folder of the task exists.
FolderOutlivesClient == ~ClientGone => folder = "present"

\* Clean-up is complete, and not too early.
CleanUpIsInOrder == NothingOutlivesTheCall /\ FolderOutlivesClient

\* A result says ok only of a solution whose whole process tree ended by itself,
\* without a limit exceeded in any sample or in the evidence, and (when it is the
\* solution's) with an output nobody could write to any more; or of a solution that
\* was stopped because of the interactor.
OkIsMeasured ==
  outcome.kind = "result" /\ outcome.reply.status = "ok" =>
    \/ outcome.reply.stopped
    \/ /\ solution \in {"zero", "nonzero"}
       /\ shown = {}
       /\ ~interactive => outcome.reply.final

\* No limit is blamed that was not exceeded; a solution that ended with exit code
\* 0 is not given a memory limit for what it printed.
LimitIsReal ==
  outcome.kind = "result" =>
    CASE outcome.reply.status = "time-limit"   -> "cpu" \in over \/ solution = "sigxcpu"
      [] outcome.reply.status = "wall-limit"   -> late
      [] outcome.reply.status = "output-limit" -> solution = "sigxfsz"
      [] outcome.reply.status = "memory-limit" -> "memory" \in over \/ oom
                                                  \/ solution # "zero"
      [] OTHER -> TRUE

\* The interactor accepts only by ending with exit code 0 itself, its transcript
\* being final, and a solution is stopped for its sake only when it did not.
InteractorAccepts ==
  outcome.kind = "result" /\ interactive /\ outcome.reply # OomReply =>
    /\ outcome.reply.interactor = "zero" => interactor = "zero" /\ outcome.reply.final
    /\ outcome.reply.stopped => outcome.reply.interactor = "nonzero"

\* A result is the one the supervisor printed, read whole, or stands for a
\* container that ran out of memory and printed nothing that can be read.
ResultIsPrinted ==
  outcome.kind = "result" =>
    \/ outcome.reply = reply /\ reply.size = "fits" /\ sup = "dead"
    \/ outcome.reply = OomReply /\ oom /\ file # "whole"

\* A result tells what happened: of the solution, of the interactor, of the output.
ResultIsTrue == OkIsMeasured /\ LimitIsReal /\ InteractorAccepts /\ ResultIsPrinted

\* A task cancelled before the tests after the polling loop returns no result.
CancelledRaises ==
  cancelled /\ pc \in {"fetch", "prepare", "polling"} ~>
    outcome.kind = "raised"

\* Every call ends, whatever docker, the client and the programs do.
TaskEnds == <>(pc = "done" /\ outcome # Pending)

\* A container that outlives its call comes to an end by itself.
EscapeesEnd == Up ~> ~Up

\* The call comes to its end, and so does what escapes it.
EverythingEnds == TaskEnds /\ EscapeesEnd
-----------------------------------------------------------------------------
(* The inductive invariant behind the properties, in named parts.           *)

\* Where the executor thread is says what there is to clean up.
ExecutorInv ==
  /\ pc \in {"fetch", "prepare"} => client = "none"
  /\ pc \in {"polling", "settle", "parse", "inspect", "reap"} => client # "none"
  /\ pc \in {"settle", "parse", "inspect"} => ClientGone
  /\ pc = "fetch" => folder = "none"
  /\ pc \in {"prepare", "polling", "settle", "parse", "inspect", "remove", "reap", "delete"} =>
       folder = "present"
  /\ pc = "delete" => ClientGone
  /\ pc = "inspect" => file # "whole"
  /\ pc \in {"remove", "reap", "delete", "done"} <=> outcome # Pending
  /\ pc \in {"reap", "delete"} => removal \in {"ok", "missed", "failed"}
  /\ pc \notin {"reap", "delete", "done"} => removal = "none"

\* The container follows the client, and the supervisor the container.
ContainerInv ==
  /\ client \in {"none", "creating"} => container = "none"
  /\ client = "starting" => container \in {"created", "removed"}
  /\ client = "attached" => container \in {"started", "removed"}
  /\ Up => container = "started"
  /\ container \in {"none", "created"} => sup = "off"
  /\ container = "started" => sup # "off"
  /\ removal = "ok" => container = "removed"

\* What the supervisor knows of the solution, step by step.
SolutionInv ==
  /\ sup \in {"off", "setup"} =>
       solution = "none" /\ interactor = "none" /\ verdict = "ok" /\ ~stopped
  /\ sup \in {"watch", "sample", "stop"} => solution \in {"running", "broken"} \cup Recorded
  /\ sup \in {"watch", "sample"} => verdict = "ok" /\ ~stopped
  /\ sup = "stop" => verdict # "ok" \/ stopped
  /\ sup \in {"measure", "await", "print"} => solution \in Endings
  /\ sup = "measure" /\ solution = "killed" => verdict # "ok" \/ stopped
  /\ sup \in {"await", "print"} /\ verdict = "ok" =>
       stopped \/ (solution \in {"zero", "nonzero"} /\ shown = {})
  /\ "solution" \in strays => solution \in {"killed", "broken"}
  /\ "interactor" \in strays => interactor \in {"nonzero", "killed"}
  /\ interactor # "none" => interactive
  /\ interactive => interactor # "none" \/ sup \in {"off", "setup", "dead"}
  /\ sup = "print" => interactor # "running"
  /\ stopped => interactor = "nonzero"

\* No verdict without its reason.
VerdictInv ==
  /\ verdict = "time-limit" => "cpu" \in over \/ solution = "sigxcpu"
  /\ verdict = "memory-limit" => "memory" \in over
  /\ verdict = "wall-limit" => late
  /\ verdict = "output-limit" => solution = "sigxfsz"

\* A reply is final, and says of the solution what the supervisor found.
ReplyInv ==
  reply # NoReply =>
    /\ sup = "dead"
    /\ solution \in Endings
    /\ interactor # "running"
    /\ strays = {}
    /\ reply.status = "ok" =>
         \/ reply.stopped
         \/ solution \in {"zero", "nonzero"} /\ shown = {} /\ (~interactive => reply.final)
    /\ reply.status = "time-limit" => "cpu" \in over \/ solution = "sigxcpu"
    /\ reply.status = "memory-limit" => "memory" \in over \/ solution # "zero"
    /\ reply.status = "wall-limit" => late
    /\ reply.status = "output-limit" => solution = "sigxfsz"
    /\ reply.interactor = "zero" => interactor = "zero" /\ (interactive => reply.final)
    /\ reply.stopped /\ interactive => reply.interactor = "nonzero"

\* What the call returns is the reply, or the stand-in for one.
OutcomeInv ==
  /\ file = "whole" => reply # NoReply /\ reply.size # "large"
  /\ file = "whole" \/ outcome.kind = "result" => container \in {"created", "started", "removed"}
  /\ file = "whole" => ClientGone
  /\ outcome.kind # "result" => outcome \in {Pending, Raised}
  /\ outcome.kind = "result" => ClientGone
  /\ outcome.kind = "result" /\ removal # "none" => removal \in {"ok", "failed"}

IndInv ==
  /\ TypeOK
  /\ ExecutorInv
  /\ ContainerInv
  /\ SolutionInv
  /\ VerdictInv
  /\ ReplyInv
  /\ OutcomeInv
  /\ CleanUpIsInOrder
  /\ ResultIsPrinted
=============================================================================
