-------------------------- MODULE EditorTask_proofs --------------------------
(* Proofs for EditorTask: the invariant is inductive, so a result tells the   *)
(* truth and the clean-up is in order whatever docker, the programs and the   *)
(* backend do, and in any order.                                              *)
EXTENDS EditorTask, TLAPS

(* What a step of one side leaves of the invariant to the other.              *)

LEMMA NoReplyWhileUp == IndInv /\ Up => reply = NoReply
PROOF
  BY DEF IndInv, ReplyInv, Up

\* A step inside the container changes nothing about the call around it.
LEMMA CallKept ==
  ASSUME IndInv, UNCHANGED task_vars, UNCHANGED <<sup, reply>> \/ Up, oom => oom'
  PROVE  ExecutorInv' /\ OutcomeInv' /\ CleanUpIsInOrder' /\ ResultIsPrinted'
PROOF
  <1> USE DEF task_vars
  <1>1. ExecutorInv'
    BY DEF IndInv, ExecutorInv, ClientGone
  <1>2. OutcomeInv'
    BY NoReplyWhileUp DEF IndInv, OutcomeInv, ClientGone
  <1>3. CleanUpIsInOrder'
    BY DEF IndInv, CleanUpIsInOrder, NothingOutlivesTheCall, FolderOutlivesClient,
           ClientGone
  <1>4. ResultIsPrinted'
    BY DEF IndInv, ResultIsPrinted, Up
  <1> QED BY <1>1, <1>2, <1>3, <1>4

\* A step of the call, or of docker, that spares the container changes nothing in it.
LEMMA ContainerKept ==
  ASSUME IndInv, UNCHANGED supervisor_vars
  PROVE  SupervisorTypeOK' /\ SolutionInv' /\ VerdictInv' /\ ReplyInv'
PROOF
  <1> USE DEF supervisor_vars, program_vars, supervise_vars
  <1>1. SupervisorTypeOK'
    BY DEF IndInv, TypeOK, SupervisorTypeOK
  <1>2. SolutionInv' /\ VerdictInv'
    BY DEF IndInv, SolutionInv, VerdictInv
  <1>3. ReplyInv'
    BY DEF IndInv, ReplyInv
  <1> QED BY <1>1, <1>2, <1>3

\* When the container ends before it has printed, there is no reply.
LEMMA EndsSilently ==
  ASSUME IndInv, Up, Down(NoReply), UNCHANGED <<interactive, over, shown, late, supervise_vars>>,
         oom' \in BOOLEAN
  PROVE  SupervisorTypeOK' /\ SolutionInv' /\ VerdictInv' /\ ReplyInv'
PROOF
  <1> USE DEF Down, supervise_vars
  <1>1. SupervisorTypeOK'
    BY DEF IndInv, TypeOK, SupervisorTypeOK, Endings
  <1>2. SolutionInv'
    BY DEF IndInv, SolutionInv, TypeOK, SupervisorTypeOK, Endings
  <1>3. VerdictInv'
    BY DEF IndInv, VerdictInv
  <1>4. ReplyInv'
    BY DEF ReplyInv
  <1> QED BY <1>1, <1>2, <1>3, <1>4

\* The container ends in the steps of the supervisor and of the kernel, or is removed.
LEMMA ContainerDown ==
  ASSUME IndInv, Up, sup' = "dead", UNCHANGED container \/ container' = "removed",
         UNCHANGED <<client, removal>> \/ (container' = "removed" /\ UNCHANGED client)
  PROVE  ContainerInv'
PROOF
  BY DEF IndInv, ContainerInv, Up

-----------------------------------------------------------------------------
(* The steps inside the container.                                            *)

LEMMA TaskTyped == IndInv /\ UNCHANGED task_vars /\ SupervisorTypeOK' => TypeOK'
PROOF
  BY DEF IndInv, TypeOK, task_vars

LEMMA ExceedsIndInv == IndInv /\ Exceeds /\ UNCHANGED task_vars => IndInv'
PROOF
  <1> SUFFICES ASSUME IndInv, Exceeds, UNCHANGED task_vars PROVE IndInv'
    OBVIOUS
  <1>1. ExecutorInv' /\ OutcomeInv' /\ CleanUpIsInOrder' /\ ResultIsPrinted'
    BY CallKept DEF Exceeds, supervise_vars
  <1>2. SupervisorTypeOK'
    BY DEF Exceeds, supervise_vars, IndInv, TypeOK, SupervisorTypeOK
  <1>3. ContainerInv'
    BY DEF Exceeds, supervise_vars, IndInv, ContainerInv, Up, task_vars
  <1>4. SolutionInv'
    BY DEF Exceeds, supervise_vars, IndInv, SolutionInv
  <1>5. VerdictInv'
    BY DEF Exceeds, supervise_vars, IndInv, VerdictInv
  <1>6. ReplyInv'
    BY DEF Exceeds, supervise_vars, IndInv, ReplyInv
  <1> QED BY <1>1, <1>2, <1>3, <1>4, <1>5, <1>6, TaskTyped DEF IndInv

LEMMA SolutionEndsIndInv == IndInv /\ SolutionEnds /\ UNCHANGED task_vars => IndInv'
PROOF
  <1> SUFFICES ASSUME IndInv, SolutionEnds, UNCHANGED task_vars PROVE IndInv'
    OBVIOUS
  <1>1. ExecutorInv' /\ OutcomeInv' /\ CleanUpIsInOrder' /\ ResultIsPrinted'
    BY CallKept DEF SolutionEnds, supervise_vars
  <1>2. SupervisorTypeOK'
    BY DEF SolutionEnds, supervise_vars, IndInv, TypeOK, SupervisorTypeOK, Endings
  <1>3. ContainerInv'
    BY DEF SolutionEnds, supervise_vars, IndInv, ContainerInv, Up, task_vars
  <1>4. SolutionInv'
    BY DEF SolutionEnds, supervise_vars, IndInv, SolutionInv, Endings, Recorded
  <1>5. VerdictInv'
    BY DEF SolutionEnds, supervise_vars, IndInv, VerdictInv, Recorded
  <1>6. ReplyInv'
    BY DEF SolutionEnds, supervise_vars, IndInv, ReplyInv, Endings, Recorded
  <1> QED BY <1>1, <1>2, <1>3, <1>4, <1>5, <1>6, TaskTyped DEF IndInv

LEMMA SolutionBreaksIndInv == IndInv /\ SolutionBreaks /\ UNCHANGED task_vars => IndInv'
PROOF
  <1> SUFFICES ASSUME IndInv, SolutionBreaks, UNCHANGED task_vars PROVE IndInv'
    OBVIOUS
  <1>1. ExecutorInv' /\ OutcomeInv' /\ CleanUpIsInOrder' /\ ResultIsPrinted'
    BY CallKept DEF SolutionBreaks, MayLeave, supervise_vars
  <1>2. SupervisorTypeOK'
    BY DEF SolutionBreaks, MayLeave, supervise_vars, IndInv, TypeOK, SupervisorTypeOK, Endings
  <1>3. ContainerInv'
    BY DEF SolutionBreaks, MayLeave, supervise_vars, IndInv, ContainerInv, Up, task_vars
  <1>4. SolutionInv'
    BY DEF SolutionBreaks, MayLeave, supervise_vars, IndInv, SolutionInv, Endings
  <1>5. VerdictInv'
    BY DEF SolutionBreaks, MayLeave, supervise_vars, IndInv, VerdictInv
  <1>6. ReplyInv'
    BY DEF SolutionBreaks, MayLeave, supervise_vars, IndInv, ReplyInv, Endings, Recorded
  <1> QED BY <1>1, <1>2, <1>3, <1>4, <1>5, <1>6, TaskTyped DEF IndInv

LEMMA InteractorEndsIndInv == IndInv /\ InteractorEnds /\ UNCHANGED task_vars => IndInv'
PROOF
  <1> SUFFICES ASSUME IndInv, InteractorEnds, UNCHANGED task_vars PROVE IndInv'
    OBVIOUS
  <1>1. ExecutorInv' /\ OutcomeInv' /\ CleanUpIsInOrder' /\ ResultIsPrinted'
    BY CallKept DEF InteractorEnds, supervise_vars
  <1>2. SupervisorTypeOK'
    BY DEF InteractorEnds, supervise_vars, IndInv, TypeOK, SupervisorTypeOK
  <1>3. ContainerInv'
    BY DEF InteractorEnds, supervise_vars, IndInv, ContainerInv, Up, task_vars
  <1>4. SolutionInv'
    BY DEF InteractorEnds, supervise_vars, IndInv, SolutionInv
  <1>5. VerdictInv'
    BY DEF InteractorEnds, supervise_vars, IndInv, VerdictInv
  <1>6. ReplyInv'
    BY DEF InteractorEnds, supervise_vars, IndInv, ReplyInv
  <1> QED BY <1>1, <1>2, <1>3, <1>4, <1>5, <1>6, TaskTyped DEF IndInv

LEMMA InteractorBreaksIndInv == IndInv /\ InteractorBreaks /\ UNCHANGED task_vars => IndInv'
PROOF
  <1> SUFFICES ASSUME IndInv, InteractorBreaks, UNCHANGED task_vars PROVE IndInv'
    OBVIOUS
  <1>1. ExecutorInv' /\ OutcomeInv' /\ CleanUpIsInOrder' /\ ResultIsPrinted'
    BY CallKept DEF InteractorBreaks, MayLeave, supervise_vars
  <1>2. SupervisorTypeOK'
    BY DEF InteractorBreaks, MayLeave, supervise_vars, IndInv, TypeOK, SupervisorTypeOK
  <1>3. ContainerInv'
    BY DEF InteractorBreaks, MayLeave, supervise_vars, IndInv, ContainerInv, Up, task_vars
  <1>4. SolutionInv'
    BY DEF InteractorBreaks, MayLeave, supervise_vars, IndInv, SolutionInv
  <1>5. VerdictInv'
    BY DEF InteractorBreaks, MayLeave, supervise_vars, IndInv, VerdictInv
  <1>6. ReplyInv'
    BY DEF InteractorBreaks, MayLeave, supervise_vars, IndInv, ReplyInv
  <1> QED BY <1>1, <1>2, <1>3, <1>4, <1>5, <1>6, TaskTyped DEF IndInv

LEMMA WallLimitPassesIndInv == IndInv /\ WallLimitPasses /\ UNCHANGED task_vars => IndInv'
PROOF
  <1> SUFFICES ASSUME IndInv, WallLimitPasses, UNCHANGED task_vars PROVE IndInv'
    OBVIOUS
  <1>1. ExecutorInv' /\ OutcomeInv' /\ CleanUpIsInOrder' /\ ResultIsPrinted'
    BY CallKept DEF WallLimitPasses, program_vars, supervise_vars, Up
  <1>2. SupervisorTypeOK'
    BY DEF WallLimitPasses, program_vars, supervise_vars, IndInv, TypeOK, SupervisorTypeOK
  <1>3. ContainerInv'
    BY DEF WallLimitPasses, program_vars, supervise_vars, IndInv, ContainerInv, Up,
           task_vars
  <1>4. SolutionInv'
    BY DEF WallLimitPasses, program_vars, supervise_vars, IndInv, SolutionInv
  <1>5. VerdictInv'
    BY DEF WallLimitPasses, program_vars, supervise_vars, IndInv, VerdictInv
  <1>6. ReplyInv'
    BY DEF WallLimitPasses, program_vars, supervise_vars, IndInv, ReplyInv
  <1> QED BY <1>1, <1>2, <1>3, <1>4, <1>5, <1>6, TaskTyped DEF IndInv

LEMMA WatchIndInv == IndInv /\ Watch /\ UNCHANGED task_vars => IndInv'
PROOF
  <1> SUFFICES ASSUME IndInv, Watch, UNCHANGED task_vars PROVE IndInv'
    OBVIOUS
  <1>1. ExecutorInv' /\ OutcomeInv' /\ CleanUpIsInOrder' /\ ResultIsPrinted'
    BY CallKept DEF Watch, program_vars, supervise_vars, Up
  <1>2. SupervisorTypeOK'
    BY DEF Watch, program_vars, supervise_vars, IndInv, TypeOK, SupervisorTypeOK
  <1>3. ContainerInv'
    BY DEF Watch, program_vars, supervise_vars, IndInv, ContainerInv, Up, task_vars
  <1>4. SolutionInv'
    BY DEF Watch, program_vars, supervise_vars, IndInv, SolutionInv, Endings, Recorded,
           SupervisorTypeOK, TypeOK
  <1>5. VerdictInv'
    BY DEF Watch, program_vars, supervise_vars, IndInv, VerdictInv
  <1>6. ReplyInv'
    BY DEF Watch, program_vars, supervise_vars, IndInv, ReplyInv
  <1> QED BY <1>1, <1>2, <1>3, <1>4, <1>5, <1>6, TaskTyped DEF IndInv

LEMMA SampleIndInv == IndInv /\ Sample /\ UNCHANGED task_vars => IndInv'
PROOF
  <1> SUFFICES ASSUME IndInv, Sample, UNCHANGED task_vars PROVE IndInv'
    OBVIOUS
  <1>1. ExecutorInv' /\ OutcomeInv' /\ CleanUpIsInOrder' /\ ResultIsPrinted'
    BY CallKept DEF Sample, program_vars, Up
  <1>2. SupervisorTypeOK'
    BY DEF Sample, program_vars, IndInv, TypeOK, SupervisorTypeOK, Statuses
  <1>3. ContainerInv'
    BY DEF Sample, program_vars, IndInv, ContainerInv, Up, task_vars
  <1>4. SolutionInv'
    BY DEF Sample, program_vars, IndInv, SolutionInv
  <1>5. VerdictInv'
    BY DEF Sample, program_vars, IndInv, VerdictInv
  <1>6. ReplyInv'
    BY DEF Sample, program_vars, IndInv, ReplyInv
  <1> QED BY <1>1, <1>2, <1>3, <1>4, <1>5, <1>6, TaskTyped DEF IndInv

LEMMA StopIndInv == IndInv /\ Stop /\ UNCHANGED task_vars => IndInv'
PROOF
  <1> SUFFICES ASSUME IndInv, Stop, UNCHANGED task_vars PROVE IndInv'
    OBVIOUS
  <1>1. ExecutorInv' /\ OutcomeInv' /\ CleanUpIsInOrder' /\ ResultIsPrinted'
    BY CallKept DEF Stop, MayLeave, supervise_vars, Up
  <1>2. SupervisorTypeOK'
    BY DEF Stop, MayLeave, supervise_vars, IndInv, TypeOK, SupervisorTypeOK, Endings
  <1>3. ContainerInv'
    BY DEF Stop, MayLeave, supervise_vars, IndInv, ContainerInv, Up, task_vars
  <1>4. SolutionInv'
    BY DEF Stop, MayLeave, supervise_vars, IndInv, SolutionInv, Endings, Recorded
  <1>5. VerdictInv'
    BY DEF Stop, MayLeave, supervise_vars, IndInv, VerdictInv
  <1>6. ReplyInv'
    BY NoReplyWhileUp DEF Stop, MayLeave, supervise_vars, IndInv, ReplyInv, Up
  <1> QED BY <1>1, <1>2, <1>3, <1>4, <1>5, <1>6, TaskTyped DEF IndInv

LEMMA MeasureIndInv == IndInv /\ Measure /\ UNCHANGED task_vars => IndInv'
PROOF
  <1> SUFFICES ASSUME IndInv, Measure, UNCHANGED task_vars PROVE IndInv'
    OBVIOUS
  <1>1. ExecutorInv' /\ OutcomeInv' /\ CleanUpIsInOrder' /\ ResultIsPrinted'
    BY CallKept DEF Measure, program_vars, supervise_vars, Raise, Down, Up
  <1>2. SupervisorTypeOK'
    <2>1. SupervisorTypeOK
      BY DEF IndInv, TypeOK
    <2>2. CASE Raise
      BY <2>1, <2>2 DEF Raise, Down, supervise_vars, SupervisorTypeOK, Endings
    <2>3. CASE ~Raise
      <3>1. /\ verdict' \in {verdict, "time-limit", "memory-limit", "output-limit", "ok"}
            /\ sup' \in {"await", "print"}
            /\ shown' \subseteq over
            /\ UNCHANGED <<interactive, solution, strays, over, interactor, late, oom,
                           stopped, reply>>
        BY <2>1, <2>3 DEF Measure, SupervisorTypeOK
      <3> QED BY <2>1, <3>1 DEF SupervisorTypeOK, Statuses
    <2> QED BY <2>2, <2>3
  <1>3. ContainerInv'
    BY DEF Measure, program_vars, supervise_vars, Raise, Down, IndInv, ContainerInv, Up,
           task_vars
  <1>4. SolutionInv'
    BY DEF Measure, program_vars, supervise_vars, Raise, Down, IndInv, SolutionInv,
           Endings, Recorded, TypeOK, SupervisorTypeOK
  <1>5. VerdictInv'
    BY DEF Measure, program_vars, supervise_vars, Raise, Down, IndInv, VerdictInv,
           TypeOK, SupervisorTypeOK
  <1>6. ReplyInv'
    BY NoReplyWhileUp DEF Measure, program_vars, supervise_vars, Raise, Down, IndInv,
       ReplyInv, Up
  <1> QED BY <1>1, <1>2, <1>3, <1>4, <1>5, <1>6, TaskTyped DEF IndInv

LEMMA AwaitInteractorIndInv == IndInv /\ AwaitInteractor /\ UNCHANGED task_vars => IndInv'
PROOF
  <1> SUFFICES ASSUME IndInv, AwaitInteractor, UNCHANGED task_vars PROVE IndInv'
    OBVIOUS
  <1>1. ExecutorInv' /\ OutcomeInv' /\ CleanUpIsInOrder' /\ ResultIsPrinted'
    BY CallKept DEF AwaitInteractor, MayLeave, supervise_vars, Up
  <1>2. SupervisorTypeOK'
    BY DEF AwaitInteractor, MayLeave, supervise_vars, IndInv, TypeOK, SupervisorTypeOK
  <1>3. ContainerInv'
    BY DEF AwaitInteractor, MayLeave, supervise_vars, IndInv, ContainerInv, Up, task_vars
  <1>4. SolutionInv'
    BY DEF AwaitInteractor, MayLeave, supervise_vars, IndInv, SolutionInv
  <1>5. VerdictInv'
    BY DEF AwaitInteractor, MayLeave, supervise_vars, IndInv, VerdictInv
  <1>6. ReplyInv'
    BY NoReplyWhileUp DEF AwaitInteractor, MayLeave, supervise_vars, IndInv, ReplyInv, Up
  <1> QED BY <1>1, <1>2, <1>3, <1>4, <1>5, <1>6, TaskTyped DEF IndInv

LEMMA StartProgramsIndInv == IndInv /\ StartPrograms /\ UNCHANGED task_vars => IndInv'
PROOF
  <1> SUFFICES ASSUME IndInv, StartPrograms, UNCHANGED task_vars PROVE IndInv'
    OBVIOUS
  <1>1. Up /\ sup = "setup" /\ reply = NoReply
    BY NoReplyWhileUp DEF StartPrograms, Up
  <1>2. CASE Raise
    <2>1. Down(NoReply) /\ UNCHANGED <<interactive, over, shown, late, oom, supervise_vars>>
      BY <1>2 DEF Raise
    <2>2. SupervisorTypeOK' /\ SolutionInv' /\ VerdictInv' /\ ReplyInv'
      BY <1>1, <2>1, EndsSilently DEF IndInv, TypeOK, SupervisorTypeOK
    <2>3. ContainerInv'
      BY <1>1, <2>1, ContainerDown DEF Down, task_vars
    <2>4. ExecutorInv' /\ OutcomeInv' /\ CleanUpIsInOrder' /\ ResultIsPrinted'
      BY <1>1, <2>1, CallKept
    <2> QED BY <2>2, <2>3, <2>4, TaskTyped DEF IndInv
  <1>3. CASE /\ sup' = "watch" /\ solution' = "running"
             /\ interactor' = IF interactive THEN "running" ELSE "none"
             /\ UNCHANGED <<interactive, strays, over, shown, late, oom, supervise_vars, reply>>
    <2> USE DEF supervise_vars
    <2>1. SupervisorTypeOK'
      BY <1>3 DEF IndInv, TypeOK, SupervisorTypeOK
    <2>2. ContainerInv'
      BY <1>1, <1>3 DEF IndInv, ContainerInv, Up, task_vars
    <2>3. SolutionInv'
      BY <1>1, <1>3 DEF IndInv, SolutionInv
    <2>4. VerdictInv' /\ ReplyInv'
      BY <1>1, <1>3 DEF IndInv, SolutionInv, VerdictInv, ReplyInv
    <2>5. ExecutorInv' /\ OutcomeInv' /\ CleanUpIsInOrder' /\ ResultIsPrinted'
      BY <1>1, <1>3, CallKept
    <2> QED BY <2>1, <2>2, <2>3, <2>4, <2>5, TaskTyped DEF IndInv
  <1> QED BY <1>2, <1>3 DEF StartPrograms

LEMMA OutOfMemoryIndInv == IndInv /\ OutOfMemory /\ UNCHANGED task_vars => IndInv'
PROOF
  <1> SUFFICES ASSUME IndInv, OutOfMemory, UNCHANGED task_vars PROVE IndInv'
    OBVIOUS
  <1>1. /\ Up /\ reply = NoReply /\ oom' = TRUE
        /\ UNCHANGED <<interactive, over, shown, late, supervise_vars>>
    BY NoReplyWhileUp DEF OutOfMemory
  <1>2. ASSUME reply' = NoReply
        PROVE  ExecutorInv' /\ OutcomeInv' /\ CleanUpIsInOrder' /\ ResultIsPrinted'
    BY <1>1, CallKept
  <1>3. CASE Down(reply)
    <2>1. SupervisorTypeOK' /\ SolutionInv' /\ VerdictInv' /\ ReplyInv'
      BY <1>1, <1>3, EndsSilently
    <2>2. ContainerInv'
      BY <1>1, <1>3, ContainerDown DEF Down, task_vars
    <2> QED BY <1>1, <1>2, <1>3, <2>1, <2>2, TaskTyped DEF IndInv, Down
  <1>4. CASE UNCHANGED <<sup, reply, solution, interactor, strays>>
    <2> USE DEF supervise_vars
    <2>1. SupervisorTypeOK'
      BY <1>1, <1>4 DEF IndInv, TypeOK, SupervisorTypeOK
    <2>2. ContainerInv'
      BY <1>4 DEF IndInv, ContainerInv, Up, task_vars
    <2>3. SolutionInv' /\ VerdictInv'
      BY <1>1, <1>4 DEF IndInv, SolutionInv, VerdictInv
    <2>4. ReplyInv'
      BY <1>1, <1>4 DEF ReplyInv
    <2> QED BY <1>1, <1>2, <1>4, <2>1, <2>2, <2>3, <2>4, TaskTyped DEF IndInv
  <1> QED BY <1>3, <1>4 DEF OutOfMemory

LEMMA PrintReplyIndInv == IndInv /\ PrintReply /\ UNCHANGED task_vars => IndInv'
PROOF
  <1> SUFFICES ASSUME IndInv, PrintReply, UNCHANGED task_vars PROVE IndInv'
    OBVIOUS
  <1>1. /\ Up /\ sup = "print" /\ reply = NoReply
        /\ UNCHANGED <<interactive, over, shown, late, oom, supervise_vars>>
    BY NoReplyWhileUp DEF PrintReply, Up
  <1>2. CASE Down(NoReply)
    <2>1. SupervisorTypeOK' /\ SolutionInv' /\ VerdictInv' /\ ReplyInv'
      BY <1>1, <1>2, EndsSilently DEF IndInv, TypeOK, SupervisorTypeOK
    <2>2. ContainerInv'
      BY <1>1, <1>2, ContainerDown DEF Down, task_vars
    <2>3. ExecutorInv' /\ OutcomeInv' /\ CleanUpIsInOrder' /\ ResultIsPrinted'
      BY <1>1, <1>2, CallKept
    <2> QED BY <2>1, <2>2, <2>3, TaskTyped DEF IndInv
  <1>3. ASSUME NEW message \in BOOLEAN, NEW size \in Sizes, Down(Printed(message, size))
        PROVE  IndInv'
    <2> DEFINE printed == Printed(message, size)
    <2>1. /\ sup' = "dead" /\ reply' = printed /\ strays' = {}
          /\ solution' = solution /\ solution \in Endings
          /\ interactor' = interactor /\ interactor # "running"
      BY <1>1, <1>3 DEF Down, IndInv, SolutionInv, Endings, Recorded
    <2>2. /\ printed.status = IF verdict = "ok" /\ solution # "zero" /\ message
                              THEN "memory-limit" ELSE verdict
          /\ printed.stopped = stopped
          /\ printed.interactor = IF interactor = "killed" THEN "nonzero" ELSE interactor
          /\ printed.final = (Writer \notin strays)
          /\ printed \in Reply
      BY <2>1 DEF Printed, Reply, IndInv, TypeOK, SupervisorTypeOK, Statuses
    <2> HIDE DEF printed
    <2>3. SupervisorTypeOK'
      BY <1>1, <2>1, <2>2 DEF IndInv, TypeOK, SupervisorTypeOK, supervise_vars
    <2>4. ContainerInv'
      BY <1>1, <2>1, ContainerDown DEF task_vars
    <2>5. SolutionInv'
      BY <1>1, <2>1 DEF IndInv, SolutionInv, supervise_vars
    <2>6. VerdictInv'
      BY <1>1, <2>1 DEF IndInv, VerdictInv, supervise_vars
    <2>7. ReplyInv'
      BY <1>1, <2>1, <2>2
         DEF IndInv, SolutionInv, VerdictInv, ReplyInv, TypeOK, SupervisorTypeOK, Writer
    <2>8. ExecutorInv' /\ OutcomeInv' /\ CleanUpIsInOrder' /\ ResultIsPrinted'
      BY <1>1, CallKept
    <2> QED BY <2>3, <2>4, <2>5, <2>6, <2>7, <2>8, TaskTyped DEF IndInv
  <1> QED BY <1>2, <1>3 DEF PrintReply

-----------------------------------------------------------------------------
(* The steps of the call.                                                     *)

LEMMA OutcomesTyped ==
  /\ Raised \in [kind : {"none", "raised", "result"}, reply : Reply \cup {NoReply}]
  /\ Outcome("result", OomReply) \in
       [kind : {"none", "raised", "result"}, reply : Reply \cup {NoReply}]
  /\ IndInv => Outcome("result", reply) \in
       [kind : {"none", "raised", "result"}, reply : Reply \cup {NoReply}]
PROOF
  <1>1. OomReply \in Reply
    BY DEF OomReply, Reply, Statuses, Sizes
  <1> QED BY <1>1 DEF Raised, Outcome, IndInv, TypeOK, SupervisorTypeOK

LEMMA KindsOfOutcome ==
  /\ Raised.kind = "raised" /\ Pending.kind = "none"
  /\ \A r : Outcome("result", r).kind = "result" /\ Outcome("result", r).reply = r
  /\ Raised # Pending /\ \A r : Outcome("result", r) # Pending
PROOF
  BY DEF Raised, Pending, Outcome

LEMMA FetchIndInv == IndInv /\ Fetch => IndInv'
PROOF
  <1> SUFFICES ASSUME IndInv, Fetch PROVE IndInv'
    OBVIOUS
  <1>1. SupervisorTypeOK' /\ SolutionInv' /\ VerdictInv' /\ ReplyInv'
    BY ContainerKept DEF Fetch
  <1>2. TypeOK'
    <2>1. TypeOK /\ Raised \in [kind : {"none", "raised", "result"}, reply : Reply \cup {NoReply}]
      BY OutcomesTyped DEF IndInv
    <2>2. pc' \in {"prepare", "done"} /\ folder' \in {folder, "present"} /\ outcome' \in {outcome, Raised}
      BY <2>1 DEF Fetch, TypeOK
    <2>3. UNCHANGED <<client, container, file, cancelled, removal>>
      BY DEF Fetch
    <2> HIDE DEF Raised
    <2> QED BY <1>1, <2>1, <2>2, <2>3 DEF TypeOK
  <1>3. ExecutorInv'
    BY KindsOfOutcome DEF Fetch, IndInv, ExecutorInv, ClientGone
  <1>4. ContainerInv'
    BY DEF Fetch, IndInv, ContainerInv, Up, supervisor_vars, program_vars, supervise_vars
  <1>5. OutcomeInv'
    BY KindsOfOutcome DEF Fetch, IndInv, OutcomeInv, ExecutorInv, ClientGone,
       supervisor_vars
  <1>6. CleanUpIsInOrder'
    BY KindsOfOutcome DEF Fetch, IndInv, CleanUpIsInOrder, NothingOutlivesTheCall,
       FolderOutlivesClient, ExecutorInv, ClientGone, ContainerInv
  <1>7. ResultIsPrinted'
    BY KindsOfOutcome DEF Fetch, IndInv, ResultIsPrinted, ExecutorInv, supervisor_vars
  <1> QED BY <1>1, <1>2, <1>3, <1>4, <1>5, <1>6, <1>7 DEF IndInv

LEMMA PrepareIndInv == IndInv /\ Prepare => IndInv'
PROOF
  <1> SUFFICES ASSUME IndInv, Prepare PROVE IndInv'
    OBVIOUS
  <1>1. SupervisorTypeOK' /\ SolutionInv' /\ VerdictInv' /\ ReplyInv'
    BY ContainerKept DEF Prepare
  <1>2. TypeOK'
    BY <1>1, OutcomesTyped DEF Prepare, Leave, IndInv, TypeOK
  <1>3. ExecutorInv'
    BY KindsOfOutcome DEF Prepare, Leave, IndInv, ExecutorInv, ClientGone
  <1>4. ContainerInv'
    BY DEF Prepare, Leave, IndInv, ContainerInv, Up, supervisor_vars, program_vars,
           supervise_vars, ExecutorInv
  <1>5. OutcomeInv'
    BY KindsOfOutcome DEF Prepare, Leave, IndInv, OutcomeInv, ExecutorInv, ClientGone,
       supervisor_vars, ContainerInv
  <1>6. CleanUpIsInOrder'
    BY KindsOfOutcome DEF Prepare, Leave, IndInv, CleanUpIsInOrder,
       NothingOutlivesTheCall, FolderOutlivesClient, ExecutorInv, ClientGone
  <1>7. ResultIsPrinted'
    BY KindsOfOutcome DEF Prepare, Leave, IndInv, ResultIsPrinted, ExecutorInv,
       supervisor_vars
  <1> QED BY <1>1, <1>2, <1>3, <1>4, <1>5, <1>6, <1>7 DEF IndInv

LEMMA PollIndInv == IndInv /\ Poll => IndInv'
PROOF
  <1> SUFFICES ASSUME IndInv, Poll PROVE IndInv'
    OBVIOUS
  <1>1. SupervisorTypeOK' /\ SolutionInv' /\ VerdictInv' /\ ReplyInv'
    BY ContainerKept DEF Poll
  <1>2. TypeOK'
    BY <1>1, OutcomesTyped DEF Poll, Leave, IndInv, TypeOK
  <1>3. ExecutorInv'
    BY KindsOfOutcome DEF Poll, Leave, IndInv, ExecutorInv, ClientGone
  <1>4. ContainerInv'
    BY DEF Poll, Leave, IndInv, ContainerInv, Up, supervisor_vars, program_vars,
           supervise_vars
  <1>5. OutcomeInv'
    BY KindsOfOutcome DEF Poll, Leave, IndInv, OutcomeInv, ExecutorInv, ClientGone,
       supervisor_vars
  <1>6. CleanUpIsInOrder'
    BY KindsOfOutcome DEF Poll, Leave, IndInv, CleanUpIsInOrder, NothingOutlivesTheCall,
       FolderOutlivesClient, ExecutorInv, ClientGone
  <1>7. ResultIsPrinted'
    BY KindsOfOutcome DEF Poll, Leave, IndInv, ResultIsPrinted, ExecutorInv,
       supervisor_vars
  <1> QED BY <1>1, <1>2, <1>3, <1>4, <1>5, <1>6, <1>7 DEF IndInv

LEMMA SettleIndInv == IndInv /\ Settle => IndInv'
PROOF
  <1> SUFFICES ASSUME IndInv, Settle PROVE IndInv'
    OBVIOUS
  <1>1. SupervisorTypeOK' /\ SolutionInv' /\ VerdictInv' /\ ReplyInv'
    BY ContainerKept DEF Settle
  <1>2. TypeOK'
    BY <1>1, OutcomesTyped DEF Settle, Leave, IndInv, TypeOK
  <1>3. ExecutorInv'
    BY KindsOfOutcome DEF Settle, Leave, IndInv, ExecutorInv, ClientGone
  <1>4. ContainerInv'
    BY DEF Settle, Leave, IndInv, ContainerInv, Up, supervisor_vars, program_vars,
           supervise_vars
  <1>5. OutcomeInv'
    BY KindsOfOutcome DEF Settle, Leave, IndInv, OutcomeInv, ExecutorInv, ClientGone,
       supervisor_vars
  <1>6. CleanUpIsInOrder'
    BY KindsOfOutcome DEF Settle, Leave, IndInv, CleanUpIsInOrder, NothingOutlivesTheCall,
       FolderOutlivesClient, ExecutorInv, ClientGone
  <1>7. ResultIsPrinted'
    BY KindsOfOutcome DEF Settle, Leave, IndInv, ResultIsPrinted, ExecutorInv,
       supervisor_vars
  <1> QED BY <1>1, <1>2, <1>3, <1>4, <1>5, <1>6, <1>7 DEF IndInv

LEMMA ParseIndInv == IndInv /\ Parse => IndInv'
PROOF
  <1> SUFFICES ASSUME IndInv, Parse PROVE IndInv'
    OBVIOUS
  <1>1. SupervisorTypeOK' /\ SolutionInv' /\ VerdictInv' /\ ReplyInv'
    BY ContainerKept DEF Parse
  <1>2. TypeOK'
    BY <1>1, OutcomesTyped DEF Parse, Leave, IndInv, TypeOK
  <1>3. ExecutorInv'
    BY KindsOfOutcome DEF Parse, Leave, IndInv, ExecutorInv, ClientGone
  <1>4. ContainerInv'
    BY DEF Parse, Leave, IndInv, ContainerInv, Up, supervisor_vars, program_vars,
           supervise_vars
  <1>5. OutcomeInv'
    BY KindsOfOutcome DEF Parse, Leave, IndInv, OutcomeInv, ExecutorInv, ClientGone,
       supervisor_vars, ContainerInv
  <1>6. CleanUpIsInOrder'
    BY KindsOfOutcome DEF Parse, Leave, IndInv, CleanUpIsInOrder, NothingOutlivesTheCall,
       FolderOutlivesClient, ExecutorInv, ClientGone
  <1>7. ResultIsPrinted'
    BY KindsOfOutcome DEF Parse, Leave, IndInv, ResultIsPrinted, ExecutorInv,
       supervisor_vars, OutcomeInv, ReplyInv, TypeOK, SupervisorTypeOK, Reply, Sizes
  <1> QED BY <1>1, <1>2, <1>3, <1>4, <1>5, <1>6, <1>7 DEF IndInv

LEMMA InspectIndInv == IndInv /\ Inspect => IndInv'
PROOF
  <1> SUFFICES ASSUME IndInv, Inspect PROVE IndInv'
    OBVIOUS
  <1>1. SupervisorTypeOK' /\ SolutionInv' /\ VerdictInv' /\ ReplyInv'
    BY ContainerKept DEF Inspect
  <1>2. TypeOK'
    BY <1>1, OutcomesTyped DEF Inspect, Leave, IndInv, TypeOK
  <1>3. ExecutorInv'
    BY KindsOfOutcome DEF Inspect, Leave, IndInv, ExecutorInv, ClientGone
  <1>4. ContainerInv'
    BY DEF Inspect, Leave, IndInv, ContainerInv, Up, supervisor_vars, program_vars,
           supervise_vars
  <1>5. OutcomeInv'
    BY KindsOfOutcome DEF Inspect, Leave, IndInv, OutcomeInv, ExecutorInv, ClientGone,
       supervisor_vars
  <1>6. CleanUpIsInOrder'
    BY KindsOfOutcome DEF Inspect, Leave, IndInv, CleanUpIsInOrder,
       NothingOutlivesTheCall, FolderOutlivesClient, ExecutorInv, ClientGone
  <1>7. ResultIsPrinted'
    BY KindsOfOutcome DEF Inspect, Leave, IndInv, ResultIsPrinted, ExecutorInv,
       supervisor_vars, OutcomeInv
  <1> QED BY <1>1, <1>2, <1>3, <1>4, <1>5, <1>6, <1>7 DEF IndInv

LEMMA ReapIndInv == IndInv /\ Reap => IndInv'
PROOF
  <1> SUFFICES ASSUME IndInv, Reap PROVE IndInv'
    OBVIOUS
  <1>1. SupervisorTypeOK' /\ SolutionInv' /\ VerdictInv' /\ ReplyInv'
    BY ContainerKept DEF Reap
  <1>2. TypeOK'
    BY <1>1, OutcomesTyped DEF Reap, IndInv, TypeOK
  <1>3. ExecutorInv'
    BY KindsOfOutcome DEF Reap, IndInv, ExecutorInv, ClientGone
  <1>4. ContainerInv'
    BY DEF Reap, IndInv, ContainerInv, Up, supervisor_vars, program_vars, supervise_vars
  <1>5. OutcomeInv'
    BY KindsOfOutcome DEF Reap, IndInv, OutcomeInv, ExecutorInv, ClientGone,
       supervisor_vars
  <1>6. CleanUpIsInOrder'
    BY KindsOfOutcome DEF Reap, IndInv, CleanUpIsInOrder, NothingOutlivesTheCall,
       FolderOutlivesClient, ExecutorInv, ContainerInv, ClientGone
  <1>7. ResultIsPrinted'
    BY KindsOfOutcome DEF Reap, IndInv, ResultIsPrinted, ExecutorInv, supervisor_vars
  <1> QED BY <1>1, <1>2, <1>3, <1>4, <1>5, <1>6, <1>7 DEF IndInv

LEMMA DeleteIndInv == IndInv /\ Delete => IndInv'
PROOF
  <1> SUFFICES ASSUME IndInv, Delete PROVE IndInv'
    OBVIOUS
  <1>1. SupervisorTypeOK' /\ SolutionInv' /\ VerdictInv' /\ ReplyInv'
    BY ContainerKept DEF Delete
  <1>2. TypeOK'
    BY <1>1 DEF Delete, IndInv, TypeOK
  <1>3. ExecutorInv'
    BY KindsOfOutcome DEF Delete, IndInv, ExecutorInv, ClientGone
  <1>4. ContainerInv'
    BY DEF Delete, IndInv, ContainerInv, Up, supervisor_vars, program_vars, supervise_vars
  <1>5. OutcomeInv'
    BY KindsOfOutcome DEF Delete, IndInv, OutcomeInv, ExecutorInv, ClientGone,
       supervisor_vars
  <1>6. CleanUpIsInOrder'
    BY KindsOfOutcome DEF Delete, IndInv, CleanUpIsInOrder, NothingOutlivesTheCall,
       FolderOutlivesClient, ExecutorInv, ClientGone, ContainerInv, OutcomeInv
  <1>7. ResultIsPrinted'
    BY KindsOfOutcome DEF Delete, IndInv, ResultIsPrinted, ExecutorInv, supervisor_vars
  <1> QED BY <1>1, <1>2, <1>3, <1>4, <1>5, <1>6, <1>7 DEF IndInv

LEMMA ClientCreatesIndInv == IndInv /\ ClientCreates => IndInv'
PROOF
  <1> SUFFICES ASSUME IndInv, ClientCreates PROVE IndInv'
    OBVIOUS
  <1>1. SupervisorTypeOK' /\ SolutionInv' /\ VerdictInv' /\ ReplyInv'
    BY ContainerKept DEF ClientCreates
  <1>2. TypeOK'
    BY <1>1 DEF ClientCreates, IndInv, TypeOK
  <1>3. ExecutorInv'
    BY KindsOfOutcome DEF ClientCreates, IndInv, ExecutorInv, ClientGone
  <1>4. ContainerInv'
    BY DEF ClientCreates, IndInv, ContainerInv, Up, supervisor_vars, program_vars,
           supervise_vars
  <1>5. OutcomeInv'
    BY KindsOfOutcome DEF ClientCreates, IndInv, OutcomeInv, ExecutorInv, ClientGone,
       supervisor_vars
  <1>6. CleanUpIsInOrder'
    BY KindsOfOutcome DEF ClientCreates, IndInv, CleanUpIsInOrder, NothingOutlivesTheCall,
       FolderOutlivesClient, ExecutorInv, ClientGone
  <1>7. ResultIsPrinted'
    BY KindsOfOutcome DEF ClientCreates, IndInv, ResultIsPrinted, ExecutorInv,
       supervisor_vars
  <1> QED BY <1>1, <1>2, <1>3, <1>4, <1>5, <1>6, <1>7 DEF IndInv

LEMMA ClientEndsIndInv == IndInv /\ ClientEnds => IndInv'
PROOF
  <1> SUFFICES ASSUME IndInv, ClientEnds PROVE IndInv'
    OBVIOUS
  <1>1. SupervisorTypeOK' /\ SolutionInv' /\ VerdictInv' /\ ReplyInv'
    BY ContainerKept DEF ClientEnds
  <1>2. TypeOK'
    BY <1>1 DEF ClientEnds, IndInv, TypeOK
  <1>3. ExecutorInv'
    BY KindsOfOutcome DEF ClientEnds, IndInv, ExecutorInv, ClientGone
  <1>4. ContainerInv'
    BY DEF ClientEnds, IndInv, ContainerInv, Up, supervisor_vars, program_vars,
           supervise_vars
  <1>5. OutcomeInv'
    BY KindsOfOutcome DEF ClientEnds, IndInv, OutcomeInv, ExecutorInv, ClientGone,
       supervisor_vars, ContainerInv, TypeOK, SupervisorTypeOK, Reply, Sizes
  <1>6. CleanUpIsInOrder'
    BY KindsOfOutcome DEF ClientEnds, IndInv, CleanUpIsInOrder, NothingOutlivesTheCall,
       FolderOutlivesClient, ExecutorInv, ClientGone
  <1>7. ResultIsPrinted'
    BY KindsOfOutcome DEF ClientEnds, IndInv, ResultIsPrinted, ExecutorInv,
       supervisor_vars, OutcomeInv, ClientGone
  <1> QED BY <1>1, <1>2, <1>3, <1>4, <1>5, <1>6, <1>7 DEF IndInv

LEMMA ClientFailsIndInv == IndInv /\ ClientFails => IndInv'
PROOF
  <1> SUFFICES ASSUME IndInv, ClientFails PROVE IndInv'
    OBVIOUS
  <1>1. SupervisorTypeOK' /\ SolutionInv' /\ VerdictInv' /\ ReplyInv'
    BY ContainerKept DEF ClientFails
  <1>2. TypeOK'
    BY <1>1 DEF ClientFails, IndInv, TypeOK
  <1>3. ExecutorInv'
    BY KindsOfOutcome DEF ClientFails, IndInv, ExecutorInv, ClientGone
  <1>4. ContainerInv'
    BY DEF ClientFails, IndInv, ContainerInv, Up, supervisor_vars, program_vars,
           supervise_vars
  <1>5. OutcomeInv'
    BY KindsOfOutcome DEF ClientFails, IndInv, OutcomeInv, ExecutorInv, ClientGone,
       supervisor_vars
  <1>6. CleanUpIsInOrder'
    BY KindsOfOutcome DEF ClientFails, IndInv, CleanUpIsInOrder, NothingOutlivesTheCall,
       FolderOutlivesClient, ExecutorInv, ClientGone
  <1>7. ResultIsPrinted'
    BY KindsOfOutcome DEF ClientFails, IndInv, ResultIsPrinted, ExecutorInv,
       supervisor_vars, OutcomeInv, ClientGone
  <1> QED BY <1>1, <1>2, <1>3, <1>4, <1>5, <1>6, <1>7 DEF IndInv

LEMMA CancelIndInv == IndInv /\ Cancel => IndInv'
PROOF
  <1> SUFFICES ASSUME IndInv, Cancel PROVE IndInv'
    OBVIOUS
  <1>1. SupervisorTypeOK' /\ SolutionInv' /\ VerdictInv' /\ ReplyInv'
    BY ContainerKept DEF Cancel
  <1>2. TypeOK'
    BY <1>1 DEF Cancel, IndInv, TypeOK
  <1>3. ExecutorInv'
    BY KindsOfOutcome DEF Cancel, IndInv, ExecutorInv, ClientGone
  <1>4. ContainerInv'
    BY DEF Cancel, IndInv, ContainerInv, Up, supervisor_vars, program_vars, supervise_vars
  <1>5. OutcomeInv'
    BY KindsOfOutcome DEF Cancel, IndInv, OutcomeInv, ExecutorInv, ClientGone,
       supervisor_vars
  <1>6. CleanUpIsInOrder'
    BY KindsOfOutcome DEF Cancel, IndInv, CleanUpIsInOrder, NothingOutlivesTheCall,
       FolderOutlivesClient, ExecutorInv, ClientGone
  <1>7. ResultIsPrinted'
    BY KindsOfOutcome DEF Cancel, IndInv, ResultIsPrinted, ExecutorInv, supervisor_vars
  <1> QED BY <1>1, <1>2, <1>3, <1>4, <1>5, <1>6, <1>7 DEF IndInv

LEMMA ClientStartsIndInv == IndInv /\ ClientStarts => IndInv'
PROOF
  <1> SUFFICES ASSUME IndInv, ClientStarts PROVE IndInv'
    OBVIOUS
  <1> USE DEF program_vars, supervise_vars
  <1>1. sup = "off" /\ reply = NoReply
    BY DEF ClientStarts, IndInv, ContainerInv, ReplyInv
  <1>2. TypeOK'
    BY DEF ClientStarts, IndInv, TypeOK, SupervisorTypeOK
  <1>3. ExecutorInv' /\ CleanUpIsInOrder'
    BY DEF ClientStarts, IndInv, ExecutorInv, ClientGone, CleanUpIsInOrder,
           NothingOutlivesTheCall, FolderOutlivesClient
  <1>4. ContainerInv'
    BY DEF ClientStarts, IndInv, ContainerInv, Up
  <1>5. SolutionInv' /\ VerdictInv'
    BY <1>1 DEF ClientStarts, IndInv, SolutionInv, VerdictInv
  <1>6. ReplyInv'
    BY <1>1 DEF ClientStarts, ReplyInv
  <1>7. OutcomeInv'
    BY DEF ClientStarts, IndInv, OutcomeInv, ClientGone
  <1>8. ResultIsPrinted'
    BY DEF ClientStarts, IndInv, ResultIsPrinted, OutcomeInv, ClientGone
  <1> QED BY <1>2, <1>3, <1>4, <1>5, <1>6, <1>7, <1>8 DEF IndInv

\* docker rm, whether it removes the container or not, leaves the supervisor and
\* its reply consistent; what is up goes down without a reply.
LEMMA RemovalOfContainer ==
  ASSUME IndInv, Removed \/ Unremoved, UNCHANGED client,
         removal' = "ok" => Removed
  PROVE  /\ SupervisorTypeOK' /\ SolutionInv' /\ VerdictInv' /\ ReplyInv' /\ ContainerInv'
         /\ reply' = reply /\ UNCHANGED oom
         /\ sup = "dead" => sup' = "dead"
         /\ \/ container' = container
            \/ container' = "removed" /\ container \in {"created", "started"}
PROOF
  <1>1. CASE Unremoved
    <2>1. UNCHANGED <<container, supervisor_vars>>
      BY <1>1 DEF Unremoved
    <2>2. SupervisorTypeOK' /\ SolutionInv' /\ VerdictInv' /\ ReplyInv'
      BY <2>1, ContainerKept
    <2>3. ContainerInv'
      BY <2>1 DEF IndInv, ContainerInv, Up, supervisor_vars, Removed
    <2> QED BY <2>1, <2>2, <2>3 DEF supervisor_vars
  <1>2. CASE Removed /\ Up
    <2>1. /\ Down(NoReply) /\ reply = NoReply /\ container' = "removed"
          /\ container \in {"created", "started"}
          /\ UNCHANGED <<interactive, over, shown, late, oom, supervise_vars>>
      BY <1>2, NoReplyWhileUp DEF Removed
    <2>2. SupervisorTypeOK' /\ SolutionInv' /\ VerdictInv' /\ ReplyInv'
      BY <1>2, <2>1, EndsSilently DEF IndInv, TypeOK, SupervisorTypeOK
    <2>3. sup' = "dead" /\ reply' = reply
      BY <2>1 DEF Down
    <2>4. ContainerInv'
      BY <1>2, <2>1, <2>3, ContainerDown
    <2> QED BY <2>1, <2>2, <2>3, <2>4
  <1>3. CASE Removed /\ ~Up
    <2>1. /\ UNCHANGED supervisor_vars /\ container' = "removed"
          /\ container \in {"created", "started"}
      BY <1>3 DEF Removed
    <2>2. SupervisorTypeOK' /\ SolutionInv' /\ VerdictInv' /\ ReplyInv'
      BY <2>1, ContainerKept
    <2>3. ContainerInv'
      BY <1>3, <2>1 DEF IndInv, ContainerInv, Up, supervisor_vars
    <2> QED BY <2>1, <2>2, <2>3 DEF supervisor_vars
  <1> QED BY <1>1, <1>2, <1>3

LEMMA RemoveIndInv == IndInv /\ Remove => IndInv'
PROOF
  <1> SUFFICES ASSUME IndInv, Remove PROVE IndInv'
    OBVIOUS
  <1>1. /\ pc = "remove" /\ outcome # Pending /\ removal = "none"
        /\ UNCHANGED <<folder, client, file, cancelled>>
    BY DEF Remove, IndInv, ExecutorInv
  <1>2. /\ SupervisorTypeOK' /\ SolutionInv' /\ VerdictInv' /\ ReplyInv' /\ ContainerInv'
        /\ reply' = reply /\ UNCHANGED oom
        /\ sup = "dead" => sup' = "dead"
        /\ \/ container' = container
           \/ container' = "removed" /\ container \in {"created", "started"}
    <2>1. (Removed \/ Unremoved) /\ (removal' = "ok" => Removed)
      BY DEF Remove
    <2> QED BY <1>1, <2>1, RemovalOfContainer
  <1>3. CASE /\ \/ removal' = "ok" /\ Removed
                \/ removal' = "missed" /\ container = "none" /\ Unremoved
                \/ removal' = "failed" /\ Unremoved
             /\ pc' = IF client = "none" THEN "delete" ELSE "reap"
             /\ UNCHANGED outcome
    <2>1. TypeOK'
      BY <1>1, <1>2, <1>3 DEF IndInv, TypeOK
    <2>2. ExecutorInv'
      BY <1>1, <1>3 DEF IndInv, ExecutorInv, ClientGone
    <2>3. OutcomeInv'
      BY <1>1, <1>2, <1>3 DEF IndInv, OutcomeInv, ClientGone
    <2>4. CleanUpIsInOrder'
      BY <1>1, <1>3 DEF IndInv, CleanUpIsInOrder, NothingOutlivesTheCall,
                        FolderOutlivesClient, ClientGone
    <2>5. ResultIsPrinted'
      BY <1>1, <1>2, <1>3 DEF IndInv, ResultIsPrinted
    <2> QED BY <1>2, <2>1, <2>2, <2>3, <2>4, <2>5 DEF IndInv
  <1>4. CASE removal' = "raised" /\ pc' = "done" /\ outcome' = Raised
    <2>1. TypeOK'
      BY <1>1, <1>2, <1>4, OutcomesTyped DEF IndInv, TypeOK
    <2>2. ExecutorInv'
      BY <1>1, <1>4, KindsOfOutcome DEF IndInv, ExecutorInv, ClientGone
    <2>3. OutcomeInv'
      BY <1>1, <1>2, <1>4, KindsOfOutcome DEF IndInv, OutcomeInv, ClientGone
    <2>4. CleanUpIsInOrder'
      BY <1>1, <1>4 DEF IndInv, CleanUpIsInOrder, NothingOutlivesTheCall,
                        FolderOutlivesClient, ClientGone
    <2>5. ResultIsPrinted'
      BY <1>4, KindsOfOutcome DEF ResultIsPrinted
    <2> QED BY <1>2, <2>1, <2>2, <2>3, <2>4, <2>5 DEF IndInv
  <1> QED BY <1>3, <1>4 DEF Remove

-----------------------------------------------------------------------------
(* The invariant.                                                             *)

LEMMA InitIndInv == Init => IndInv
PROOF
  <1> SUFFICES ASSUME Init PROVE IndInv
    OBVIOUS
  <1> USE DEF Init, InitSupervisor
  <1>1. TypeOK
    BY DEF TypeOK, SupervisorTypeOK, Statuses, Pending, Outcome
  <1>2. ExecutorInv /\ ContainerInv
    BY DEF ExecutorInv, ContainerInv, ClientGone, Up
  <1>3. SolutionInv /\ VerdictInv /\ ReplyInv
    BY DEF SolutionInv, VerdictInv, ReplyInv
  <1>4. OutcomeInv /\ ResultIsPrinted
    BY KindsOfOutcome DEF OutcomeInv, ResultIsPrinted
  <1>5. CleanUpIsInOrder
    BY DEF CleanUpIsInOrder, NothingOutlivesTheCall, FolderOutlivesClient, ClientGone
  <1> QED BY <1>1, <1>2, <1>3, <1>4, <1>5 DEF IndInv

LEMMA StutterIndInv == IndInv /\ UNCHANGED vars => IndInv'
PROOF
  <1> SUFFICES ASSUME IndInv, UNCHANGED vars PROVE IndInv'
    OBVIOUS
  <1>1. UNCHANGED task_vars /\ UNCHANGED supervisor_vars
    BY DEF vars
  <1>2. ExecutorInv' /\ OutcomeInv' /\ CleanUpIsInOrder' /\ ResultIsPrinted'
    BY <1>1, CallKept DEF supervisor_vars
  <1>3. SupervisorTypeOK' /\ SolutionInv' /\ VerdictInv' /\ ReplyInv'
    BY <1>1, ContainerKept
  <1>4. ContainerInv'
    BY <1>1 DEF IndInv, ContainerInv, Up, task_vars, supervisor_vars
  <1> QED BY <1>1, <1>2, <1>3, <1>4, TaskTyped DEF IndInv

LEMMA IndInvAlways == Spec => []IndInv
PROOF
  <1>1. Init => IndInv
    BY InitIndInv
  <1>2. IndInv /\ [Next]_vars => IndInv'
    <2> SUFFICES ASSUME IndInv, [Next]_vars PROVE IndInv'
      OBVIOUS
    <2>1. CASE Executor
      BY <2>1, FetchIndInv, PrepareIndInv, PollIndInv, SettleIndInv, ParseIndInv,
         InspectIndInv, RemoveIndInv, ReapIndInv, DeleteIndInv DEF Executor
    <2>2. CASE Docker
      BY <2>2, ClientCreatesIndInv, ClientStartsIndInv, ClientEndsIndInv,
         ClientFailsIndInv DEF Docker
    <2>3. CASE Supervisor /\ UNCHANGED task_vars
      BY <2>3, StartProgramsIndInv, WatchIndInv, SampleIndInv, StopIndInv,
         MeasureIndInv, AwaitInteractorIndInv, PrintReplyIndInv DEF Supervisor
    <2>4. CASE Surroundings /\ UNCHANGED task_vars
      BY <2>4, ExceedsIndInv, SolutionEndsIndInv, SolutionBreaksIndInv,
         InteractorEndsIndInv, InteractorBreaksIndInv, WallLimitPassesIndInv, OutOfMemoryIndInv DEF Surroundings
    <2> QED BY <2>1, <2>2, <2>3, <2>4, CancelIndInv, StutterIndInv DEF Next
  <1> QED BY <1>1, <1>2, PTL DEF Spec

-----------------------------------------------------------------------------
(* The theorems.                                                              *)

\* Every variable stays in its range: the executor's, docker's and the supervisor's.
THEOREM TypeCorrect == Spec => []TypeOK
PROOF
  <1>1. IndInv => TypeOK
    BY DEF IndInv
  <1> QED BY <1>1, IndInvAlways, PTL

\* When a call of _execute is over, its container is gone unless docker rm raised,
\* failed or came before it; its client is gone unless docker rm raised or the client
\* could not be killed; rmtree was called on its folder except in these two cases;
\* and the folder outlives the client that writes to it.
THEOREM CleanUpInOrder == Spec => []CleanUpIsInOrder
PROOF
  <1>1. IndInv => CleanUpIsInOrder
    BY DEF IndInv
  <1> QED BY <1>1, IndInvAlways, PTL

\* Whatever is killed, lost or late: an ok is of a process tree that ended by itself
\* and of which neither a sample nor the evidence showed an excess, a limit that is
\* named was exceeded, an interactor that accepts left a final transcript, and the
\* result is the one the supervisor printed.
THEOREM ResultsAreTrue == Spec => []ResultIsTrue
PROOF
  <1>1. IndInv => ResultIsTrue
    <2> SUFFICES ASSUME IndInv PROVE ResultIsTrue
      OBVIOUS
    <2>1. ResultIsPrinted
      BY DEF IndInv
    <2>2. CASE outcome.kind = "result" /\ outcome.reply = reply /\ sup = "dead" /\ reply.size = "fits"
      <3>1. CASE reply # NoReply
        <4>1. OkIsMeasured
          BY <2>2, <3>1 DEF IndInv, ReplyInv, OkIsMeasured
        <4>2. LimitIsReal
          BY <2>2, <3>1 DEF IndInv, ReplyInv, LimitIsReal
        <4>3. InteractorAccepts
          BY <2>2, <3>1 DEF IndInv, ReplyInv, InteractorAccepts
        <4> QED BY <2>1, <4>1, <4>2, <4>3 DEF ResultIsTrue
      <3>2. CASE reply = NoReply
        <4>1. outcome.reply.status = "none" /\ ~outcome.reply.stopped
              /\ outcome.reply.interactor = "none"
          BY <2>2, <3>2 DEF NoReply
        <4> QED BY <2>1, <4>1
              DEF ResultIsTrue, OkIsMeasured, LimitIsReal, InteractorAccepts
      <3> QED BY <3>1, <3>2
    <2>3. CASE outcome.kind = "result" /\ outcome.reply = OomReply /\ oom
      <3>1. outcome.reply.status = "memory-limit"
        BY <2>3 DEF OomReply
      <3> QED BY <2>1, <2>3, <3>1
            DEF ResultIsTrue, OkIsMeasured, LimitIsReal, InteractorAccepts
    <2>4. CASE outcome.kind # "result"
      BY <2>1, <2>4 DEF ResultIsTrue, OkIsMeasured, LimitIsReal, InteractorAccepts
    <2> QED BY <2>1, <2>2, <2>3, <2>4 DEF ResultIsPrinted
  <1> QED BY <1>1, IndInvAlways, PTL
=============================================================================
