---------------------------- MODULE LogForwarder ----------------------------
(***************************************************************************)
(* The forwarding of the agent's own log (app/log_forwarder.py): print()   *)
(* of any thread goes through _StreamTee.write, which cuts what is written *)
(* into lines; _append queues them, _run sends them in batches, and        *)
(* close() flushes what is left when main ends.                            *)
(*                                                                         *)
(* write() takes no lock.  A thread of CPython may lose the GIL when a     *)
(* call returns or is entered and at the end of a loop's body, so the      *)
(* steps of a write are: append to the buffer and cut off the first line;  *)
(* store the rest; queue the line; test for another line; cut it off.      *)
(* print() writes its text and its newline in two writes.                  *)
(*                                                                         *)
(* One stream is modelled, stdout; stderr has a tee and a buffer of its    *)
(* own and shares the queue.                                               *)
(***************************************************************************)
EXTENDS Integers, Sequences, Functions

CONSTANTS Printers,    \* threads that print
          Prints,      \* bound: print() calls of all of them
          Capacity,    \* the 1000 of _append
          BatchLimit   \* the 200 of _drain

ASSUME LogForwarderAssumption ==
  /\ Prints \in Nat
  /\ Capacity \in Nat \ {0}
  /\ BatchLimit \in Nat \ {0}

VARIABLES
  text,       \* printer -> the text it prints: the number of its print() call
  part,       \* printer -> what it is writing: "none", "text" or "newline"
  at,         \* printer -> where it is in write()
  line,       \* printer -> the local variable line
  rest,       \* printer -> what split() returned besides
  prints,     \* print() calls so far
  raised,     \* texts whose print() raised
  company,    \* texts whose print() was not alone on an empty buffer
  buffer,     \* _buffer of the tee: texts, and 0 for a newline
  appended,   \* history: every line that was queued; entries are named by their
              \* place in it from here on
  logs,       \* _logs
  flight,     \* "runner" and "closer" -> the batch they are sending
  sent,       \* what report_logs was called with, in the order in which it returned
  runner,     \* where _run is
  closer,     \* where close() is
  hurried     \* has _run or close() given up waiting?

write_vars == <<text, part, at, line, rest, prints, raised, company, buffer>>
queue_vars == <<appended, logs>>
send_vars == <<flight, sent>>
vars == <<write_vars, queue_vars, send_vars, runner, closer, hurried>>

-----------------------------------------------------------------------------
Newline == 0
Texts == 1..Prints

Busy == {p \in Printers : part[p] # "none"}

HasLine(b) == Newline \in Range(b)

FirstNewline(b) ==
  CHOOSE i \in DOMAIN b : b[i] = Newline /\ \A j \in 1..(i - 1) : b[j] # Newline

Init ==
  /\ text = [p \in Printers |-> 0]
  /\ part = [p \in Printers |-> "none"]
  /\ at = [p \in Printers |-> "add"]
  /\ line = [p \in Printers |-> <<>>]
  /\ rest = [p \in Printers |-> <<>>]
  /\ prints = 0
  /\ raised = {}
  /\ company = {}
  /\ buffer = <<>>
  /\ appended = <<>>
  /\ logs = <<>>
  /\ flight = [s \in {"runner", "closer"} |-> <<>>]
  /\ sent = <<>>
  /\ runner = "waiting"
  /\ closer = "open"
  /\ hurried = FALSE

-----------------------------------------------------------------------------
(* print() and _StreamTee.write.                                            *)

\* print() looks up sys.stdout, which close() sets back to the original.
BeginPrint(p) ==
  /\ part[p] = "none"
  /\ prints < Prints
  /\ closer \in {"open", "flush", "clear"}
  /\ part' = [part EXCEPT ![p] = "text"]
  /\ prints' = prints + 1
  /\ text' = [text EXCEPT ![p] = prints']
  /\ company' = IF Busy = {} /\ buffer = <<>> /\ closer = "open" THEN company
                ELSE company \cup {text'[q] : q \in Busy \cup {p}}
  /\ UNCHANGED <<at, line, rest, raised, buffer, queue_vars, send_vars,
                 runner, closer, hurried>>

\* line, self._buffer = b.split("\n", 1), up to the return of split().
Cut(p, b) ==
  LET n == FirstNewline(b)
  IN  /\ line' = [line EXCEPT ![p] = SubSeq(b, 1, n - 1)]
      /\ rest' = [rest EXCEPT ![p] = SubSeq(b, n + 1, Len(b))]
      /\ at' = [at EXCEPT ![p] = "store"]

\* print() goes on to its newline, or returns.
EndWrite(p) ==
  /\ part' = [part EXCEPT ![p] = IF part[p] = "text" THEN "newline" ELSE "none"]
  /\ at' = [at EXCEPT ![p] = "add"]

\* Mutant: the buffer is replaced instead of extended.
AddReplaces(p) ==
  /\ part[p] # "none"
  /\ at[p] = "add"
  /\ buffer' = <<IF part[p] = "text" THEN text[p] ELSE Newline>>
  /\ \/ HasLine(buffer') /\ Cut(p, buffer') /\ UNCHANGED part
     \/ ~HasLine(buffer') /\ EndWrite(p) /\ UNCHANGED <<line, rest>>
  /\ UNCHANGED <<text, prints, raised, company, queue_vars, send_vars, runner, closer,
                 hurried>>

Add(p) ==
  /\ part[p] # "none"
  /\ at[p] = "add"
  /\ buffer' = Append(buffer, IF part[p] = "text" THEN text[p] ELSE Newline)
  /\ \/ HasLine(buffer') /\ Cut(p, buffer') /\ UNCHANGED part
     \/ ~HasLine(buffer') /\ EndWrite(p) /\ UNCHANGED <<line, rest>>
  /\ UNCHANGED <<text, prints, raised, company, queue_vars, send_vars, runner, closer,
                 hurried>>

\* What another thread has appended since split() returned is overwritten.
Store(p) ==
  /\ at[p] = "store"
  /\ buffer' = rest[p]
  /\ rest' = [rest EXCEPT ![p] = <<>>]
  /\ at' = [at EXCEPT ![p] = "emit"]
  /\ UNCHANGED <<text, part, line, prints, raised, company, queue_vars, send_vars,
                 runner, closer, hurried>>

\* Mutant: one entry too many is kept.
QueueOneMore(message) ==
  IF message = <<>> THEN UNCHANGED queue_vars
  ELSE /\ appended' = Append(appended, message)
       /\ LET all == Append(logs, Len(appended'))
          IN  logs' = IF Len(all) > Capacity + 1 THEN Tail(all) ELSE all

\* Mutant: a full queue loses its newest entry.
QueueKeepsOld(message) ==
  IF message = <<>> THEN UNCHANGED queue_vars
  ELSE /\ appended' = Append(appended, message)
       /\ logs' = IF Len(logs) < Capacity THEN Append(logs, Len(appended')) ELSE logs

\* _append: nothing for an empty line; a full queue loses its oldest entry.
Queue(message) ==
  IF message = <<>> THEN UNCHANGED queue_vars
  ELSE /\ appended' = Append(appended, message)
       /\ LET all == Append(logs, Len(appended'))
          IN  logs' = IF Len(all) > Capacity THEN Tail(all) ELSE all

Emit(p) ==
  /\ at[p] = "emit"
  /\ Queue(line[p])
  /\ line' = [line EXCEPT ![p] = <<>>]
  /\ at' = [at EXCEPT ![p] = "test"]
  /\ UNCHANGED <<text, part, rest, prints, raised, company, buffer, send_vars, runner,
                 closer, hurried>>

Test(p) ==
  /\ at[p] = "test"
  /\ \/ HasLine(buffer) /\ at' = [at EXCEPT ![p] = "cut"] /\ UNCHANGED part
     \/ ~HasLine(buffer) /\ EndWrite(p)
  /\ UNCHANGED <<text, line, rest, prints, raised, company, buffer, queue_vars, send_vars, runner,
                 closer, hurried>>

\* The line that was seen may be gone: the unpacking of split() raises ValueError.
CutNext(p) ==
  /\ at[p] = "cut"
  /\ \/ HasLine(buffer) /\ Cut(p, buffer) /\ UNCHANGED <<part, raised>>
     \/ /\ ~HasLine(buffer)
        /\ raised' = raised \cup {text[p]}
        /\ part' = [part EXCEPT ![p] = "none"]
        /\ at' = [at EXCEPT ![p] = "add"]
        /\ UNCHANGED <<line, rest>>
  /\ UNCHANGED <<text, prints, company, buffer, queue_vars, send_vars, runner, closer, hurried>>

Write(p) == Add(p) \/ Store(p) \/ Emit(p) \/ Test(p) \/ CutNext(p)

-----------------------------------------------------------------------------
(* The queue and its sender.                                                *)

\* Mutant: the newest lines are sent first.
DrainNewest(s) ==
  LET kept == Len(logs) - (IF Len(logs) < BatchLimit THEN Len(logs) ELSE BatchLimit)
  IN  /\ flight' = [flight EXCEPT ![s] = SubSeq(logs, kept + 1, Len(logs))]
      /\ logs' = SubSeq(logs, 1, kept)

Drained(b) == IF Len(b) < BatchLimit THEN Len(b) ELSE BatchLimit

\* _drain.
Drain(s) ==
  /\ flight' = [flight EXCEPT ![s] = SubSeq(logs, 1, Drained(logs))]
  /\ logs' = SubSeq(logs, Drained(logs) + 1, Len(logs))

\* report_logs ends; a batch that fails is given up, and may have arrived.
Send(s) ==
  /\ flight[s] # <<>>
  /\ sent' = sent \o flight[s]
  /\ flight' = [flight EXCEPT ![s] = <<>>]

\* Mutant: the thread sends once and returns.
RunnerWakesOnce ==
  /\ runner = "waiting"
  /\ sent = <<>>
  /\ flight["runner"] = <<>>
  /\ \/ closer = "open" /\ logs # <<>> /\ Drain("runner") /\ UNCHANGED runner
     \/ closer # "open" /\ runner' = "stopping" /\ UNCHANGED <<logs, flight>>
  /\ UNCHANGED <<write_vars, appended, sent, closer, hurried>>

\* wait(2.0) has run out, or the stop is set.
RunnerWakes ==
  /\ runner = "waiting"
  /\ flight["runner"] = <<>>
  /\ \/ closer = "open" /\ logs # <<>> /\ Drain("runner") /\ UNCHANGED runner
     \/ closer # "open" /\ runner' = "stopping" /\ UNCHANGED <<logs, flight>>
  /\ UNCHANGED <<write_vars, appended, sent, closer, hurried>>

\* Mutant: the thread ends as soon as it sees the stop.
RunnerStopsAtOnce ==
  /\ runner = "stopping"
  /\ flight["runner"] = <<>>
  /\ runner' = "ended"
  /\ UNCHANGED <<write_vars, queue_vars, send_vars, closer, hurried>>

\* The two seconds after the stop: until the queue is empty or they have passed.
RunnerStops ==
  /\ runner = "stopping"
  /\ flight["runner"] = <<>>
  /\ \/ logs # <<>> /\ Drain("runner") /\ UNCHANGED <<runner, hurried>>
     \/ logs = <<>> /\ runner' = "ended" /\ UNCHANGED <<logs, flight, hurried>>
     \/ runner' = "ended" /\ hurried' = TRUE /\ UNCHANGED <<logs, flight>>
  /\ UNCHANGED <<write_vars, appended, sent, closer>>

RunnerSends ==
  /\ Send("runner")
  /\ UNCHANGED <<write_vars, queue_vars, runner, closer, hurried>>

Runner == RunnerWakes \/ RunnerStops \/ RunnerSends

-----------------------------------------------------------------------------
(* close(), in the main thread.                                             *)

\* From here on a print() that is under way is no longer alone.
SetStop ==
  /\ closer = "open"
  /\ closer' = "flush"
  /\ company' = company \cup {text[p] : p \in Busy}
  /\ UNCHANGED <<text, part, at, line, rest, prints, raised, buffer, queue_vars, send_vars,
                 runner, hurried>>

FlushTee ==
  /\ closer = "flush"
  /\ Queue(buffer)
  /\ closer' = IF buffer = <<>> THEN "join" ELSE "clear"
  /\ UNCHANGED <<write_vars, send_vars, runner, hurried>>

\* Assigned after the call that queued the buffer, and before sys.stdout is restored.
ClearTee ==
  /\ closer = "clear"
  /\ buffer' = <<>>
  /\ closer' = "join"
  /\ UNCHANGED <<text, part, at, line, rest, prints, raised, company, queue_vars, send_vars,
                 runner, hurried>>

\* join(2.0) returns, or gives up while _run still sends; then one last batch.
Join ==
  /\ closer = "join"
  /\ hurried' = (hurried \/ runner # "ended")
  /\ Drain("closer")
  /\ closer' = "send"
  /\ UNCHANGED <<write_vars, appended, sent, runner>>

CloserSends ==
  /\ closer = "send"
  /\ IF flight["closer"] = <<>> THEN UNCHANGED send_vars ELSE Send("closer")
  /\ closer' = "closed"
  /\ UNCHANGED <<write_vars, queue_vars, runner, hurried>>

Next ==
  \/ \E p \in Printers : BeginPrint(p) \/ Write(p)
  \/ Runner
  \/ SetStop \/ FlushTee \/ ClearTee \/ Join \/ CloserSends

Spec == Init /\ [][Next]_vars

\* The sending thread goes on, and a request has a timeout.
FairSpec == Spec /\ WF_vars(Runner)
-----------------------------------------------------------------------------
(* Properties.                                                              *)

Lines == 1..Len(appended)

TypeOK ==
  /\ text \in [Printers -> 0..Prints]
  /\ part \in [Printers -> {"none", "text", "newline"}]
  /\ at \in [Printers -> {"add", "store", "emit", "test", "cut"}]
  /\ line \in [Printers -> Seq(Texts)]
  /\ rest \in [Printers -> Seq(Texts \cup {Newline})]
  /\ prints \in 0..Prints
  /\ raised \subseteq Texts
  /\ company \subseteq Texts
  /\ buffer \in Seq(Texts \cup {Newline})
  /\ appended \in Seq(Seq(Texts \cup {Newline}))
  /\ logs \in Seq(Nat)
  /\ flight \in [{"runner", "closer"} -> Seq(Nat)]
  /\ sent \in Seq(Nat)
  /\ runner \in {"waiting", "stopping", "ended"}
  /\ closer \in {"open", "flush", "clear", "join", "send", "closed"}
  /\ hurried \in BOOLEAN

\* The queue keeps its limit.  A queued line is sent at most once, and it is
\* sent, under way or still queued, unless Capacity newer lines were queued
\* before somebody got to it.
LinesAccounted ==
  LET places == <<logs, flight["runner"], flight["closer"], sent>>
  IN  /\ Len(logs) <= Capacity
      /\ \A a, b \in 1..4 : \A i \in DOMAIN places[a], j \in DOMAIN places[b] :
           places[a][i] = places[b][j] => a = b /\ i = j
      /\ \A n \in Lines :
           \/ \E a \in 1..4 : n \in Range(places[a])
           \/ n + Capacity <= Len(appended)

\* Lines are sent in the order in which they were queued, unless close() gave up
\* waiting for the thread and sent beside it.
SentInOrder ==
  ~hurried => \A i, j \in DOMAIN sent : i < j => sent[i] < sent[j]

\* The queue, the batches and what was sent, together.
LinesArriveInOrder == LinesAccounted /\ SentInOrder

Ended(n) == n <= prints /\ \A p \in Busy : text[p] # n

\* A print() that nothing overlaps is one line of the log, whole, and returns.
LonePrintsSurvive ==
  \A n \in 1..prints :
    Ended(n) /\ n \notin company =>
      /\ n \notin raised
      /\ \E i \in Lines : appended[i] = <<n>>

\* After close() the line of every print() that nothing overlapped has been sent,
\* unless the full queue dropped it or somebody gave up waiting.
CloseSendsAll ==
  closer = "closed" /\ ~hurried =>
    \A n \in 1..prints :
      Ended(n) /\ n \notin company =>
        \E i \in Lines :
          /\ appended[i] = <<n>>
          /\ i \in Range(sent) \/ i + Capacity <= Len(appended)

\* While the forwarder is open, a line does not stay in the queue.
LinesLeaveTheQueue ==
  \A n \in 1..Prints :
    n \in Range(logs) ~> (n \notin Range(logs) \/ closer # "open")
-----------------------------------------------------------------------------
(* The inductive invariant, in named parts.                                 *)

\* Every print() under way has a text of its own, and only one that had company
\* can raise.
WriteInv ==
  /\ \A p \in Printers : at[p] # "add" => p \in Busy
  /\ \A p \in Busy : text[p] \in 1..prints
  /\ \A p, q \in Busy : p # q => text[p] # text[q] /\ text[p] \in company
  /\ raised \subseteq company

IsLine(n) == \E i \in Lines : appended[i] = <<n>>

\* A print() that is alone on the buffer finds there what it left.
LoneInv ==
  /\ \A p \in Busy : text[p] \notin company =>
       /\ closer = "open"
       /\ part[p] = "text" => at[p] = "add" /\ buffer = <<>>
       /\ part[p] = "newline" =>
            \/ at[p] = "add" /\ buffer = <<text[p]>>
            \/ at[p] = "store" /\ line[p] = <<text[p]>> /\ rest[p] = <<>>
            \/ at[p] = "emit" /\ line[p] = <<text[p]>> /\ buffer = <<>>
            \/ at[p] = "test" /\ IsLine(text[p]) /\ buffer = <<>>
  /\ \A n \in 1..prints : Ended(n) /\ n \notin company => IsLine(n)

\* The lines that have left the queue: those that are sent or under way, and
\* those that were dropped.
Left == Len(appended) - Len(logs)
Sent == Range(sent)
Under(s) == Range(flight[s])
Taken == Sent \cup Under("runner") \cup Under("closer")

Rising(s) == \A i, j \in DOMAIN s : i < j => s[i] < s[j]

\* The queue holds the newest lines, and lost lines only when it was full.  What was
\* sent and what is being sent follow each other as long as nobody gives up waiting.
QueueInv ==
  /\ Len(logs) <= Capacity /\ Len(logs) <= Len(appended)
  /\ \A i \in DOMAIN logs : logs[i] = Left + i
  /\ Taken \subseteq 1..Left
  /\ \A n \in 1..Left : n \in Taken \/ n + Capacity <= Len(appended)
  /\ \A s \in {"runner", "closer"} : Rising(flight[s]) /\ Sent \cap Under(s) = {}
  /\ Under("runner") \cap Under("closer") = {}
  /\ IsInjective(sent)
  /\ ~hurried =>
       /\ Rising(sent)
       /\ \A s \in {"runner", "closer"} : \A n \in Sent, m \in Under(s) : n < m

\* Who still sends, and what has been sent of the lines that count once nobody does.
CloseInv ==
  /\ flight["runner"] # <<>> => runner # "ended"
  /\ flight["closer"] # <<>> => closer = "send"
  /\ closer \in {"send", "closed"} => runner = "ended" \/ hurried
  /\ runner # "waiting" => closer # "open"
  /\ runner = "ended" /\ ~hurried =>
       \A n \in 1..prints : Ended(n) /\ n \notin company =>
         \E i \in Lines :
           /\ appended[i] = <<n>>
           /\ i \in Range(sent) \/ i + Capacity <= Len(appended)

IndInv ==
  /\ TypeOK
  /\ WriteInv
  /\ LoneInv
  /\ QueueInv
  /\ CloseInv
=============================================================================
