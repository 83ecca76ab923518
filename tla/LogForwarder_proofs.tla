------------------------ MODULE LogForwarder_proofs ------------------------
(***************************************************************************)
(* Proofs about the forwarding of the log: a print() that nothing overlaps *)
(* becomes one line, every queued line is accounted for, and lines are     *)
(* sent in order unless somebody gave up waiting.                          *)
(***************************************************************************)
EXTENDS LogForwarder, WellFoundedInduction, TLAPS

(* Sequences.                                                               *)

\* A set of numbers has a least element.
LEMMA LeastNatural ==
  ASSUME NEW T, T \subseteq Nat, T # {}
  PROVE  \E m \in T : \A k \in T : m <= k
PROOF
  <1> DEFINE R == OpToRel(<, Nat)
  <1>1. IsWellFoundedOn(R, Nat)
    BY NatLessThanWellFounded
  <1>2. \A k, m \in T : k < m => <<k, m>> \in R
    BY DEF OpToRel
  <1> HIDE DEF R
  <1>3. PICK m \in T : \A k \in T : ~ (<<k, m>> \in R)
    BY <1>1, WFMin
  <1>4. ASSUME NEW k \in T PROVE m <= k
    <2>1. ~(k < m)
      BY <1>2, <1>3
    <2> QED BY <2>1
  <1> QED BY <1>4

\* What Append, Tail, \o and SubSeq return.
LEMMA AppendFacts ==
  ASSUME NEW S, NEW s \in Seq(S), NEW e \in S
  PROVE  /\ Append(s, e) \in Seq(S)
         /\ Len(Append(s, e)) = Len(s) + 1 /\ Len(s) \in Nat
         /\ DOMAIN Append(s, e) = 1..(Len(s) + 1) /\ DOMAIN s = 1..Len(s)
         /\ \A i \in 1..Len(s) : Append(s, e)[i] = s[i]
         /\ Append(s, e)[Len(s) + 1] = e
  OBVIOUS

LEMMA TailFacts ==
  ASSUME NEW S, NEW s \in Seq(S), s # <<>>
  PROVE  /\ Tail(s) \in Seq(S)
         /\ Len(Tail(s)) = Len(s) - 1 /\ Len(s) \in Nat \ {0}
         /\ DOMAIN Tail(s) = 1..(Len(s) - 1)
         /\ \A i \in 1..(Len(s) - 1) : Tail(s)[i] = s[i + 1]
  OBVIOUS

LEMMA ConcatFacts ==
  ASSUME NEW S, NEW s \in Seq(S), NEW t \in Seq(S)
  PROVE  /\ s \o t \in Seq(S)
         /\ Len(s) \in Nat /\ DOMAIN s = 1..Len(s)
         /\ Len(t) \in Nat /\ DOMAIN t = 1..Len(t)
         /\ Len(s \o t) = Len(s) + Len(t) /\ DOMAIN (s \o t) = 1..(Len(s) + Len(t))
         /\ \A k \in 1..Len(s) : (s \o t)[k] = s[k]
         /\ \A k \in 1..Len(t) : (s \o t)[Len(s) + k] = t[k]
  OBVIOUS

LEMMA SubSeqFacts ==
  ASSUME NEW S, NEW T, NEW s \in Seq(S), NEW m \in Int, NEW n \in Int,
         1 <= m, n <= Len(s), m <= n + 1, \A i \in m..n : s[i] \in T
  PROVE  /\ SubSeq(s, m, n) \in Seq(T)
         /\ Len(SubSeq(s, m, n)) = n - m + 1
         /\ DOMAIN SubSeq(s, m, n) = 1..(n - m + 1)
         /\ \A i \in 1..(n - m + 1) : SubSeq(s, m, n)[i] = s[m + i - 1]
PROOF
  <1>1. SubSeq(s, m, n) \in Seq(T)
    OBVIOUS
  <1>2. /\ Len(SubSeq(s, m, n)) = n - m + 1
        /\ DOMAIN SubSeq(s, m, n) = 1..(n - m + 1)
        /\ \A i \in 1..(n - m + 1) : SubSeq(s, m, n)[i] = s[m + i - 1]
    OBVIOUS
  <1> QED BY <1>1, <1>2

LEMMA SeqFacts ==
  ASSUME NEW S, NEW s \in Seq(S)
  PROVE  /\ Len(s) \in Nat /\ DOMAIN s = 1..Len(s)
         /\ \A i \in 1..Len(s) : s[i] \in S
         /\ s = <<>> <=> Len(s) = 0
  OBVIOUS

\* The elements of a sequence that an element, or a sequence, is added to.
LEMMA RangeAppend ==
  ASSUME NEW S, NEW s \in Seq(S), NEW e \in S
  PROVE  Range(Append(s, e)) = Range(s) \cup {e}
PROOF
  <1> DEFINE t == Append(s, e)
  <1>1. /\ Len(s) \in Nat /\ DOMAIN s = 1..Len(s)
        /\ DOMAIN t = 1..(Len(s) + 1)
        /\ \A k \in 1..Len(s) : t[k] = s[k]
        /\ t[Len(s) + 1] = e
    BY AppendFacts
  <1> HIDE DEF t
  <1>2. {t[k] : k \in DOMAIN t} = {s[k] : k \in DOMAIN s} \cup {e}
    BY <1>1
  <1> QED BY <1>2 DEF t, Range

LEMMA RangeConcat ==
  ASSUME NEW S, NEW s \in Seq(S), NEW t \in Seq(S)
  PROVE  Range(s \o t) = Range(s) \cup Range(t)
PROOF
  <1> DEFINE u == s \o t
  <1>1. /\ Len(s) \in Nat /\ DOMAIN s = 1..Len(s)
        /\ Len(t) \in Nat /\ DOMAIN t = 1..Len(t)
        /\ DOMAIN u = 1..(Len(s) + Len(t))
        /\ \A k \in 1..Len(s) : u[k] = s[k]
        /\ \A k \in 1..Len(t) : u[Len(s) + k] = t[k]
    BY ConcatFacts
  <1> HIDE DEF u
  <1>2. ASSUME NEW k \in DOMAIN u
        PROVE  u[k] \in {s[j] : j \in DOMAIN s} \cup {t[j] : j \in DOMAIN t}
    <2>1. CASE k <= Len(s)
      BY <1>1, <2>1
    <2>2. CASE k > Len(s)
      <3>1. k - Len(s) \in 1..Len(t) /\ k = Len(s) + (k - Len(s))
        BY <1>1, <2>2
      <3>2. u[k] = t[k - Len(s)]
        BY <1>1, <3>1
      <3> QED BY <1>1, <3>1, <3>2
    <2> QED BY <1>1, <2>1, <2>2
  <1>3. ASSUME NEW j \in DOMAIN s PROVE s[j] \in {u[k] : k \in DOMAIN u}
    BY <1>1
  <1>4. ASSUME NEW j \in DOMAIN t PROVE t[j] \in {u[k] : k \in DOMAIN u}
    <2>1. Len(s) + j \in DOMAIN u /\ u[Len(s) + j] = t[j]
      BY <1>1
    <2> QED BY <2>1
  <1> QED BY <1>2, <1>3, <1>4 DEF u, Range

\* Where the first line of a buffer ends.
LEMMA FirstLine ==
  ASSUME NEW b \in Seq(Texts \cup {Newline}), HasLine(b)
  PROVE  LET n == FirstNewline(b)
         IN  /\ n \in 1..Len(b) /\ b[n] = Newline
             /\ SubSeq(b, 1, n - 1) \in Seq(Texts)
             /\ Len(SubSeq(b, 1, n - 1)) = n - 1
             /\ \A i \in 1..(n - 1) : SubSeq(b, 1, n - 1)[i] = b[i]
             /\ SubSeq(b, n + 1, Len(b)) \in Seq(Texts \cup {Newline})
             /\ Len(SubSeq(b, n + 1, Len(b))) = Len(b) - n
PROOF
  <1> DEFINE T == {i \in DOMAIN b : b[i] = Newline}
             n == FirstNewline(b)
  <1>1. /\ Len(b) \in Nat /\ DOMAIN b = 1..Len(b)
        /\ \A i \in 1..Len(b) : b[i] \in Texts \cup {Newline}
    BY SeqFacts
  <1>2. T # {} /\ T \subseteq Nat
    BY <1>1 DEF HasLine, Range
  <1>3. PICK m \in T : \A k \in T : m <= k
    BY <1>2, LeastNatural
  <1>4. \A j \in 1..(m - 1) : b[j] # Newline
    BY <1>1, <1>3
  <1>5. n \in DOMAIN b /\ b[n] = Newline /\ \A j \in 1..(n - 1) : b[j] # Newline
    BY <1>3, <1>4 DEF FirstNewline
  <1> HIDE DEF n
  <1>6. \A i \in 1..(n - 1) : b[i] \in Texts
    BY <1>1, <1>5
  <1>7. n - 1 \in Nat /\ n + 1 \in Int /\ Len(b) \in Nat /\ n - 1 <= Len(b)
    BY <1>1, <1>5
  <1>8. /\ SubSeq(b, 1, n - 1) \in Seq(Texts)
        /\ Len(SubSeq(b, 1, n - 1)) = n - 1
        /\ \A i \in 1..(n - 1) : SubSeq(b, 1, n - 1)[i] = b[i]
    <2>1. \A i \in 1..(n - 1) : i \in 1..(n - 1 - 1 + 1) /\ 1 + i - 1 = i
      BY <1>7
    <2> HIDE DEF Texts
    <2>2. /\ SubSeq(b, 1, n - 1) \in Seq(Texts)
          /\ Len(SubSeq(b, 1, n - 1)) = n - 1 - 1 + 1
          /\ \A i \in 1..(n - 1 - 1 + 1) : SubSeq(b, 1, n - 1)[i] = b[1 + i - 1]
      BY <1>6, <1>7, SubSeqFacts
    <2> QED BY <1>7, <2>1, <2>2
  <1>9. \A i \in (n + 1)..Len(b) : b[i] \in Texts \cup {Newline}
    BY <1>1, <1>5
  <1>10. /\ SubSeq(b, n + 1, Len(b)) \in Seq(Texts \cup {Newline})
         /\ Len(SubSeq(b, n + 1, Len(b))) = Len(b) - n
    BY <1>5, <1>7, <1>9, <1>1, SubSeqFacts
  <1> QED BY <1>1, <1>5, <1>8, <1>10 DEF n

-----------------------------------------------------------------------------
(* The queue.                                                               *)

\* What is taken from the head of a queue, and what stays.
LEMMA SplitQueue ==
  ASSUME NEW b \in Seq(Nat), NEW k \in 0..Len(b)
  PROVE  /\ SubSeq(b, 1, k) \in Seq(Nat) /\ Len(SubSeq(b, 1, k)) = k
         /\ \A i \in 1..k : SubSeq(b, 1, k)[i] = b[i]
         /\ SubSeq(b, k + 1, Len(b)) \in Seq(Nat)
         /\ Len(SubSeq(b, k + 1, Len(b))) = Len(b) - k
         /\ \A i \in 1..(Len(b) - k) : SubSeq(b, k + 1, Len(b))[i] = b[k + i]
PROOF
  <1>1. Len(b) \in Nat /\ k \in Int /\ \A i \in 1..Len(b) : b[i] \in Nat
    BY SeqFacts
  <1>2. /\ SubSeq(b, 1, k) \in Seq(Nat) /\ Len(SubSeq(b, 1, k)) = k - 1 + 1
        /\ \A i \in 1..(k - 1 + 1) : SubSeq(b, 1, k)[i] = b[1 + i - 1]
    BY <1>1, SubSeqFacts
  <1>3. /\ SubSeq(b, k + 1, Len(b)) \in Seq(Nat)
        /\ Len(SubSeq(b, k + 1, Len(b))) = Len(b) - (k + 1) + 1
        /\ \A i \in 1..(Len(b) - (k + 1) + 1) :
             SubSeq(b, k + 1, Len(b))[i] = b[k + 1 + i - 1]
    BY <1>1, SubSeqFacts
  <1>4. \A i \in 1..k : SubSeq(b, 1, k)[i] = b[i]
    <2> TAKE i \in 1..k
    <2>1. i \in 1..(k - 1 + 1) /\ 1 + i - 1 = i
      OBVIOUS
    <2> QED BY <1>2, <2>1
  <1>5. \A i \in 1..(Len(b) - k) : SubSeq(b, k + 1, Len(b))[i] = b[k + i]
    <2> TAKE i \in 1..(Len(b) - k)
    <2>1. i \in 1..(Len(b) - (k + 1) + 1) /\ k + 1 + i - 1 = k + i
      BY <1>1
    <2> QED BY <1>3, <2>1
  <1> QED BY <1>1, <1>2, <1>3, <1>4, <1>5

\* A line is queued: it is the newest, and the oldest goes when there is no room.
Queues(message) ==
  /\ appended' = Append(appended, message)
  /\ logs' \in Seq(Nat) /\ appended' \in Seq(Seq(Texts \cup {Newline}))
  /\ Len(appended') = Len(appended) + 1
  /\ \A i \in Lines : appended'[i] = appended[i]
  /\ appended'[Len(appended) + 1] = message
  /\ Len(logs') = IF Len(logs) < Capacity THEN Len(logs) + 1 ELSE Capacity
  /\ \A i \in DOMAIN logs' : logs'[i] = Left' + i

\* _append does just this.
LEMMA QueueEffect ==
  ASSUME TypeOK, QueueInv, NEW message \in Seq(Texts \cup {Newline}), message # <<>>,
         Queue(message)
  PROVE  Queues(message)
PROOF
  <1> DEFINE L == Len(appended)
             all == Append(logs, L + 1)
  <1>1. /\ logs \in Seq(Nat) /\ Len(logs) \in Nat /\ L \in Nat /\ Capacity \in Nat \ {0}
        /\ Len(logs) <= Capacity /\ Len(logs) <= L
        /\ \A i \in 1..Len(logs) : logs[i] = L - Len(logs) + i
    BY LogForwarderAssumption DEF TypeOK, QueueInv, Left
  <1>2. /\ appended' = Append(appended, message)
        /\ appended' \in Seq(Seq(Texts \cup {Newline})) /\ Len(appended') = L + 1
        /\ \A i \in 1..L : appended'[i] = appended[i]
        /\ appended'[L + 1] = message
    <2>1. appended \in Seq(Seq(Texts \cup {Newline}))
      BY DEF TypeOK
    <2>2. appended' = Append(appended, message)
      BY DEF Queue
    <2> HIDE DEF Queue
    <2> QED BY <2>1, <2>2, AppendFacts
  <1>3. logs' = IF Len(all) > Capacity THEN Tail(all) ELSE all
    BY <1>2 DEF Queue
  <1>4. /\ all \in Seq(Nat) /\ Len(all) = Len(logs) + 1
        /\ \A i \in 1..(Len(logs) + 1) : all[i] = L - Len(logs) + i
    <2>1. L + 1 \in Nat
      BY <1>1
    <2>2. /\ all \in Seq(Nat) /\ Len(all) = Len(logs) + 1
          /\ \A i \in 1..Len(logs) : all[i] = logs[i]
          /\ all[Len(logs) + 1] = L + 1
      BY <1>1, <2>1, AppendFacts
    <2> HIDE DEF all
    <2>3. \A i \in 1..(Len(logs) + 1) : i \in 1..Len(logs) \/ i = Len(logs) + 1
      BY <1>1
    <2>4. L + 1 = L - Len(logs) + (Len(logs) + 1)
      BY <1>1
    <2> QED BY <1>1, <2>2, <2>3, <2>4
  <1> HIDE DEF all, L
  <1>5. CASE Len(logs) < Capacity
    <2>1. logs' = all
      BY <1>1, <1>3, <1>4, <1>5
    <2>2. DOMAIN all = 1..(Len(logs) + 1)
      BY <1>4, SeqFacts
    <2>3. Left' = Len(appended') - Len(logs')
      BY DEF Left
    <2>4. Left' = L - Len(logs)
      BY <1>1, <1>2, <1>4, <2>1, <2>3
    <2> QED BY <1>1, <1>2, <1>4, <1>5, <2>1, <2>2, <2>4 DEF Queues, Lines, L
  <1>6. CASE Len(logs) = Capacity
    <2>1. logs' = Tail(all) /\ all # <<>>
      BY <1>1, <1>3, <1>4, <1>6
    <2>2. /\ logs' \in Seq(Nat) /\ Len(logs') = Capacity /\ DOMAIN logs' = 1..Capacity
          /\ \A i \in 1..Capacity : logs'[i] = all[i + 1]
      BY <1>1, <1>4, <1>6, <2>1, TailFacts
    <2>3. Left' = Len(appended') - Len(logs')
      BY DEF Left
    <2>4. Left' = L + 1 - Capacity
      <3>1. Len(appended') = L + 1
        BY <1>2
      <3>2. Len(logs') = Capacity
        BY <2>2
      <3>3. L \in Int /\ Capacity \in Int
        BY <1>1
      <3> QED BY <2>3, <3>1, <3>2, <3>3
    <2>5. ASSUME NEW i \in 1..Capacity PROVE logs'[i] = Left' + i
      <3>1. i + 1 \in 1..(Len(logs) + 1) /\ i \in Int /\ L \in Int /\ Capacity \in Int
        BY <1>1, <1>6
      <3>2. all[i + 1] = L - Len(logs) + (i + 1)
        BY <1>4, <3>1
      <3>3. logs'[i] = all[i + 1]
        BY <2>2
      <3> QED BY <1>6, <2>4, <3>1, <3>2, <3>3
    <2> QED BY <1>1, <1>2, <1>6, <2>2, <2>5 DEF Queues, Lines, L
  <1> QED BY <1>1, <1>5, <1>6

\* A batch is taken from the head of the queue: the lines that follow those that left.
Drains(s, f) ==
  \E k \in 0..Len(logs) :
    /\ flight' = [flight EXCEPT ![s] = f]
    /\ f \in Seq(Nat) /\ Rising(f) /\ Range(f) = (Left + 1)..(Left + k)
    /\ logs' \in Seq(Nat) /\ Len(logs') = Len(logs) - k
    /\ \A i \in DOMAIN logs' : logs'[i] = Left + k + i

\* _drain does just this.
LEMMA DrainEffect ==
  ASSUME TypeOK, QueueInv, NEW s \in {"runner", "closer"}, Drain(s)
  PROVE  \E f : Drains(s, f)
PROOF
  <1> DEFINE k == Drained(logs)
             f == SubSeq(logs, 1, k)
             g == SubSeq(logs, k + 1, Len(logs))
             D == Left
  <1>1. /\ logs \in Seq(Nat) /\ Len(logs) \in Nat /\ DOMAIN logs = 1..Len(logs)
        /\ D \in Nat /\ \A i \in 1..Len(logs) : logs[i] = D + i
    <2>1. /\ logs \in Seq(Nat) /\ Len(logs) \in Nat /\ DOMAIN logs = 1..Len(logs)
          /\ Len(appended) \in Nat
      BY SeqFacts DEF TypeOK
    <2>2. Len(logs) <= Len(appended) /\ \A i \in DOMAIN logs : logs[i] = Left + i
      BY DEF QueueInv
    <2>3. D \in Nat
      BY <2>1, <2>2 DEF Left
    <2> QED BY <2>1, <2>2, <2>3
  <1>2. k \in 0..Len(logs)
    BY <1>1, LogForwarderAssumption DEF Drained
  <1>3. flight' = [flight EXCEPT ![s] = f] /\ logs' = g
    BY DEF Drain
  <1> HIDE DEF k
  <1>4. /\ f \in Seq(Nat) /\ Len(f) = k /\ \A i \in 1..k : f[i] = logs[i]
        /\ g \in Seq(Nat) /\ Len(g) = Len(logs) - k
        /\ \A i \in 1..(Len(logs) - k) : g[i] = logs[k + i]
    BY <1>1, <1>2, SplitQueue
  <1> HIDE DEF f, g, D
  <1>5. /\ DOMAIN f = 1..k /\ \A i \in 1..k : f[i] = D + i
        /\ DOMAIN g = 1..(Len(logs) - k)
        /\ \A i \in 1..(Len(logs) - k) : g[i] = D + k + i
    <2>1. DOMAIN f = 1..k /\ DOMAIN g = 1..(Len(logs) - k)
      BY <1>4, SeqFacts
    <2>2. \A i \in 1..k : f[i] = D + i
      BY <1>1, <1>2, <1>4
    <2>3. ASSUME NEW i \in 1..(Len(logs) - k) PROVE g[i] = D + k + i
      <3>1. k + i \in 1..Len(logs) /\ g[i] = logs[k + i]
        BY <1>1, <1>2, <1>4
      <3>2. logs[k + i] = D + (k + i)
        BY <1>1, <3>1
      <3> QED BY <1>1, <1>2, <3>1, <3>2
    <2> QED BY <2>1, <2>2, <2>3
  <1>6. Rising(f)
    BY <1>1, <1>2, <1>5 DEF Rising
  <1>7. {f[i] : i \in 1..k} = (D + 1)..(D + k)
    <2>1. ASSUME NEW n \in (D + 1)..(D + k) PROVE n \in {f[i] : i \in 1..k}
      <3>1. n - D \in 1..k /\ f[n - D] = D + (n - D)
        BY <1>1, <1>2, <1>5
      <3> QED BY <1>1, <3>1
    <2>2. ASSUME NEW i \in 1..k PROVE f[i] \in (D + 1)..(D + k)
      BY <1>1, <1>2, <1>5
    <2> QED BY <2>1, <2>2
  <1>8. Range(f) = (D + 1)..(D + k)
    BY <1>5, <1>7 DEF Range
  <1>9. Drains(s, f)
    BY <1>2, <1>3, <1>4, <1>5, <1>6, <1>8 DEF Drains, D
  <1> QED BY <1>9

\* The numbers and sets that QueueInv speaks of.
LEMMA QueueTypes ==
  ASSUME TypeOK
  PROVE  /\ Len(logs) \in Nat /\ Len(appended) \in Nat /\ Left \in Int
         /\ DOMAIN logs = 1..Len(logs)
         /\ Taken \subseteq Nat /\ Sent \subseteq Nat
         /\ \A s \in {"runner", "closer"} : Under(s) \subseteq Nat
PROOF
  <1>1. Len(logs) \in Nat /\ Len(appended) \in Nat /\ DOMAIN logs = 1..Len(logs)
    BY SeqFacts DEF TypeOK
  <1>2. Sent \subseteq Nat
    <2>1. sent \in Seq(Nat)
      BY DEF TypeOK
    <2>2. \A i \in DOMAIN sent : sent[i] \in Nat
      BY <2>1, SeqFacts
    <2> QED BY <2>2 DEF Sent, Range
  <1>3. ASSUME NEW s \in {"runner", "closer"} PROVE Under(s) \subseteq Nat
    <2>1. flight[s] \in Seq(Nat)
      BY DEF TypeOK
    <2>2. \A i \in DOMAIN flight[s] : flight[s][i] \in Nat
      BY <2>1, SeqFacts
    <2> QED BY <2>2 DEF Under, Range
  <1>4. Under("runner") \subseteq Nat /\ Under("closer") \subseteq Nat
    BY <1>3
  <1>5. Left \in Int
    BY <1>1 DEF Left
  <1>6. Taken \subseteq Nat
    BY <1>2, <1>4 DEF Taken
  <1> HIDE DEF Taken, Left, Sent, Under
  <1> QED BY <1>1, <1>2, <1>3, <1>5, <1>6

\* A queued line changes nothing about those that have left, but for one that
\* Capacity newer lines have pushed out.
LEMMA QueuesKeep ==
  ASSUME TypeOK, QueueInv, NEW message, Queues(message), UNCHANGED <<send_vars, hurried>>
  PROVE  QueueInv'
PROOF
  <1> DEFINE K == Len(logs)
             L == Len(appended)
             K1 == Len(logs')
             L1 == Len(appended')
             D == Left
             D1 == Left'
  <1>1. /\ K \in Nat /\ L \in Nat /\ Capacity \in Nat \ {0} /\ K <= Capacity /\ K <= L
        /\ D = L - K /\ D1 = L1 - K1
    BY QueueTypes, LogForwarderAssumption DEF QueueInv, Left
  <1>2. /\ L1 = L + 1 /\ K1 = IF K < Capacity THEN K + 1 ELSE Capacity
        /\ \A i \in DOMAIN logs' : logs'[i] = D1 + i
    BY DEF Queues
  <1>3. /\ Taken' = Taken /\ Sent' = Sent /\ \A s \in {"runner", "closer"} : Under(s)' = Under(s)
        /\ flight' = flight /\ sent' = sent /\ hurried' = hurried
    BY DEF Taken, Sent, Under, send_vars
  <1>4. /\ Taken \subseteq 1..D
        /\ \A n \in 1..D : n \in Taken \/ n + Capacity <= L
    BY DEF QueueInv
  <1> HIDE DEF K, L, D, K1, L1, D1
  <1>5. K1 <= Capacity /\ K1 <= L1
    BY <1>1, <1>2
  <1>6. D1 \in Nat /\ D \in Nat /\ (D1 = D \/ (D1 = D + 1 /\ D1 + Capacity = L1))
    BY <1>1, <1>2
  <1>7. Taken \subseteq 1..D1 /\ \A n \in 1..D1 : n \in Taken \/ n + Capacity <= L1
    BY <1>1, <1>2, <1>4, <1>6
  <1>8. /\ \A s \in {"runner", "closer"} : Rising(flight'[s]) /\ Sent' \cap Under(s)' = {}
        /\ Under("runner")' \cap Under("closer")' = {}
        /\ IsInjective(sent')
        /\ ~hurried' =>
             /\ Rising(sent')
             /\ \A s \in {"runner", "closer"} : \A n \in Sent', m \in Under(s)' : n < m
    BY <1>3 DEF QueueInv
  <1> QED BY <1>2, <1>3, <1>5, <1>7, <1>8 DEF QueueInv, K1, L1, D1

\* What a batch takes has not been sent before, and is newer than all that was.
LEMMA DrainsKeep ==
  ASSUME TypeOK, QueueInv, NEW s \in {"runner", "closer"}, NEW f, Drains(s, f),
         flight[s] = <<>>, UNCHANGED <<appended, sent>>, hurried => hurried',
         \A o \in {"runner", "closer"} \ {s} : ~hurried' => flight[o] = <<>>
  PROVE  QueueInv'
PROOF
  <1> DEFINE K == Len(logs)
             L == Len(appended)
             D == Left
             F == Range(f)
  <1>1. /\ K \in Nat /\ L \in Nat /\ K <= Capacity /\ K <= L /\ D = L - K
        /\ Capacity \in Nat \ {0}
    BY QueueTypes, LogForwarderAssumption DEF QueueInv, Left
  <1>2. PICK k \in 0..K :
          /\ flight' = [flight EXCEPT ![s] = f]
          /\ Rising(f) /\ F = (D + 1)..(D + k)
          /\ Len(logs') = K - k
          /\ \A i \in DOMAIN logs' : logs'[i] = D + k + i
    BY DEF Drains
  <1>3. Left' = D + k
    <2>1. Left' = Len(appended') - Len(logs')
      BY DEF Left
    <2> HIDE DEF D
    <2> QED BY <1>1, <1>2, <2>1
  <1>4. PICK o \in {"runner", "closer"} : o # s /\ {"runner", "closer"} = {s, o}
    OBVIOUS
  <1>5. /\ Under(s) = {} /\ Under(s)' = F /\ flight'[s] = f
        /\ Under(o)' = Under(o) /\ flight'[o] = flight[o] /\ Sent' = Sent
        /\ ~hurried' => Under(o) = {}
    <2>1. flight'[s] = f /\ flight'[o] = flight[o]
      BY <1>2, <1>4 DEF TypeOK
    <2>2. Range(<<>>) = {}
      BY DEF Range
    <2>3. sent' = sent /\ (~hurried' => flight[o] = <<>>)
      BY <1>4
    <2> QED BY <2>1, <2>2, <2>3 DEF Under, Sent
  <1>6. Taken = Sent \cup Under(o) /\ Taken' = Taken \cup F
    BY <1>4, <1>5 DEF Taken
  <1>7. /\ Taken \subseteq 1..D
        /\ \A n \in 1..D : n \in Taken \/ n + Capacity <= L
        /\ Rising(flight[o]) /\ Sent \cap Under(o) = {}
        /\ IsInjective(sent)
        /\ ~hurried => Rising(sent)
    BY <1>4 DEF QueueInv
  <1> HIDE DEF K, L, D, F
  <1>8. D \in Nat /\ D + k \in Nat
    BY <1>1
  <1>9. /\ Taken' \subseteq 1..(D + k)
        /\ \A n \in 1..(D + k) : n \in Taken' \/ n + Capacity <= L
    BY <1>2, <1>6, <1>7, <1>8
  <1>10. Taken \cap F = {} /\ \A n \in Taken, m \in F : n < m
    BY <1>2, <1>7, <1>8
  <1>11. /\ Rising(flight'[s]) /\ Rising(flight'[o])
         /\ Sent' \cap Under(s)' = {} /\ Sent' \cap Under(o)' = {}
         /\ Under(s)' \cap Under(o)' = {}
    BY <1>2, <1>5, <1>6, <1>7, <1>10
  <1>12. IsInjective(sent') /\ (~hurried' => Rising(sent'))
    BY <1>7
  <1>13. ~hurried' => /\ \A n \in Sent', m \in Under(s)' : n < m
                      /\ \A n \in Sent', m \in Under(o)' : n < m
    BY <1>5, <1>6, <1>10
  <1>14. /\ Len(logs') <= Capacity /\ Len(logs') <= Len(appended')
         /\ \A i \in DOMAIN logs' : logs'[i] = Left' + i
    BY <1>1, <1>2, <1>3 DEF L
  <1>15. Taken' \subseteq 1..Left' /\ \A n \in 1..Left' : n \in Taken' \/ n + Capacity <= Len(appended')
    BY <1>3, <1>9 DEF L
  <1>16. Under("runner")' \cap Under("closer")' = {}
    BY <1>4, <1>11
  <1>17. \A t \in {"runner", "closer"} : Rising(flight'[t]) /\ Sent' \cap Under(t)' = {}
    BY <1>4, <1>11
  <1>18. ~hurried' => \A t \in {"runner", "closer"} : \A n \in Sent', m \in Under(t)' : n < m
    BY <1>4, <1>13
  <1> QED BY <1>12, <1>14, <1>15, <1>16, <1>17, <1>18 DEF QueueInv

\* What is sent was under way, and came after all that was sent before.
LEMMA SendKeeps ==
  ASSUME TypeOK, QueueInv, NEW s \in {"runner", "closer"}, Send(s),
         UNCHANGED <<queue_vars, hurried>>,
         \A o \in {"runner", "closer"} \ {s} : ~hurried => flight[o] = <<>>
  PROVE  QueueInv'
PROOF
  <1> DEFINE F == Under(s)
             f == flight[s]
             u == sent \o f
  <1>1. PICK o \in {"runner", "closer"} : o # s /\ {"runner", "closer"} = {s, o}
    OBVIOUS
  <1>2. /\ sent' = u /\ flight'[s] = <<>> /\ flight'[o] = flight[o]
        /\ hurried' = hurried /\ logs' = logs /\ appended' = appended
    BY <1>1 DEF Send, TypeOK, queue_vars
  <1>3. /\ sent \in Seq(Nat) /\ f \in Seq(Nat)
    BY DEF TypeOK
  <1>4. Range(<<>>) = {} /\ Rising(<<>>)
    BY DEF Range, Rising
  <1>5. /\ Sent' = Sent \cup F /\ Under(s)' = {} /\ Under(o)' = Under(o)
        /\ ~hurried => Under(o) = {}
    <2>1. Range(u) = Range(sent) \cup Range(f)
      BY <1>3, RangeConcat
    <2>2. Sent' = Range(u)
      BY <1>2 DEF Sent
    <2>3. ~hurried => flight[o] = <<>>
      BY <1>1
    <2>4. Sent' = Sent \cup F
      BY <2>1, <2>2 DEF Sent, Under
    <2>5. Under(s)' = {} /\ Under(o)' = Under(o)
      BY <1>2, <1>4 DEF Under
    <2>6. ~hurried => Under(o) = {}
      BY <2>3, <1>4 DEF Under
    <2> QED BY <2>4, <2>5, <2>6
  <1>6. Taken' = Taken /\ Left' = Left
    <2>1. Taken = Sent \cup F \cup Under(o)
      BY <1>1 DEF Taken
    <2>2. Taken' = Sent' \cup Under(s)' \cup Under(o)'
      BY <1>1 DEF Taken
    <2>3. Taken' = Taken
      BY <1>5, <2>1, <2>2
    <2>4. Left' = Left
      BY <1>2 DEF Left
    <2> QED BY <2>3, <2>4
  <1>7. /\ Rising(f) /\ Sent \cap F = {} /\ F \cap Under(o) = {} /\ Sent \cap Under(o) = {}
        /\ Rising(flight[o]) /\ IsInjective(sent)
        /\ ~hurried => Rising(sent) /\ \A n \in Sent, m \in F : n < m
    BY <1>1 DEF QueueInv
  <1>8. /\ Len(sent) \in Nat /\ DOMAIN sent = 1..Len(sent)
        /\ Len(f) \in Nat /\ DOMAIN f = 1..Len(f)
        /\ DOMAIN u = 1..(Len(sent) + Len(f))
        /\ \A i \in 1..Len(sent) : u[i] = sent[i] /\ sent[i] \in Sent /\ sent[i] \in Nat
        /\ \A i \in 1..Len(f) : u[Len(sent) + i] = f[i] /\ f[i] \in F /\ f[i] \in Nat
    <2>1. /\ Len(sent) \in Nat /\ DOMAIN sent = 1..Len(sent)
          /\ Len(f) \in Nat /\ DOMAIN f = 1..Len(f)
          /\ DOMAIN u = 1..(Len(sent) + Len(f))
          /\ \A i \in 1..Len(sent) : u[i] = sent[i]
          /\ \A i \in 1..Len(f) : u[Len(sent) + i] = f[i]
      BY <1>3, ConcatFacts
    <2>2. \A i \in 1..Len(sent) : sent[i] \in Sent /\ sent[i] \in Nat
      BY <1>3, <2>1, SeqFacts DEF Sent, Range
    <2>3. \A i \in 1..Len(f) : f[i] \in F /\ f[i] \in Nat
      BY <1>3, <2>1, SeqFacts DEF Under, Range
    <2> QED BY <2>1, <2>2, <2>3
  <1>9. \A i \in DOMAIN f, j \in DOMAIN f : i < j => f[i] < f[j]
    BY <1>7 DEF Rising
  <1>10. \A i \in DOMAIN sent, j \in DOMAIN sent : sent[i] = sent[j] => i = j
    BY <1>7 DEF IsInjective
  <1>11. ~hurried => \A i \in DOMAIN sent, j \in DOMAIN sent : i < j => sent[i] < sent[j]
    BY <1>7 DEF Rising
  <1> HIDE DEF f, F, u
  <1>12. \A i \in DOMAIN u : \/ i \in 1..Len(sent)
                             \/ i - Len(sent) \in 1..Len(f) /\ u[i] = f[i - Len(sent)]
    <2> TAKE i \in DOMAIN u
    <2>1. CASE i <= Len(sent)
      BY <1>8, <2>1
    <2>2. CASE i > Len(sent)
      <3>1. i - Len(sent) \in 1..Len(f) /\ i = Len(sent) + (i - Len(sent))
        BY <1>8, <2>2
      <3> QED BY <1>8, <3>1
    <2> QED BY <1>8, <2>1, <2>2
  <1>13. IsInjective(u)
    <2>1. ASSUME NEW i \in DOMAIN u, NEW j \in DOMAIN u, u[i] = u[j] PROVE i = j
      <3>1. CASE i \in 1..Len(sent) /\ j \in 1..Len(sent)
        BY <1>8, <1>10, <2>1, <3>1
      <3>2. CASE i \in 1..Len(sent) /\ j \notin 1..Len(sent)
        <4>1. u[i] \in Sent
          BY <1>8, <3>2
        <4>2. u[j] \in F
          BY <1>8, <1>12, <3>2
        <4> QED BY <1>7, <2>1, <4>1, <4>2
      <3>3. CASE i \notin 1..Len(sent) /\ j \in 1..Len(sent)
        <4>1. u[j] \in Sent
          BY <1>8, <3>3
        <4>2. u[i] \in F
          BY <1>8, <1>12, <3>3
        <4> QED BY <1>7, <2>1, <4>1, <4>2
      <3>4. CASE i \notin 1..Len(sent) /\ j \notin 1..Len(sent)
        <4> DEFINE a == i - Len(sent)
                   b == j - Len(sent)
        <4>1. a \in 1..Len(f) /\ b \in 1..Len(f) /\ f[a] = f[b]
          BY <1>12, <2>1, <3>4
        <4>2. f[a] \in Nat /\ a \in DOMAIN f /\ b \in DOMAIN f
          BY <1>8, <4>1
        <4>3. ~(a < b) /\ ~(b < a)
          BY <1>9, <4>1, <4>2
        <4> QED BY <1>8, <4>1, <4>3
      <3> QED BY <3>1, <3>2, <3>3, <3>4
    <2> QED BY <2>1 DEF IsInjective
  <1>14. ~hurried => Rising(u)
    <2>1. ASSUME ~hurried, NEW i \in DOMAIN u, NEW j \in DOMAIN u, i < j PROVE u[i] < u[j]
      <3>1. CASE i \in 1..Len(sent) /\ j \in 1..Len(sent)
        BY <1>8, <1>11, <2>1, <3>1
      <3>2. CASE i \in 1..Len(sent) /\ j \notin 1..Len(sent)
        <4>1. u[i] \in Sent
          BY <1>8, <3>2
        <4>2. u[j] \in F
          BY <1>8, <1>12, <3>2
        <4> QED BY <1>7, <2>1, <4>1, <4>2
      <3>3. CASE i \notin 1..Len(sent)
        <4> DEFINE a == i - Len(sent)
                   b == j - Len(sent)
        <4>1. j \notin 1..Len(sent)
          BY <1>8, <2>1, <3>3
        <4>2. a \in 1..Len(f) /\ b \in 1..Len(f) /\ u[i] = f[a] /\ u[j] = f[b]
          BY <1>12, <4>1, <3>3
        <4>3. a < b
          BY <1>8, <2>1
        <4> QED BY <1>8, <1>9, <4>2, <4>3
      <3> QED BY <3>1, <3>2, <3>3
    <2> QED BY <2>1 DEF Rising
  <1>15. /\ Rising(flight'[s]) /\ Rising(flight'[o])
         /\ Sent' \cap Under(s)' = {} /\ Sent' \cap Under(o)' = {}
         /\ Under(s)' \cap Under(o)' = {}
    BY <1>2, <1>4, <1>5, <1>7
  <1>16. /\ IsInjective(sent')
         /\ ~hurried' =>
              /\ Rising(sent')
              /\ \A t \in {"runner", "closer"} : \A n \in Sent', m \in Under(t)' : n < m
    BY <1>1, <1>2, <1>5, <1>13, <1>14
  <1>17. /\ Len(logs') <= Capacity /\ Len(logs') <= Len(appended')
         /\ \A i \in DOMAIN logs' : logs'[i] = Left' + i
         /\ Taken' \subseteq 1..Left'
         /\ \A n \in 1..Left' : n \in Taken' \/ n + Capacity <= Len(appended')
    BY <1>2, <1>6 DEF QueueInv
  <1>18. /\ \A t \in {"runner", "closer"} : Rising(flight'[t]) /\ Sent' \cap Under(t)' = {}
         /\ Under("runner")' \cap Under("closer")' = {}
    BY <1>1, <1>15
  <1> QED BY <1>16, <1>17, <1>18 DEF QueueInv

-----------------------------------------------------------------------------
(* Types, and what the threads that print have in common.                   *)

Chars == Texts \cup {Newline}

WriteTyped ==
  /\ text \in [Printers -> 0..Prints]
  /\ part \in [Printers -> {"none", "text", "newline"}]
  /\ at \in [Printers -> {"add", "store", "emit", "test", "cut"}]
  /\ line \in [Printers -> Seq(Texts)]
  /\ rest \in [Printers -> Seq(Chars)]
  /\ prints \in 0..Prints
  /\ raised \subseteq Texts
  /\ company \subseteq Texts
  /\ buffer \in Seq(Chars)

QueueTyped ==
  /\ appended \in Seq(Seq(Chars))
  /\ logs \in Seq(Nat)
  /\ flight \in [{"runner", "closer"} -> Seq(Nat)]
  /\ sent \in Seq(Nat)

ThreadsTyped ==
  /\ runner \in {"waiting", "stopping", "ended"}
  /\ closer \in {"open", "flush", "clear", "join", "send", "closed"}
  /\ hurried \in BOOLEAN

LEMMA Typed == TypeOK <=> WriteTyped /\ QueueTyped /\ ThreadsTyped
  BY DEF TypeOK, WriteTyped, QueueTyped, ThreadsTyped, Chars

\* A thread that prints holds a text, and has company when it is not the only one.
LEMMA BusyText ==
  ASSUME WriteTyped, WriteInv, NEW p \in Busy
  PROVE  p \in Printers /\ text[p] \in 1..prints /\ text[p] \in Texts
PROOF
  <1>1. p \in Printers /\ text[p] \in 1..prints
    BY DEF WriteInv, Busy
  <1>2. prints \in 0..Prints /\ Prints \in Nat
    BY LogForwarderAssumption DEF WriteTyped
  <1> QED BY <1>1, <1>2 DEF Texts

\* The write's own part of the state changes in no step of the sender.
LEMMA WriteSame ==
  ASSUME UNCHANGED write_vars
  PROVE  WriteTyped' = WriteTyped /\ WriteInv' = WriteInv
  BY DEF write_vars, WriteTyped, WriteInv, Busy, Texts, Chars

\* A thread that begins to print gives company to all that print, and has theirs.
LEMMA BeginTyped ==
  ASSUME WriteTyped, WriteInv, NEW p \in Printers, BeginPrint(p)
  PROVE  /\ WriteTyped' /\ WriteInv'
         /\ Busy' = Busy \cup {p} /\ p \notin Busy
         /\ text'[p] = prints + 1 /\ prints' = prints + 1 /\ part'[p] = "text" /\ at'[p] = "add"
         /\ \A q \in Busy : text'[q] = text[q] /\ part'[q] = part[q]
         /\ company \subseteq company'
PROOF
  <1>1. /\ part[p] = "none" /\ prints < Prints /\ prints' = prints + 1
        /\ part' = [part EXCEPT ![p] = "text"] /\ text' = [text EXCEPT ![p] = prints + 1]
        /\ UNCHANGED <<at, line, rest, raised, buffer>>
    BY DEF BeginPrint
  <1>2. prints \in Nat /\ prints + 1 \in 1..Prints /\ prints + 1 \in 0..Prints
    BY <1>1, LogForwarderAssumption DEF WriteTyped
  <1>3. part' \in [Printers -> {"none", "text", "newline"}] /\ text' \in [Printers -> 0..Prints]
    BY <1>1, <1>2 DEF WriteTyped
  <1>4. /\ part'[p] = "text" /\ text'[p] = prints + 1
        /\ \A q \in Printers : q # p => part'[q] = part[q] /\ text'[q] = text[q]
    BY <1>1 DEF WriteTyped
  <1>5. Busy' = Busy \cup {p} /\ p \notin Busy
    BY <1>1, <1>4 DEF Busy
  <1>6. \A q \in Busy : q \in Printers /\ q # p /\ text[q] \in 1..prints /\ text[q] \in Texts
    BY <1>5, BusyText
  <1>7. \A q \in Busy : text'[q] = text[q] /\ part'[q] = part[q]
    BY <1>4, <1>6
  <1>8. /\ company \subseteq company'
        /\ company' \subseteq Texts
        /\ Busy = {} \/ \A q \in Busy' : text'[q] \in company'
    <2>1. \A q \in Busy \cup {p} : text'[q] \in Texts
      BY <1>2, <1>4, <1>6, <1>7 DEF Texts
    <2>2. \/ Busy = {} /\ company' = company
          \/ company' = company \cup {text'[q] : q \in Busy \cup {p}}
      BY DEF BeginPrint
    <2>3. company \subseteq Texts
      BY DEF WriteTyped
    <2> HIDE DEF Busy
    <2> QED BY <1>5, <2>1, <2>2, <2>3
  <1>9. WriteTyped'
    BY <1>1, <1>2, <1>3, <1>8 DEF WriteTyped, Chars, Texts
  <1>10. at'[p] = "add"
    BY <1>1 DEF WriteInv, Busy
  <1>11. \A q \in Busy' : text'[q] \in 1..prints'
    BY <1>1, <1>2, <1>4, <1>5, <1>6, <1>7
  <1>12. \A q, o \in Busy' : q # o => text'[q] # text'[o] /\ text'[q] \in company'
    <2> TAKE q, o \in Busy'
    <2>1. CASE Busy = {}
      BY <1>5, <2>1
    <2>2. CASE Busy # {}
      <3>1. text'[q] \in company'
        BY <1>8, <2>2
      <3>2. CASE q \in Busy /\ o \in Busy
        BY <1>7, <3>1, <3>2 DEF WriteInv
      <3>3. CASE q \in Busy /\ o = p
        BY <1>2, <1>4, <1>6, <1>7, <3>1, <3>3
      <3>4. CASE q = p /\ o \in Busy
        BY <1>2, <1>4, <1>6, <1>7, <3>1, <3>4
      <3> QED BY <1>5, <3>2, <3>3, <3>4
    <2> QED BY <2>1, <2>2
  <1>13. \A q \in Printers : at'[q] # "add" => q \in Busy'
    BY <1>1, <1>5 DEF WriteInv
  <1>14. raised' \subseteq company'
    BY <1>1, <1>8 DEF WriteInv
  <1>15. WriteInv'
    BY <1>11, <1>12, <1>13, <1>14 DEF WriteInv
  <1> QED BY <1>1, <1>4, <1>5, <1>7, <1>8, <1>9, <1>10, <1>15

\* What the steps of one write have in common.
LEMMA WriteTypedStep ==
  ASSUME WriteTyped, WriteInv, LoneInv, NEW p \in Printers, Write(p)
  PROVE  /\ WriteTyped' /\ WriteInv'
         /\ p \in Busy /\ Busy' \subseteq Busy /\ Busy \subseteq Busy' \cup {p}
         /\ text' = text /\ prints' = prints /\ company' = company
PROOF
  <1>1. p \in Busy
    BY DEF Write, Add, Store, Emit, Test, CutNext, WriteInv, Busy
  <1>2. text[p] \in Texts
    BY <1>1, BusyText
  <1>3. text' = text /\ prints' = prints /\ company' = company
    BY DEF Write, Add, Store, Emit, Test, CutNext
  <1>4. ASSUME NEW b \in Seq(Chars), HasLine(b), Cut(p, b)
        PROVE  /\ line' \in [Printers -> Seq(Texts)] /\ rest' \in [Printers -> Seq(Chars)]
               /\ at' = [at EXCEPT ![p] = "store"]
    <2> DEFINE n == FirstNewline(b)
               l == SubSeq(b, 1, n - 1)
               r == SubSeq(b, n + 1, Len(b))
    <2>1. l \in Seq(Texts) /\ r \in Seq(Chars)
      BY <1>4, FirstLine DEF Chars
    <2>2. line' = [line EXCEPT ![p] = l] /\ rest' = [rest EXCEPT ![p] = r]
          /\ at' = [at EXCEPT ![p] = "store"]
      BY <1>4 DEF Cut
    <2> HIDE DEF l, r
    <2> QED BY <2>1, <2>2 DEF WriteTyped
  <1> DEFINE Parts == {"none", "text", "newline"}
             Places == {"add", "store", "emit", "test", "cut"}
             Moves(v, w) == /\ at' = [at EXCEPT ![p] = v] /\ v \in Places
                            /\ part' = [part EXCEPT ![p] = w] /\ w \in Parts
                            /\ w = "none" => v = "add"
             Data == /\ line' \in [Printers -> Seq(Texts)] /\ rest' \in [Printers -> Seq(Chars)]
                     /\ buffer' \in Seq(Chars)
                     /\ raised' \subseteq raised \cup (IF at[p] = "cut" THEN {text[p]} ELSE {})
  <1>5. /\ at \in [Printers -> Places] /\ part \in [Printers -> Parts]
        /\ line \in [Printers -> Seq(Texts)] /\ rest \in [Printers -> Seq(Chars)]
        /\ buffer \in Seq(Chars) /\ raised \subseteq Texts /\ part[p] # "none" /\ p \in Printers
    BY <1>1 DEF WriteTyped, Busy
  <1>6. EndWrite(p) => \E v, w : Moves(v, w)
    <2> DEFINE w == IF part[p] = "text" THEN "newline" ELSE "none"
    <2>1. EndWrite(p) => Moves("add", w)
      BY DEF EndWrite
    <2> QED BY <2>1
  <1>7. part' = part => part' = [part EXCEPT ![p] = part[p]]
    BY <1>5
  <1> HIDE DEF Parts, Places
  <1>8. Data /\ \E v, w : Moves(v, w)
    <2>1. CASE Add(p)
      <3> DEFINE c == IF part[p] = "text" THEN text[p] ELSE Newline
      <3>1. buffer' \in Seq(Chars)
        <4>1. c \in Chars
          BY <1>2 DEF Chars
        <4>2. buffer' = Append(buffer, c)
          BY <2>1 DEF Add
        <4> HIDE DEF c
        <4> QED BY <1>5, <4>1, <4>2, AppendFacts
      <3>2. raised' = raised
        BY <2>1 DEF Add
      <3>3. CASE HasLine(buffer') /\ Cut(p, buffer') /\ part' = part
        BY <1>4, <1>5, <1>7, <3>1, <3>2, <3>3 DEF Parts, Places
      <3>4. CASE EndWrite(p) /\ line' = line /\ rest' = rest
        BY <1>5, <1>6, <3>1, <3>2, <3>4
      <3> QED BY <2>1, <3>3, <3>4 DEF Add
    <2>2. CASE Store(p)
      <3>1. /\ buffer' = rest[p] /\ rest' = [rest EXCEPT ![p] = <<>>]
            /\ at' = [at EXCEPT ![p] = "emit"] /\ part' = part /\ line' = line /\ raised' = raised
        BY <2>2 DEF Store
      <3>2. rest' \in [Printers -> Seq(Chars)] /\ buffer' \in Seq(Chars)
        BY <1>5, <3>1
      <3> QED BY <1>5, <1>7, <3>1, <3>2 DEF Parts, Places
    <2>3. CASE Emit(p)
      <3>1. /\ buffer' = buffer /\ line' = [line EXCEPT ![p] = <<>>]
            /\ at' = [at EXCEPT ![p] = "test"] /\ part' = part /\ rest' = rest /\ raised' = raised
        BY <2>3 DEF Emit
      <3>2. line' \in [Printers -> Seq(Texts)]
        BY <1>5, <3>1
      <3> QED BY <1>5, <1>7, <3>1, <3>2 DEF Parts, Places
    <2>4. CASE Test(p)
      <3>1. /\ buffer' = buffer /\ line' = line /\ rest' = rest /\ raised' = raised
            /\ \/ at' = [at EXCEPT ![p] = "cut"] /\ part' = part
               \/ EndWrite(p)
        BY <2>4 DEF Test
      <3> QED BY <1>5, <1>6, <1>7, <3>1 DEF Parts, Places
    <2>5. CASE CutNext(p)
      <3>1. buffer' = buffer /\ at[p] = "cut"
        BY <2>5 DEF CutNext
      <3>2. CASE HasLine(buffer) /\ Cut(p, buffer) /\ part' = part /\ raised' = raised
        BY <1>4, <1>5, <1>7, <3>1, <3>2 DEF Parts, Places
      <3>3. CASE /\ raised' = raised \cup {text[p]}
                 /\ part' = [part EXCEPT ![p] = "none"] /\ at' = [at EXCEPT ![p] = "add"]
                 /\ line' = line /\ rest' = rest
        <4>1. Moves("add", "none")
          BY <3>3 DEF Parts, Places
        <4> QED BY <1>5, <3>1, <3>3, <4>1
      <3> QED BY <2>5, <3>2, <3>3 DEF CutNext
    <2> QED BY <2>1, <2>2, <2>3, <2>4, <2>5 DEF Write
  <1>9. PICK v, w : Moves(v, w)
    BY <1>8
  <1>10. /\ at' \in [Printers -> Places] /\ part' \in [Printers -> Parts]
         /\ at'[p] = v /\ part'[p] = w
         /\ \A q \in Printers : q # p => at'[q] = at[q] /\ part'[q] = part[q]
    BY <1>5, <1>9
  <1>11. Busy' \subseteq Busy /\ Busy \subseteq Busy' \cup {p}
    BY <1>1, <1>10 DEF Busy
  <1>12. raised' \subseteq company /\ raised' \subseteq Texts
    <2>1. at[p] = "cut" => text[p] \in company
      BY <1>1, <1>5 DEF LoneInv, Busy, Parts
    <2> QED BY <1>2, <1>5, <1>8, <2>1 DEF WriteInv
  <1>13. WriteTyped'
    BY <1>3, <1>8, <1>10, <1>12 DEF WriteTyped, Chars, Texts, Parts, Places
  <1>14. \A q \in Printers : at'[q] # "add" => q \in Busy'
    <2> TAKE q \in Printers
    <2>1. CASE q = p
      BY <1>5, <1>9, <1>10, <2>1 DEF Busy
    <2>2. CASE q # p
      BY <1>10, <2>2 DEF WriteInv, Busy
    <2> QED BY <2>1, <2>2
  <1>15. WriteInv'
    BY <1>3, <1>11, <1>12, <1>14 DEF WriteInv
  <1> QED BY <1>1, <1>3, <1>11, <1>13, <1>15
-----------------------------------------------------------------------------
(* The queue in one step.                                                   *)

\* What was queued stays where it was, and what was sent remains sent.
Grows ==
  /\ Len(appended) \in Nat /\ Len(appended') \in Nat /\ Len(appended) <= Len(appended')
  /\ \A i \in Lines : appended'[i] = appended[i]
  /\ Range(sent) \subseteq Range(sent')

\* The three calls that move lines: _append, _drain and report_logs.
LEMMA QueueStep ==
  ASSUME TypeOK, QueueInv, NEW message \in Seq(Chars), Queue(message),
         UNCHANGED <<send_vars, hurried>>
  PROVE  /\ QueueTyped' /\ QueueInv' /\ Grows
         /\ message # <<>> => \E i \in Lines' : appended'[i] = message
PROOF
  <1>1. QueueTyped /\ flight' = flight /\ sent' = sent
    BY Typed DEF send_vars
  <1>2. Len(appended) \in Nat
    BY QueueTypes
  <1>3. CASE message = <<>>
    <2>1. appended' = appended /\ logs' = logs
      BY <1>3 DEF Queue, queue_vars
    <2>2. QueueTyped'
      BY <1>1, <2>1 DEF QueueTyped
    <2>3. QueueInv'
      BY <1>1, <2>1 DEF QueueInv, Left, Taken, Sent, Under
    <2>4. Grows
      BY <1>1, <1>2, <2>1 DEF Grows
    <2> QED BY <1>3, <2>2, <2>3, <2>4
  <1>4. CASE message # <<>>
    <2>1. Queues(message)
      BY <1>4, QueueEffect DEF Chars
    <2>2. QueueInv'
      BY <2>1, QueuesKeep
    <2>3. QueueTyped'
      BY <1>1, <2>1 DEF QueueTyped, Queues, Chars
    <2>4. Grows
      <3>1. Len(appended') = Len(appended) + 1 /\ \A i \in Lines : appended'[i] = appended[i]
        BY <2>1 DEF Queues
      <3>2. Range(sent) \subseteq Range(sent')
        BY <1>1
      <3>3. Len(appended') \in Nat /\ Len(appended) <= Len(appended')
        BY <1>2, <3>1
      <3> QED BY <1>2, <3>1, <3>2, <3>3 DEF Grows
    <2>5. Len(appended') \in Lines' /\ appended'[Len(appended')] = message
      BY <1>2, <2>1 DEF Queues, Lines
    <2> QED BY <2>2, <2>3, <2>4, <2>5
  <1> QED BY <1>3, <1>4

LEMMA DrainStep ==
  ASSUME TypeOK, QueueInv, NEW s \in {"runner", "closer"}, Drain(s), flight[s] = <<>>,
         UNCHANGED <<appended, sent>>, hurried => hurried',
         \A o \in {"runner", "closer"} \ {s} : ~hurried' => flight[o] = <<>>
  PROVE  /\ QueueTyped' /\ QueueInv' /\ Grows
         /\ \A o \in {"runner", "closer"} \ {s} : flight'[o] = flight[o]
PROOF
  <1>1. QueueTyped
    BY Typed
  <1>2. PICK f : Drains(s, f)
    BY DrainEffect
  <1>3. QueueInv'
    BY <1>2, DrainsKeep
  <1>4. flight' = [flight EXCEPT ![s] = f] /\ f \in Seq(Nat) /\ logs' \in Seq(Nat)
    BY <1>2 DEF Drains
  <1>5. QueueTyped'
    BY <1>1, <1>4 DEF QueueTyped
  <1>6. Grows
    BY QueueTypes DEF Grows
  <1>7. \A o \in {"runner", "closer"} \ {s} : flight'[o] = flight[o]
    BY <1>1, <1>4 DEF QueueTyped
  <1> QED BY <1>3, <1>5, <1>6, <1>7

LEMMA SendStep ==
  ASSUME TypeOK, QueueInv, NEW s \in {"runner", "closer"}, Send(s),
         UNCHANGED <<queue_vars, hurried>>,
         \A o \in {"runner", "closer"} \ {s} : ~hurried => flight[o] = <<>>
  PROVE  /\ QueueTyped' /\ QueueInv' /\ Grows
         /\ flight'[s] = <<>>
         /\ \A o \in {"runner", "closer"} \ {s} : flight'[o] = flight[o]
PROOF
  <1>1. QueueTyped /\ appended' = appended /\ logs' = logs
    BY Typed DEF queue_vars
  <1>2. QueueInv'
    BY SendKeeps
  <1>3. sent \in Seq(Nat) /\ flight[s] \in Seq(Nat) /\ sent' = sent \o flight[s]
    BY <1>1 DEF QueueTyped, Send
  <1>4. sent' \in Seq(Nat) /\ Range(sent) \subseteq Range(sent')
    <2>1. Range(sent \o flight[s]) = Range(sent) \cup Range(flight[s])
      BY <1>3, RangeConcat
    <2> QED BY <1>3, <2>1, ConcatFacts
  <1>5. /\ flight' \in [{"runner", "closer"} -> Seq(Nat)] /\ flight'[s] = <<>>
        /\ \A o \in {"runner", "closer"} \ {s} : flight'[o] = flight[o]
    BY <1>1 DEF QueueTyped, Send
  <1>6. QueueTyped'
    BY <1>1, <1>4, <1>5 DEF QueueTyped
  <1>7. Grows
    BY <1>1, <1>4, QueueTypes DEF Grows
  <1> QED BY <1>2, <1>5, <1>6, <1>7

\* Nothing moves.
LEMMA QueueSame ==
  ASSUME TypeOK, QueueInv, UNCHANGED <<queue_vars, send_vars>>, hurried => hurried'
  PROVE  QueueTyped' /\ QueueInv' /\ Grows
PROOF
  <1>1. QueueTyped /\ appended' = appended /\ logs' = logs /\ flight' = flight /\ sent' = sent
    BY Typed DEF queue_vars, send_vars
  <1>2. QueueTyped'
    BY <1>1 DEF QueueTyped
  <1>3. QueueInv'
    BY <1>1 DEF QueueInv, Left, Taken, Sent, Under
  <1>4. Grows
    BY <1>1, QueueTypes DEF Grows
  <1> QED BY <1>2, <1>3, <1>4
-----------------------------------------------------------------------------
(* One step, seen from the queue and from the lines.                        *)

\* The batches of the two senders meet only once somebody gave up waiting.
LEMMA OneSender ==
  ASSUME TypeOK, CloseInv, ~hurried
  PROVE  flight["runner"] = <<>> \/ flight["closer"] = <<>>
  BY DEF CloseInv

\* Every step of every thread is one of them, or moves nothing.
LEMMA QueueStepOfNext ==
  ASSUME IndInv, Next
  PROVE  QueueTyped' /\ QueueInv' /\ Grows
PROOF
  <1>1. TypeOK /\ QueueInv /\ CloseInv /\ ThreadsTyped
    BY Typed DEF IndInv
  <1> HIDE DEF Grows
  <1>2. CASE \E p \in Printers : BeginPrint(p)
    BY <1>1, <1>2, QueueSame DEF BeginPrint
  <1>3. ASSUME NEW p \in Printers, Emit(p) PROVE QueueTyped' /\ QueueInv' /\ Grows
    <2>1. line[p] \in Seq(Texts)
      BY <1>1 DEF TypeOK
    <2>2. line[p] \in Seq(Chars)
      <3>1. DOMAIN line[p] = 1..Len(line[p]) /\ Len(line[p]) \in Nat
            /\ \A i \in 1..Len(line[p]) : line[p][i] \in Chars
        BY <2>1, SeqFacts DEF Chars
      <3> QED BY <2>1, <3>1 DEF Chars
    <2> QED BY <1>1, <1>3, <2>2, QueueStep DEF Emit
  <1>4. ASSUME NEW p \in Printers, Write(p), ~Emit(p)
        PROVE  QueueTyped' /\ QueueInv' /\ Grows
    <2>1. UNCHANGED <<queue_vars, send_vars>> /\ hurried' = hurried
      BY <1>4 DEF Write, Add, Store, Test, CutNext
    <2> QED BY <1>1, <2>1, QueueSame
  <1>5. CASE RunnerWakes
    <2>1. CASE Drain("runner") /\ closer = "open"
      <3>1. flight["closer"] = <<>>
        BY <1>1, <2>1 DEF CloseInv
      <3> QED BY <1>1, <1>5, <2>1, <3>1, DrainStep DEF RunnerWakes
    <2>2. CASE UNCHANGED <<logs, flight>>
      BY <1>1, <1>5, <2>2, QueueSame DEF RunnerWakes, queue_vars, send_vars
    <2> QED BY <1>5, <2>1, <2>2 DEF RunnerWakes
  <1>6. CASE RunnerStops
    <2>1. CASE Drain("runner") /\ hurried' = hurried
      <3>1. ~hurried => flight["closer"] = <<>>
        BY <1>1, <1>6 DEF CloseInv, RunnerStops
      <3> QED BY <1>1, <1>6, <2>1, <3>1, DrainStep DEF RunnerStops
    <2>2. CASE UNCHANGED <<logs, flight>> /\ hurried' \in {hurried, TRUE}
      BY <1>1, <1>6, <2>2, QueueSame DEF RunnerStops, queue_vars, send_vars
    <2> QED BY <1>6, <2>1, <2>2 DEF RunnerStops
  <1>7. CASE RunnerSends
    <2>1. ~hurried => flight["closer"] = <<>>
      BY <1>1, <1>7, OneSender DEF RunnerSends, Send
    <2> QED BY <1>1, <1>7, <2>1, SendStep DEF RunnerSends
  <1>8. CASE SetStop \/ ClearTee
    BY <1>1, <1>8, QueueSame DEF SetStop, ClearTee
  <1>9. CASE FlushTee
    <2>1. buffer \in Seq(Chars)
      BY <1>1 DEF TypeOK, Chars
    <2> QED BY <1>1, <1>9, <2>1, QueueStep DEF FlushTee
  <1>10. CASE Join
    <2>1. flight["closer"] = <<>>
      BY <1>1, <1>10 DEF CloseInv, Join
    <2>2. ~hurried' => flight["runner"] = <<>>
      BY <1>1, <1>10 DEF CloseInv, Join
    <2> QED BY <1>1, <1>10, <2>1, <2>2, DrainStep DEF Join
  <1>11. CASE CloserSends
    <2>1. CASE UNCHANGED send_vars
      BY <1>1, <1>11, <2>1, QueueSame DEF CloserSends
    <2>2. CASE Send("closer")
      <3>1. ~hurried => flight["runner"] = <<>>
        BY <1>1, <2>2, OneSender DEF Send
      <3> QED BY <1>1, <1>11, <2>2, <3>1, SendStep DEF CloserSends
    <2> QED BY <1>11, <2>1, <2>2 DEF CloserSends
  <1> QED BY <1>2, <1>3, <1>4, <1>5, <1>6, <1>7, <1>8, <1>9, <1>10, <1>11 DEF Next, Runner

LEMMA ThreadsTypedStep ==
  ASSUME ThreadsTyped, Next
  PROVE  ThreadsTyped'
PROOF
  <1>1. CASE \E p \in Printers : BeginPrint(p) \/ Write(p)
    BY <1>1 DEF BeginPrint, Write, Add, Store, Emit, Test, CutNext, ThreadsTyped
  <1>2. CASE Runner
    BY <1>2 DEF Runner, RunnerWakes, RunnerStops, RunnerSends, ThreadsTyped
  <1>3. CASE SetStop \/ FlushTee \/ ClearTee \/ Join \/ CloserSends
    BY <1>3 DEF SetStop, FlushTee, ClearTee, Join, CloserSends, ThreadsTyped
  <1> QED BY <1>1, <1>2, <1>3 DEF Next
-----------------------------------------------------------------------------
(* A print() that is alone on the buffer.                                   *)

\* What LoneInv says of the thread of such a print().
Alone(p) ==
  /\ closer = "open"
  /\ part[p] = "text" => at[p] = "add" /\ buffer = <<>>
  /\ part[p] = "newline" =>
       \/ at[p] = "add" /\ buffer = <<text[p]>>
       \/ at[p] = "store" /\ line[p] = <<text[p]>> /\ rest[p] = <<>>
       \/ at[p] = "emit" /\ line[p] = <<text[p]>> /\ buffer = <<>>
       \/ at[p] = "test" /\ IsLine(text[p]) /\ buffer = <<>>

LEMMA LoneParts ==
  LoneInv <=> /\ \A p \in Busy : text[p] \notin company => Alone(p)
              /\ \A n \in 1..prints : Ended(n) /\ n \notin company => IsLine(n)
  BY DEF LoneInv, Alone

\* One text, and one text with its newline.
LEMMA ShortBuffers ==
  ASSUME NEW n \in Texts
  PROVE  /\ Append(<<>>, n) = <<n>> /\ ~HasLine(<<n>>) /\ ~HasLine(<<>>)
         /\ LET b == Append(<<n>>, Newline)
            IN  HasLine(b) /\ SubSeq(b, 1, FirstNewline(b) - 1) = <<n>>
                /\ SubSeq(b, FirstNewline(b) + 1, Len(b)) = <<>>
PROOF
  <1>1. n # Newline /\ n \in Chars /\ Newline \in Chars
    BY LogForwarderAssumption DEF Texts, Newline, Chars
  <1>2. Append(<<>>, n) = <<n>>
    OBVIOUS
  <1>3. ~HasLine(<<n>>) /\ ~HasLine(<<>>)
    BY <1>1 DEF HasLine, Range
  <1> DEFINE b == Append(<<n>>, Newline)
             k == FirstNewline(b)
             l == SubSeq(b, 1, k - 1)
             r == SubSeq(b, k + 1, Len(b))
  <1>4. b \in Seq(Chars) /\ Len(b) = 2 /\ DOMAIN b = 1..2 /\ b[1] = n /\ b[2] = Newline
    BY <1>1
  <1> HIDE DEF b
  <1>5. HasLine(b)
    BY <1>4 DEF HasLine, Range
  <1>6. /\ k \in 1..Len(b) /\ b[k] = Newline
        /\ l \in Seq(Texts) /\ Len(l) = k - 1
        /\ \A i \in 1..(k - 1) : l[i] = b[i]
        /\ r \in Seq(Chars) /\ Len(r) = Len(b) - k
    BY <1>4, <1>5, FirstLine DEF Chars
  <1> HIDE DEF k, l, r
  <1>7. k = 2
    BY <1>1, <1>4, <1>6
  <1>8. Len(l) = 1 /\ l[1] = n
    BY <1>4, <1>6, <1>7
  <1>9. l = <<n>>
    BY <1>6, <1>8
  <1>10. r = <<>>
    BY <1>4, <1>6, <1>7, SeqFacts
  <1> QED BY <1>2, <1>3, <1>5, <1>9, <1>10 DEF b, k, l, r

LEMMA IsLineGrows ==
  ASSUME Grows, NEW n, IsLine(n)
  PROVE  IsLine(n)'
PROOF
  <1>1. PICK i \in Lines : appended[i] = <<n>>
    BY DEF IsLine
  <1>2. i \in Lines' /\ appended'[i] = <<n>>
    BY <1>1 DEF Grows, Lines
  <1> QED BY <1>2 DEF IsLine

\* Its write goes step by step from the text to the line.
LEMMA LoneWrite ==
  ASSUME IndInv, NEW p \in Printers, Write(p), text[p] \notin company, Grows, WriteTyped'
  PROVE  /\ p \in Busy' => Alone(p)'
         /\ p \notin Busy' => IsLine(text[p])'
PROOF
  <1>1. WriteTyped /\ WriteInv /\ LoneInv /\ TypeOK /\ QueueInv
    BY Typed DEF IndInv
  <1>2. p \in Busy /\ text' = text
    BY <1>1, WriteTypedStep
  <1>3. Alone(p) /\ text[p] \in Texts
    BY <1>1, <1>2, LoneParts, BusyText
  <1>4. /\ part \in [Printers -> {"none", "text", "newline"}] /\ part[p] \in {"text", "newline"}
        /\ at \in [Printers -> {"add", "store", "emit", "test", "cut"}]
        /\ line \in [Printers -> Seq(Texts)] /\ rest \in [Printers -> Seq(Chars)]
        /\ closer' = closer
    <2>1. closer' = closer
      BY DEF Write, Add, Store, Emit, Test, CutNext
    <2> QED BY <1>1, <1>2, <2>1 DEF WriteTyped, Busy
  <1>5. CASE part[p] = "text"
    <2>1. at[p] = "add" /\ buffer = <<>>
      BY <1>3, <1>5 DEF Alone
    <2>2. Add(p)
      BY <2>1 DEF Write, Store, Emit, Test, CutNext
    <2>3. buffer' = <<text[p]>>
      BY <1>3, <1>5, <2>1, <2>2, ShortBuffers DEF Add
    <2>4. ~HasLine(buffer')
      BY <1>3, <2>3, ShortBuffers
    <2>5. EndWrite(p)
      BY <2>2, <2>4 DEF Add
    <2>6. part'[p] = "newline" /\ at'[p] = "add"
      BY <1>4, <1>5, <2>5 DEF EndWrite
    <2>7. p \in Busy'
      BY <2>6 DEF Busy
    <2> QED BY <1>2, <1>3, <1>4, <2>3, <2>6, <2>7 DEF Alone
  <1>6. CASE part[p] = "newline" /\ at[p] = "add"
    <2>1. buffer = <<text[p]>>
      BY <1>3, <1>6 DEF Alone
    <2>2. Add(p)
      BY <1>6 DEF Write, Store, Emit, Test, CutNext
    <2>3. buffer' = Append(<<text[p]>>, Newline)
      BY <1>6, <2>1, <2>2 DEF Add
    <2>4. HasLine(buffer')
      BY <1>3, <2>3, ShortBuffers
    <2>5. Cut(p, buffer') /\ part' = part
      BY <2>2, <2>4 DEF Add
    <2>6. at'[p] = "store" /\ line'[p] = <<text[p]>> /\ rest'[p] = <<>>
      BY <1>3, <1>4, <2>3, <2>5, ShortBuffers DEF Cut
    <2>7. p \in Busy'
      BY <1>6, <2>5 DEF Busy
    <2> QED BY <1>2, <1>3, <1>4, <1>6, <2>5, <2>6, <2>7 DEF Alone
  <1>7. CASE part[p] = "newline" /\ at[p] = "store"
    <2>1. line[p] = <<text[p]>> /\ rest[p] = <<>>
      BY <1>3, <1>7 DEF Alone
    <2>2. Store(p)
      BY <1>7 DEF Write, Add, Emit, Test, CutNext
    <2>3. /\ buffer' = <<>> /\ at'[p] = "emit" /\ line' = line /\ part' = part
      BY <1>4, <2>1, <2>2 DEF Store
    <2>4. p \in Busy'
      BY <1>7, <2>3 DEF Busy
    <2> QED BY <1>2, <1>3, <1>4, <1>7, <2>1, <2>3, <2>4 DEF Alone
  <1>8. CASE part[p] = "newline" /\ at[p] = "emit"
    <2>1. line[p] = <<text[p]>> /\ buffer = <<>>
      BY <1>3, <1>8 DEF Alone
    <2>2. Emit(p)
      BY <1>8 DEF Write, Add, Store, Test, CutNext
    <2>3. /\ Queue(<<text[p]>>) /\ UNCHANGED <<send_vars, hurried>>
          /\ buffer' = <<>> /\ at'[p] = "test" /\ part' = part
      BY <1>4, <2>1, <2>2 DEF Emit
    <2>4. <<text[p]>> \in Seq(Chars) /\ <<text[p]>> # <<>>
      BY <1>3 DEF Chars
    <2>5. \E i \in Lines' : appended'[i] = <<text[p]>>
      BY <1>1, <2>3, <2>4, QueueStep
    <2>6. IsLine(text[p])'
      BY <1>2, <2>5 DEF IsLine
    <2>7. p \in Busy'
      BY <1>8, <2>3 DEF Busy
    <2> QED BY <1>2, <1>3, <1>4, <1>8, <2>3, <2>6, <2>7 DEF Alone
  <1>9. CASE part[p] = "newline" /\ at[p] = "test"
    <2>1. IsLine(text[p]) /\ buffer = <<>>
      BY <1>3, <1>9 DEF Alone
    <2>2. Test(p)
      BY <1>9 DEF Write, Add, Store, Emit, CutNext
    <2>3. EndWrite(p)
      BY <1>3, <2>1, <2>2, ShortBuffers DEF Test
    <2>4. p \notin Busy'
      BY <1>4, <1>9, <2>3 DEF EndWrite, Busy
    <2>5. IsLine(text[p])'
      BY <1>2, <2>1, IsLineGrows
    <2> QED BY <2>4, <2>5
  <1>10. CASE part[p] = "newline" /\ at[p] = "cut"
    BY <1>3, <1>10 DEF Alone
  <1> QED BY <1>4, <1>5, <1>6, <1>7, <1>8, <1>9, <1>10
-----------------------------------------------------------------------------
(* The inductive invariant.                                                 *)

\* A print() that has ended alone had ended alone before this step, or this is its
\* last step.
LEMMA EndedStep ==
  ASSUME IndInv, Next, NEW n \in 1..prints', Ended(n)', n \notin company'
  PROVE  /\ n \in 1..prints /\ n \notin company
         /\ \/ Ended(n)
            \/ \E p \in Printers : Write(p) /\ p \in Busy /\ p \notin Busy' /\ text[p] = n
PROOF
  <1>1. WriteTyped /\ WriteInv /\ LoneInv
    BY Typed DEF IndInv
  <1>2. prints \in Nat
    BY <1>1, LogForwarderAssumption DEF WriteTyped
  <1>3. n <= prints' /\ \A q \in Busy' : text'[q] # n
    BY DEF Ended
  <1>4. ASSUME NEW p \in Printers, BeginPrint(p)
        PROVE  n \in 1..prints /\ n \notin company /\ Ended(n)
    <2>1. /\ Busy' = Busy \cup {p} /\ text'[p] = prints + 1 /\ prints' = prints + 1
          /\ \A q \in Busy : text'[q] = text[q]
          /\ company \subseteq company'
      BY <1>1, <1>4, BeginTyped
    <2>2. n # prints + 1
      BY <1>3, <2>1
    <2>3. n \in 1..prints /\ n \notin company
      BY <1>2, <2>1, <2>2
    <2>4. \A q \in Busy : text[q] # n
      BY <1>3, <2>1
    <2> QED BY <1>2, <2>3, <2>4 DEF Ended
  <1>5. ASSUME NEW p \in Printers, Write(p)
        PROVE  /\ n \in 1..prints /\ n \notin company
               /\ \/ Ended(n)
                  \/ Write(p) /\ p \in Busy /\ p \notin Busy' /\ text[p] = n
    <2>1. /\ p \in Busy /\ Busy' \subseteq Busy /\ Busy \subseteq Busy' \cup {p}
          /\ text' = text /\ prints' = prints /\ company' = company
      BY <1>1, <1>5, WriteTypedStep
    <2>2. n \in 1..prints /\ n \notin company
      BY <2>1
    <2>3. CASE p \in Busy' \/ text[p] # n
      <3>1. \A q \in Busy : text[q] # n
        BY <1>3, <2>1, <2>3
      <3> QED BY <1>2, <2>2, <3>1 DEF Ended
    <2> QED BY <1>5, <2>1, <2>2, <2>3
  <1>6. ASSUME text' = text, part' = part, prints' = prints, company \subseteq company'
        PROVE  n \in 1..prints /\ n \notin company /\ Ended(n)
    <2>1. Busy' = Busy
      BY <1>6 DEF Busy
    <2> QED BY <1>3, <1>6, <2>1 DEF Ended
  <1>7. CASE Runner
    BY <1>6, <1>7 DEF Runner, RunnerWakes, RunnerStops, RunnerSends, write_vars
  <1>8. CASE SetStop \/ FlushTee \/ ClearTee \/ Join \/ CloserSends
    BY <1>6, <1>8 DEF SetStop, FlushTee, ClearTee, Join, CloserSends, write_vars
  <1> QED BY <1>4, <1>5, <1>7, <1>8 DEF Next

\* Nothing disturbs a print() that is alone.
LEMMA LoneStep ==
  ASSUME IndInv, Next, WriteTyped', Grows
  PROVE  LoneInv'
PROOF
  <1>1. WriteTyped /\ WriteInv /\ LoneInv /\ TypeOK /\ QueueInv
    BY Typed DEF IndInv
  <1>2. /\ \A p \in Busy : text[p] \notin company => Alone(p)
        /\ \A n \in 1..prints : Ended(n) /\ n \notin company => IsLine(n)
    BY <1>1, LoneParts
  <1>3. ASSUME NEW n \in 1..prints', Ended(n)', n \notin company'
        PROVE  IsLine(n)'
    <2>1. n \in 1..prints /\ n \notin company
      BY <1>3, EndedStep
    <2>2. CASE Ended(n)
      BY <1>2, <2>1, <2>2, IsLineGrows
    <2>3. CASE \E p \in Printers : Write(p) /\ p \in Busy /\ p \notin Busy' /\ text[p] = n
      <3>1. PICK p \in Printers : Write(p) /\ p \in Busy /\ p \notin Busy' /\ text[p] = n
        BY <2>3
      <3>2. IsLine(text[p])'
        BY <2>1, <3>1, LoneWrite
      <3>3. text'[p] = n
        BY <1>1, <3>1, WriteTypedStep
      <3> QED BY <3>2, <3>3 DEF IsLine
    <2> QED BY <1>3, <2>2, <2>3, EndedStep
  <1>4. ASSUME NEW p \in Printers, BeginPrint(p), NEW q \in Busy', text'[q] \notin company'
        PROVE  Alone(q)'
    <2>1. /\ Busy' = Busy \cup {p} /\ p \notin Busy /\ part'[p] = "text" /\ at'[p] = "add"
          /\ \A o \in Busy : text'[o] = text[o]
          /\ company \subseteq company'
      BY <1>1, <1>4, BeginTyped
    <2>2. \/ Busy = {} /\ buffer = <<>> /\ closer = "open"
          \/ company' = company \cup {text'[o] : o \in Busy \cup {p}}
      BY <1>4 DEF BeginPrint
    <2>3. Busy = {} /\ buffer = <<>> /\ closer = "open" /\ q = p
      BY <1>4, <2>1, <2>2
    <2>4. buffer' = buffer /\ closer' = closer
      BY <1>4 DEF BeginPrint
    <2> QED BY <2>1, <2>3, <2>4 DEF Alone
  <1>5. ASSUME NEW p \in Printers, Write(p), NEW q \in Busy', text'[q] \notin company'
        PROVE  Alone(q)'
    <2>1. /\ p \in Busy /\ Busy' \subseteq Busy
          /\ text' = text /\ company' = company
      BY <1>1, <1>5, WriteTypedStep
    <2>2. q = p
      BY <1>1, <1>5, <2>1 DEF WriteInv
    <2> QED BY <1>5, <2>1, <2>2, LoneWrite
  <1>6. ASSUME UNCHANGED <<write_vars, appended, closer>>, NEW q \in Busy', text'[q] \notin company'
        PROVE  Alone(q)'
    <2>1. q \in Busy /\ text[q] \notin company
      BY <1>6 DEF write_vars, Busy
    <2>2. Alone(q)
      BY <1>2, <2>1
    <2> QED BY <1>6, <2>2 DEF write_vars, Alone, IsLine, Lines
  <1>7. CASE Runner
    BY <1>3, <1>6, <1>7, LoneParts
       DEF Runner, RunnerWakes, RunnerStops, RunnerSends, LoneInv, Alone, queue_vars
  <1>8. ASSUME SetStop, NEW q \in Busy', text'[q] \notin company'
        PROVE  FALSE
    <2>1. q \in Busy /\ text' = text
      BY <1>8 DEF SetStop, Busy
    <2>2. text[q] \in company'
      BY <1>8, <2>1 DEF SetStop
    <2> QED BY <1>8, <2>1, <2>2
  <1>9. ASSUME FlushTee \/ ClearTee \/ Join \/ CloserSends, NEW q \in Busy', text'[q] \notin company'
        PROVE  FALSE
    <2>1. q \in Busy /\ text' = text /\ company' = company /\ closer # "open"
      BY <1>9 DEF FlushTee, ClearTee, Join, CloserSends, write_vars, Busy
    <2>2. Alone(q)
      BY <1>2, <1>9, <2>1
    <2> QED BY <2>1, <2>2 DEF Alone
  <1>10. \A q \in Busy' : text'[q] \notin company' => Alone(q)'
    BY <1>4, <1>5, <1>6, <1>8, <1>9
       DEF Next, Runner, RunnerWakes, RunnerStops, RunnerSends, queue_vars
  <1>11. \A n \in 1..prints' : Ended(n)' /\ n \notin company' => IsLine(n)'
    BY <1>3
  <1> QED BY <1>10, <1>11 DEF LoneInv, Alone

\* The line of n is there, and has been sent or pushed out.
HasGone(n) ==
  \E i \in Lines :
    /\ appended[i] = <<n>>
    /\ i \in Range(sent) \/ i + Capacity <= Len(appended)

LEMMA HasGoneStays ==
  ASSUME Grows, NEW n, HasGone(n)
  PROVE  HasGone(n)'
PROOF
  <1>1. PICK i \in Lines : /\ appended[i] = <<n>>
                           /\ i \in Range(sent) \/ i + Capacity <= Len(appended)
    BY DEF HasGone
  <1>2. i \in Lines' /\ appended'[i] = <<n>>
    BY <1>1 DEF Grows, Lines
  <1>3. i \in Range(sent') \/ i + Capacity <= Len(appended')
    BY <1>1, LogForwarderAssumption DEF Grows, Lines
  <1> QED BY <1>2, <1>3 DEF HasGone

\* _run only ends with an empty queue or in a hurry, and close() begins after every
\* print() that was alone has ended.
LEMMA CloseStep ==
  ASSUME IndInv, Next, Grows
  PROVE  CloseInv'
PROOF
  <1>1. TypeOK /\ LoneInv /\ QueueInv /\ CloseInv /\ QueueTyped
    BY Typed DEF IndInv
  <1>2. /\ (flight["runner"] # <<>> => runner # "ended")
        /\ (flight["closer"] # <<>> => closer = "send")
        /\ (closer \in {"send", "closed"} => runner = "ended" \/ hurried)
        /\ (runner # "waiting" => closer # "open")
    BY <1>1 DEF CloseInv
  <1>3. /\ (flight'["runner"] # <<>> => runner' # "ended")
        /\ (flight'["closer"] # <<>> => closer' = "send")
        /\ (closer' \in {"send", "closed"} => runner' = "ended" \/ hurried')
        /\ (runner' # "waiting" => closer' # "open")
    <2>1. CASE UNCHANGED <<flight, runner, closer, hurried>>
      BY <1>2, <2>1
    <2>2. CASE \E p \in Printers : BeginPrint(p) \/ Write(p)
      BY <1>2, <2>2
         DEF BeginPrint, Write, Add, Store, Emit, Test, CutNext, send_vars
    <2>3. CASE RunnerWakes
      BY <1>1, <1>2, <2>3 DEF RunnerWakes, Drain, QueueTyped
    <2>4. CASE RunnerStops
      BY <1>1, <1>2, <2>4 DEF RunnerStops, Drain, QueueTyped
    <2>5. CASE RunnerSends
      BY <1>1, <1>2, <2>5 DEF RunnerSends, Send, QueueTyped
    <2>6. CASE SetStop \/ FlushTee \/ ClearTee
      BY <1>2, <2>6 DEF SetStop, FlushTee, ClearTee, send_vars
    <2>7. CASE Join
      BY <1>1, <1>2, <2>7 DEF Join, Drain, QueueTyped
    <2>8. CASE CloserSends
      BY <1>1, <1>2, <2>8 DEF CloserSends, Send, send_vars, QueueTyped
    <2> QED BY <2>2, <2>3, <2>4, <2>5, <2>6, <2>7, <2>8 DEF Next, Runner
  <1>4. ASSUME runner' = "ended", ~hurried', NEW n \in 1..prints', Ended(n)', n \notin company'
        PROVE  HasGone(n)'
    <2>1. n \in 1..prints /\ n \notin company
      BY <1>4, EndedStep
    <2>2. CASE runner = "ended" /\ ~hurried
      <3>1. Ended(n)
        <4>1. ASSUME NEW p \in Busy, text[p] = n PROVE FALSE
          <5>1. Alone(p)
            BY <1>1, <2>1, <4>1, LoneParts
          <5> QED BY <1>2, <2>2, <5>1 DEF Alone
        <4> QED BY <1>4, <4>1, EndedStep
      <3>2. HasGone(n)
        BY <1>1, <2>1, <2>2, <3>1 DEF CloseInv, HasGone
      <3> QED BY <3>2, HasGoneStays
    <2>3. CASE ~(runner = "ended" /\ ~hurried)
      <3>1. /\ RunnerStops /\ logs = <<>> /\ UNCHANGED <<logs, flight, hurried>>
            /\ flight["runner"] = <<>> /\ runner = "stopping"
            /\ UNCHANGED <<write_vars, appended, sent>>
        <4>1. hurried => hurried'
          BY DEF Next, Runner, BeginPrint, Write, Add, Store, Emit, Test, CutNext, RunnerWakes,
                 RunnerStops, RunnerSends, SetStop, FlushTee, ClearTee, Join, CloserSends
        <4>2. runner # "ended"
          BY <1>4, <2>3, <4>1
        <4>3. RunnerStops
          BY <1>4, <4>2
             DEF Next, Runner, BeginPrint, Write, Add, Store, Emit, Test, CutNext, RunnerWakes,
                 RunnerSends, SetStop, FlushTee, ClearTee, Join, CloserSends
        <4> QED BY <1>4, <4>2, <4>3 DEF RunnerStops
      <3>2. flight["closer"] = <<>>
        BY <1>2, <1>4, <3>1
      <3>3. Ended(n)
        BY <1>4, <3>1 DEF Ended, Busy, write_vars
      <3>4. PICK i \in Lines : appended[i] = <<n>>
        BY <1>1, <2>1, <3>3, LoneParts DEF IsLine
      <3>5. Left = Len(appended) /\ Len(appended) \in Nat
        BY <3>1, QueueTypes, <1>1 DEF Left
      <3>6. i \in Taken \/ i + Capacity <= Len(appended)
        BY <1>1, <3>5 DEF QueueInv, Lines
      <3>7. Taken = Range(sent)
        BY <3>1, <3>2 DEF Taken, Sent, Under, Range
      <3>8. HasGone(n)
        BY <3>4, <3>6, <3>7 DEF HasGone
      <3> QED BY <3>8, HasGoneStays
    <2> QED BY <2>2, <2>3
  <1> QED BY <1>3, <1>4 DEF CloseInv, HasGone

LEMMA InitIndInv == Init => IndInv
PROOF
  <1> SUFFICES ASSUME Init PROVE IndInv
    OBVIOUS
  <1>1. TypeOK
    <2>1. <<>> \in Seq(Texts) /\ <<>> \in Seq(Chars) /\ <<>> \in Seq(Seq(Chars)) /\ <<>> \in Seq(Nat)
      OBVIOUS
    <2>2. WriteTyped
      <3>1. 0 \in 0..Prints
        BY LogForwarderAssumption
      <3> HIDE DEF Chars
      <3> QED BY <2>1, <3>1 DEF Init, WriteTyped
    <2>3. QueueTyped
      BY <2>1 DEF Init, QueueTyped
    <2>4. ThreadsTyped
      BY DEF Init, ThreadsTyped
    <2> QED BY <2>2, <2>3, <2>4, Typed
  <1>2. Busy = {} /\ Lines = {}
    BY DEF Init, Busy, Lines
  <1>3. WriteInv /\ LoneInv
    BY <1>2 DEF Init, WriteInv, LoneInv
  <1>4. QueueInv
    BY LogForwarderAssumption
       DEF Init, QueueInv, Left, Taken, Sent, Under, Range, Rising, IsInjective
  <1>5. CloseInv
    BY DEF Init, CloseInv
  <1> QED BY <1>1, <1>3, <1>4, <1>5 DEF IndInv

LEMMA NextIndInv == IndInv /\ [Next]_vars => IndInv'
PROOF
  <1> SUFFICES ASSUME IndInv, [Next]_vars PROVE IndInv'
    OBVIOUS
  <1>1. CASE UNCHANGED vars
    BY <1>1 DEF vars, write_vars, queue_vars, send_vars, IndInv, TypeOK, WriteInv, LoneInv,
                QueueInv, CloseInv, Busy, Ended, IsLine, Lines, Left, Taken, Sent, Under
  <1>2. CASE Next
    <2>1. WriteTyped /\ QueueTyped /\ ThreadsTyped /\ WriteInv /\ LoneInv
      BY Typed DEF IndInv
    <2>2. QueueTyped' /\ QueueInv' /\ Grows /\ ThreadsTyped'
      BY <1>2, <2>1, QueueStepOfNext, ThreadsTypedStep
    <2>3. WriteTyped' /\ WriteInv'
      <3>1. CASE \E p \in Printers : BeginPrint(p)
        BY <2>1, <3>1, BeginTyped
      <3>2. CASE \E p \in Printers : Write(p)
        BY <2>1, <3>2, WriteTypedStep
      <3>3. CASE UNCHANGED write_vars
        BY <2>1, <3>3, WriteSame
      <3>4. CASE SetStop
        <4>1. \A p \in Busy : text[p] \in Texts
          BY <2>1, BusyText
        <4>2. /\ company' = company \cup {text[p] : p \in Busy} /\ Busy' = Busy
              /\ UNCHANGED <<text, part, at, line, rest, prints, raised, buffer>>
          BY <3>4 DEF SetStop, Busy
        <4>3. company' \subseteq Texts /\ company \subseteq company'
          BY <2>1, <4>1, <4>2 DEF WriteTyped
        <4>4. WriteTyped'
          BY <2>1, <4>2, <4>3 DEF WriteTyped, Chars, Texts
        <4>5. WriteInv'
          BY <2>1, <4>2, <4>3 DEF WriteInv
        <4> QED BY <4>4, <4>5
      <3>5. CASE ClearTee
        BY <2>1, <3>5 DEF ClearTee, WriteTyped, WriteInv, Busy, Chars, Texts
      <3> QED BY <1>2, <3>1, <3>2, <3>3, <3>4, <3>5
              DEF Next, Runner, RunnerWakes, RunnerStops, RunnerSends, FlushTee, Join, CloserSends
    <2>4. LoneInv'
      BY <1>2, <2>2, <2>3, LoneStep
    <2>5. CloseInv'
      BY <1>2, <2>2, CloseStep
    <2>6. TypeOK'
      BY <2>2, <2>3 DEF TypeOK, WriteTyped, QueueTyped, ThreadsTyped, Chars
    <2> QED BY <2>2, <2>3, <2>4, <2>5, <2>6 DEF IndInv
  <1> QED BY <1>1, <1>2
-----------------------------------------------------------------------------
(* Theorems.                                                                *)

\* The inductive invariant holds for any number of threads and of lines, and any
\* capacity of the queue and of a batch.
LEMMA Invariant == Spec => []IndInv
PROOF
  <1> QED BY InitIndInv, NextIndInv, PTL DEF Spec

\* Every variable of the forwarder stays in its range; what is queued and sent are
\* sequences of the lines of print() and of their places (app/log_forwarder.py).
THEOREM TypeCorrect == Spec => []TypeOK
PROOF
  <1>1. IndInv => TypeOK
    BY DEF IndInv
  <1> QED BY <1>1, Invariant, PTL

LEMMA RisingInjective ==
  ASSUME NEW s \in Seq(Nat), Rising(s)
  PROVE  \A i, j \in DOMAIN s : s[i] = s[j] => i = j
PROOF
  <1>1. DOMAIN s = 1..Len(s) /\ \A i \in 1..Len(s) : s[i] \in Nat
    BY SeqFacts
  <1> QED BY <1>1 DEF Rising

\* The invariant on the whole queue tells of each line where it is.
LEMMA Accounted ==
  ASSUME IndInv
  PROVE  LinesArriveInOrder
PROOF
  <1>1. TypeOK /\ QueueInv
    BY DEF IndInv
  <1>2. SentInOrder
    BY <1>1 DEF SentInOrder, QueueInv, Rising
  <1> DEFINE places == <<logs, flight["runner"], flight["closer"], sent>>
             q == logs
             r == flight["runner"]
             c == flight["closer"]
  <1>3. /\ Len(q) \in Nat /\ Len(appended) \in Nat /\ DOMAIN q = 1..Len(q) /\ Left \in Nat
        /\ Left = Len(appended) - Len(q)
        /\ \A i \in DOMAIN q : q[i] = Left + i
    <2>1. Left = Len(appended) - Len(q)
      BY DEF Left
    <2>2. Len(q) <= Len(appended) /\ \A i \in DOMAIN q : q[i] = Left + i
      BY <1>1 DEF QueueInv
    <2> QED BY <1>1, <2>1, <2>2, QueueTypes
  <1>4. \A i, j \in DOMAIN q : q[i] = q[j] => i = j
    BY <1>3
  <1>5. /\ \A i, j \in DOMAIN r : r[i] = r[j] => i = j
        /\ \A i, j \in DOMAIN c : c[i] = c[j] => i = j
        /\ \A i, j \in DOMAIN sent : sent[i] = sent[j] => i = j
    <2>1. r \in Seq(Nat) /\ c \in Seq(Nat) /\ Rising(r) /\ Rising(c) /\ IsInjective(sent)
      BY <1>1 DEF TypeOK, QueueInv
    <2> QED BY <2>1, RisingInjective DEF IsInjective
  <1>6. /\ Range(q) \cap Taken = {}
        /\ Range(r) \subseteq Taken /\ Range(c) \subseteq Taken /\ Range(sent) \subseteq Taken
        /\ Range(r) \cap Range(c) = {} /\ Range(sent) \cap Range(r) = {}
        /\ Range(sent) \cap Range(c) = {}
    <2>1. Taken \subseteq 1..Left
      BY <1>1 DEF QueueInv
    <2>2. \A i \in DOMAIN q : q[i] \notin 1..Left
      BY <1>3
    <2>3. Range(q) \cap Taken = {}
      BY <2>1, <2>2 DEF Range
    <2>4. Taken = Range(sent) \cup Range(r) \cup Range(c)
      BY DEF Taken, Sent, Under
    <2>5. /\ Range(r) \cap Range(c) = {} /\ Range(sent) \cap Range(r) = {}
          /\ Range(sent) \cap Range(c) = {}
      BY <1>1 DEF QueueInv, Sent, Under
    <2> QED BY <2>3, <2>4, <2>5
  <1>7. \A a, b \in 1..4 : \A i \in DOMAIN places[a], j \in DOMAIN places[b] :
          places[a][i] = places[b][j] => a = b /\ i = j
    <2> SUFFICES ASSUME NEW a \in 1..4, NEW b \in 1..4,
                        NEW i \in DOMAIN places[a], NEW j \in DOMAIN places[b],
                        places[a][i] = places[b][j]
                 PROVE  a = b /\ i = j
      OBVIOUS
    <2>1. places[a][i] \in Range(places[a]) /\ places[a][i] \in Range(places[b])
      BY DEF Range
    <2>2. places[1] = q /\ places[2] = r /\ places[3] = c /\ places[4] = sent
      OBVIOUS
    <2> HIDE DEF places, q, r, c
    <2>3. a = b
      BY <1>6, <2>1, <2>2
    <2> QED BY <1>4, <1>5, <2>2, <2>3
  <1>8. ASSUME NEW n \in Lines
        PROVE  (\E a \in 1..4 : n \in Range(places[a])) \/ n + Capacity <= Len(appended)
    <2>1. CASE n > Left
      <3>1. n - Left \in DOMAIN q /\ q[n - Left] = Left + (n - Left)
        BY <1>3, <2>1 DEF Lines
      <3>2. q[n - Left] = n
        BY <1>3, <3>1 DEF Lines
      <3>3. n \in Range(q)
        BY <3>1, <3>2 DEF Range
      <3> QED BY <3>3
    <2>2. CASE n <= Left
      <3>1. n \in Taken \/ n + Capacity <= Len(appended)
        BY <1>1, <1>3, <2>2 DEF QueueInv, Lines
      <3>2. Taken = Range(places[4]) \cup Range(places[2]) \cup Range(places[3])
        BY DEF Taken, Sent, Under
      <3> HIDE DEF places
      <3> QED BY <3>1, <3>2
    <2> QED BY <1>3, <2>1, <2>2 DEF Lines
  <1>9. Len(logs) <= Capacity
    BY <1>1 DEF QueueInv
  <1> QED BY <1>2, <1>7, <1>8, <1>9 DEF LinesArriveInOrder, LinesAccounted

\* A queued line is in one place only, the queue, a batch or what was sent, unless a
\* full queue dropped it; and lines are sent in the order in which they were queued
\* as long as neither _run nor close() gives up waiting (app/log_forwarder.py).
THEOREM LinesInOrder == Spec => []LinesArriveInOrder
PROOF
  <1>1. IndInv => LinesArriveInOrder
    BY Accounted
  <1> QED BY <1>1, Invariant, PTL

\* A print() that nothing overlaps is one line of the log and does not raise.
THEOREM LoneLines == Spec => []LonePrintsSurvive
PROOF
  <1>1. IndInv => LonePrintsSurvive
    BY DEF IndInv, LoneInv, WriteInv, LonePrintsSurvive, IsLine
  <1> QED BY <1>1, Invariant, PTL

\* Once close() has returned and nobody gave up waiting, the line of such a print()
\* has been sent or was dropped by the full queue.
THEOREM ClosedLines == Spec => []CloseSendsAll
PROOF
  <1>1. IndInv => CloseSendsAll
    BY DEF IndInv, CloseInv, CloseSendsAll
  <1> QED BY <1>1, Invariant, PTL
=============================================================================
