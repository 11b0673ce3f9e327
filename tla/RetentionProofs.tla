--------------------------- MODULE RetentionProofs ---------------------------
(***************************************************************************)
(* Proofs about Retention: for all retentions that satisfy the             *)
(* precondition, any number of copies and however time passes, no reading  *)
(* is stored twice.                                                        *)
(***************************************************************************)
EXTENDS Retention, TLAPS

\* Rounded up, a duration is no shorter, and one more day makes it longer by
\* a day.
LEMMA RoundedUp ==
  ASSUME NEW s \in Nat, NEW d \in Nat, d > 0
  PROVE  LET days == (s + d - 1) \div d
         IN  days + 1 \in Nat /\ (days + 1) * d \in Nat /\ (days + 1) * d >= s + d
<1>1. s + d - 1 \in Nat
  OBVIOUS
<1>2. ASSUME NEW n \in Nat
      PROVE  n \div d \in Nat /\ (n \div d) * d \in Nat /\ n < (n \div d) * d + d
  OBVIOUS
<1>3. PICK q \in Nat : /\ q = (s + d - 1) \div d
                       /\ q * d \in Nat /\ s + d - 1 < q * d + d
  BY <1>1, <1>2
<1>4. (q + 1) * d = q * d + d
  OBVIOUS
<1> QED BY <1>3, <1>4

\* The retention the items get covers the way of the latest duplicate.
LEMMA HotRetentionCovers ==
  /\ HotRetentionDays \in Nat
  /\ HotRetentionDays * Day \in Nat
  /\ HotRetentionDays * Day >= DlqRetention + QueueRetention + MaxLag
<1>1. Day \in Nat /\ Day > 0
  BY DEF Day
<1>2. /\ DlqRetention + QueueRetention \in Nat
      /\ MaxLag \in Nat /\ MaxLag <= Day
  BY RetentionAssumption
<1>3. /\ HotRetentionDays \in Nat
      /\ HotRetentionDays * Day \in Nat
      /\ HotRetentionDays * Day >= DlqRetention + QueueRetention + Day
  BY <1>1, <1>2, RoundedUp DEF HotRetentionDays, Ceil
<1> QED BY <1>1, <1>2, <1>3

(***************************************************************************)
(* The way of a copy, once the reading was inserted at time t: it was      *)
(* enqueued by t + MaxLag, and moved back from the DLQ within its          *)
(* retention.                                                              *)
(***************************************************************************)
LatestEnqueue(c, t) ==
  t + MaxLag + (IF c \in redriven THEN DlqRetention ELSE 0)

OnTime ==
  \A t \in inserts : \A c \in Copy :
    place[c] \in {"queue", "dlq"} => enqueued[c] <= LatestEnqueue(c, t)

\* The item of an insert is in the table until its time is over.
Remembered ==
  \A t \in inserts : /\ expiresAt = t + HotRetentionDays * Day
                     /\ hot \/ clock > expiresAt

RetentionInv == RetentionTypeOK /\ NeverStoredTwice /\ OnTime /\ Remembered

\* Types hold in the initial state and are kept by every step.
LEMMA TypeInitially == Init => RetentionTypeOK
<1> SUFFICES ASSUME Init PROVE RetentionTypeOK
  OBVIOUS
<1>1. clock = 0 /\ 0 \in 0..clock
  BY DEF Init
<1>2. /\ enqueued \in [Copy -> 0..clock]
      /\ landed \in [Copy -> 0..clock]
  BY <1>1 DEF Init
<1>3. /\ place \in [Copy -> {"unsent", "queue", "dlq", "done", "dropped"}]
      /\ \A c \in Copy : place[c] # "dlq"
  BY DEF Init
<1>4. /\ redriven \subseteq Copy /\ hot \in BOOLEAN
      /\ expiresAt \in Nat /\ inserts \subseteq 0..clock
  BY DEF Init
<1> QED BY <1>1, <1>2, <1>3, <1>4 DEF RetentionTypeOK

LEMMA TypeStep == RetentionTypeOK /\ [Next]_vars => RetentionTypeOK'
<1> SUFFICES ASSUME RetentionTypeOK, [Next]_vars PROVE RetentionTypeOK'
  OBVIOUS
<1> USE DEF RetentionTypeOK
<1>1. ASSUME NEW c \in Copy, Send(c) PROVE RetentionTypeOK'
  BY <1>1 DEF Send, Move
<1>2. ASSUME NEW c \in Copy, Process(c) PROVE RetentionTypeOK'
  <2>1. /\ hot' \in BOOLEAN /\ expiresAt' \in Nat
        /\ inserts' \subseteq 0..clock
    <3>1. HotRetentionDays * Day \in Nat
      BY HotRetentionCovers
    <3>2. CASE hot
      BY <1>2, <3>2 DEF Process, StoreTelemetry
    <3>3. CASE ~hot
      <4>1. /\ hot' = TRUE
            /\ expiresAt' = clock + HotRetentionDays * Day
            /\ inserts' = inserts \cup {clock}
        BY <1>2, <3>3 DEF Process, StoreTelemetry
      <4> QED BY <3>1, <4>1
    <3> QED BY <3>2, <3>3
  <2>2. /\ place' \in [Copy -> {"unsent", "queue", "dlq", "done", "dropped"}]
        /\ \A d \in Copy : place'[d] = "dlq" => place[d] = "dlq"
    BY <1>2 DEF Process, Move
  <2> QED BY <1>2, <2>1, <2>2 DEF Process
<1>3. ASSUME NEW c \in Copy, DeadLetter(c) PROVE RetentionTypeOK'
  BY <1>3, RetentionAssumption DEF DeadLetter, Move, Retained, Age
<1>4. ASSUME NEW c \in Copy, Redrive(c) PROVE RetentionTypeOK'
  BY <1>4 DEF Redrive, Move
<1>5. ASSUME NEW c \in Copy, Drop(c) PROVE RetentionTypeOK'
  BY <1>5 DEF Drop, Move
<1>6. CASE ExpireItem
  BY <1>6 DEF ExpireItem
<1>7. CASE Tick
  BY <1>7, RetentionAssumption DEF Tick
<1>8. CASE UNCHANGED vars
  BY <1>8 DEF vars
<1> QED BY <1>1, <1>2, <1>3, <1>4, <1>5, <1>6, <1>7, <1>8 DEF Next

\* Every variable keeps its type, for all retentions.
THEOREM RetentionTypeCorrect == Spec => []RetentionTypeOK
BY TypeInitially, TypeStep, PTL DEF Spec

-----------------------------------------------------------------------------

\* A copy that can be processed is in time for the item of any insert.
LEMMA InTime ==
  ASSUME RetentionInv, NEW c \in Copy, place[c] = "queue", Retained(c)
  PROVE  inserts # {} => hot
<1> SUFFICES ASSUME NEW t \in inserts, clock > expiresAt PROVE FALSE
  BY DEF RetentionInv, Remembered
<1> DEFINE life == HotRetentionDays * Day
<1>1. enqueued[c] <= t + MaxLag + DlqRetention
  BY RetentionAssumption DEF RetentionInv, RetentionTypeOK, OnTime, LatestEnqueue
<1>2. clock <= enqueued[c] + QueueRetention
  BY RetentionAssumption DEF Retained, Age, RetentionInv, RetentionTypeOK
<1>3. expiresAt = t + life
  BY DEF RetentionInv, Remembered
<1>4. life \in Nat
  BY HotRetentionCovers
<1>5. life >= DlqRetention + QueueRetention + MaxLag
  BY HotRetentionCovers
<1>6. /\ t \in Nat /\ clock \in Nat /\ enqueued[c] \in Nat
      /\ MaxLag \in Nat /\ DlqRetention \in Nat /\ QueueRetention \in Nat
  BY RetentionAssumption DEF RetentionInv, RetentionTypeOK
<1> HIDE DEF life
<1> QED BY <1>1, <1>2, <1>3, <1>4, <1>5, <1>6

LEMMA InvStep == RetentionInv /\ [Next]_vars => RetentionInv'
<1> SUFFICES ASSUME RetentionInv, [Next]_vars
             PROVE  NeverStoredTwice' /\ OnTime' /\ Remembered'
  BY TypeStep DEF RetentionInv
<1>t. RetentionTypeOK /\ NeverStoredTwice /\ OnTime /\ Remembered
  BY DEF RetentionInv
<1>a. MaxLag \in Nat /\ DlqRetention \in Nat /\ QueueRetention \in Nat
  BY RetentionAssumption
<1>1. ASSUME NEW c \in Copy, Send(c)
      PROVE  NeverStoredTwice' /\ OnTime' /\ Remembered'
  <2>1. NeverStoredTwice' /\ Remembered'
    BY <1>1, <1>t DEF Send, NeverStoredTwice, Remembered
  <2>2. ASSUME NEW t \in inserts, NEW d \in Copy,
               place'[d] \in {"queue", "dlq"}
        PROVE  enqueued'[d] <= LatestEnqueue(d, t)'
    <3>1. CASE d = c
      <4>1. enqueued'[d] = clock /\ clock <= t + MaxLag
        BY <1>1, <1>t, <3>1 DEF Send, RetentionTypeOK
      <4>2. t \in Nat /\ clock \in Nat
        BY <1>t DEF RetentionTypeOK
      <4> QED BY <4>1, <4>2, <1>a DEF LatestEnqueue
    <3>2. CASE d # c
      BY <1>1, <1>t, <2>2, <3>2 DEF Send, Move, RetentionTypeOK, OnTime, LatestEnqueue
    <3> QED BY <3>1, <3>2
  <2> QED BY <1>1, <2>1, <2>2 DEF Send, OnTime
<1>2. ASSUME NEW c \in Copy, Process(c)
      PROVE  NeverStoredTwice' /\ OnTime' /\ Remembered'
  <2>p. /\ place[c] = "queue" /\ Retained(c) /\ StoreTelemetry
        /\ UNCHANGED <<clock, enqueued, landed, redriven>>
        /\ \A d \in Copy : place'[d] \in {"queue", "dlq"} => place'[d] = place[d]
    BY <1>2, <1>t DEF Process, Move, RetentionTypeOK
  <2>1. CASE hot
    BY <2>1, <2>p, <1>t DEF StoreTelemetry, NeverStoredTwice, OnTime, Remembered,
                            LatestEnqueue
  <2>2. CASE ~hot
    <3>1. inserts = {}
      BY <2>2, <2>p, InTime
    <3>2. inserts' = {clock} /\ hot' /\ expiresAt' = clock + HotRetentionDays * Day
      BY <2>2, <3>1, <2>p DEF StoreTelemetry
    <3>3. \A d \in Copy : enqueued[d] <= clock /\ enqueued[d] \in Nat /\ clock \in Nat
      BY <1>t DEF RetentionTypeOK
    <3>4. OnTime'
      BY <3>2, <3>3, <2>p, <1>a DEF OnTime, LatestEnqueue
    <3> QED BY <3>2, <3>4, <2>p DEF NeverStoredTwice, Remembered
  <2> QED BY <2>1, <2>2
<1>3. ASSUME NEW c \in Copy, DeadLetter(c)
      PROVE  NeverStoredTwice' /\ OnTime' /\ Remembered'
  <2>1. NeverStoredTwice' /\ Remembered'
    BY <1>3, <1>t DEF DeadLetter, NeverStoredTwice, Remembered
  <2>2. \A d \in Copy : place'[d] \in {"queue", "dlq"} => place[d] \in {"queue", "dlq"}
    BY <1>3, <1>t DEF DeadLetter, Move, RetentionTypeOK
  <2> QED BY <1>3, <1>t, <2>1, <2>2 DEF DeadLetter, OnTime, LatestEnqueue
<1>4. ASSUME NEW c \in Copy, Redrive(c)
      PROVE  NeverStoredTwice' /\ OnTime' /\ Remembered'
  <2>1. NeverStoredTwice' /\ Remembered'
    BY <1>4, <1>t DEF Redrive, NeverStoredTwice, Remembered
  <2>2. ASSUME NEW t \in inserts, NEW d \in Copy,
               place'[d] \in {"queue", "dlq"}
        PROVE  enqueued'[d] <= LatestEnqueue(d, t)'
    <3>1. CASE d = c
      <4>1. enqueued[c] <= t + MaxLag
        <5>1. c \notin redriven /\ place[c] = "dlq" /\ t \in Nat
          BY <1>4, <1>t DEF Redrive, RetentionTypeOK
        <5>2. enqueued[c] <= t + MaxLag + 0
          BY <5>1, <1>t DEF OnTime, LatestEnqueue
        <5> QED BY <5>1, <5>2, <1>a
      <4>2. clock <= enqueued[c] + DlqRetention
        BY <1>4, <1>t, <1>a DEF Redrive, Retained, Age, RetentionTypeOK
      <4>3. enqueued'[d] = clock /\ d \in redriven'
        BY <1>4, <1>t, <3>1 DEF Redrive, RetentionTypeOK
      <4>4. t \in Nat /\ clock \in Nat /\ enqueued[c] \in Nat
        BY <1>t DEF RetentionTypeOK
      <4> QED BY <4>1, <4>2, <4>3, <4>4, <1>a DEF LatestEnqueue
    <3>2. CASE d # c
      <4>1. /\ enqueued'[d] = enqueued[d] /\ place'[d] = place[d]
            /\ d \in redriven' <=> d \in redriven
        BY <1>4, <1>t, <3>2 DEF Redrive, Move, RetentionTypeOK
      <4> QED BY <4>1, <2>2, <1>t DEF OnTime, LatestEnqueue
    <3> QED BY <3>1, <3>2
  <2> QED BY <1>4, <2>1, <2>2 DEF Redrive, OnTime
<1>5. ASSUME NEW c \in Copy, Drop(c)
      PROVE  NeverStoredTwice' /\ OnTime' /\ Remembered'
  <2>1. \A d \in Copy : place'[d] \in {"queue", "dlq"} => place'[d] = place[d]
    BY <1>5, <1>t DEF Drop, Move, RetentionTypeOK
  <2> QED BY <1>5, <1>t, <2>1
          DEF Drop, NeverStoredTwice, OnTime, Remembered, LatestEnqueue
<1>6. CASE ExpireItem
  BY <1>6, <1>t DEF ExpireItem, NeverStoredTwice, OnTime, Remembered, LatestEnqueue
<1>7. CASE Tick
  <2>1. clock' = clock + Quantum /\ clock \in Nat /\ expiresAt \in Nat /\ Quantum \in Nat
    BY <1>7, <1>t, RetentionAssumption DEF Tick, RetentionTypeOK
  <2> QED BY <1>7, <1>t, <2>1
          DEF Tick, NeverStoredTwice, OnTime, Remembered, LatestEnqueue
<1>8. CASE UNCHANGED vars
  BY <1>8, <1>t DEF vars, NeverStoredTwice, OnTime, Remembered, LatestEnqueue
<1> QED BY <1>1, <1>2, <1>3, <1>4, <1>5, <1>6, <1>7, <1>8 DEF Next

LEMMA AlwaysRetentionInv == Spec => []RetentionInv
<1>1. Init => RetentionInv
  BY TypeInitially DEF Init, RetentionInv, NeverStoredTwice, OnTime, Remembered
<1> QED BY <1>1, InvStep, PTL DEF Spec

\* No copy of a reading is inserted again: hot_retention_days outlives the
\* longest way through queue, DLQ and one redrive, whatever the retentions.
THEOREM ReadingIsStoredOnce == Spec => []NeverStoredTwice
BY AlwaysRetentionInv, PTL DEF RetentionInv

\* A message that expires in the DLQ has been there for the difference of the
\* two retentions at least.
THEOREM TriageTime == Spec => TriageWindow
<1>1. ASSUME RetentionTypeOK, NEW c \in Copy, place[c] = "dlq", Drop(c)
      PROVE  clock - landed[c] >= DlqRetention - QueueRetention
  <2>1. landed[c] <= enqueued[c] + QueueRetention
    BY <1>1 DEF RetentionTypeOK
  <2>2. ~(clock - enqueued[c] <= DlqRetention)
    BY <1>1 DEF Drop, Retained, Age
  <2>3. clock \in Nat /\ landed[c] \in Nat /\ enqueued[c] \in Nat
    BY <1>1 DEF RetentionTypeOK
  <2> QED BY <2>1, <2>2, <2>3, RetentionAssumption
<1>2. RetentionTypeOK =>
        \A c \in Copy : place[c] = "dlq" /\ Drop(c) =>
          clock - landed[c] >= DlqRetention - QueueRetention
  BY <1>1
<1> QED BY <1>2, RetentionTypeCorrect, PTL DEF TriageWindow

=============================================================================
