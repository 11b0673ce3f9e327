------------------------------ MODULE Retention ------------------------------
(***************************************************************************)
(* How long a reading's hot item must live to recognise every copy of it:  *)
(* the copies of one reading on their way through the queue, the DLQ and a *)
(* redrive, against the TTL of the item that the first of them left.       *)
(*                                                                         *)
(* Time is in seconds, and passes in steps of Quantum.                     *)
(***************************************************************************)
EXTENDS Integers

CONSTANTS
  Copy,               \* messages that carry the reading
  QueueRetention,     \* message_retention_seconds
  DlqRetention,       \* dlq_message_retention_seconds
  MaxLag,             \* a duplicate is enqueued at most so long after the
                      \* reading was ingested
  Quantum, Horizon    \* bounds of the model: step of the clock, and its end

Day == 86400

\* The precondition of the DLQ, and the day that covers a late duplicate.
ASSUME RetentionAssumption ==
  /\ QueueRetention \in Nat
  /\ DlqRetention \in Nat
  /\ DlqRetention > QueueRetention
  /\ MaxLag \in Nat
  /\ MaxLag <= Day
  /\ Quantum \in Nat \ {0}
  /\ Horizon \in Nat

Ceil(seconds) == (seconds + Day - 1) \div Day

\* Mutation of HotRetentionDays: without the extra day.
HotRetentionDays_NoExtraDay == Ceil(DlqRetention + QueueRetention)

\* hot_retention_days
HotRetentionDays == Ceil(DlqRetention + QueueRetention) + 1

VARIABLES
  clock,
  place,      \* where a copy is
  enqueued,   \* its enqueue timestamp, as SQS keeps it
  landed,     \* when it was moved to the DLQ
  redriven,   \* copies that have been moved back from the DLQ
  hot,        \* the table has the reading's item
  expiresAt,  \* expires_at of the item
  inserts     \* when the reading was inserted

vars == <<clock, place, enqueued, landed, redriven, hot, expiresAt, inserts>>

Init ==
  /\ clock = 0
  /\ place = [c \in Copy |-> "unsent"]
  /\ enqueued = [c \in Copy |-> 0]
  /\ landed = [c \in Copy |-> 0]
  /\ redriven = {}
  /\ hot = FALSE
  /\ expiresAt = 0
  /\ inserts = {}

Move(c, to) == place' = [place EXCEPT ![c] = to]

Age(c) == clock - enqueued[c]

\* Mutation of Retained: both queues have the retention of the first.
Retained_SameForBoth(c) == place[c] \in {"queue", "dlq"} /\ Age(c) <= QueueRetention

\* SQS still keeps the copy.
Retained(c) ==
  \/ place[c] = "queue" /\ Age(c) <= QueueRetention
  \/ place[c] = "dlq" /\ Age(c) <= DlqRetention

\* The device, or MQTT's redelivery, sends another copy.
Send(c) ==
  /\ place[c] = "unsent"
  /\ \A t \in inserts : clock <= t + MaxLag
  /\ Move(c, "queue")
  /\ enqueued' = [enqueued EXCEPT ![c] = clock]
  /\ UNCHANGED <<clock, landed, redriven, hot, expiresAt, inserts>>

\* The conditional insert, with the item's TTL.
StoreTelemetry ==
  IF hot
  THEN UNCHANGED <<hot, expiresAt, inserts>>
  ELSE /\ hot' = TRUE
       /\ expiresAt' = clock + HotRetentionDays * Day
       /\ inserts' = inserts \cup {clock}

\* An attempt that reaches the insert: the copy is deleted, or its execution
\* dies and the copy comes back.
Process(c) ==
  /\ place[c] = "queue"
  /\ Retained(c)
  /\ StoreTelemetry
  /\ Move(c, "done") \/ UNCHANGED place
  /\ UNCHANGED <<clock, enqueued, landed, redriven>>

\* Mutation of DeadLetter: a copy is moved however old it is.
DeadLetter_AnyAge(c) ==
  /\ place[c] = "queue"
  /\ Move(c, "dlq")
  /\ landed' = [landed EXCEPT ![c] = clock]
  /\ UNCHANGED <<clock, enqueued, redriven, hot, expiresAt, inserts>>

\* The receives are used up; a standard queue keeps the enqueue timestamp.
DeadLetter(c) ==
  /\ place[c] = "queue"
  /\ Retained(c)
  /\ Move(c, "dlq")
  /\ landed' = [landed EXCEPT ![c] = clock]
  /\ UNCHANGED <<clock, enqueued, redriven, hot, expiresAt, inserts>>

\* An operator moves a copy back, once: "a second blind redrive is out of
\* contract".  To the queue it is a new message.
Redrive(c) ==
  /\ place[c] = "dlq"
  /\ Retained(c)
  /\ c \notin redriven
  /\ redriven' = redriven \cup {c}
  /\ Move(c, "queue")
  /\ enqueued' = [enqueued EXCEPT ![c] = clock]
  /\ UNCHANGED <<clock, landed, hot, expiresAt, inserts>>

\* SQS deletes what it need not keep any longer.
Drop(c) ==
  /\ place[c] \in {"queue", "dlq"}
  /\ ~Retained(c)
  /\ Move(c, "dropped")
  /\ UNCHANGED <<clock, enqueued, landed, redriven, hot, expiresAt, inserts>>

\* TTL deletes an expired item, some time.
ExpireItem ==
  /\ hot
  /\ clock > expiresAt
  /\ hot' = FALSE
  /\ UNCHANGED <<clock, place, enqueued, landed, redriven, expiresAt, inserts>>

Tick ==
  /\ clock < Horizon
  /\ clock' = clock + Quantum
  /\ UNCHANGED <<place, enqueued, landed, redriven, hot, expiresAt, inserts>>

Next ==
  \/ \E c \in Copy : Send(c) \/ Process(c) \/ DeadLetter(c) \/ Redrive(c) \/ Drop(c)
  \/ ExpireItem
  \/ Tick

Spec == Init /\ [][Next]_vars

-----------------------------------------------------------------------------

\* Types, with time stamps that lie in the past; a copy in the DLQ landed there
\* within the retention of the queue.
RetentionTypeOK ==
  /\ clock \in Nat
  /\ place \in [Copy -> {"unsent", "queue", "dlq", "done", "dropped"}]
  /\ enqueued \in [Copy -> 0..clock]
  /\ landed \in [Copy -> 0..clock]
  /\ \A c \in Copy :
       place[c] = "dlq" => landed[c] \in enqueued[c]..(enqueued[c] + QueueRetention)
  /\ redriven \subseteq Copy
  /\ hot \in BOOLEAN
  /\ expiresAt \in Nat
  /\ inserts \subseteq 0..clock

\* However late a copy comes out of the queue, the DLQ and a redrive, it finds
\* the hot item of the first one or the reading was never stored: no reading
\* is inserted twice, and none alerts again as a new one.
NeverStoredTwice ==
  \A s, t \in inserts : s = t

\* "at least 10 days of triage window even for a message that reached the DLQ
\* at the end of its source retention": what expires in the DLQ has been there
\* for the difference of the two retentions.
TriageWindow ==
  [][\A c \in Copy : place[c] = "dlq" /\ Drop(c) =>
       clock - landed[c] >= DlqRetention - QueueRetention]_vars

=============================================================================
