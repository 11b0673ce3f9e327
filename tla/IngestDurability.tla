-------------------------- MODULE IngestDurability --------------------------
(***************************************************************************)
(* No message is lost and nothing is stored before it is archived, even if *)
(* the queue delivers a message more than once.  If it does not, no retry  *)
(* runs beside the attempt it retries.                                     *)
(***************************************************************************)
EXTENDS IngestTypes

Stored(m) == Processable(m) /\ KeyOf[m] \in hot

\* Where an execution is in its batch: what it has taken, has not failed and
\* has let go of is stored; what it has in hand is valid and archived.
WorkInv ==
  \A i \in Invocation :
    /\ pc[i] = "idle" => batch[i] = {}
    /\ pc[i] = "respond" => todo[i] = {}
    /\ pc[i] \in {"idle", "next", "respond"} => cur[i] = NoMsg
    /\ pc[i] \in {"claim", "publish", "store"} =>
         /\ cur[i] \in batch[i]
         /\ Processable(cur[i])
         /\ KeyOf[cur[i]] \in archive
    /\ todo[i] \subseteq batch[i]
    /\ \A m \in batch[i] \ (todo[i] \cup failures[i]) : m # cur[i] => Stored(m)

\* What an execution holds has been on the queue.
SentInv == \A i \in Invocation : \A m \in batch[i] : status[m] # "unsent"

DurableInv ==
  /\ HotIsArchived
  /\ AckedIsDurable
  /\ WorkInv
  /\ SentInv

LEMMA InitDurableInv == Init => DurableInv
  BY DEF Init, DurableInv, HotIsArchived, AckedIsDurable, WorkInv, SentInv

-----------------------------------------------------------------------------

LEMMA QueueDurableInv ==
  ASSUME TypeInv, DurableInv,
         NEW m \in Msg,
         Send(m) \/ DeadLetter(m) \/ Redrive(m)
  PROVE  DurableInv'
<1>1. /\ UNCHANGED <<runVars, storeVars>>
      /\ \A n \in Msg : status[n] # "unsent" => status'[n] # "unsent"
  BY DEF Send, DeadLetter, Redrive, TypeInv, TypeOK
<1>2. HotIsArchived' /\ WorkInv'
  BY <1>1 DEF DurableInv, HotIsArchived, WorkInv, Stored, runVars, storeVars
<1>3. AckedIsDurable'
  BY <1>1
  DEF DurableInv, AckedIsDurable, storeVars, Send, DeadLetter, Redrive,
      TypeInv, TypeOK
<1>4. SentInv'
  BY <1>1 DEF DurableInv, SentInv, runVars, TypeInv, TypeOK
<1>5. QED
  BY <1>2, <1>3, <1>4 DEF DurableInv

LEMMA ReceiveDurableInv ==
  ASSUME TypeInv, DurableInv,
         NEW i \in Invocation,
         NEW B \in SUBSET Msg,
         ReceiveBatch(i, B)
  PROVE  DurableInv'
<1>1. HotIsArchived' /\ AckedIsDurable'
  BY DEF DurableInv, HotIsArchived, AckedIsDurable, ReceiveBatch, storeVars
<1>2. WorkInv'
  BY DEF DurableInv, WorkInv, Stored, ReceiveBatch, storeVars, TypeInv, TypeOK
<1>3. SentInv'
  BY DEF DurableInv, SentInv, ReceiveBatch, Receivable, Deliverable,
         TypeInv, TypeOK
<1>4. QED
  BY <1>1, <1>2, <1>3 DEF DurableInv

LEMMA ItemDurableInv ==
  ASSUME TypeInv, DurableInv,
         NEW i \in Invocation,
         NEW m \in Msg,
         RejectPayload(i, m) \/ StoreRawCopy(i, m)
  PROVE  DurableInv'
<1>1. /\ UNCHANGED <<queueVars, batch, budget, hot>>
      /\ archive \subseteq archive'
      /\ pc[i] = "next"
      /\ cur[i] = NoMsg
      /\ m \in batch[i]
      /\ todo' = [todo EXCEPT ![i] = @ \ {m}]
  BY DEF RejectPayload, StoreRawCopy, TakeItem, storeVars, DurableInv, WorkInv
<1>2. HotIsArchived' /\ AckedIsDurable' /\ SentInv'
  BY <1>1
  DEF DurableInv, HotIsArchived, AckedIsDurable, SentInv, queueVars
<1>3. CASE pc'[i] = "next"
  <2>1. \E e \in {"ContractViolationError", "Exception"} : FailItem(i, m, e)
    BY <1>1, <1>3 DEF RejectPayload, StoreRawCopy, Proceed, TypeInv, TypeOK
  <2>2. WorkInv'
    BY <1>1, <2>1 DEF FailItem, DurableInv, WorkInv, Stored, TypeInv, TypeOK
  <2>3. QED
    BY <1>2, <2>2 DEF DurableInv
<1>4. CASE pc'[i] # "next"
  <2>1. /\ \E call \in {"claim", "store"} : Proceed(i, m, call, {})
        /\ Processable(m)
        /\ KeyOf[m] \in archive'
    BY <1>1, <1>4
    DEF RejectPayload, StoreRawCopy, FailItem, TookEffect, TypeInv, TypeOK
  <2>2. WorkInv'
    BY <1>1, <2>1, DataAssumption
    DEF Proceed, DurableInv, WorkInv, Stored, TypeInv, TypeOK
  <2>3. QED
    BY <1>2, <2>2 DEF DurableInv
<1>5. QED
  BY <1>3, <1>4

LEMMA AlertDurableInv ==
  ASSUME TypeInv, DurableInv,
         NEW i \in Invocation,
         TryAcquireAlertSlot(i) \/ PublishAlert(i)
  PROVE  DurableInv'
<1>1. /\ UNCHANGED <<queueVars, storeVars, batch, todo, budget>>
      /\ pc[i] \in {"claim", "publish"}
      /\ \/ \E e \in {"AlertPublishError", "Exception"} : FailItem(i, cur[i], e)
         \/ \E call \in {"publish", "store"}, b \in SUBSET Bucket :
              Proceed(i, cur[i], call, b)
  BY DEF TryAcquireAlertSlot, PublishAlert, Bucket
<1>2. HotIsArchived' /\ AckedIsDurable' /\ SentInv'
  BY <1>1
  DEF DurableInv, HotIsArchived, AckedIsDurable, SentInv, queueVars, storeVars
<1>3. WorkInv'
  BY <1>1
  DEF FailItem, Proceed, DurableInv, WorkInv, Stored, storeVars, TypeInv, TypeOK
<1>4. QED
  BY <1>2, <1>3 DEF DurableInv

LEMMA StoreDurableInv ==
  ASSUME TypeInv, DurableInv,
         NEW i \in Invocation,
         StoreTelemetry(i)
  PROVE  DurableInv'
<1>1. /\ UNCHANGED <<queueVars, archive, batch, todo, budget>>
      /\ pc[i] = "store"
      /\ KeyOf[cur[i]] \in archive
      /\ Processable(cur[i])
      /\ hot \subseteq hot'
      /\ hot' \subseteq hot \cup {KeyOf[cur[i]]}
  BY DEF StoreTelemetry, DurableInv, WorkInv
<1>2. HotIsArchived' /\ AckedIsDurable' /\ SentInv'
  BY <1>1
  DEF DurableInv, HotIsArchived, AckedIsDurable, SentInv, queueVars
<1>3. \/ FailItem(i, cur[i], "Exception")
      \/ /\ KeyOf[cur[i]] \in hot'
         /\ \E b \in Bucket : FinishItem(i, cur[i], b)
  BY DEF StoreTelemetry, Reply, FaultKind, TookEffect, Seen, Bucket
<1>4. WorkInv'
  BY <1>1, <1>3
  DEF FailItem, FinishItem, DurableInv, WorkInv, Stored, TypeInv, TypeOK
<1>5. QED
  BY <1>2, <1>4 DEF DurableInv

LEMMA EndDurableInv ==
  ASSUME TypeInv, DurableInv,
         NEW i \in Invocation,
         EmitCounts(i) \/ Respond(i) \/ Crash(i) \/ Timeout(i)
  PROVE  DurableInv'
<1>1. UNCHANGED <<storeVars, receives, invisible, redriven>>
  BY DEF EmitCounts, Respond, Crash, Timeout, queueVars
<1>2. HotIsArchived'
  BY <1>1 DEF DurableInv, HotIsArchived, storeVars
<1>3. CASE EmitCounts(i)
  <2>1. UNCHANGED <<queueVars, batch, budget, todo, cur, failures>>
    BY <1>3 DEF EmitCounts
  <2>2. AckedIsDurable' /\ SentInv'
    BY <1>1, <2>1
    DEF DurableInv, AckedIsDurable, SentInv, queueVars, storeVars
  <2>3. WorkInv'
    BY <1>1, <1>3, <2>1
    DEF EmitCounts, DurableInv, WorkInv, Stored, storeVars, TypeInv, TypeOK
  <2>4. QED
    BY <1>2, <2>2, <2>3 DEF DurableInv
<1>4. CASE Respond(i) \/ Crash(i) \/ Timeout(i)
  <2>1. Release(i)
    BY <1>4 DEF Respond, Crash, Timeout
  <2>2. WorkInv'
    BY <1>1, <2>1 DEF Release, DurableInv, WorkInv, Stored, storeVars, TypeInv, TypeOK
  <2>3. \A m \in Msg : status'[m] # status[m] =>
          status'[m] = "deleted" /\ Stored(m)
    <3>1. CASE Respond(i)
      <4>1. pc[i] = "respond" /\ todo[i] = {} /\ cur[i] = NoMsg
        BY <3>1 DEF Respond, DurableInv, WorkInv
      <4>2. \A m \in Msg : status'[m] # status[m] =>
              status'[m] = "deleted" /\ m \in batch[i] \ failures[i]
        BY <3>1 DEF Respond, Processed, TypeInv, TypeOK
      <4>3. QED
        BY <4>1, <4>2, DataAssumption DEF DurableInv, WorkInv
    <3>2. CASE Crash(i) \/ Timeout(i)
      BY <3>2 DEF Crash, Timeout, queueVars
    <3>3. QED
      BY <1>4, <3>1, <3>2
  <2>4. AckedIsDurable'
    BY <1>1, <2>3 DEF DurableInv, AckedIsDurable, Stored, storeVars
  <2>5. SentInv'
    BY <2>1, <2>3 DEF Release, DurableInv, SentInv, TypeInv, TypeOK
  <2>6. QED
    BY <1>2, <2>2, <2>4, <2>5 DEF DurableInv
<1>5. QED
  BY <1>3, <1>4

LEMMA TimeDurableInv ==
  ASSUME TypeInv, DurableInv,
         Tick \/ \E d \in Device : ExpireSlot(d)
  PROVE  DurableInv'
<1>1. UNCHANGED <<storeVars, status, pc, batch, todo, cur, failures>>
  BY DEF Tick, ExpireSlot, queueVars, runVars
<1>2. QED
  BY <1>1
  DEF DurableInv, HotIsArchived, AckedIsDurable, WorkInv, SentInv, Stored,
      storeVars

LEMMA NextDurableInv == TypeInv /\ DurableInv /\ [Next]_vars => DurableInv'
<1>1. SUFFICES ASSUME TypeInv, DurableInv, [Next]_vars
               PROVE  DurableInv'
  OBVIOUS
<1>2. CASE Next
  BY <1>1, <1>2, QueueDurableInv, ReceiveDurableInv, ItemDurableInv,
     AlertDurableInv, StoreDurableInv, EndDurableInv, TimeDurableInv
  DEF Next, Step
<1>3. CASE UNCHANGED vars
  BY <1>1, <1>3
  DEF vars, queueVars, runVars, storeVars, DurableInv, HotIsArchived,
      AckedIsDurable, WorkInv, SentInv, Stored
<1>4. QED
  BY <1>1, <1>2, <1>3

LEMMA TypeAndDurable == Spec => [](TypeInv /\ DurableInv)
  BY InitTypeInv, NextTypeInv, InitDurableInv, NextDurableInv, PTL DEF Spec

\* A message is deleted from the queue only when its reading has its hot item
\* and the payload was valid, whatever calls fail, wherever executions die and
\* however often the queue delivers it.
THEOREM NoMessageLost == Spec => []AckedIsDurable
  BY TypeAndDurable, PTL DEF DurableInv

\* Every hot item has its archived body: the archive is written first, and a
\* failed archive call keeps the message away from the hot store.
THEOREM ArchiveBeforeCommit == Spec => []HotIsArchived
  BY TypeAndDurable, PTL DEF DurableInv

-----------------------------------------------------------------------------
(***************************************************************************)
(* What the visibility timeout is sized for.  It says something only of a  *)
(* queue that keeps a message to itself while it is invisible, and of an   *)
(* event source mapping that gives a throttled batch up in time.           *)
(***************************************************************************)

\* The queue delivers a message again only when its visibility timeout is over.
NoRedelivery == "redelivered" \notin Faults

\* A throttled invocation is retried for less than the timeouts that the factor
\* adds to the one of the execution itself.
ThrottleWithinSlack == ThrottleDelay < (VisibilityFactor - 1) * FunctionTimeout

\* "6 * timeout + window": a message that waited a whole batching window, and
\* then as long as throttling may last, stays invisible longer than the
\* execution can live.
LEMMA VisibilityCoversTimeout ==
  ASSUME ThrottleWithinSlack,
         NEW window \in 0..BatchingWindow,
         NEW throttled \in 0..ThrottleDelay
  PROVE  LeftAfter(window + throttled) > FunctionTimeout
<1> DEFINE attempts == VisibilityFactor * FunctionTimeout
<1>1. attempts \in Nat
  BY TimeAssumption
<1>2. (VisibilityFactor - 1) * FunctionTimeout = attempts - FunctionTimeout
  BY TimeAssumption
<1>3. ThrottleDelay < attempts - FunctionTimeout
  BY <1>2 DEF ThrottleWithinSlack
<1>4. VisibilityTimeout = attempts + BatchingWindow
  BY DEF VisibilityTimeout
<1> HIDE DEF attempts
<1>5. QED
  BY <1>1, <1>3, <1>4, TimeAssumption DEF LeftAfter

\* A step that leaves the queue and the batches alone keeps their owners.
LEMMA OwnerKept ==
  ASSUME SoleOwner,
         UNCHANGED <<queueVars, batch, budget>>
  PROVE  SoleOwner'
  BY DEF SoleOwner, queueVars

LEMMA QueueSoleOwner ==
  ASSUME NoRedelivery, TypeInv, SoleOwner,
         NEW m \in Msg,
         Send(m) \/ DeadLetter(m) \/ Redrive(m)
  PROVE  SoleOwner'
<1>1. UNCHANGED <<runVars, invisible>>
  BY DEF Send, DeadLetter, Redrive
<1>2. \A i \in Invocation : m \notin batch[i]
  BY DEF NoRedelivery, SoleOwner, Send, DeadLetter, Redrive, Deliverable,
         TypeInv, TypeOK
<1>3. QED
  BY <1>1, <1>2
  DEF SoleOwner, runVars, Send, DeadLetter, Redrive, TypeInv, TypeOK

LEMMA ReceiveSoleOwner ==
  ASSUME NoRedelivery, ThrottleWithinSlack, TypeInv, SoleOwner,
         NEW i \in Invocation,
         NEW B \in SUBSET Msg,
         ReceiveBatch(i, B)
  PROVE  SoleOwner'
<1>1. \A j \in Invocation : \A m \in B : m \notin batch[j]
  BY DEF NoRedelivery, SoleOwner, ReceiveBatch, Receivable, Deliverable,
         TypeInv, TypeOK
<1>2. \A m \in B : status[m] = "queued" /\ invisible'[m] > FunctionTimeout
  BY VisibilityCoversTimeout
  DEF ReceiveBatch, Receivable, Deliverable, TypeInv, TypeOK
<1>3. SUFFICES ASSUME NEW j \in Invocation, NEW m \in batch'[j]
               PROVE  /\ status'[m] = "queued"
                      /\ invisible'[m] > budget'[j]
                      /\ \A k \in Invocation \ {j} : m \notin batch'[k]
  BY DEF SoleOwner
<1>4. CASE j = i
  BY <1>1, <1>2, <1>4 DEF ReceiveBatch, TypeInv, TypeOK
<1>5. CASE j # i
  BY <1>1, <1>5 DEF SoleOwner, ReceiveBatch, TypeInv, TypeOK
<1>6. QED
  BY <1>4, <1>5

\* Nothing but the response of its one owner deletes a message in hand.
LEMMA EndSoleOwner ==
  ASSUME TypeInv, SoleOwner,
         NEW i \in Invocation,
         Respond(i) \/ Crash(i) \/ Timeout(i)
  PROVE  SoleOwner'
<1>1. Release(i) /\ UNCHANGED invisible
  BY DEF Respond, Crash, Timeout, queueVars
<1>2. \A m \in Msg : status'[m] # status[m] => m \in batch[i]
  BY DEF Respond, Processed, Crash, Timeout, queueVars, TypeInv, TypeOK
<1>3. QED
  BY <1>1, <1>2 DEF Release, SoleOwner, TypeInv, TypeOK

LEMMA TickSoleOwner ==
  ASSUME TypeInv, WorkInv, SoleOwner, Tick
  PROVE  SoleOwner'
  BY DEF Tick, Decrease, SoleOwner, WorkInv, TypeInv, TypeOK

LEMMA NextSoleOwner ==
  ASSUME NoRedelivery, ThrottleWithinSlack
  PROVE  TypeInv /\ DurableInv /\ SoleOwner /\ [Next]_vars => SoleOwner'
<1>1. SUFFICES ASSUME TypeInv, DurableInv, SoleOwner, [Next]_vars
               PROVE  SoleOwner'
  OBVIOUS
<1>2. CASE \E m \in Msg : Send(m) \/ DeadLetter(m) \/ Redrive(m)
  BY <1>1, <1>2, QueueSoleOwner
<1>3. CASE \E i \in Invocation, B \in SUBSET Msg : ReceiveBatch(i, B)
  BY <1>1, <1>3, ReceiveSoleOwner
<1>4. CASE \E i \in Invocation : Respond(i) \/ Crash(i) \/ Timeout(i)
  BY <1>1, <1>4, EndSoleOwner
<1>5. CASE Tick
  BY <1>1, <1>5, TickSoleOwner DEF DurableInv
<1>6. CASE \/ \E i \in Invocation, m \in Msg : RejectPayload(i, m) \/ StoreRawCopy(i, m)
           \/ \E i \in Invocation :
                \/ TryAcquireAlertSlot(i) \/ PublishAlert(i)
                \/ StoreTelemetry(i) \/ EmitCounts(i)
           \/ \E d \in Device : ExpireSlot(d)
           \/ UNCHANGED vars
  <2>1. UNCHANGED <<queueVars, batch, budget>>
    BY <1>6
    DEF RejectPayload, StoreRawCopy, TakeItem, TryAcquireAlertSlot, PublishAlert,
        StoreTelemetry, EmitCounts, ExpireSlot, vars, runVars
  <2>2. QED
    BY <1>1, <2>1, OwnerKept
<1>7. QED
  BY <1>1, <1>2, <1>3, <1>4, <1>5, <1>6 DEF Next, Step

LEMMA OwnerInvariant ==
  ASSUME NoRedelivery, ThrottleWithinSlack
  PROVE  Spec => [](TypeInv /\ DurableInv /\ SoleOwner)
<1>1. Init => SoleOwner
  BY DEF Init, SoleOwner
<1>2. TypeInv /\ DurableInv /\ SoleOwner /\ [Next]_vars => SoleOwner'
  BY NextSoleOwner
<1>3. QED
  BY <1>1, <1>2, InitTypeInv, NextTypeInv, InitDurableInv, NextDurableInv, PTL
  DEF Spec

\* While the queue delivers a message again only after its visibility timeout,
\* and throttling ends within the slack of the factor, every message is in the
\* hands of one live execution.
THEOREM RetryNeverOverlaps ==
  ASSUME NoRedelivery, ThrottleWithinSlack
  PROVE  Spec => []SoleOwner
<1>1. Spec => [](TypeInv /\ DurableInv /\ SoleOwner)
  BY OwnerInvariant
<1>2. QED
  BY <1>1, PTL

=============================================================================
