------------------------------- MODULE Ingest -------------------------------
(***************************************************************************)
(* The ingest path of PyroSense: the SQS queue with its dead-letter queue, *)
(* the event source mapping that polls it, the concurrent executions of    *)
(* the ingest Lambda, and the state they write: the S3 archive, the        *)
(* DynamoDB hot items, the per-device alert slot, the SNS alerts and the   *)
(* EMF counters.                                                           *)
(*                                                                         *)
(* One action is one remote call of the handler, because another execution *)
(* can run between any two of them; the local computation around a call is *)
(* part of the call's action.                                              *)
(*                                                                         *)
(* Time is kept as timers that a Tick moves, never as a date, so that no   *)
(* bound on the clock is needed: invisible[m] is what is left of a         *)
(* message's visibility timeout, budget[i] what is left of an execution's  *)
(* timeout, suppress[d] = suppress_until - clock for the device's alert    *)
(* slot, sinceAlert[d] = clock - (time of the last alert).                 *)
(***************************************************************************)
EXTENDS Integers, FiniteSets

CONSTANTS
  Msg,                \* SQS messages; two of them may carry the same reading
  NoMsg,              \* "no message in hand"
  Key,                \* readings, identified by device_id and seq
  Device,             \* device_id
  Invocation,         \* concurrent executions (maximum_concurrency of them)
  KeyOf,              \* the reading a message carries
  DeviceOf,           \* the device of a reading
  LevelOf,            \* what contract.py and risk.py make of a message
  BatchSize,          \* batch_size of the event source mapping
  MaxReceiveCount,    \* maxReceiveCount of the redrive policy
  FunctionTimeout,    \* timeout of the function
  BatchingWindow,     \* how long the mapping may collect a batch
  VisibilityFactor,   \* the 6 of "6 * timeout + window"
  ThrottleDelay,      \* how long the mapping may retry a throttled invocation
  SuppressionWindow,  \* ALERT_SUPPRESSION_MINUTES
  SlotTTL,            \* lifetime of an alert slot item (one day)
  Faults,             \* which kinds of failure may happen
  Redrivable          \* messages an operator moves back from the DLQ, once each

(***************************************************************************)
(* INVALID: ContractViolationError.  RAISES: parsing or validation raises  *)
(* something else (Contract says when).  NORMAL stands for NONE and        *)
(* ELEVATED: neither of them alerts.                                       *)
(***************************************************************************)
Level == {"INVALID", "RAISES", "NORMAL", "CRITICAL"}

Bucket == {"MessagesStored", "DuplicatesSkipped", "InvalidPayloads",
           "AlertsPublished", "AlertsSuppressed", "AlertPublishFailures"}

(***************************************************************************)
(* error: a call raises and has done nothing.  lostReply: a call raises    *)
(* although it took effect.  retried: a call took effect, its reply is     *)
(* lost, and the SDK repeats it.  crash: an execution dies, or runs into   *)
(* its timeout.  redelivered: SQS delivers a message more than once, while *)
(* it is invisible or although it was deleted (persistence.py, ADR-0008).  *)
(***************************************************************************)
CallFault == {"error", "lostReply", "retried"}

FaultKind == CallFault \cup {"crash", "redelivered"}

ASSUME DataAssumption ==
  /\ NoMsg \notin Msg
  /\ KeyOf \in [Msg -> Key]
  /\ DeviceOf \in [Key -> Device]
  /\ LevelOf \in [Msg -> Level]
  /\ Faults \subseteq FaultKind
  /\ Redrivable \subseteq Msg

\* SuppressionWindow <= SlotTTL is the validation of alert_suppression_minutes:
\* at most 1440, the day of the slot's TTL.
ASSUME TimeAssumption ==
  /\ BatchSize \in Nat \ {0}
  /\ MaxReceiveCount \in Nat \ {0}
  /\ FunctionTimeout \in Nat \ {0}
  /\ BatchingWindow \in Nat
  /\ VisibilityFactor \in Nat
  /\ VisibilityFactor >= 2
  /\ ThrottleDelay \in Nat
  /\ SuppressionWindow \in Nat \ {0}
  /\ SlotTTL \in Nat
  /\ SlotTTL >= SuppressionWindow

VARIABLES
  status,      \* where a message is
  receives,    \* its ApproximateReceiveCount
  invisible,   \* time until it can be received again
  redriven,    \* messages already moved back from the DLQ
  pc,          \* the next call of an execution
  batch,       \* the messages of its event
  todo,        \* those the loop has not reached
  cur,         \* the message in _process_message
  counts,      \* the counters _process_message has set for it
  failures,    \* batchItemFailures so far
  totals,      \* the counters of the batch: a pair <<m, b>> counts m in b
  budget,      \* time left before the execution is killed
  archive,     \* readings with an object in S3
  hot,         \* readings with an item in DynamoDB
  suppress,    \* suppress_until of the alert slot, relative to now
  owed,        \* devices whose slot was claimed and whose alert is not out
  sinceAlert,  \* time since the device's last alert, up to FarPast
  emitted      \* counters that reached CloudWatch

queueVars == <<status, receives, invisible, redriven>>
runVars   == <<pc, batch, todo, cur, counts, failures, totals, budget>>
storeVars == <<archive, hot>>
alertVars == <<suppress, owed, sinceAlert>>
vars == <<queueVars, runVars, storeVars, alertVars, emitted>>

\* No batch can be older than FunctionTimeout, so a slot that has been over
\* for longer than that, like one that was never written or that TTL removed,
\* can be claimed by every execution.
NoSlot == -(FunctionTimeout + 1)

\* An alert so old, or never sent, that no property depends on its age.
FarPast == SuppressionWindow + FunctionTimeout + 1

\* Mutation of VisibilityTimeout: the batching window is left out.
VisibilityTimeout_NoWindow == VisibilityFactor * FunctionTimeout

\* visibility_timeout_seconds = 6 * timeout + window
VisibilityTimeout == VisibilityFactor * FunctionTimeout + BatchingWindow

TypeOK ==
  /\ status \in [Msg -> {"unsent", "queued", "deleted", "dlq"}]
  /\ receives \in [Msg -> 0..MaxReceiveCount]
  /\ invisible \in [Msg -> 0..VisibilityTimeout]
  /\ redriven \subseteq Msg
  /\ pc \in [Invocation ->
               {"idle", "next", "claim", "publish", "store", "respond"}]
  /\ batch \in [Invocation -> SUBSET Msg]
  /\ todo \in [Invocation -> SUBSET Msg]
  /\ cur \in [Invocation -> Msg \cup {NoMsg}]
  /\ counts \in [Invocation -> SUBSET Bucket]
  /\ failures \in [Invocation -> SUBSET Msg]
  /\ totals \in [Invocation -> SUBSET (Msg \X Bucket)]
  /\ budget \in [Invocation -> 0..FunctionTimeout]
  /\ archive \subseteq Key
  /\ hot \subseteq Key
  /\ suppress \in [Device -> NoSlot..SuppressionWindow]
  /\ owed \subseteq Device
  /\ sinceAlert \in [Device -> 0..FarPast]
  /\ emitted \subseteq Msg \X Bucket

Init ==
  /\ status = [m \in Msg |-> "unsent"]
  /\ receives = [m \in Msg |-> 0]
  /\ invisible = [m \in Msg |-> 0]
  /\ redriven = {}
  /\ pc = [i \in Invocation |-> "idle"]
  /\ batch = [i \in Invocation |-> {}]
  /\ todo = [i \in Invocation |-> {}]
  /\ cur = [i \in Invocation |-> NoMsg]
  /\ counts = [i \in Invocation |-> {}]
  /\ failures = [i \in Invocation |-> {}]
  /\ totals = [i \in Invocation |-> {}]
  /\ budget = [i \in Invocation |-> 0]
  /\ archive = {}
  /\ hot = {}
  /\ suppress = [d \in Device |-> NoSlot]
  /\ owed = {}
  /\ sinceAlert = [d \in Device |-> FarPast]
  /\ emitted = {}

-----------------------------------------------------------------------------
(***************************************************************************)
(* The queue, the dead-letter queue and the event source mapping.          *)
(***************************************************************************)

\* The topic rule puts a message on the queue.
Send(m) ==
  /\ status[m] = "unsent"
  /\ status' = [status EXCEPT ![m] = "queued"]
  /\ UNCHANGED <<receives, invisible, redriven>>
  /\ UNCHANGED <<runVars, storeVars, alertVars, emitted>>

\* SQS delivers what is visible, and sometimes what is not.
Deliverable(m) ==
  /\ status[m] = "queued"
  /\ invisible[m] = 0 \/ "redelivered" \in Faults

\* Mutation of Receivable: the last permitted receive is counted once more.
Receivable_OneMore(m) == Deliverable(m) /\ receives[m] <= MaxReceiveCount

\* Mutation of Receivable: the mapping stops one receive before the queue does.
Receivable_OneShort(m) == Deliverable(m) /\ receives[m] < MaxReceiveCount - 1

Receivable(m) == Deliverable(m) /\ receives[m] < MaxReceiveCount

\* What is left of a visibility timeout after so much time.
LeftAfter(time) == IF time < VisibilityTimeout THEN VisibilityTimeout - time ELSE 0

\* The mapping has received the messages of B, each at most BatchingWindow
\* before the batch was complete, has then tried for a while to invoke the
\* function, and starts an execution with them: get_settings has succeeded and
\* now is taken, so the age of the batch is 0.  A Crash right after this action
\* is a batch that was received and never processed.
ReceiveBatch(i, B) ==
  /\ pc[i] = "idle"
  /\ B # {}
  /\ Cardinality(B) <= BatchSize
  /\ \A m \in B : Receivable(m)
  /\ receives' = [m \in Msg |-> IF m \in B THEN receives[m] + 1 ELSE receives[m]]
  /\ \E collected \in [B -> 0..BatchingWindow], throttled \in 0..ThrottleDelay :
       invisible' = [m \in Msg |-> IF m \in B
                                   THEN LeftAfter(collected[m] + throttled)
                                   ELSE invisible[m]]
  /\ pc' = [pc EXCEPT ![i] = "next"]
  /\ batch' = [batch EXCEPT ![i] = B]
  /\ todo' = [todo EXCEPT ![i] = B]
  /\ budget' = [budget EXCEPT ![i] = FunctionTimeout]
  /\ UNCHANGED <<status, redriven, cur, counts, failures, totals>>
  /\ UNCHANGED <<storeVars, alertVars, emitted>>

\* A receive that would exceed maxReceiveCount moves the message instead.
DeadLetter(m) ==
  /\ Deliverable(m)
  /\ receives[m] = MaxReceiveCount
  /\ status' = [status EXCEPT ![m] = "dlq"]
  /\ UNCHANGED <<receives, invisible, redriven>>
  /\ UNCHANGED <<runVars, storeVars, alertVars, emitted>>

\* An operator moves a message back from the DLQ; it starts over.
Redrive(m) ==
  /\ status[m] = "dlq"
  /\ m \in Redrivable \ redriven
  /\ status' = [status EXCEPT ![m] = "queued"]
  /\ receives' = [receives EXCEPT ![m] = 0]
  /\ redriven' = redriven \cup {m}
  /\ UNCHANGED invisible
  /\ UNCHANGED <<runVars, storeVars, alertVars, emitted>>

-----------------------------------------------------------------------------
(***************************************************************************)
(* The handler.  A call draws its reply; lambda_handler catches every      *)
(* exception of _process_message, fails the item and goes on.              *)
(***************************************************************************)

Reply == {"ok"} \cup (Faults \cap CallFault)

\* put_object with a key of its own: a repeat by the SDK writes the same bytes.
PlainReply == Reply \ {"retried"}

TookEffect(reply) == reply # "error"

\* Mutation of CountedBy: a failed publish is one more transient failure.
CountedBy_NoPublishBranch(exception) ==
  IF exception = "ContractViolationError" THEN {"InvalidPayloads"} ELSE {}

\* Mutation of CountedBy: contract violations are logged and not counted.
CountedBy_NoContractBranch(exception) ==
  IF exception = "AlertPublishError" THEN {"AlertPublishFailures"} ELSE {}

\* The counter that each except branch of lambda_handler moves.
CountedBy(exception) ==
  CASE exception = "ContractViolationError" -> {"InvalidPayloads"}
    [] exception = "AlertPublishError"      -> {"AlertPublishFailures"}
    [] exception = "Exception"              -> {}

\* Mutation of FailItem: the item is not put into batchItemFailures.
FailItem_NotReported(i, m, exception) ==
  /\ totals' = [totals EXCEPT ![i] = @ \cup ({m} \X CountedBy(exception))]
  /\ pc' = [pc EXCEPT ![i] = "next"]
  /\ cur' = [cur EXCEPT ![i] = NoMsg]
  /\ counts' = [counts EXCEPT ![i] = {}]
  /\ UNCHANGED failures

\* An except branch: the item fails, and what _process_message had counted for
\* it is dropped.
FailItem(i, m, exception) ==
  /\ failures' = [failures EXCEPT ![i] = @ \cup {m}]
  /\ totals' = [totals EXCEPT ![i] = @ \cup ({m} \X CountedBy(exception))]
  /\ pc' = [pc EXCEPT ![i] = "next"]
  /\ cur' = [cur EXCEPT ![i] = NoMsg]
  /\ counts' = [counts EXCEPT ![i] = {}]

\* _process_message goes on to its next call, having set a counter or none.
Proceed(i, m, call, counted) ==
  /\ pc' = [pc EXCEPT ![i] = call]
  /\ cur' = [cur EXCEPT ![i] = m]
  /\ counts' = [counts EXCEPT ![i] = @ \cup counted]
  /\ UNCHANGED <<failures, totals>>

\* The else branch: the outcome of the message is added to the totals.
FinishItem(i, m, bucket) ==
  /\ totals' = [totals EXCEPT ![i] = @ \cup ({m} \X (counts[i] \cup {bucket}))]
  /\ pc' = [pc EXCEPT ![i] = "next"]
  /\ cur' = [cur EXCEPT ![i] = NoMsg]
  /\ counts' = [counts EXCEPT ![i] = {}]
  /\ UNCHANGED failures

\* The loop takes the next record.  The order of a standard queue's batch is
\* arbitrary, so any message of todo may be the next one.
TakeItem(i, m) ==
  /\ pc[i] = "next"
  /\ m \in todo[i]
  /\ todo' = [todo EXCEPT ![i] = @ \ {m}]
  /\ UNCHANGED <<batch, budget>>

\* json.loads and validate_payload return a record.
Processable(m) == LevelOf[m] \notin {"INVALID", "RAISES"}

\* Not JSON, not contract v1, or an exception of another type on the way.
RejectPayload(i, m) ==
  /\ TakeItem(i, m)
  /\ \/ LevelOf[m] = "INVALID" /\ FailItem(i, m, "ContractViolationError")
     \/ LevelOf[m] = "RAISES" /\ FailItem(i, m, "Exception")
  /\ UNCHANGED <<queueVars, storeVars, alertVars, emitted>>

\* Mutation of StoreRawCopy: a failed archive call is logged and ignored.
StoreRawCopy_BestEffort(i, m) ==
  /\ TakeItem(i, m)
  /\ Processable(m)
  /\ \E reply \in PlainReply :
       archive' = IF TookEffect(reply) THEN archive \cup {KeyOf[m]} ELSE archive
  /\ Proceed(i, m, IF LevelOf[m] = "CRITICAL" THEN "claim" ELSE "store", {})
  /\ UNCHANGED <<queueVars, hot, alertVars, emitted>>

\* Validate, classify and archive the raw body.
StoreRawCopy(i, m) ==
  /\ TakeItem(i, m)
  /\ Processable(m)
  /\ \E reply \in PlainReply :
       /\ archive' = IF TookEffect(reply) THEN archive \cup {KeyOf[m]}
                                          ELSE archive
       /\ \/ /\ reply = "ok"
             /\ LevelOf[m] = "CRITICAL"
             /\ Proceed(i, m, "claim", {})
          \/ /\ reply = "ok"
             /\ LevelOf[m] # "CRITICAL"
             /\ Proceed(i, m, "store", {})
          \/ reply # "ok" /\ FailItem(i, m, "Exception")
  /\ UNCHANGED <<queueVars, hot, alertVars, emitted>>

DeviceInHand(i) == DeviceOf[KeyOf[cur[i]]]

\* How long ago now was taken (lambda_handler, once per batch).
BatchAge(i) == FunctionTimeout - budget[i]

\* Mutation of SlotFree: an unconditional put.
SlotFree_Unconditional(i) == TRUE

\* Mutation of SlotFree: only attribute_not_exists(pk).
SlotFree_NeverAgain(i) == suppress[DeviceInHand(i)] = NoSlot

\* Mutation of SlotFree: suppress_until <= :now.
SlotFree_AtTheBoundary(i) == suppress[DeviceInHand(i)] <= -BatchAge(i)

\* attribute_not_exists(pk) OR suppress_until < :now
SlotFree(i) == suppress[DeviceInHand(i)] < -BatchAge(i)

\* The conditional write that claims the device's alert slot until
\* now + suppression window.  A repeat by the SDK finds the slot taken, be it by
\* the first attempt.
TryAcquireAlertSlot(i) ==
  /\ pc[i] = "claim"
  /\ \E reply \in Reply :
       /\ IF SlotFree(i) /\ TookEffect(reply)
          THEN /\ suppress' = [suppress EXCEPT
                    ![DeviceInHand(i)] = SuppressionWindow - BatchAge(i)]
               /\ owed' = owed \cup {DeviceInHand(i)}
          ELSE UNCHANGED <<suppress, owed>>
       /\ \/ /\ reply = "ok"
             /\ SlotFree(i)
             /\ Proceed(i, cur[i], "publish", {})
          \/ /\ reply = "retried" \/ (reply = "ok" /\ ~SlotFree(i))
             /\ Proceed(i, cur[i], "store", {"AlertsSuppressed"})
          \/ /\ reply \in {"error", "lostReply"}
             /\ FailItem(i, cur[i], "Exception")
  /\ UNCHANGED <<batch, todo, budget, sinceAlert>>
  /\ UNCHANGED <<queueVars, storeVars, emitted>>

\* sns.publish; every exception becomes AlertPublishError.  The SDK repeats it
\* when its reply is lost, and every attempt that arrives is an alert.
PublishAlert(i) ==
  /\ pc[i] = "publish"
  /\ \E reply \in Reply :
       /\ IF TookEffect(reply)
          THEN /\ sinceAlert' = [sinceAlert EXCEPT ![DeviceInHand(i)] = 0]
               /\ owed' = owed \ {DeviceInHand(i)}
          ELSE UNCHANGED <<sinceAlert, owed>>
       /\ \/ reply = "ok" /\ Proceed(i, cur[i], "store", {"AlertsPublished"})
          \/ reply = "retried" /\ Proceed(i, cur[i], "publish", {})
          \/ /\ reply \in {"error", "lostReply"}
             /\ FailItem(i, cur[i], "AlertPublishError")
  /\ UNCHANGED <<batch, todo, budget, suppress>>
  /\ UNCHANGED <<queueVars, storeVars, emitted>>

\* Mutation of Seen: an unconditional put.
Seen_Unconditional(i) == FALSE

\* The condition attribute_not_exists(pk) fails.
Seen(i) == KeyOf[cur[i]] \in hot

\* The conditional insert of the hot item, the last call for a message.
StoreTelemetry(i) ==
  /\ pc[i] = "store"
  /\ \E reply \in Reply :
       /\ hot' = IF TookEffect(reply) THEN hot \cup {KeyOf[cur[i]]} ELSE hot
       /\ \/ reply = "ok" /\ ~Seen(i) /\ FinishItem(i, cur[i], "MessagesStored")
          \/ /\ reply = "retried" \/ (reply = "ok" /\ Seen(i))
             /\ FinishItem(i, cur[i], "DuplicatesSkipped")
          \/ /\ reply \in {"error", "lostReply"}
             /\ FailItem(i, cur[i], "Exception")
  /\ UNCHANGED <<batch, todo, budget, archive>>
  /\ UNCHANGED <<queueVars, alertVars, emitted>>

\* The loop is over: one EMF document for the whole batch.
EmitCounts(i) ==
  /\ pc[i] = "next"
  /\ todo[i] = {}
  /\ emitted' = emitted \cup totals[i]
  /\ pc' = [pc EXCEPT ![i] = "respond"]
  /\ UNCHANGED <<batch, todo, cur, counts, failures, totals, budget>>
  /\ UNCHANGED <<queueVars, storeVars, alertVars>>

\* The execution is over and keeps nothing (the caches of get_settings,
\* get_table, get_s3 and get_sns hold clients, not data).
Release(i) ==
  /\ pc' = [pc EXCEPT ![i] = "idle"]
  /\ batch' = [batch EXCEPT ![i] = {}]
  /\ todo' = [todo EXCEPT ![i] = {}]
  /\ cur' = [cur EXCEPT ![i] = NoMsg]
  /\ counts' = [counts EXCEPT ![i] = {}]
  /\ failures' = [failures EXCEPT ![i] = {}]
  /\ totals' = [totals EXCEPT ![i] = {}]
  /\ budget' = [budget EXCEPT ![i] = 0]

\* Mutation of Processed: without ReportBatchItemFailures the response has no
\* meaning, and a handler that returns has processed its batch.
Processed_WholeBatch(i) == batch[i]

\* Mutation of Processed: one failed item fails the batch.
Processed_AllOrNothing(i) == IF failures[i] = {} THEN batch[i] ELSE {}

\* ReportBatchItemFailures: what is not in batchItemFailures was processed.
Processed(i) == batch[i] \ failures[i]

\* The mapping gets batchItemFailures and deletes the rest of the batch; the
\* failed items stay invisible until their timeout is over, and so does a copy
\* that escapes the deletion.
Respond(i) ==
  /\ pc[i] = "respond"
  /\ \E gone \in SUBSET Processed(i) :
       /\ gone = Processed(i) \/ "redelivered" \in Faults
       /\ status' = [m \in Msg |-> IF m \in gone /\ status[m] = "queued"
                                   THEN "deleted" ELSE status[m]]
  /\ Release(i)
  /\ UNCHANGED <<receives, invisible, redriven>>
  /\ UNCHANGED <<storeVars, alertVars, emitted>>

\* The execution dies: out of memory, an error of the runtime, or a reply
\* that never reaches the mapping.  Nothing is deleted, nothing is emitted.
Crash(i) ==
  /\ "crash" \in Faults
  /\ pc[i] # "idle"
  /\ budget[i] > 0
  /\ Release(i)
  /\ UNCHANGED <<queueVars, storeVars, alertVars, emitted>>

\* Lambda kills the execution at its timeout.
Timeout(i) ==
  /\ "crash" \in Faults
  /\ pc[i] # "idle"
  /\ budget[i] = 0
  /\ Release(i)
  /\ UNCHANGED <<queueVars, storeVars, alertVars, emitted>>

-----------------------------------------------------------------------------
(***************************************************************************)
(* Time.                                                                   *)
(***************************************************************************)

Decrease(x, floor) == IF x > floor THEN x - 1 ELSE floor

\* No execution outlives its timeout.
Tick ==
  /\ \A i \in Invocation : pc[i] # "idle" => budget[i] > 0
  /\ invisible' = [m \in Msg |-> Decrease(invisible[m], 0)]
  /\ budget' = [i \in Invocation |-> Decrease(budget[i], 0)]
  /\ suppress' = [d \in Device |-> Decrease(suppress[d], NoSlot)]
  /\ sinceAlert' = [d \in Device |->
       IF sinceAlert[d] < FarPast THEN sinceAlert[d] + 1 ELSE FarPast]
  /\ UNCHANGED <<status, receives, redriven>>
  /\ UNCHANGED <<pc, batch, todo, cur, counts, failures, totals>>
  /\ UNCHANGED <<storeVars, owed, emitted>>

\* DynamoDB's TTL removes a slot item after its expires_at (at some time, or
\* never).  expires_at - suppress_until = SlotTTL - SuppressionWindow.
SlotExpired(d) == suppress[d] < SuppressionWindow - SlotTTL

ExpireSlot(d) ==
  /\ SlotExpired(d)
  /\ suppress[d] # NoSlot
  /\ suppress' = [suppress EXCEPT ![d] = NoSlot]
  /\ UNCHANGED <<owed, sinceAlert>>
  /\ UNCHANGED <<queueVars, runVars, storeVars, emitted>>

-----------------------------------------------------------------------------

\* One step of the code of execution i.
Step(i) ==
  \/ \E m \in Msg : RejectPayload(i, m) \/ StoreRawCopy(i, m)
  \/ TryAcquireAlertSlot(i)
  \/ PublishAlert(i)
  \/ StoreTelemetry(i)
  \/ EmitCounts(i)
  \/ Respond(i)

Next ==
  \/ \E m \in Msg : Send(m) \/ DeadLetter(m) \/ Redrive(m)
  \/ \E i \in Invocation, B \in SUBSET Msg : ReceiveBatch(i, B)
  \/ \E i \in Invocation : Step(i) \/ Crash(i) \/ Timeout(i)
  \/ \E d \in Device : ExpireSlot(d)
  \/ Tick

Spec == Init /\ [][Next]_vars

\* Time passes; Lambda kills what runs too long; the mapping keeps polling as
\* long as an execution is free; a message that has used up its receives is
\* moved when it is received again.
PlatformFairness ==
  /\ WF_vars(Tick)
  /\ \A i \in Invocation : WF_vars(Timeout(i))
  /\ \A m \in Msg : WF_vars(DeadLetter(m))
  /\ \A m \in Msg : WF_vars(\E i \in Invocation, B \in SUBSET Msg :
                              m \in B /\ ReceiveBatch(i, B))

FairSpec == Spec /\ PlatformFairness

=============================================================================
