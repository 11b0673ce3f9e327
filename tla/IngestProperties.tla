-------------------------- MODULE IngestProperties --------------------------
(***************************************************************************)
(* What the ingest path has to guarantee, and what its documentation says  *)
(* of it.                                                                  *)
(***************************************************************************)
EXTENDS Ingest

\* No message is lost: a message leaves the queue for good only when it is
\* valid and its reading has its hot item.  An item that failed, that was
\* never reached, or whose execution died, comes back.
AckedIsDurable ==
  \A m \in Msg : status[m] = "deleted" =>
    Processable(m) /\ KeyOf[m] \in hot

\* The archive is the audit trail: every hot item has its object in S3,
\* whatever call failed and wherever the execution died.
HotIsArchived == hot \subseteq archive

\* A message is in the hands of at most one execution, and cannot become
\* visible again before that execution is dead: a retry never runs beside the
\* attempt it retries.  This is about timeouts only: the visibility timeout has
\* to cover the collection of the batch, the delay of a throttled invocation
\* and the execution.  It presumes that SQS does not deliver a message again on
\* its own, which a standard queue may, and that throttling ends before the
\* slack of the factor is used up.
SoleOwner ==
  \A i \in Invocation : \A m \in batch[i] :
    /\ status[m] = "queued"
    /\ invisible[m] > budget[i]
    /\ \A j \in Invocation \ {i} : m \notin batch[j]

Counted(m, b) ==
  <<m, b>> \in emitted \/ \E i \in Invocation : <<m, b>> \in totals[i]

\* Exactly-once accounting of readings: of all the deliveries of a reading,
\* be they several messages or one message delivered several times, concurrent
\* or repeated, at most one counts as MessagesStored.
StoredOnce ==
  \A m, n \in Msg :
    /\ KeyOf[m] = KeyOf[n]
    /\ Counted(m, "MessagesStored")
    /\ Counted(n, "MessagesStored")
    => /\ m = n
       /\ \A i, j \in Invocation :
            /\ <<m, "MessagesStored">> \in totals[i] \cap totals[j] => i = j
            /\ <<m, "MessagesStored">> \in totals[i] \cap emitted => pc[i] = "respond"

\* Two executions never both hold the right to alert for one device
\* (for a suppression window no shorter than the function timeout).
SlotExclusive ==
  \A i, j \in Invocation :
    /\ i # j
    /\ pc[i] = "publish"
    /\ pc[j] = "publish"
    => DeviceInHand(i) # DeviceInHand(j)

\* No alert storm: a claim's alert is published only when the device's previous
\* one is older than the suppression window less one function timeout, which is
\* what remains of the window because now is taken once per batch.  An alert
\* that follows sooner repeats that of the same claim: the SDK sends it again,
\* at most one function timeout later.
AlertSpacing ==
  [][\A i \in Invocation : PublishAlert(i) =>
       IF DeviceInHand(i) \in owed
       THEN sinceAlert[DeviceInHand(i)] > SuppressionWindow - FunctionTimeout
       ELSE sinceAlert[DeviceInHand(i)] <= FunctionTimeout]_vars

\* Suppression does not outlive its window: a reading whose alert is dropped
\* as suppressed has an alert of its device no older than the window (and one
\* function timeout) before it, or that alert is the one still owed.  An alert
\* may be owed for ever: that one was lost is what LossIsCounted is about.
SuppressionIsJustified ==
  \A i \in Invocation :
    pc[i] = "store" /\ "AlertsSuppressed" \in counts[i] =>
      \/ DeviceInHand(i) \in owed
      \/ sinceAlert[DeviceInHand(i)] <= SuppressionWindow + FunctionTimeout

\* An alert whose slot was claimed and that nobody is about to publish any
\* more is counted in AlertPublishFailures.  The count is that of the device, as
\* in its log line: a failure counted for an earlier reading excuses a later one.
LossIsCounted ==
  \A d \in owed :
    \/ \E i \in Invocation : pc[i] = "publish" /\ DeviceInHand(i) = d
    \/ \E m \in Msg : /\ DeviceOf[KeyOf[m]] = d
                      /\ Counted(m, "AlertPublishFailures")

\* One broken message does not take its batch with it: while no call fails,
\* only messages that cannot be processed reach the DLQ.
PoisonIsIsolated ==
  \A m \in Msg : status[m] = "dlq" => ~Processable(m)

\* Every message that is done is in exactly one of the three outcome
\* counters (the dashboard's "every message ends in exactly one bucket").
Outcome == {"MessagesStored", "DuplicatesSkipped", "InvalidPayloads"}

OneBucketPerMessage ==
  \A m \in Msg : status[m] \in {"deleted", "dlq"} =>
    \E b \in Outcome : {c \in Outcome : <<m, c>> \in emitted} = {b}

\* No message disappears without a trace in an outcome counter, whatever calls
\* fail and wherever executions die: a deletion comes after the emission of a
\* batch that has counted the message.
NoSilentAck ==
  \A m \in Msg : status[m] = "deleted" =>
    \E c \in Outcome : <<m, c>> \in emitted

\* Exactly-once accounting of acknowledgements: whatever calls fail, as long as
\* no execution dies and the queue delivers a message to one execution at a time
\* (SoleOwner), a message that was deleted is in exactly one of them, and a valid
\* message that ends in the DLQ in none.  A second delivery of a message that was
\* stored would add a DuplicatesSkipped to its MessagesStored.
AcksAreCounted ==
  \A m \in Msg :
    LET outcomes == {c \in Outcome : <<m, c>> \in emitted}
    IN  /\ status[m] = "deleted" => \E b \in Outcome : outcomes = {b}
        /\ Processable(m) /\ status[m] = "dlq" => outcomes = {}

\* The suppression window as documented: the minimum spacing between alerts
\* for the same device.
MinimumSpacing ==
  [][\A i \in Invocation : PublishAlert(i) =>
       sinceAlert[DeviceInHand(i)] >= SuppressionWindow]_vars

\* Every message that enters the queue ends deleted or in the DLQ, whatever
\* fails and however often executions die.
EventuallySettled ==
  \A m \in Msg : status[m] = "queued" ~> status[m] \in {"deleted", "dlq"}

\* The ingest path implements the pipeline it promises to be.
PlaceOf == [unsent  |-> "unsent",       queued |-> "pending",
            deleted |-> "acknowledged", dlq    |-> "parked"]

Place == [m \in Msg |-> PlaceOf[status[m]]]

Promise == INSTANCE Pipeline WITH
  Valid    <- {m \in Msg : Processable(m)},
  place    <- Place,
  archived <- archive,
  stored   <- hot

ImplementsPipeline == Promise!Spec

=============================================================================
