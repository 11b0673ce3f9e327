# PyroSense: TLA+ models and proofs

PyroSense receives telemetry of fire sensors over MQTT, archives it, stores it
for queries and e-mails an alert when a reading is critical; its infrastructure
is delivered by a workflow that plans, asks a reviewer, plans again and
applies. This directory holds TLA+ models of the parts that have to be right
under concurrency, failure and retry: the way of a message from the queue to
the stores and the alert topic, what counts as a valid message, the script that
sends test readings, how long the system must remember a reading, and the
delivery. The models are checked with TLC on small instances, and all of the
safety properties that hold there are proved with TLAPS for every value of the
constants.

Paths below are relative to the repository.

## Inventory

| Component | State | Operations | Talks to | What is hard |
|---|---|---|---|---|
| IoT topic rule (`modules/iot`) | none | forward a publish to the queue | queue, error log group | a failed forward leaves only a log entry |
| Ingest queue and DLQ (`modules/messaging`) | message, receive count, visibility, enqueue time | receive, delete, redrive to the DLQ, expire | event source mapping, operator | at-least-once delivery; timeouts against the consumer's; retention against hot retention |
| Event source mapping (`modules/ingest`) | batches in flight | collect, invoke, delete what did not fail | queue, function | throttled invocations, partial batch responses, a batch whose execution dies |
| Handler (`src/ingest_lambda/handler.py`) | per execution: loop position, failures, counters | `lambda_handler`, `_process_message` | all of the below | every call may fail, half fail, or never return |
| Contract and risk rules (`contract.py`, `risk.py`) | none | `validate_payload`, `evaluate` | handler | the order of checks, numbers that raise instead of failing a check |
| Cold store (`cold_store.py`) | archived bodies | `store_raw_copy` | S3 | order before the hot store; key collisions |
| Alert slot and publish (`alerts.py`) | one item per device | `try_acquire_alert_slot`, `publish_alert` | DynamoDB, SNS | claim before publish, stale `now`, ambiguous replies, a publish that the SDK repeats |
| Hot store (`persistence.py`) | one item per reading, with a TTL | `store_telemetry` | DynamoDB | deduplication, its end with the TTL |
| Metrics and logging (`metrics.py`, `structured_logging.py`) | none | `emit_counts` | CloudWatch | one emission per batch |
| Settings (`config.py`) | cached settings | `from_env`, `get_settings` | environment | fails at cold start, never cached then |
| Smoke publisher (`scripts/iot/mqtt_smoke_publisher.py`) | loop position, sequence base, failures | `main`, `connect`, `publish_all` | broker, contract | late PUBACKs, sequence numbers across runs |
| Plan guard (`scripts/ci/plan_guard.py`) | none | `apply` and `destroy` policy, fingerprint | delivery | what is refused, and whether a failed apply can be repaired |
| Delivery (`.github/workflows/deploy.yml`) | run, approval, saved plan, Terraform state | plan, approve, plan again, apply, verify | AWS, reviewer | what was approved against what is applied, killed jobs, others' changes |
| Alarms and dashboard (`modules/observability`) | alarm states | evaluate | CloudWatch | M of N, missing data |
| Storage, alerting, security, budgets, bootstrap (`modules/*`, `bootstrap/*`) | resources | declared only | | configuration without behaviour |

What makes each correct:

* queue, mapping, handler: no message is lost, a retry does not run beside the
  attempt it retries, what the queue delivers twice is stored once, a broken
  message does not take others with it, everything ends;
* cold and hot store: archived before stored, stored once, remembered for as
  long as a copy can come back;
* alert slot: one execution alerts at a time, alerts are spaced, an alert is
  dropped only for a reason, a lost alert is counted;
* metrics: every message shows in one outcome counter;
* contract: exactly the documented bodies are accepted, and what can never
  succeed is rejected instead of retried;
* publisher: reruns are not duplicates, and exit status 0 means delivered;
* delivery: only what was approved is applied, nothing live is destroyed or
  created twice, green means converged, and only what a killed job left behind
  stands in the way of continuing a failed apply.

`PROJECT.json` lists the components with their status, and the hazards with the
properties that answer them.

## Modules

| Module | Content |
|---|---|
| `Ingest` | queue, DLQ, event source mapping, executions, S3, DynamoDB, SNS, EMF |
| `IngestProperties` | what it has to guarantee, and the refinement mapping to `Pipeline` |
| `Pipeline` | the abstract specification: messages wait, readings are archived and then stored, messages are acknowledged or parked |
| `IngestTypes`, `IngestDurability`, `IngestImplements`, `IngestAlerts`, `IngestCounting` | proofs about `Ingest` |
| `Contract` | contract v1, risk rules, settings, and what DynamoDB refuses, as operators |
| `Publisher` | the smoke publisher, run again and again |
| `Edge` | publisher and foreign bodies composed with the contract and a warm execution's settings; their properties |
| `PublisherProofs` | proofs about `Edge` |
| `Retention` | copies of one reading, queue, DLQ and redrive in seconds against the TTL of the hot item |
| `RetentionProofs` | proofs about `Retention` |
| `PlanGuard` | the policy and the fingerprint, as operators |
| `Delivery` | the workflow, Terraform's state, the account and everybody else |
| `DeliveryProperties`, `DeliveryProofs` | what a delivery may do and what its result means; proofs |
| `MCIngest`, `MCEdge`, `MCRetention`, `MCDelivery` | instances for TLC |

`IngestDurability`, `IngestAlerts` and `IngestCounting` extend `IngestTypes`;
`IngestImplements` extends `IngestDurability`. `Edge` extends `Publisher`,
which extends `Contract`; `Delivery` extends `PlanGuard`. `Ingest` takes from
`Contract` only the verdict, as the constant `LevelOf`: `INVALID` (rejected),
`RAISES` (the validation raises something unexpected in every attempt), or
`NORMAL` and `CRITICAL`. `Retention` takes up where `Ingest` abstracts:
days of retention would drown seconds of visibility in one model.

### How Ingest corresponds to the code

One action is one remote call, since another execution can run between any two
calls of the handler; local computation belongs to the call next to it.

| Action | Code |
|---|---|
| `Send` | topic rule, `modules/iot/main.tf:294` |
| `ReceiveBatch` | event source mapping with `batch_size`, `maximum_concurrency` (the size of `Invocation`), batching window and the retries of a throttled invocation (`messaging/main.tf:30`); `get_settings` and `now` (`handler.py:190`) |
| `RejectPayload` | JSON and contract errors, `handler.py:114-119` and the branch at 209; for `RAISES` the branch at 237 |
| `StoreRawCopy` | validate, classify and `store_raw_copy`, `handler.py:119-129` |
| `TryAcquireAlertSlot` | `alerts.py:69-110` and the `if` at `handler.py:130` |
| `PublishAlert` | `handler.py:136-155`, with the default client of `handler.py:85` |
| `StoreTelemetry` | `persistence.py:76-110`, the counters at `handler.py:165-168`, the `else` at 246 |
| `EmitCounts`, `Respond` | `handler.py:250`, 251 |
| `Crash`, `Timeout` | an execution that dies, or reaches `timeout` |
| `DeadLetter`, `Redrive` | redrive policy; an operator's redrive (external) |
| `Tick`, `ExpireSlot` | time; DynamoDB's TTL on slot items |

An except branch of `lambda_handler` is the operator `FailItem`, used by every
action whose call can raise. A call draws a reply: `ok`; `error` (nothing
happened); `lostReply` (it happened, the caller sees an exception); `retried`
(it happened, its reply was lost, and the SDK repeats it). The repeat of a
conditional write reports a failed condition; that of `put_object` writes the
same bytes, so it is not told apart; that of `sns.publish` is another alert, and
`PublishAlert` stays at its call, which may then succeed, fail or be repeated
again, any number of times within the execution. `Faults` chooses which of these
happen, whether executions die (`crash`), and whether the queue delivers
messages on its own (`redelivered`).

A standard queue delivers at least once (`persistence.py:3`, ADR-0008). With
`redelivered`, a message can be received although it is invisible, by another
execution or in a later batch of the same one, and a deletion may miss a copy,
so that the message comes again. Every receive counts towards `maxReceiveCount`.
Two copies in one batch are not modelled with one message; two messages with the
same reading in one batch, as in `clean_errors`, behave the same there.

A message is received up to a batching window before its batch is complete, and
a throttled invocation is tried again for up to `ThrottleDelay`; both use up
visibility (`LeftAfter`). AWS documents that throttled batches are retried until
their visibility timeout is over, and the module's comment names this as the
reason of the factor 6. How long that can take is outside the repository, so
`ThrottleDelay` is a constant, and what needs a bound on it says so. Whether a
throttled batch that was given up has used up a receive is undocumented (open
points of `modules/observability/README.md` and `modules/ingest/README.md`); a
`Crash` right after `ReceiveBatch` is the case in which it has.

Time is a set of timers moved by `Tick`. `suppress[d]` is `suppress_until`
minus the clock, so the condition `suppress_until < :now` of an execution whose
`now` is `BatchAge(i)` old reads `suppress[d] < -BatchAge(i)`. No clock has to
be bounded: timers saturate where no guard or property can tell the difference
(`NoSlot`, `FarPast`).

Abstractions: a reading is identified by its DynamoDB key (`device_id`, `seq`)
and its S3 object is the same identity; `NONE` and `ELEVATED` do not alert and
are one level; the counters are sets of pairs of message and bucket, so an
invalid payload that is counted in each of its five attempts is one pair; `now`
is the same for all machines. A message can be redriven once if it is in
`Redrivable`.

### How Contract, Publisher and Edge correspond to the code

| Definition | Code |
|---|---|
| `NumberError`, `SeqError`, `TimestampError`, `TextError`, `HasErrors` | the checks of `validate_payload`, each at the field it is about |
| `Raises` | `float()` of a huge integer (`contract.py:114`), `astimezone` at the ends of the calendar (`contract.py:142`): not a `ContractViolationError` |
| `Evaluate` | `risk.py` |
| `FromEnvRaises`, `FromEnv`, `ColdStart` | `config.py`, `get_settings` |
| `BeyondDynamoDB`, `Unstorable` | numbers that boto3's serializer refuses in `build_telemetry_item` (external) |
| `Start`, `Connect`, `Publish`, `Disconnect` | `main` with `parse_args`, `check_contract` and the dry run; `connect`; `publish_all`; `disconnect` and the exit status |
| `Handle`, `Fate` | one body in a warm execution, and what becomes of it when no call to AWS fails |

Numbers are integers in thousandths, with two sentinels: from `Vast` on a
number is one DynamoDB cannot hold, from `Huge` on an integer is one Python
cannot turn into a float. `tinyFloat` is closer to 0 than DynamoDB allows. Texts
are valid or invalid for their field, and a timestamp can be at the edge of the
calendar; the patterns themselves are not spelled out. The publisher's wall
clock is `clock \div Second` and is not set back.

### How Retention corresponds to the code

`HotRetentionDays` is `local.hot_retention_days` of `modules/ingest`, and the
assumption `DlqRetention > QueueRetention` is the precondition of the DLQ in
`modules/messaging`. `Process` is an attempt that reaches the insert and is
deleted or comes back; `DeadLetter` keeps the enqueue time, as a standard queue
does, so a copy in the DLQ is the older the later it got there; `Redrive`
starts a new message, once, as the operations documents prescribe; `Drop` is
the end of retention and `ExpireItem` the TTL. A copy is first enqueued at most
`MaxLag` after the reading was ingested, and `MaxLag <= Day` is what the extra
day of `hot_retention_days` is for.

### How PlanGuard and Delivery correspond to the code

| Definition | Code |
|---|---|
| `Violations`, `IsLost`, `IsRecovery`, `GuardStatus` | the policy of `plan_guard.py` for `apply` and `destroy`, with `--expect` |
| `PlanOf` | `terraform plan` with its refresh (external) |
| `Dispatch`, `PlanJob`, `Review`, `Replan` | jobs `preflight`, `plan`, the environment's reviewer, and the first half of `deliver` |
| `BeginApply`, `ApplyResource`, `EndApply` | `terraform apply` of the saved plan, one resource at a time, each of which may fail, or stay tainted |
| `Converged`, `SmokeTest`, `NothingLeft` | the steps after the apply |
| `Kill` | a job that is cancelled or loses its runner, with an operation done and not recorded |
| `OutsideChange`, `NewConfiguration`, `NewPermissions` | everybody else, between any two steps |

`tracked` is Terraform's state and `real` the account. A fingerprint is the
function from addresses to actions, never values, as in the code. The step
that probes what the role may do before the apply can only fail, which is
`Replan`'s red branch. `NothingLeft` counts what the state has (`Counted`), or
nothing when the list fails, since the pipe hides its status. `touched` and
`orphans` are history variables: somebody intervened since the dispatch; the
resources that exist and that Terraform could not see at its last plan, or did
not get to record. A resource leaves `orphans` when it is found again or gone.

## Runs

Each run is a `.cfg` of one of the MC modules.

| Run | Instance | Question | Result |
|---|---|---|---|
| `race` | a CRITICAL reading and its duplicate, 2 executions, batches of 1, every fault (failing and repeated calls, lost replies, crashes, redelivery), each message delivered up to twice, timeout 1, suppression 2 | `SlotExclusive`, `AlertSpacing`, `SuppressionIsJustified`, `StoredOnce`, `AckedIsDurable`, `HotIsArchived`, `NoSilentAck`, `ImplementsPipeline`, `TypeOK` | holds |
| `nominal` | 4 messages, batches of 3, one of them poison, no faults | `PoisonIsIsolated`, `OneBucketPerMessage` | holds |
| `clean_errors` | a CRITICAL reading and its duplicate in batches of 2, batching window 1, throttling 1, failing calls, a redrive, no crash, no redelivery | `SoleOwner`, `LossIsCounted`, `AcksAreCounted` | holds |
| `liveness` | a message that does not alert and one that raises, 2 executions, batches of 2, failing calls, crashes, redelivery, a redrive, fairness | `EventuallySettled` | holds |
| `edge` | 2 runs of the script with 2 devices, or with 0 or too many, which it refuses; every numeric field at, below and above its bounds, and values of every other kind; 5 environments | `AcceptsExactlyContract`, `PoisonIsExtreme`, `PublisherIsHeard`, `NoReuse`, `ExitCodeIsHonest`, `EdgeTypeOK` | holds |
| `delivery` | a resource that is updated in place and one that can only be replaced, 2 values, 3 runs, 3 interventions | `AppliedIsApproved`, `NothingLiveIsDestroyed`, `NoSecondCopy`, `GreenIsConverged`, `GreenDestroyLeavesOrphans`, `OnlyKillsStopTheNextApply`, `DeliveryTypeOK` | holds |
| `retention` | 2 copies, retentions of 1 and 3 days | `NeverStoredTwice`, `TriageWindow`, `RetentionTypeOK` | holds |
| `crash_loses_alert` | one crash allowed | `LossIsCounted` | violated |
| `spacing` | timeout 2, window 3, no fault needed | `MinimumSpacing` | violated |
| `buckets` | one message that raises, no faults | `OneBucketPerMessage` | violated |
| `delivery_smoke` | 2 runs, 1 intervention | `GreenPassedSmoke` | violated |
| `delivery_continue` | 2 runs, nobody intervenes | `DispatchAgainContinues` | violated |

Bounds, and why they are enough:

* Two concurrent executions are what `maximum_concurrency = 2` allows. The times
  keep the order of the deployed values (function timeout no longer than the
  suppression window, slot TTL at or above it) at a few ticks;
  `VisibilityFactor = 2` is the smallest that the proofs need (6 in the code),
  so the model has less slack than the system. Where throttling is modelled,
  in `clean_errors`, the factor is 3 and the delay the longest that leaves the
  execution its timeout. `MaxReceiveCount = 2` gives a
  first attempt, a retry and the move to the DLQ; more receives only repeat the
  retry.
* In `edge` the interval is half a second
  (`Interval = 1`, `Second = 2`), as by default. A round of two devices lasts a
  second, the least that `NoReuse` needs; one of one device does not. Two
  rounds and two runs are what an overlap takes.
* In `delivery` three runs are a failed or killed one, its recovery, and a
  destroy; with both kinds of resource every action set of a plan occurs.
* In `retention` a step of the clock is a day and 11 days are longer than every
  way of a copy.

`race`, `nominal` and `clean_errors` declare the executions symmetric,
`delivery` the values and `retention` the copies, which no definition
distinguishes; the liveness run declares no symmetry. `CHECK_DEADLOCK FALSE`
is set for `edge`, the `delivery` runs and `retention`, whose models
stop when the bound on runs, dispatches or the clock is reached. In `Ingest`
`Tick` is always possible unless an execution is at its timeout, and then
`Timeout` or its next call is.

Each property was also run against a plausible bug in the code it is about (an
operator such as `SlotFree_AtTheBoundary` beside its original): with the bug TLC
finds the property violated.

### What the violated ones say

* **A crash loses an alert silently.** `AlertPublishFailures` is called the
  lost-alert signal, but it counts only publishes that raise in an execution
  that reaches `emit_counts`. An execution that dies after the claim, or later
  in the batch, leaves a closed window and no count. boto3's default read
  timeout is longer than the function timeout, so a hung publish ends this way.
* **The window is not the minimum spacing.** `now` is taken once per batch. The
  spacing that does hold is the window less one function timeout
  (`AlertSpacing`, proved).
* **Not every message ends in one bucket.** A message whose validation raises
  `OverflowError` is treated as a transient failure: retried until the DLQ, in
  none of the three outcome counters, without any failure of AWS. Weaker
  sentences do hold and are proved. With every fault, no message is deleted
  without an outcome (`NoSilentAck`); unless an execution dies or the queue
  delivers a message to two of them, each deleted one has exactly one
  (`AcksAreCounted`; after a crash between the emission and the response, or a
  second delivery, a stored message is also counted in `DuplicatesSkipped`); and
  the sentence itself holds when moreover no call fails and no validation raises
  (`EveryMessageInOneBucket`).
* **A failing smoke test leaves the delivery green.** The step pipes the script
  into `tee` in a shell without `pipefail`.
* **Dispatching `apply` again does not always continue a failed one.** The
  documents name two ways out of a failed apply, `apply` again or `destroy`. When
  the job is killed after it created a resource and before the state has it,
  every later `apply` plans to create what exists, and ends red at it; a
  `destroy` does not know it either. There is a second case, in a longer trace:
  a job killed between the two halves of replacing a tainted resource leaves a
  state that has what is gone, and the guard refuses to create what the refresh
  lost, until a `destroy` that still has something to delete has written the
  state anew. `OnlyKillsStopTheNextApply` says, and `OnlyKillsStand` proves, that
  while others stay out of it these two are all that stands in the way; it does
  not say that an apply succeeds, which no resource promises.

Three more sentences of the documents are stronger than what holds. They have no
run of their own; the property that does hold names the exception.

* `handler.py:15` calls every step idempotent or condition-guarded, and ADR-0005
  promises at most one alert per device and window. `sns.publish` is neither, and
  its client is boto3's default one: when the connection breaks after SNS has
  accepted the alert, the SDK repeats the call and the subscribers get a second
  one, seconds later. (A reply that never comes is no such case: the read timeout
  is longer than the function's.) `AlertSpacing` says that alerts of two claims
  are spaced, and that a repeat follows within a function timeout.
* `ci-cd.md:725` takes an empty state for proof that nothing outlives the cycle.
  What a killed job created and did not record, or the role cannot read, does:
  the destroy plans nothing for it and is green (`GreenDestroyLeavesOrphans`).
* `mqtt_smoke_publisher.py:227` promises that a rerun never reuses a sequence
  number. With one device and the default interval a run uses up two numbers per
  second, and a run started right after it repeats the last ones. `NoReuse` holds
  when a round lasts a second, as with the default three devices; with
  `DeviceCounts = {1}` TLC finds it violated.

One more observation is no disagreement with a document. A stored reading can
alert again: the alert comes before the deduplicating write, so a copy that comes
after the window publishes again while the hot item is still there.

How far some of the properties reach:

* `SuppressionIsJustified` accepts an alert that is still owed, without a time
  limit: an alert that a crash has lost justifies suppression. That it was lost
  is what `LossIsCounted` shows.
* `LossIsCounted` credits a device, not a reading, as the log line does: a failure
  counted for one reading of a device excuses a later one that is not.
* `AppliedIsApproved` is about the actions of a plan, since the fingerprint is:
  values may change between the two plans.
* `NoSecondCopy` is about what the state knows. A copy beside a resource that
  Terraform does not know is prevented by names that AWS keeps unique (`Vacant`).

## Fairness

Safety needs none. `EventuallySettled` assumes `PlatformFairness`: time passes,
Lambda kills an execution at its timeout, a message that used up its receives
is moved, and for each message the mapping does not for ever leave it out of
the batches it starts. These are promises of the platform; the handler itself
is not assumed to progress, since an execution that hangs is killed. No call is
assumed ever to succeed. The other models state no fairness: an operator need
not run a script or dispatch a delivery, so nothing has to happen there.

## Proofs

The constants are arbitrary, with the assumptions the modules name:
`DataAssumption` (`KeyOf`, `DeviceOf`, `LevelOf` are functions),
`TimeAssumption` (receive count, batch size, timeout and window are positive,
the visibility factor is at least 2, delays are natural numbers, the slot's TTL at least the window, which
is the validation of `alert_suppression_minutes`), `PublisherAssumption` and
`DeliveryAssumption` (types), and `RetentionAssumption` (the DLQ keeps longer
than the queue, a duplicate is at most a day late).

| Theorem | Says | Module |
|---|---|---|
| `TypeCorrect` | `Spec => []TypeOK` | `IngestTypes` |
| `NoMessageLost` | `Spec => []AckedIsDurable` | `IngestDurability` |
| `ArchiveBeforeCommit` | `Spec => []HotIsArchived` | `IngestDurability` |
| `RetryNeverOverlaps` | no redelivery and throttling within the slack imply `Spec => []SoleOwner` | `IngestDurability` |
| `Implementation` | `Spec => ImplementsPipeline` | `IngestImplements` |
| `OneClaimant` | window >= timeout implies `Spec => []SlotExclusive` | `IngestAlerts` |
| `AlertsAreSpaced` | `Spec => AlertSpacing` | `IngestAlerts` |
| `SuppressionHasReason` | `Spec => []SuppressionIsJustified` | `IngestAlerts` |
| `CountedOnce` | `Spec => []StoredOnce` | `IngestCounting` |
| `CleanLossIsCounted` | `Faults` within `{"error"}` implies `Spec => []LossIsCounted` | `IngestCounting` |
| `NoAckIsSilent` | `Spec => []NoSilentAck` | `IngestCounting` |
| `AckedInOneBucket` | no crash, no redelivery and throttling within the slack imply `Spec => []AcksAreCounted` | `IngestCounting` |
| `OnlyPoisonIsParked` | no failing call, no redelivery and throttling within the slack imply `Spec => []PoisonIsIsolated` | `IngestCounting` |
| `EveryMessageInOneBucket` | the same and no validation that raises imply `Spec => []OneBucketPerMessage` | `IngestCounting` |
| `RerunsAreNotDuplicates` | rounds of at least a second imply `EdgeSpec => []NoReuse` | `PublisherProofs` |
| `ZeroMeansDelivered` | `EdgeSpec => []ExitCodeIsHonest` | `PublisherProofs` |
| `EdgeTypeCorrect` | `EdgeSpec => []EdgeTypeOK` | `PublisherProofs` |
| `ValidationIsTheContract` | foreign bodies of JSON values imply `EdgeSpec => []AcceptsExactlyContract` | `PublisherProofs` |
| `PoisonIsAtTheEnds` | the same implies `EdgeSpec => []PoisonIsExtreme` | `PublisherProofs` |
| `ReadingsAreHeard` | a smoke threshold between the publisher's readings implies `EdgeSpec => []PublisherIsHeard` | `PublisherProofs` |
| `RetentionTypeCorrect` | `Spec => []RetentionTypeOK` | `RetentionProofs` |
| `ReadingIsStoredOnce` | `Spec => []NeverStoredTwice` | `RetentionProofs` |
| `TriageTime` | `Spec => TriageWindow` | `RetentionProofs` |
| `DeliveryTypeCorrect` | `Spec => []DeliveryTypeOK` | `DeliveryProofs` |
| `OnlyTheApprovedIsApplied` | `Spec => AppliedIsApproved` | `DeliveryProofs` |
| `ApplyDestroysNothingLive` | `Spec => NothingLiveIsDestroyed` | `DeliveryProofs` |
| `NothingIsCreatedTwice` | `Spec => NoSecondCopy` | `DeliveryProofs` |
| `GreenApplyIsComplete` | `Spec => []GreenIsConverged` | `DeliveryProofs` |
| `GreenDestroyIsThorough` | `Spec => []GreenDestroyLeavesOrphans` | `DeliveryProofs` |
| `OnlyKillsStand` | `Spec => []OnlyKillsStopTheNextApply` | `DeliveryProofs` |

Some theorems have hypotheses about the constants, which the modules name:

| Hypothesis | Says | Why it is needed, and where it comes from |
|---|---|---|
| `WindowOutlastsExecution` | the suppression window is at least the function timeout | see `SpacingInv` below; 1800 s against 30 s as deployed |
| `CleanFaults` | a call that raises has done nothing, and nothing dies | the run `crash_loses_alert` shows it failing otherwise |
| `NoRedelivery` | the queue keeps an invisible message to itself, and a deletion removes it | otherwise two executions may hold a message whatever its timeouts are; a standard queue does not promise it, so this is a premise and not a fact |
| `ThrottleWithinSlack` | a throttled invocation is retried for less than `(VisibilityFactor - 1) * FunctionTimeout` | what the factor is for: 150 s as deployed. AWS bounds the retries only by the visibility timeout, so an invocation that comes later may overlap the next receive |
| `OneDelivery` | no execution dies (`NoCrash`), and the two above | emission and response are two steps, and a second delivery is counted as a duplicate |
| `HealthyCalls` | no call raises, nothing dies and nothing is redelivered, throttling stays within the slack; the SDK may repeat a call | the premise of the properties themselves, which are about poison |
| `NothingRaises` | no body makes the validation raise | the run `buckets` shows it failing otherwise |
| `Paced` | a round of publishes lasts a second | with one device and the default interval `NoReuse` fails, see above |
| `ForeignAreJson` | other senders' bodies are what `json.loads` can make, or it refuses | the meaning of `Contract`'s records; nothing is assumed about keys or values |
| `DeployedScale` | serials have at most four digits, and the clock stays where DynamoDB stores its seconds | the range of `--devices`, and 10^126 seconds |
| `ThresholdsSeparate` | the smoke threshold is above 0.1 and at most 85 ppm | 5.0 in `main.tf:54`; the variable's own validation only asks for more than 0, and below 0.1 every normal reading of the script alerts |

The inductive invariants and why they are needed:

* `TypeInv` (of `Ingest`) is `TypeOK` with `InHand`: while a call for a message
  is outstanding there is a message in hand. `TypeOK` alone is not inductive,
  because the calls read `KeyOf[cur[i]]`.
* `DurableInv` adds `WorkInv`, where an execution is in its batch: every
  message of the batch that is neither ahead of the loop, nor failed, nor in
  hand, is valid and stored; the one in hand is valid and archived. That is
  what makes it right that `Respond` deletes all that did not fail. `SentInv`
  adds that what is in a batch has been sent. No execution has to be alone with
  a message for this: the hot item that one of them has written is there for the
  other, so the theorems hold with redelivery.
* `OwnerInvariant` proves `SoleOwner` where it can hold, under `NoRedelivery` and
  `ThrottleWithinSlack`; `VisibilityCoversTimeout` is the arithmetic of
  `6 * timeout + window`.
* `SpacingInv` relates the slot to the last alert: a slot that stands ends no
  earlier than the last alert plus the window less a timeout (`SlotInv`), and
  an execution about to publish still holds the slot it claimed
  (`PendingInv`). It needs a window of at least the function timeout
  (`WindowOutlastsExecution`); the module's validation allows 900 s against 60 s,
  and there `SlotExclusive` fails. `AlertSpacing` then still holds, because the
  window less the timeout is negative.
* `RepeatInv`: an execution at its publish whose device is no longer owed an
  alert has sent it itself, no longer ago than its batch is old. With
  `SpacingInv` this gives both branches of `AlertSpacing`.
* `ReasonInv` bounds the other side: a standing slot whose alert is out was
  claimed before that alert (`PaidInv`).
* `CreditInv`: a message is credited with an insert only if its reading is in
  the hot store, and an execution between two counters has none pending.
  Nothing in `Ingest` removes a hot item, so a second credit would need an
  insert of what is there. That the TTL does not undo this is `Retention`'s
  theorem.
* `LossInv` adds `EmittedFirst` to `LossIsCounted`: an execution that is about
  to respond has emitted what it counted, so its end forgets nothing. When
  the reply of a claim is lost, or an execution dies, the property is false, as
  the run `crash_loses_alert` shows; hence `CleanFaults`.
* `TallyInv` says where a message is counted. For a valid message
  (`ValidTally`): no outcome while it is ahead of the loop, in hand or failed,
  exactly one in the totals of the batch after that, and in CloudWatch exactly
  when it is deleted or its batch is about to respond. For an invalid one
  (`BrokenTally`): never another outcome than `InvalidPayloads`, and that one
  since its first batch was emitted. Both halves are needed: what is emitted
  depends on the totals of a batch, and those on who else may hold the message
  (`OwnedInv`, which is `DurableInv` with `SoleOwner`). `SeenInv` is the part that survives crashes.
* `HealthyInv`: while no call fails, a valid message that has been received is
  in a batch until it is deleted and never among the failures of a batch, so it
  has no second receive to lose and never reaches the DLQ.
* `PubInv` relates the sequence numbers of a run to the clock: the loop has
  slept at least as long as it has counted (`Slept`), so what a finished run
  sent is older than now (`Past`) and the next one starts ahead of it
  (`Ahead`). This is where the assumption `Paced` enters, and why one device
  breaks it. `HonestInv` says what the loop has sent so far while no failure is
  recorded.
* `RunTypes` adds to `EdgeTypeOK` what bounds the loops: an index below the
  devices of accepted options, and a `seq_base` no later than the clock.
* `JudgedInv`: every judgement is that of a body somebody sent, by settings
  some good environment gives. With it the contract theorems are about a single
  body: `NumberErrorIsOutOfRange`, `SeqErrorIsOutOfRange` and
  `TimestampErrorIsNoTimestamp` compare each check with the documented range by
  cases over the JSON types, `BoundsAreLimits` over the nine numeric fields, and
  `ErrorsAreViolations`, `RaisesIsExtreme` and `RefusedIsExtreme` put them
  together. `PayloadConforms` does the same for what `build_payload` returns,
  for every device and second.
* `RetentionInv`: every copy that can still be delivered was enqueued in time
  (`OnTime`), and the item of the insert is there until its TTL
  (`Remembered`). `HotRetentionCovers` is the arithmetic of the rounding:
  `(ceil(s / day) + 1) * day >= s + MaxLag`.
* `Inv1` (`Approval`): a saved plan has passed the guard with the approved
  fingerprint, and what it takes for tainted still is when its turn comes. The
  policy theorems follow from this at each `ApplyResource`.
* `Inv2` follows a run to its result: what exists and is not in the state is a
  known orphan (`Accounted`), a plan has the shape of its operation and, in an
  undisturbed run, the values configured (`PlanInv`), what a destroy still has
  to delete (`Dismantled`), and a run at its smoke test has converged
  (`Checked`).

* `Inv3` is about all dispatches since the first. `Pristine`: while nobody has
  intervened, every resource that is in the state and not tainted is as
  configured. So what an apply left undone is absent, tainted or gone, and
  `OnlyTheVanished` shows that the policy refuses a plan only for the last.
  `Inv4` follows the resources an approved apply will create: they do not exist,
  unless as an orphan that a killed job left (`CreatesVacant`).

Only model-checked: `EventuallySettled`, since liveness under fairness is out of
the prover's reach (`WF` needs `ENABLED`, which the prover does not handle). That
a property is violated is shown by TLC's counterexample and needs no proof.

The invariants were checked with TLC before they were proved; `TallyInv` with
redrives and all faults but crashes, `Inv3` on the instance `delivery`,
`JudgedInv` and `RunTypes` on the instance `edge` with a shorter clock.

No module declares a RECURSIVE operator, and no proof needs an induction over
data.

## Not modelled

* The S3 object key: it is built from `ts_device`, so two bodies of one
  (`device_id`, `seq`) have two objects. The models identify both with the
  reading.
* Two deliveries of one message within one batch (see above). When SQS delivers a
  message again, or the SDK repeats a call, is left open: at any time.
* Alarm evaluation (M of N periods, missing data): CloudWatch's own; the
  repository only chooses the parameters.
* IAM, KMS, certificates and topic policies, except that the publisher's
  publishes may be unauthorized; SNS delivery to subscribers.
* Log lines, alert texts, the printed output of scripts, the text patterns of
  the contract.
* Of the plan guard, the operation that only reports drift, and the JSON it
  reads; of a killed job, that several resources were done and not recorded at
  once (Terraform works on up to ten in parallel, the model on one).
* An interrupted publisher, and a wall clock that is set back.
* The linear CI workflows and tool scripts, and Terraform resources without
  behaviour: nothing in them is concurrent, retried or remembered.

## Plan

What is left, in this order:

1. `ObjectKey`: readings by `ts_device` and `seq`, a device that restarts its
   counter; archive and hot store under colliding keys.
2. `Alarms`: M of N evaluation with the missing-data rules, composed with the
   counters a batch emits: which losses page.
