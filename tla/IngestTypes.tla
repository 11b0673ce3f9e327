----------------------------- MODULE IngestTypes -----------------------------
(***************************************************************************)
(* Type correctness of Ingest, for every number of messages, readings,     *)
(* devices and executions, every set of faults and every timeout.          *)
(***************************************************************************)
EXTENDS IngestProperties, TLAPS

\* The message in hand is a message while a call for it is outstanding.
InHand ==
  \A i \in Invocation : pc[i] \in {"claim", "publish", "store"} => cur[i] \in Msg

TypeInv == TypeOK /\ InHand

-----------------------------------------------------------------------------

LEMMA VisibilityTyped ==
  /\ VisibilityTimeout \in Nat
  /\ \A time \in Nat : LeftAfter(time) \in 0..VisibilityTimeout
<1>1. VisibilityFactor * FunctionTimeout \in Nat
  BY TimeAssumption
<1>2. VisibilityTimeout \in Nat
  BY <1>1, TimeAssumption DEF VisibilityTimeout
<1>3. QED
  BY <1>2 DEF LeftAfter

LEMMA InitTypeInv == Init => TypeInv
  BY TimeAssumption, VisibilityTyped
  DEF Init, TypeInv, TypeOK, InHand, NoSlot, FarPast

-----------------------------------------------------------------------------
(***************************************************************************)
(* Type correctness, one lemma per group of actions.                       *)
(***************************************************************************)

LEMMA QueueTypeInv ==
  ASSUME TypeInv,
         NEW m \in Msg,
         Send(m) \/ DeadLetter(m) \/ Redrive(m)
  PROVE  TypeInv'
<1>1. /\ status' \in [Msg -> {"unsent", "queued", "deleted", "dlq"}]
      /\ receives' \in [Msg -> 0..MaxReceiveCount]
      /\ redriven' \subseteq Msg
      /\ UNCHANGED <<invisible, runVars, storeVars, alertVars, emitted>>
  BY TimeAssumption DEF TypeInv, TypeOK, Send, DeadLetter, Redrive
<1>2. QED
  BY <1>1 DEF TypeInv, TypeOK, InHand, runVars, storeVars, alertVars

LEMMA ReceiveTypeInv ==
  ASSUME TypeInv,
         NEW i \in Invocation,
         NEW B \in SUBSET Msg,
         ReceiveBatch(i, B)
  PROVE  TypeInv'
<1>1. receives' \in [Msg -> 0..MaxReceiveCount]
  BY TimeAssumption DEF TypeInv, TypeOK, ReceiveBatch, Receivable
<1>2. invisible' \in [Msg -> 0..VisibilityTimeout]
  <2>1. PICK collected \in [B -> 0..BatchingWindow], throttled \in 0..ThrottleDelay :
          invisible' = [m \in Msg |-> IF m \in B
                                     THEN LeftAfter(collected[m] + throttled)
                                     ELSE invisible[m]]
    BY DEF ReceiveBatch
  <2>2. \A m \in B : collected[m] + throttled \in Nat
    BY TimeAssumption
  <2>3. QED
    BY <2>1, <2>2, VisibilityTyped DEF TypeInv, TypeOK
<1>3. /\ pc' \in [Invocation ->
                    {"idle", "next", "claim", "publish", "store", "respond"}]
      /\ batch' \in [Invocation -> SUBSET Msg]
      /\ todo' \in [Invocation -> SUBSET Msg]
      /\ budget' \in [Invocation -> 0..FunctionTimeout]
      /\ InHand'
  BY TimeAssumption DEF TypeInv, TypeOK, InHand, ReceiveBatch
<1>4. UNCHANGED <<status, redriven, cur, counts, failures, totals,
                  storeVars, alertVars, emitted>>
  BY DEF ReceiveBatch
<1>5. QED
  BY <1>1, <1>2, <1>3, <1>4 DEF TypeInv, TypeOK, storeVars, alertVars

\* What the three ways out of a call leave of an execution.
RunTyped ==
  /\ pc \in [Invocation ->
               {"idle", "next", "claim", "publish", "store", "respond"}]
  /\ cur \in [Invocation -> Msg \cup {NoMsg}]
  /\ counts \in [Invocation -> SUBSET Bucket]
  /\ failures \in [Invocation -> SUBSET Msg]
  /\ totals \in [Invocation -> SUBSET (Msg \X Bucket)]
  /\ InHand

LEMMA CallOutcomeTyped ==
  ASSUME TypeInv,
         NEW i \in Invocation,
         NEW m \in Msg,
         \/ \E e \in {"ContractViolationError", "AlertPublishError", "Exception"} :
              FailItem(i, m, e)
         \/ \E call \in {"claim", "publish", "store"}, counted \in SUBSET Bucket :
              Proceed(i, m, call, counted)
         \/ \E b \in Bucket : FinishItem(i, m, b)
  PROVE  RunTyped'
<1>1. CASE \E e \in {"ContractViolationError", "AlertPublishError", "Exception"} :
             FailItem(i, m, e)
  <2>1. PICK e \in {"ContractViolationError", "AlertPublishError", "Exception"} :
          FailItem(i, m, e)
    BY <1>1
  <2>2. {m} \X CountedBy(e) \subseteq Msg \X Bucket
    BY DEF CountedBy, Bucket
  <2>3. QED
    BY <2>1, <2>2 DEF FailItem, RunTyped, TypeInv, TypeOK, InHand
<1>2. CASE \E call \in {"claim", "publish", "store"}, counted \in SUBSET Bucket :
             Proceed(i, m, call, counted)
  BY <1>2 DEF Proceed, RunTyped, TypeInv, TypeOK, InHand
<1>3. CASE \E b \in Bucket : FinishItem(i, m, b)
  <2>1. PICK b \in Bucket : FinishItem(i, m, b)
    BY <1>3
  <2>2. {m} \X (counts[i] \cup {b}) \subseteq Msg \X Bucket
    BY DEF TypeInv, TypeOK
  <2>3. QED
    BY <2>1, <2>2 DEF FinishItem, RunTyped, TypeInv, TypeOK, InHand
<1>4. QED
  BY <1>1, <1>2, <1>3

LEMMA ItemTypeInv ==
  ASSUME TypeInv,
         NEW i \in Invocation,
         NEW m \in Msg,
         RejectPayload(i, m) \/ StoreRawCopy(i, m)
  PROVE  TypeInv'
<1>1. RunTyped'
  <2>1. CASE RejectPayload(i, m)
    BY <2>1, CallOutcomeTyped DEF RejectPayload
  <2>2. CASE StoreRawCopy(i, m)
    BY <2>2, CallOutcomeTyped DEF StoreRawCopy
  <2>3. QED
    BY <2>1, <2>2
<1>2. archive' \subseteq Key
  BY DataAssumption
  DEF RejectPayload, StoreRawCopy, storeVars, TypeInv, TypeOK
<1>3. /\ todo' \in [Invocation -> SUBSET Msg]
      /\ UNCHANGED <<batch, budget, hot, queueVars, alertVars, emitted>>
  BY DEF RejectPayload, StoreRawCopy, TakeItem, storeVars, TypeInv, TypeOK
<1>4. QED
  BY <1>1, <1>2, <1>3
  DEF RunTyped, TypeInv, TypeOK, queueVars, alertVars

\* An execution's call is for a message, and so for one of the devices.
LEMMA DeviceInHandTyped ==
  ASSUME TypeInv,
         NEW i \in Invocation,
         pc[i] \in {"claim", "publish", "store"}
  PROVE  /\ cur[i] \in Msg
         /\ KeyOf[cur[i]] \in Key
         /\ DeviceInHand(i) \in Device
  BY DataAssumption DEF TypeInv, InHand, DeviceInHand

LEMMA ClaimTypeInv ==
  ASSUME TypeInv,
         NEW i \in Invocation,
         TryAcquireAlertSlot(i)
  PROVE  TypeInv'
<1>1. cur[i] \in Msg /\ DeviceInHand(i) \in Device
  BY DeviceInHandTyped DEF TryAcquireAlertSlot
<1>2. RunTyped'
  BY <1>1, CallOutcomeTyped DEF TryAcquireAlertSlot, Bucket
<1>3. SuppressionWindow - BatchAge(i) \in NoSlot..SuppressionWindow
  BY TimeAssumption DEF BatchAge, NoSlot, TypeInv, TypeOK
<1>4. /\ suppress' \in [Device -> NoSlot..SuppressionWindow]
      /\ owed' \subseteq Device
  BY <1>1, <1>3 DEF TryAcquireAlertSlot, TypeInv, TypeOK
<1>5. UNCHANGED <<batch, todo, budget, sinceAlert, queueVars, storeVars, emitted>>
  BY DEF TryAcquireAlertSlot
<1>6. QED
  BY <1>2, <1>4, <1>5 DEF RunTyped, TypeInv, TypeOK, queueVars, storeVars

LEMMA PublishTypeInv ==
  ASSUME TypeInv,
         NEW i \in Invocation,
         PublishAlert(i)
  PROVE  TypeInv'
<1>1. cur[i] \in Msg
  BY DeviceInHandTyped DEF PublishAlert
<1>2. RunTyped'
  BY <1>1, CallOutcomeTyped DEF PublishAlert, Bucket
<1>3. /\ sinceAlert' \in [Device -> 0..FarPast]
      /\ owed' \subseteq Device
  BY TimeAssumption DEF PublishAlert, FarPast, TypeInv, TypeOK
<1>4. UNCHANGED <<batch, todo, budget, suppress, queueVars, storeVars, emitted>>
  BY DEF PublishAlert
<1>5. QED
  BY <1>2, <1>3, <1>4 DEF RunTyped, TypeInv, TypeOK, queueVars, storeVars

LEMMA StoreTypeInv ==
  ASSUME TypeInv,
         NEW i \in Invocation,
         StoreTelemetry(i)
  PROVE  TypeInv'
<1>1. cur[i] \in Msg /\ KeyOf[cur[i]] \in Key
  BY DeviceInHandTyped DEF StoreTelemetry
<1>2. RunTyped'
  BY <1>1, CallOutcomeTyped DEF StoreTelemetry, Bucket
<1>3. hot' \subseteq Key
  BY <1>1 DEF StoreTelemetry, TypeInv, TypeOK
<1>4. UNCHANGED <<batch, todo, budget, archive, queueVars, alertVars, emitted>>
  BY DEF StoreTelemetry
<1>5. QED
  BY <1>2, <1>3, <1>4 DEF RunTyped, TypeInv, TypeOK, queueVars, alertVars

\* What an execution that is over leaves: every variable of it is typed.
LEMMA ReleaseTyped ==
  ASSUME TypeInv,
         NEW i \in Invocation,
         Release(i)
  PROVE  /\ RunTyped'
         /\ batch' \in [Invocation -> SUBSET Msg]
         /\ todo' \in [Invocation -> SUBSET Msg]
         /\ budget' \in [Invocation -> 0..FunctionTimeout]
<1>1. pc' \in [Invocation ->
                  {"idle", "next", "claim", "publish", "store", "respond"}]
  BY DEF Release, TypeInv, TypeOK
<1>2. /\ cur' \in [Invocation -> Msg \cup {NoMsg}]
      /\ counts' \in [Invocation -> SUBSET Bucket]
  BY DEF Release, TypeInv, TypeOK
<1>3. /\ failures' \in [Invocation -> SUBSET Msg]
      /\ totals' \in [Invocation -> SUBSET (Msg \X Bucket)]
  BY DEF Release, TypeInv, TypeOK
<1>4. /\ batch' \in [Invocation -> SUBSET Msg]
      /\ todo' \in [Invocation -> SUBSET Msg]
  BY DEF Release, TypeInv, TypeOK
<1>5. budget' \in [Invocation -> 0..FunctionTimeout]
  BY TimeAssumption DEF Release, TypeInv, TypeOK
<1>6. InHand'
  BY DEF Release, TypeInv, TypeOK, InHand
<1>7. QED
  BY <1>1, <1>2, <1>3, <1>4, <1>5, <1>6 DEF RunTyped

LEMMA EndTypeInv ==
  ASSUME TypeInv,
         NEW i \in Invocation,
         EmitCounts(i) \/ Respond(i) \/ Crash(i) \/ Timeout(i)
  PROVE  TypeInv'
<1>1. CASE EmitCounts(i)
  <2>1. /\ pc' \in [Invocation ->
                    {"idle", "next", "claim", "publish", "store", "respond"}]
        /\ emitted' \subseteq Msg \X Bucket
        /\ InHand'
    BY <1>1 DEF EmitCounts, TypeInv, TypeOK, InHand
  <2>2. UNCHANGED <<batch, todo, cur, counts, failures, totals, budget,
                    queueVars, storeVars, alertVars>>
    BY <1>1 DEF EmitCounts
  <2>3. QED
    BY <2>1, <2>2 DEF TypeInv, TypeOK, queueVars, storeVars, alertVars
<1>2. CASE Respond(i)
  <2>1. status' \in [Msg -> {"unsent", "queued", "deleted", "dlq"}]
    BY <1>2 DEF Respond, TypeInv, TypeOK
  <2>2. /\ Release(i)
        /\ UNCHANGED <<receives, invisible, redriven, storeVars, alertVars,
                       emitted>>
    BY <1>2 DEF Respond
  <2>3. QED
    BY <2>1, <2>2, ReleaseTyped
    DEF RunTyped, TypeInv, TypeOK, storeVars, alertVars
<1>3. CASE Crash(i) \/ Timeout(i)
  <2>1. /\ Release(i)
        /\ UNCHANGED <<queueVars, storeVars, alertVars, emitted>>
    BY <1>3 DEF Crash, Timeout
  <2>2. QED
    BY <2>1, ReleaseTyped
    DEF RunTyped, TypeInv, TypeOK, queueVars, storeVars, alertVars
<1>4. QED
  BY <1>1, <1>2, <1>3

LEMMA TimeTypeInv ==
  ASSUME TypeInv,
         Tick \/ \E d \in Device : ExpireSlot(d)
  PROVE  TypeInv'
<1>1. CASE Tick
  <2>1. /\ invisible' \in [Msg -> 0..VisibilityTimeout]
        /\ budget' \in [Invocation -> 0..FunctionTimeout]
    BY <1>1, TimeAssumption, VisibilityTyped
    DEF Tick, Decrease, TypeInv, TypeOK
  <2>2. suppress' \in [Device -> NoSlot..SuppressionWindow]
    BY <1>1, TimeAssumption DEF Tick, Decrease, NoSlot, TypeInv, TypeOK
  <2>3. sinceAlert' \in [Device -> 0..FarPast]
    BY <1>1, TimeAssumption DEF Tick, FarPast, TypeInv, TypeOK
  <2>4. UNCHANGED <<status, receives, redriven, pc, batch, todo, cur, counts,
                    failures, totals, storeVars, owed, emitted>>
    BY <1>1 DEF Tick
  <2>5. InHand'
    BY <2>4 DEF TypeInv, InHand
  <2>6. QED
    BY <2>1, <2>2, <2>3, <2>4, <2>5 DEF TypeInv, TypeOK, storeVars
<1>2. CASE \E d \in Device : ExpireSlot(d)
  <2>1. suppress' \in [Device -> NoSlot..SuppressionWindow]
    BY <1>2, TimeAssumption DEF ExpireSlot, NoSlot, TypeInv, TypeOK
  <2>2. UNCHANGED <<owed, sinceAlert, queueVars, runVars, storeVars, emitted>>
    BY <1>2 DEF ExpireSlot
  <2>3. QED
    BY <2>1, <2>2
    DEF TypeInv, TypeOK, InHand, queueVars, runVars, storeVars
<1>3. QED
  BY <1>1, <1>2

LEMMA NextTypeInv == TypeInv /\ [Next]_vars => TypeInv'
<1>1. SUFFICES ASSUME TypeInv, [Next]_vars
               PROVE  TypeInv'
  OBVIOUS
<1>2. CASE Next
  BY <1>1, <1>2, QueueTypeInv, ReceiveTypeInv, ItemTypeInv, ClaimTypeInv,
     PublishTypeInv, StoreTypeInv, EndTypeInv, TimeTypeInv
  DEF Next, Step
<1>3. CASE UNCHANGED vars
  BY <1>1, <1>3
  DEF vars, queueVars, runVars, storeVars, alertVars, TypeInv, TypeOK, InHand
<1>4. QED
  BY <1>1, <1>2, <1>3

\* Every variable keeps its type: no receive count passes maxReceiveCount, no
\* timer leaves its range, no counter is recorded for anything but a message.
THEOREM TypeCorrect == Spec => []TypeOK
<1>1. Spec => []TypeInv
  BY InitTypeInv, NextTypeInv, PTL DEF Spec
<1>2. TypeInv => TypeOK
  BY DEF TypeInv
<1>3. QED
  BY <1>1, <1>2, PTL

=============================================================================
