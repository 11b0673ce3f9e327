---------------------------- MODULE IngestAlerts ----------------------------
(***************************************************************************)
(* The alert slot: what claiming a device's window before the publish      *)
(* guarantees, although every batch measures time from its own now and the *)
(* SDK repeats a publish whose reply is lost.                              *)
(***************************************************************************)
EXTENDS IngestTypes

\* A slot that still stands was written by a claim no older than the last
\* alert's; one that is gone was over.
SlotInv ==
  \A d \in Device :
    /\ suppress[d] > NoSlot
         => sinceAlert[d] + suppress[d] >= SuppressionWindow - FunctionTimeout
    /\ suppress[d] = NoSlot
         => sinceAlert[d] > SuppressionWindow - FunctionTimeout

\* An execution that is about to publish still holds the slot it claimed: it
\* lasts until the execution's now plus the window.  If the alert it owes is not
\* out yet, the previous one is old.
PendingInv ==
  \A i \in Invocation : pc[i] = "publish" =>
    /\ DeviceInHand(i) \in owed
         => sinceAlert[DeviceInHand(i)] > SuppressionWindow - FunctionTimeout
    /\ suppress[DeviceInHand(i)] >= SuppressionWindow - BatchAge(i)

SpacingInv == SlotInv /\ PendingInv /\ SlotExclusive

\* A window shorter than the function timeout can be over before the execution
\* that claimed it has published.
WindowOutlastsExecution == SuppressionWindow >= FunctionTimeout

LEMMA InitSpacingInv == Init => SpacingInv
  BY TimeAssumption
  DEF Init, SpacingInv, SlotInv, PendingInv, SlotExclusive, NoSlot, FarPast

LEMMA BatchAgeTyped ==
  ASSUME TypeInv, NEW i \in Invocation
  PROVE  BatchAge(i) \in 0..FunctionTimeout
  BY TimeAssumption DEF TypeInv, TypeOK, BatchAge

LEMMA TimersTyped ==
  ASSUME TypeInv, NEW d \in Device
  PROVE  /\ suppress[d] \in Int
         /\ suppress[d] >= NoSlot
         /\ suppress[d] <= SuppressionWindow
         /\ sinceAlert[d] \in 0..FarPast
  BY TimeAssumption DEF TypeInv, TypeOK, NoSlot

-----------------------------------------------------------------------------
(***************************************************************************)
(* SpacingInv is inductive.  Only four actions can disturb it.             *)
(***************************************************************************)

\* A step that touches no slot and lets nobody publish who could not before.
LEMMA QuietSpacingInv ==
  ASSUME SpacingInv,
         UNCHANGED alertVars,
         \A i \in Invocation : pc'[i] = "publish" =>
           pc[i] = "publish" /\ cur'[i] = cur[i] /\ budget'[i] = budget[i]
  PROVE  SpacingInv'
  BY DEF SpacingInv, SlotInv, PendingInv, SlotExclusive, DeviceInHand, BatchAge,
         alertVars

LEMMA ClaimSpacingInv ==
  ASSUME WindowOutlastsExecution, TypeInv, SpacingInv,
         NEW i \in Invocation,
         TryAcquireAlertSlot(i)
  PROVE  SpacingInv'
<1> DEFINE d == DeviceInHand(i)
<1>1. /\ cur[i] \in Msg
      /\ d \in Device
  BY DeviceInHandTyped DEF TryAcquireAlertSlot
<1>2. /\ UNCHANGED <<budget, sinceAlert>>
      /\ \A j \in Invocation : j # i => pc'[j] = pc[j] /\ cur'[j] = cur[j]
  BY DEF TryAcquireAlertSlot, Proceed, FailItem, TypeInv, TypeOK
<1>3. CASE pc'[i] # "publish" /\ UNCHANGED <<suppress, owed>>
  BY <1>2, <1>3, QuietSpacingInv DEF alertVars
<1>4. CASE /\ SlotFree(i)
           /\ suppress' = [suppress EXCEPT ![d] = SuppressionWindow - BatchAge(i)]
           /\ owed' = owed \cup {d}
           /\ pc'[i] = "publish" => cur'[i] = cur[i]
  <2>1. /\ BatchAge(i) \in 0..FunctionTimeout
        /\ suppress[d] < -BatchAge(i)
    BY <1>4, BatchAgeTyped DEF SlotFree
  <2>2. sinceAlert[d] > SuppressionWindow - FunctionTimeout
    BY <1>1, <2>1, TimersTyped, TimeAssumption
    DEF SpacingInv, SlotInv, FarPast, NoSlot
  <2>3. \A j \in Invocation : pc[j] = "publish" => DeviceInHand(j) # d
    <3>1. SUFFICES ASSUME NEW j \in Invocation,
                          pc[j] = "publish", DeviceInHand(j) = d
                   PROVE  FALSE
      OBVIOUS
    <3>2. suppress[d] >= SuppressionWindow - BatchAge(j)
      BY <3>1 DEF SpacingInv, PendingInv
    <3>3. BatchAge(j) \in 0..FunctionTimeout
      BY BatchAgeTyped
    <3>4. QED
      BY <1>1, <2>1, <3>2, <3>3, TimersTyped, TimeAssumption
      DEF WindowOutlastsExecution
  <2>4. /\ suppress'[d] = SuppressionWindow - BatchAge(i)
        /\ \A e \in Device : e # d => suppress'[e] = suppress[e]
    BY <1>1, <1>4 DEF TypeInv, TypeOK
  <2>5. SlotInv'
    <3>1. SUFFICES ASSUME NEW e \in Device
                   PROVE  /\ suppress'[e] > NoSlot => sinceAlert[e] + suppress'[e]
                               >= SuppressionWindow - FunctionTimeout
                          /\ suppress'[e] = NoSlot => sinceAlert[e]
                               > SuppressionWindow - FunctionTimeout
      BY <1>2 DEF SlotInv, NoSlot
    <3>2. CASE e = d
      BY <1>1, <2>1, <2>2, <2>4, <3>2, TimersTyped, TimeAssumption DEF FarPast
    <3>3. CASE e # d
      BY <2>4, <3>3 DEF SpacingInv, SlotInv
    <3>4. QED
      BY <3>2, <3>3
  <2>6. \A j \in Invocation : j # i => DeviceInHand(j)' = DeviceInHand(j)
    BY <1>2 DEF DeviceInHand
  <2>7. \A j \in Invocation : BatchAge(j)' = BatchAge(j)
    BY <1>2 DEF BatchAge
  <2>8. pc'[i] = "publish" => DeviceInHand(i)' = d
    BY <1>4 DEF DeviceInHand
  <2>9. PendingInv'
    <3>1. SUFFICES ASSUME NEW j \in Invocation, pc'[j] = "publish"
                   PROVE  LET e == DeviceInHand(j)' IN
                          /\ e \in owed'
                               => sinceAlert[e] > SuppressionWindow - FunctionTimeout
                          /\ suppress'[e] >= SuppressionWindow - BatchAge(j)
      BY <1>2, <2>7 DEF PendingInv
    <3>2. CASE j = i
      BY <2>1, <2>2, <2>4, <2>8, <3>1, <3>2, TimeAssumption
    <3>3. CASE j # i
      <4>1. pc[j] = "publish" /\ DeviceInHand(j)' = DeviceInHand(j)
        BY <1>2, <2>6, <3>1, <3>3
      <4>2. DeviceInHand(j) \in Device /\ DeviceInHand(j) # d
        BY <2>3, <4>1, DeviceInHandTyped
      <4>3. QED
        BY <1>4, <2>4, <4>1, <4>2 DEF SpacingInv, PendingInv
    <3>4. QED
      BY <3>2, <3>3
  <2>10. SlotExclusive'
    BY <1>2, <2>3, <2>6, <2>8 DEF SpacingInv, SlotExclusive
  <2>11. QED
    BY <2>5, <2>9, <2>10 DEF SpacingInv
<1>5. PICK reply \in Reply :
        /\ IF SlotFree(i) /\ TookEffect(reply)
           THEN /\ suppress' = [suppress EXCEPT ![d] = SuppressionWindow - BatchAge(i)]
                /\ owed' = owed \cup {d}
           ELSE UNCHANGED <<suppress, owed>>
        /\ pc'[i] = "publish" => reply = "ok" /\ SlotFree(i) /\ cur'[i] = cur[i]
  BY DEF TryAcquireAlertSlot, Proceed, FailItem, TypeInv, TypeOK
<1>6. QED
  BY <1>3, <1>4, <1>5 DEF TookEffect

LEMMA PublishSpacingInv ==
  ASSUME WindowOutlastsExecution, TypeInv, SpacingInv,
         NEW i \in Invocation,
         PublishAlert(i)
  PROVE  SpacingInv'
<1> DEFINE d == DeviceInHand(i)
<1>1. /\ pc[i] = "publish"
      /\ d \in Device
      /\ BatchAge(i) \in 0..FunctionTimeout
  BY DeviceInHandTyped, BatchAgeTyped DEF PublishAlert
<1>2. /\ UNCHANGED <<budget, suppress>>
      /\ \A j \in Invocation : j # i => pc'[j] = pc[j] /\ cur'[j] = cur[j]
      /\ pc'[i] = "publish" => cur'[i] = cur[i]
  BY DEF PublishAlert, Proceed, FailItem, TypeInv, TypeOK
<1>3. CASE UNCHANGED <<sinceAlert, owed>>
  BY <1>1, <1>2, <1>3, QuietSpacingInv DEF alertVars
<1>4. CASE sinceAlert' = [sinceAlert EXCEPT ![d] = 0] /\ owed' = owed \ {d}
  <2>1. /\ sinceAlert'[d] = 0
        /\ \A e \in Device : e # d => sinceAlert'[e] = sinceAlert[e]
    BY <1>1, <1>4 DEF TypeInv, TypeOK
  <2>2. suppress[d] >= SuppressionWindow - BatchAge(i)
    BY <1>1 DEF SpacingInv, PendingInv
  <2>3. SlotInv'
    BY <1>1, <1>2, <2>1, <2>2, TimersTyped, TimeAssumption
    DEF SpacingInv, SlotInv, NoSlot, WindowOutlastsExecution
  <2>4. \A j \in Invocation : pc'[j] = "publish" =>
          /\ pc[j] = "publish"
          /\ DeviceInHand(j)' = DeviceInHand(j)
          /\ DeviceInHand(j) \in Device
          /\ j # i => DeviceInHand(j) # d
          /\ BatchAge(j)' = BatchAge(j)
    BY <1>1, <1>2, DeviceInHandTyped
    DEF SpacingInv, SlotExclusive, DeviceInHand, BatchAge
  <2>5. PendingInv' /\ SlotExclusive'
    BY <1>2, <1>4, <2>1, <2>4 DEF SpacingInv, PendingInv, SlotExclusive
  <2>6. QED
    BY <2>3, <2>5 DEF SpacingInv
<1>5. QED
  BY <1>3, <1>4 DEF PublishAlert

LEMMA TickSpacingInv ==
  ASSUME WindowOutlastsExecution, TypeInv, SpacingInv, Tick
  PROVE  SpacingInv'
<1>1. \A d \in Device :
        /\ suppress'[d] = Decrease(suppress[d], NoSlot)
        /\ sinceAlert'[d] = IF sinceAlert[d] < FarPast THEN sinceAlert[d] + 1
                                                       ELSE FarPast
        /\ d \in owed' <=> d \in owed
  BY DEF Tick
<1>2. SlotInv'
  BY <1>1, TimersTyped, TimeAssumption
  DEF SpacingInv, SlotInv, Decrease, NoSlot, FarPast
<1>3. \A i \in Invocation : pc'[i] = "publish" =>
        /\ pc[i] = "publish"
        /\ DeviceInHand(i)' = DeviceInHand(i)
        /\ DeviceInHand(i) \in Device
        /\ BatchAge(i) \in 0..FunctionTimeout
        /\ BatchAge(i)' = BatchAge(i) + 1
  <2>1. SUFFICES ASSUME NEW i \in Invocation, pc[i] = "publish"
                 PROVE  BatchAge(i)' = BatchAge(i) + 1
    BY DeviceInHandTyped, BatchAgeTyped DEF Tick, DeviceInHand
  <2>2. budget[i] \in 0..FunctionTimeout /\ budget[i] > 0
    BY <2>1 DEF Tick, TypeInv, TypeOK
  <2>3. QED
    BY <2>2, TimeAssumption DEF Tick, Decrease, BatchAge
<1>4. PendingInv'
  BY <1>1, <1>3, TimersTyped, TimeAssumption
  DEF SpacingInv, PendingInv, WindowOutlastsExecution, Decrease, NoSlot, FarPast
<1>5. SlotExclusive'
  BY <1>3 DEF SpacingInv, SlotExclusive
<1>6. QED
  BY <1>2, <1>4, <1>5 DEF SpacingInv

\* TTL removes a slot only when its window is over, and until then nobody is
\* about to publish under it.
LEMMA ExpireSpacingInv ==
  ASSUME WindowOutlastsExecution, TypeInv, SpacingInv,
         NEW d \in Device,
         ExpireSlot(d)
  PROVE  SpacingInv'
<1>1. /\ suppress[d] < 0
      /\ suppress[d] > NoSlot
      /\ suppress' = [suppress EXCEPT ![d] = NoSlot]
      /\ UNCHANGED <<pc, cur, budget, sinceAlert, owed>>
  BY TimersTyped, TimeAssumption DEF ExpireSlot, SlotExpired, NoSlot, runVars
<1>2. /\ suppress'[d] = NoSlot
      /\ \A e \in Device : e # d => suppress'[e] = suppress[e]
  BY <1>1 DEF TypeInv, TypeOK
<1>3. SlotInv'
  BY <1>1, <1>2, TimersTyped, TimeAssumption
  DEF SpacingInv, SlotInv, NoSlot, FarPast
<1>4. \A i \in Invocation : pc[i] = "publish" =>
        DeviceInHand(i) \in Device /\ DeviceInHand(i) # d
  <2>1. SUFFICES ASSUME NEW i \in Invocation,
                        pc[i] = "publish", DeviceInHand(i) = d
                 PROVE  FALSE
    BY DeviceInHandTyped
  <2>2. suppress[d] >= SuppressionWindow - BatchAge(i)
    BY <2>1 DEF SpacingInv, PendingInv
  <2>3. QED
    BY <1>1, <2>2, BatchAgeTyped, TimersTyped, TimeAssumption
    DEF WindowOutlastsExecution
<1>5. PendingInv' /\ SlotExclusive'
  BY <1>1, <1>2, <1>4
  DEF SpacingInv, PendingInv, SlotExclusive, DeviceInHand, BatchAge
<1>6. QED
  BY <1>3, <1>5 DEF SpacingInv

LEMMA NextSpacingInv ==
  ASSUME WindowOutlastsExecution
  PROVE  TypeInv /\ SpacingInv /\ [Next]_vars => SpacingInv'
<1>1. SUFFICES ASSUME TypeInv, SpacingInv, [Next]_vars
               PROVE  SpacingInv'
  OBVIOUS
<1>2. CASE \E i \in Invocation : TryAcquireAlertSlot(i)
  BY <1>1, <1>2, ClaimSpacingInv
<1>3. CASE \E i \in Invocation : PublishAlert(i)
  BY <1>1, <1>3, PublishSpacingInv
<1>4. CASE Tick
  BY <1>1, <1>4, TickSpacingInv
<1>5. CASE \E d \in Device : ExpireSlot(d)
  BY <1>1, <1>5, ExpireSpacingInv
<1>6. CASE \/ \E m \in Msg : Send(m) \/ DeadLetter(m) \/ Redrive(m)
           \/ UNCHANGED vars
  BY <1>1, <1>6, QuietSpacingInv
  DEF Send, DeadLetter, Redrive, vars, runVars
<1>7. CASE \E i \in Invocation, B \in SUBSET Msg : ReceiveBatch(i, B)
  BY <1>1, <1>7, QuietSpacingInv DEF ReceiveBatch, TypeInv, TypeOK
<1>8. CASE \E i \in Invocation, m \in Msg : RejectPayload(i, m) \/ StoreRawCopy(i, m)
  BY <1>1, <1>8, QuietSpacingInv
  DEF RejectPayload, StoreRawCopy, TakeItem, FailItem, Proceed, TypeInv, TypeOK
<1>9. CASE \E i \in Invocation : StoreTelemetry(i)
  BY <1>1, <1>9, QuietSpacingInv
  DEF StoreTelemetry, FinishItem, FailItem, TypeInv, TypeOK
<1>10. CASE \E i \in Invocation :
              EmitCounts(i) \/ Respond(i) \/ Crash(i) \/ Timeout(i)
  BY <1>1, <1>10, QuietSpacingInv
  DEF EmitCounts, Respond, Crash, Timeout, Release, TypeInv, TypeOK
<1>11. QED
  BY <1>1, <1>2, <1>3, <1>4, <1>5, <1>6, <1>7, <1>8, <1>9, <1>10 DEF Next, Step

-----------------------------------------------------------------------------

\* While the window outlasts an execution, no two executions are about to
\* alert for one device, however many are started, retried or killed.
THEOREM OneClaimant ==
  ASSUME WindowOutlastsExecution
  PROVE  Spec => []SlotExclusive
<1>1. TypeInv /\ SpacingInv /\ [Next]_vars => SpacingInv'
  BY NextSpacingInv
<1>2. SpacingInv => SlotExclusive
  BY DEF SpacingInv
<1>3. QED
  BY <1>1, <1>2, InitTypeInv, NextTypeInv, InitSpacingInv, PTL DEF Spec

-----------------------------------------------------------------------------
(***************************************************************************)
(* Repeats: an alert that no claim owes any more was sent while the        *)
(* execution that sends it again was already running.                      *)
(***************************************************************************)

RepeatInv ==
  \A i \in Invocation : pc[i] = "publish" /\ DeviceInHand(i) \notin owed =>
    sinceAlert[DeviceInHand(i)] <= BatchAge(i)

LEMMA ClaimRepeatInv ==
  ASSUME TypeInv, RepeatInv,
         NEW i \in Invocation,
         TryAcquireAlertSlot(i)
  PROVE  RepeatInv'
<1> DEFINE d == DeviceInHand(i)
<1>1. /\ UNCHANGED <<budget, sinceAlert>>
      /\ owed \subseteq owed'
      /\ \A j \in Invocation : j # i => pc'[j] = pc[j] /\ cur'[j] = cur[j]
  BY DEF TryAcquireAlertSlot, Proceed, FailItem, TypeInv, TypeOK
<1>2. pc'[i] = "publish" => cur'[i] = cur[i] /\ d \in owed'
  BY DEF TryAcquireAlertSlot, Proceed, FailItem, TookEffect, TypeInv, TypeOK
<1>3. QED
  BY <1>1, <1>2 DEF RepeatInv, DeviceInHand, BatchAge

LEMMA PublishRepeatInv ==
  ASSUME TypeInv, RepeatInv,
         NEW i \in Invocation,
         PublishAlert(i)
  PROVE  RepeatInv'
<1> DEFINE d == DeviceInHand(i)
<1>1. /\ pc[i] = "publish"
      /\ d \in Device
      /\ budget' = budget
      /\ \A j \in Invocation : pc'[j] = "publish" => pc[j] = "publish" /\ cur'[j] = cur[j]
  BY DeviceInHandTyped DEF PublishAlert, Proceed, FailItem, TypeInv, TypeOK
<1>2. \/ UNCHANGED <<sinceAlert, owed>>
      \/ /\ sinceAlert'[d] = 0
         /\ \A e \in Device : e # d => sinceAlert'[e] = sinceAlert[e]
         /\ owed' = owed \ {d}
  BY <1>1 DEF PublishAlert, TypeInv, TypeOK
<1>3. SUFFICES ASSUME NEW j \in Invocation, pc'[j] = "publish",
                      DeviceInHand(j)' \notin owed'
               PROVE  sinceAlert'[DeviceInHand(j)'] <= BatchAge(j)'
  BY DEF RepeatInv
<1>4. /\ pc[j] = "publish"
      /\ DeviceInHand(j)' = DeviceInHand(j)
      /\ BatchAge(j)' = BatchAge(j)
  BY <1>1, <1>3 DEF DeviceInHand, BatchAge
<1>5. DeviceInHand(j) \in Device /\ BatchAge(j) \in 0..FunctionTimeout
  BY <1>4, DeviceInHandTyped, BatchAgeTyped
<1>6. QED
  BY <1>2, <1>3, <1>4, <1>5, TimeAssumption DEF RepeatInv

LEMMA TickRepeatInv ==
  ASSUME TypeInv, RepeatInv, Tick
  PROVE  RepeatInv'
<1>1. SUFFICES ASSUME NEW i \in Invocation, pc[i] = "publish",
                      DeviceInHand(i) \notin owed
               PROVE  sinceAlert'[DeviceInHand(i)] <= BatchAge(i)'
  BY DEF Tick, RepeatInv, DeviceInHand
<1>2. /\ DeviceInHand(i) \in Device
      /\ BatchAge(i) \in 0..FunctionTimeout
      /\ sinceAlert[DeviceInHand(i)] <= BatchAge(i)
  BY <1>1, DeviceInHandTyped, BatchAgeTyped DEF RepeatInv
<1>3. BatchAge(i)' = BatchAge(i) + 1
  <2>1. budget[i] \in 0..FunctionTimeout /\ budget[i] > 0
    BY <1>1 DEF Tick, TypeInv, TypeOK
  <2>2. QED
    BY <2>1, TimeAssumption DEF Tick, Decrease, BatchAge
<1>4. QED
  BY <1>2, <1>3, TimersTyped, TimeAssumption DEF Tick, FarPast

LEMMA NextRepeatInv == TypeInv /\ RepeatInv /\ [Next]_vars => RepeatInv'
<1>1. SUFFICES ASSUME TypeInv, RepeatInv, [Next]_vars
               PROVE  RepeatInv'
  OBVIOUS
<1>2. CASE \E i \in Invocation : TryAcquireAlertSlot(i)
  BY <1>1, <1>2, ClaimRepeatInv
<1>3. CASE \E i \in Invocation : PublishAlert(i)
  BY <1>1, <1>3, PublishRepeatInv
<1>4. CASE Tick
  BY <1>1, <1>4, TickRepeatInv
<1>5. ASSUME UNCHANGED <<owed, sinceAlert>>,
             \A i \in Invocation : pc'[i] = "publish" =>
               pc[i] = "publish" /\ cur'[i] = cur[i] /\ budget'[i] = budget[i]
      PROVE  RepeatInv'
  BY <1>1, <1>5 DEF RepeatInv, DeviceInHand, BatchAge
<1>6. CASE \/ \E m \in Msg : Send(m) \/ DeadLetter(m) \/ Redrive(m)
           \/ \E d \in Device : ExpireSlot(d)
           \/ UNCHANGED vars
  BY <1>5, <1>6
  DEF Send, DeadLetter, Redrive, ExpireSlot, vars, runVars, alertVars
<1>7. CASE \E i \in Invocation, B \in SUBSET Msg : ReceiveBatch(i, B)
  BY <1>1, <1>5, <1>7 DEF ReceiveBatch, alertVars, TypeInv, TypeOK
<1>8. CASE \E i \in Invocation, m \in Msg : RejectPayload(i, m) \/ StoreRawCopy(i, m)
  BY <1>1, <1>5, <1>8
  DEF RejectPayload, StoreRawCopy, TakeItem, FailItem, Proceed, alertVars,
      TypeInv, TypeOK
<1>9. CASE \E i \in Invocation : StoreTelemetry(i)
  BY <1>1, <1>5, <1>9
  DEF StoreTelemetry, FinishItem, FailItem, alertVars, TypeInv, TypeOK
<1>10. CASE \E i \in Invocation :
              EmitCounts(i) \/ Respond(i) \/ Crash(i) \/ Timeout(i)
  BY <1>1, <1>5, <1>10
  DEF EmitCounts, Respond, Crash, Timeout, Release, alertVars, TypeInv, TypeOK
<1>11. QED
  BY <1>1, <1>2, <1>3, <1>4, <1>6, <1>7, <1>8, <1>9, <1>10 DEF Next, Step

\* A claim's alert is sent only when the device's previous alert is older than
\* the window less one function timeout; whatever the SDK sends again of it
\* follows within one function timeout.
THEOREM AlertsAreSpaced == Spec => AlertSpacing
<1>1. Init => RepeatInv
  BY DEF Init, RepeatInv
<1>2. TypeInv /\ RepeatInv => \A i \in Invocation :
        pc[i] = "publish" /\ DeviceInHand(i) \notin owed =>
          sinceAlert[DeviceInHand(i)] <= FunctionTimeout
  BY DeviceInHandTyped, BatchAgeTyped, TimersTyped, TimeAssumption
  DEF RepeatInv, FarPast
<1>3. CASE WindowOutlastsExecution
  <2>1. TypeInv /\ SpacingInv /\ [Next]_vars => SpacingInv'
    BY <1>3, NextSpacingInv
  <2>2. TypeInv /\ SpacingInv /\ RepeatInv => [\A i \in Invocation : PublishAlert(i) =>
          IF DeviceInHand(i) \in owed
          THEN sinceAlert[DeviceInHand(i)] > SuppressionWindow - FunctionTimeout
          ELSE sinceAlert[DeviceInHand(i)] <= FunctionTimeout]_vars
    BY <1>2 DEF SpacingInv, PendingInv, PublishAlert
  <2>3. QED
    BY <1>1, <2>1, <2>2, InitTypeInv, NextTypeInv, InitSpacingInv,
       NextRepeatInv, PTL
    DEF Spec, AlertSpacing
<1>4. CASE ~WindowOutlastsExecution
  <2>1. TypeInv /\ RepeatInv => [\A i \in Invocation : PublishAlert(i) =>
          IF DeviceInHand(i) \in owed
          THEN sinceAlert[DeviceInHand(i)] > SuppressionWindow - FunctionTimeout
          ELSE sinceAlert[DeviceInHand(i)] <= FunctionTimeout]_vars
    BY <1>2, <1>4, DeviceInHandTyped, TimersTyped, TimeAssumption
    DEF WindowOutlastsExecution, PublishAlert, FarPast
  <2>2. QED
    BY <1>1, <2>1, InitTypeInv, NextTypeInv, NextRepeatInv, PTL
    DEF Spec, AlertSpacing
<1>5. QED
  BY <1>3, <1>4

-----------------------------------------------------------------------------
(***************************************************************************)
(* A dropped alert has a reason: the invariant relates the slot to the     *)
(* alert it stands for.                                                    *)
(***************************************************************************)

\* A standing slot whose alert is out was claimed before that alert went out.
PaidInv ==
  \A d \in Device \ owed :
    suppress[d] > NoSlot => sinceAlert[d] + suppress[d] <= SuppressionWindow

\* What suppressed the reading in hand: an alert still owed, or one that was no
\* older than the window when the execution took its now.
DroppedInv ==
  \A i \in Invocation : pc[i] = "store" /\ "AlertsSuppressed" \in counts[i] =>
    \/ DeviceInHand(i) \in owed
    \/ sinceAlert[DeviceInHand(i)] <= SuppressionWindow + BatchAge(i)

CountsInv == \A i \in Invocation : pc[i] # "store" => counts[i] = {}

ReasonInv == PaidInv /\ DroppedInv /\ CountsInv

LEMMA InitReasonInv == Init => ReasonInv
  BY TimeAssumption DEF Init, ReasonInv, PaidInv, DroppedInv, CountsInv, NoSlot

\* A step that touches neither slots nor alerts and suppresses nothing.
LEMMA QuietReasonInv ==
  ASSUME ReasonInv,
         UNCHANGED alertVars,
         \A i \in Invocation :
           /\ pc'[i] = "store" /\ "AlertsSuppressed" \in counts'[i] =>
                /\ pc[i] = "store" /\ "AlertsSuppressed" \in counts[i]
                /\ cur'[i] = cur[i] /\ budget'[i] = budget[i]
           /\ pc'[i] # "store" => counts'[i] = {}
  PROVE  ReasonInv'
  BY DEF ReasonInv, PaidInv, DroppedInv, CountsInv, DeviceInHand, BatchAge,
         alertVars

LEMMA ClaimReasonInv ==
  ASSUME TypeInv, ReasonInv,
         NEW i \in Invocation,
         TryAcquireAlertSlot(i)
  PROVE  ReasonInv'
<1> DEFINE d == DeviceInHand(i)
<1>1. /\ pc[i] = "claim"
      /\ counts[i] = {}
      /\ d \in Device
      /\ BatchAge(i) \in 0..FunctionTimeout
  BY DeviceInHandTyped, BatchAgeTyped
  DEF TryAcquireAlertSlot, ReasonInv, CountsInv
<1>2. /\ UNCHANGED <<budget, sinceAlert>>
      /\ owed \subseteq owed'
      /\ \A j \in Invocation : j # i =>
           pc'[j] = pc[j] /\ cur'[j] = cur[j] /\ counts'[j] = counts[j]
  BY DEF TryAcquireAlertSlot, Proceed, FailItem, TypeInv, TypeOK
<1>3. /\ pc'[i] # "store" => counts'[i] = {}
      /\ pc'[i] = "store" => cur'[i] = cur[i]
  BY <1>1 DEF TryAcquireAlertSlot, Proceed, FailItem, TypeInv, TypeOK
<1>4. \/ d \in owed'
      \/ /\ UNCHANGED <<suppress, owed>>
         /\ pc'[i] = "store" => ~SlotFree(i)
  <2>1. PICK reply \in Reply :
          /\ SlotFree(i) /\ TookEffect(reply) => d \in owed'
          /\ ~(SlotFree(i) /\ TookEffect(reply)) => UNCHANGED <<suppress, owed>>
          /\ pc'[i] = "store" => reply # "error"
    BY DEF TryAcquireAlertSlot, Proceed, FailItem, TypeInv, TypeOK
  <2>2. QED
    BY <2>1 DEF TookEffect
<1>5. PaidInv'
  <2>1. \/ UNCHANGED suppress
        \/ d \in owed' /\ \A e \in Device \ {d} : suppress'[e] = suppress[e]
    BY DEF TryAcquireAlertSlot, TypeInv, TypeOK
  <2>2. QED
    BY <1>2, <2>1 DEF ReasonInv, PaidInv, NoSlot
<1>6. DroppedInv'
  <2>1. SUFFICES ASSUME NEW j \in Invocation,
                        pc'[j] = "store", "AlertsSuppressed" \in counts'[j]
                 PROVE  \/ DeviceInHand(j)' \in owed'
                        \/ sinceAlert'[DeviceInHand(j)']
                             <= SuppressionWindow + BatchAge(j)'
    BY DEF DroppedInv
  <2>2. BatchAge(j)' = BatchAge(j)
    BY <1>2 DEF BatchAge
  <2>3. DeviceInHand(j)' = DeviceInHand(j)
    BY <1>2, <1>3, <2>1 DEF DeviceInHand
  <2>4. CASE j # i
    BY <1>2, <2>1, <2>2, <2>3, <2>4 DEF ReasonInv, DroppedInv
  <2>5. CASE j = i /\ d \notin owed'
    <3>1. d \notin owed /\ ~(suppress[d] < -BatchAge(i))
      BY <1>4, <2>1, <2>5 DEF SlotFree
    <3>2. sinceAlert[d] + suppress[d] <= SuppressionWindow
      BY <1>1, <3>1, TimersTyped, TimeAssumption DEF ReasonInv, PaidInv, NoSlot
    <3>3. QED
      BY <1>1, <1>2, <2>2, <2>3, <2>5, <3>1, <3>2, TimersTyped, TimeAssumption
      DEF FarPast
  <2>6. QED
    BY <2>3, <2>4, <2>5
<1>7. CountsInv'
  BY <1>2, <1>3 DEF ReasonInv, CountsInv
<1>8. QED
  BY <1>5, <1>6, <1>7 DEF ReasonInv

LEMMA PublishReasonInv ==
  ASSUME TypeInv, ReasonInv,
         NEW i \in Invocation,
         PublishAlert(i)
  PROVE  ReasonInv'
<1> DEFINE d == DeviceInHand(i)
<1>1. /\ pc[i] = "publish"
      /\ counts[i] = {}
      /\ d \in Device
  BY DeviceInHandTyped DEF PublishAlert, ReasonInv, CountsInv
<1>2. /\ UNCHANGED <<budget, suppress>>
      /\ \A j \in Invocation : j # i =>
           pc'[j] = pc[j] /\ cur'[j] = cur[j] /\ counts'[j] = counts[j]
      /\ pc'[i] # "store" => counts'[i] = {}
      /\ "AlertsSuppressed" \notin counts'[i]
  BY <1>1 DEF PublishAlert, Proceed, FailItem, TypeInv, TypeOK
<1>3. CASE UNCHANGED <<sinceAlert, owed>>
  BY <1>2, <1>3, QuietReasonInv DEF alertVars, ReasonInv, CountsInv
<1>4. CASE sinceAlert' = [sinceAlert EXCEPT ![d] = 0] /\ owed' = owed \ {d}
  <2>1. /\ sinceAlert'[d] = 0
        /\ \A e \in Device : e # d => sinceAlert'[e] = sinceAlert[e]
    BY <1>1, <1>4 DEF TypeInv, TypeOK
  <2>2. PaidInv'
    BY <1>2, <1>4, <2>1, TimersTyped DEF ReasonInv, PaidInv, NoSlot
  <2>3. DroppedInv'
    <3>1. SUFFICES ASSUME NEW j \in Invocation,
                          pc'[j] = "store", "AlertsSuppressed" \in counts'[j]
                   PROVE  \/ DeviceInHand(j)' \in owed'
                          \/ sinceAlert'[DeviceInHand(j)']
                               <= SuppressionWindow + BatchAge(j)'
      BY DEF DroppedInv
    <3>2. /\ j # i
          /\ pc[j] = "store" /\ "AlertsSuppressed" \in counts[j]
          /\ DeviceInHand(j)' = DeviceInHand(j)
          /\ BatchAge(j)' = BatchAge(j)
      BY <1>2, <3>1 DEF DeviceInHand, BatchAge
    <3>3. DeviceInHand(j) \in Device /\ BatchAge(j) \in 0..FunctionTimeout
      BY <3>2, DeviceInHandTyped, BatchAgeTyped
    <3>4. QED
      BY <1>4, <2>1, <3>2, <3>3, TimeAssumption DEF ReasonInv, DroppedInv
  <2>4. CountsInv'
    BY <1>2 DEF ReasonInv, CountsInv
  <2>5. QED
    BY <2>2, <2>3, <2>4 DEF ReasonInv
<1>5. QED
  BY <1>3, <1>4 DEF PublishAlert

LEMMA TickReasonInv ==
  ASSUME TypeInv, ReasonInv, Tick
  PROVE  ReasonInv'
<1>1. /\ UNCHANGED <<pc, cur, counts, owed>>
      /\ \A d \in Device :
           /\ suppress'[d] = Decrease(suppress[d], NoSlot)
           /\ sinceAlert'[d] =
                IF sinceAlert[d] < FarPast THEN sinceAlert[d] + 1 ELSE FarPast
  BY DEF Tick
<1>2. PaidInv'
  BY <1>1, TimersTyped, TimeAssumption
  DEF ReasonInv, PaidInv, Decrease, NoSlot, FarPast
<1>3. DroppedInv'
  <2>1. SUFFICES ASSUME NEW i \in Invocation,
                        pc[i] = "store", "AlertsSuppressed" \in counts[i],
                        DeviceInHand(i) \notin owed
                 PROVE  sinceAlert'[DeviceInHand(i)]
                          <= SuppressionWindow + BatchAge(i)'
    BY <1>1 DEF DroppedInv, DeviceInHand
  <2>2. sinceAlert[DeviceInHand(i)] <= SuppressionWindow + BatchAge(i)
    BY <2>1 DEF ReasonInv, DroppedInv
  <2>3. BatchAge(i)' = BatchAge(i) + 1
    <3>1. budget[i] \in 0..FunctionTimeout /\ budget[i] > 0
      BY <2>1 DEF Tick, TypeInv, TypeOK
    <3>2. QED
      BY <3>1, TimeAssumption DEF Tick, Decrease, BatchAge
  <2>4. DeviceInHand(i) \in Device /\ BatchAge(i) \in 0..FunctionTimeout
    BY <2>1, DeviceInHandTyped, BatchAgeTyped
  <2>5. QED
    BY <1>1, <2>2, <2>3, <2>4, TimersTyped, TimeAssumption DEF FarPast
<1>4. CountsInv'
  BY <1>1 DEF ReasonInv, CountsInv
<1>5. QED
  BY <1>2, <1>3, <1>4 DEF ReasonInv

LEMMA ExpireReasonInv ==
  ASSUME TypeInv, ReasonInv,
         NEW d \in Device,
         ExpireSlot(d)
  PROVE  ReasonInv'
<1>1. /\ UNCHANGED <<pc, cur, counts, budget, owed, sinceAlert>>
      /\ suppress'[d] = NoSlot
      /\ \A e \in Device : e # d => suppress'[e] = suppress[e]
  BY DEF ExpireSlot, runVars, TypeInv, TypeOK
<1>2. QED
  BY <1>1, TimeAssumption
  DEF ReasonInv, PaidInv, DroppedInv, CountsInv, DeviceInHand, BatchAge, NoSlot

LEMMA NextReasonInv == TypeInv /\ ReasonInv /\ [Next]_vars => ReasonInv'
<1>1. SUFFICES ASSUME TypeInv, ReasonInv, [Next]_vars
               PROVE  ReasonInv'
  OBVIOUS
<1>2. CASE \E i \in Invocation : TryAcquireAlertSlot(i)
  BY <1>1, <1>2, ClaimReasonInv
<1>3. CASE \E i \in Invocation : PublishAlert(i)
  BY <1>1, <1>3, PublishReasonInv
<1>4. CASE Tick
  BY <1>1, <1>4, TickReasonInv
<1>5. CASE \E d \in Device : ExpireSlot(d)
  BY <1>1, <1>5, ExpireReasonInv
<1>6. CASE \/ \E m \in Msg : Send(m) \/ DeadLetter(m) \/ Redrive(m)
           \/ UNCHANGED vars
  BY <1>1, <1>6, QuietReasonInv
  DEF Send, DeadLetter, Redrive, vars, runVars, ReasonInv, CountsInv
<1>7. CASE \E i \in Invocation, B \in SUBSET Msg : ReceiveBatch(i, B)
  BY <1>1, <1>7, QuietReasonInv
  DEF ReceiveBatch, ReasonInv, CountsInv, TypeInv, TypeOK
<1>8. CASE \E i \in Invocation, m \in Msg : RejectPayload(i, m) \/ StoreRawCopy(i, m)
  BY <1>1, <1>8, QuietReasonInv
  DEF RejectPayload, StoreRawCopy, TakeItem, FailItem, Proceed,
      ReasonInv, CountsInv, TypeInv, TypeOK
<1>9. CASE \E i \in Invocation : StoreTelemetry(i)
  BY <1>1, <1>9, QuietReasonInv
  DEF StoreTelemetry, FinishItem, FailItem, ReasonInv, CountsInv, TypeInv, TypeOK
<1>10. CASE \E i \in Invocation :
              EmitCounts(i) \/ Respond(i) \/ Crash(i) \/ Timeout(i)
  BY <1>1, <1>10, QuietReasonInv
  DEF EmitCounts, Respond, Crash, Timeout, Release, ReasonInv, CountsInv,
      TypeInv, TypeOK
<1>11. QED
  BY <1>1, <1>2, <1>3, <1>4, <1>5, <1>6, <1>7, <1>8, <1>9, <1>10 DEF Next, Step

\* An alert is dropped as suppressed only because of an alert of the device no
\* older than the window and one function timeout, or of one still owed.
THEOREM SuppressionHasReason == Spec => []SuppressionIsJustified
<1>1. TypeInv /\ ReasonInv => SuppressionIsJustified
  BY DeviceInHandTyped, BatchAgeTyped, TimersTyped, TimeAssumption
  DEF ReasonInv, DroppedInv, SuppressionIsJustified, FarPast
<1>2. QED
  BY <1>1, InitTypeInv, NextTypeInv, InitReasonInv, NextReasonInv, PTL DEF Spec

=============================================================================
