--------------------------- MODULE IngestCounting ---------------------------
(***************************************************************************)
(* What the counters say: of all the deliveries of a reading at most one   *)
(* is counted as MessagesStored; an alert that is claimed and not          *)
(* published is counted while nothing dies on the way; a message that is   *)
(* deleted shows in an outcome counter whatever fails, and in exactly one  *)
(* while no execution dies and the queue delivers nothing twice.  At the   *)
(* end, the isolation of poison.                                           *)
(***************************************************************************)
EXTENDS IngestDurability

CreditedIn(m, i) == <<m, "MessagesStored">> \in totals[i]

CreditedOut(m) == <<m, "MessagesStored">> \in emitted

Credited(m) == CreditedOut(m) \/ \E i \in Invocation : CreditedIn(m, i)

(***************************************************************************)
(* A message is credited only by the insert of its reading, and what has   *)
(* been inserted is never inserted again, not even by another delivery of  *)
(* the same message.                                                       *)
(***************************************************************************)
CreditInv ==
  /\ \A i \in Invocation : "MessagesStored" \notin counts[i]
  /\ \A m \in Msg : Credited(m) => KeyOf[m] \in hot
  /\ StoredOnce

LEMMA InitCreditInv == Init => CreditInv
  BY DEF Init, CreditInv, StoredOnce, Credited, CreditedIn, CreditedOut, Counted

\* What a step does to credits that are there already.
CreditsStay ==
  /\ hot \subseteq hot'
  /\ \A j \in Invocation : "MessagesStored" \notin counts'[j]
  /\ \A j \in Invocation : pc[j] = "respond" => pc'[j] = "respond" \/ totals'[j] = {}

\* A step that credits nobody keeps the invariant.
LEMMA NoCredit ==
  ASSUME CreditInv, CreditsStay,
         \A m \in Msg : CreditedOut(m)' => CreditedOut(m),
         \A m \in Msg, j \in Invocation : CreditedIn(m, j)' => CreditedIn(m, j)
  PROVE  CreditInv'
<1>1. \A m \in Msg : Credited(m)' => Credited(m)
  BY DEF Credited
<1>2. \A m \in Msg : Credited(m)' => KeyOf[m] \in hot'
  BY <1>1 DEF CreditInv, CreditsStay
<1>3. ASSUME NEW m \in Msg, NEW n \in Msg, KeyOf[m] = KeyOf[n],
             Counted(m, "MessagesStored")', Counted(n, "MessagesStored")'
      PROVE  /\ m = n
             /\ \A i, j \in Invocation :
                  /\ CreditedIn(m, i)' /\ CreditedIn(m, j)' => i = j
                  /\ CreditedIn(m, i)' /\ CreditedOut(m)' => pc'[i] = "respond"
  <2>1. Counted(m, "MessagesStored") /\ Counted(n, "MessagesStored")
    BY <1>1, <1>3 DEF Credited, CreditedIn, CreditedOut, Counted
  <2>2. m = n /\ \A i, j \in Invocation :
          /\ CreditedIn(m, i) /\ CreditedIn(m, j) => i = j
          /\ CreditedIn(m, i) /\ CreditedOut(m) => pc[i] = "respond"
    BY <1>3, <2>1 DEF CreditInv, StoredOnce, CreditedIn, CreditedOut
  <2>3. \A i \in Invocation : CreditedIn(m, i)' => totals'[i] # {}
    BY DEF CreditedIn
  <2>4. QED
    BY <2>2, <2>3 DEF CreditsStay
<1>4. StoredOnce'
  BY <1>3 DEF StoredOnce, CreditedIn, CreditedOut
<1>5. QED
  BY <1>2, <1>4 DEF CreditInv, CreditsStay

\* A step that credits one message, in one execution, credits one whose reading
\* was not stored.
LEMMA OneCredit ==
  ASSUME CreditInv, CreditsStay,
         NEW i \in Invocation, NEW m \in Msg,
         KeyOf[m] \notin hot,
         KeyOf[m] \in hot',
         \A n \in Msg : CreditedOut(n)' => CreditedOut(n),
         \A n \in Msg, j \in Invocation :
           CreditedIn(n, j)' => CreditedIn(n, j) \/ (n = m /\ j = i)
  PROVE  CreditInv'
<1>1. \A n \in Msg : Credited(n)' => n = m \/ Credited(n)
  BY DEF Credited
<1>2. \A n \in Msg : Credited(n)' => KeyOf[n] \in hot'
  BY <1>1 DEF CreditInv, CreditsStay
<1>3. \A n \in Msg : KeyOf[n] = KeyOf[m] => ~Credited(n)
  BY DEF CreditInv
<1>4. ASSUME NEW n \in Msg, NEW o \in Msg, KeyOf[n] = KeyOf[o],
             Counted(n, "MessagesStored")', Counted(o, "MessagesStored")'
      PROVE  /\ n = o
             /\ \A j, k \in Invocation :
                  /\ CreditedIn(n, j)' /\ CreditedIn(n, k)' => j = k
                  /\ CreditedIn(n, j)' /\ CreditedOut(n)' => pc'[j] = "respond"
  <2>1. Credited(n)' /\ Credited(o)'
    BY <1>4 DEF Credited, CreditedIn, CreditedOut, Counted
  <2>2. CASE n = m \/ o = m
    <3>1. n = m /\ o = m
      BY <1>1, <1>3, <1>4, <2>1, <2>2
    <3>2. ~CreditedOut(m)' /\ \A j \in Invocation : CreditedIn(m, j)' => j = i
      BY <1>3 DEF Credited
    <3>3. QED
      BY <3>1, <3>2
  <2>3. CASE n # m /\ o # m
    <3>1. Counted(n, "MessagesStored") /\ Counted(o, "MessagesStored")
      BY <1>1, <2>1, <2>3 DEF Credited, CreditedIn, CreditedOut, Counted
    <3>2. n = o /\ \A j, k \in Invocation :
            /\ CreditedIn(n, j) /\ CreditedIn(n, k) => j = k
            /\ CreditedIn(n, j) /\ CreditedOut(n) => pc[j] = "respond"
      BY <1>4, <3>1 DEF CreditInv, StoredOnce, CreditedIn, CreditedOut
    <3>3. \A j \in Invocation : CreditedIn(n, j)' => totals'[j] # {}
      BY DEF CreditedIn
    <3>4. QED
      BY <2>3, <3>2, <3>3 DEF CreditsStay
  <2>4. QED
    BY <2>2, <2>3
<1>5. StoredOnce'
  BY <1>4 DEF StoredOnce, CreditedIn, CreditedOut
<1>6. QED
  BY <1>2, <1>5 DEF CreditInv, CreditsStay

-----------------------------------------------------------------------------

\* Execution i, which is not about to respond, gains what is in gained.
Gains(i, gained) ==
  /\ pc[i] # "respond"
  /\ pc' = [pc EXCEPT ![i] = pc'[i]]
  /\ totals' = [totals EXCEPT ![i] = @ \cup gained]
  /\ UNCHANGED emitted

LEMMA GainsCredit ==
  ASSUME TypeInv, NEW i \in Invocation, NEW gained, Gains(i, gained)
  PROVE  /\ \A j \in Invocation : pc[j] = "respond" => pc'[j] = "respond"
         /\ \A n \in Msg : CreditedOut(n)' => CreditedOut(n)
         /\ \A n \in Msg, j \in Invocation : CreditedIn(n, j)' =>
              \/ CreditedIn(n, j)
              \/ j = i /\ <<n, "MessagesStored">> \in gained
  BY DEF Gains, CreditedIn, CreditedOut, TypeInv, TypeOK

\* An except branch credits nobody.
LEMMA FailCredits ==
  ASSUME TypeInv, CreditInv, NEW i \in Invocation, NEW m \in Msg,
         NEW e \in {"ContractViolationError", "AlertPublishError", "Exception"},
         pc[i] # "respond", FailItem(i, m, e), UNCHANGED emitted,
         hot \subseteq hot'
  PROVE  CreditInv'
<1>1. Gains(i, {m} \X CountedBy(e))
  BY DEF FailItem, Gains, TypeInv, TypeOK
<1>2. "MessagesStored" \notin CountedBy(e)
  <2>1. CASE e = "ContractViolationError"
    BY <2>1 DEF CountedBy
  <2>2. CASE e = "AlertPublishError"
    BY <2>2 DEF CountedBy
  <2>3. CASE e = "Exception"
    BY <2>3 DEF CountedBy
  <2>4. \/ e = "ContractViolationError"
        \/ e = "AlertPublishError"
        \/ e = "Exception"
    OBVIOUS
  <2>5. QED
    BY ONLY <2>1, <2>2, <2>3, <2>4
<1>3. \A n : <<n, "MessagesStored">> \notin {m} \X CountedBy(e)
  BY <1>2
<1>4. \A j \in Invocation : "MessagesStored" \notin counts'[j]
  BY DEF FailItem, CreditInv, TypeInv, TypeOK
<1>5. QED
  BY <1>1, <1>3, <1>4, GainsCredit, NoCredit DEF CreditsStay

\* Neither does going on to the next call.
LEMMA ProceedCredits ==
  ASSUME TypeInv, CreditInv, NEW i \in Invocation, NEW m, NEW call, NEW counted,
         "MessagesStored" \notin counted,
         pc[i] # "respond", Proceed(i, m, call, counted), UNCHANGED emitted,
         hot \subseteq hot'
  PROVE  CreditInv'
<1>1. \A j \in Invocation : pc[j] = "respond" => pc'[j] = "respond"
  BY DEF Proceed, TypeInv, TypeOK
<1>2. \A j \in Invocation : "MessagesStored" \notin counts'[j]
  BY DEF Proceed, CreditInv, TypeInv, TypeOK
<1>3. UNCHANGED <<totals, emitted>>
  BY DEF Proceed
<1>4. QED
  BY <1>1, <1>2, <1>3, NoCredit DEF CreditsStay, CreditedIn, CreditedOut

-----------------------------------------------------------------------------

LEMMA ItemCredits ==
  ASSUME TypeInv, CreditInv, NEW i \in Invocation, NEW m \in Msg,
         RejectPayload(i, m) \/ StoreRawCopy(i, m)
  PROVE  CreditInv'
<1>1. UNCHANGED <<emitted, hot>> /\ pc[i] # "respond"
  BY DEF RejectPayload, StoreRawCopy, TakeItem, storeVars
<1>2. \/ FailItem(i, m, "ContractViolationError")
      \/ FailItem(i, m, "Exception")
      \/ Proceed(i, m, "claim", {})
      \/ Proceed(i, m, "store", {})
  BY DEF RejectPayload, StoreRawCopy
<1>3. QED
  BY <1>1, <1>2, FailCredits, ProceedCredits

LEMMA AlertCredits ==
  ASSUME TypeInv, CreditInv, NEW i \in Invocation,
         TryAcquireAlertSlot(i) \/ PublishAlert(i)
  PROVE  CreditInv'
<1>1. UNCHANGED <<emitted, hot>> /\ cur[i] \in Msg /\ pc[i] # "respond"
  BY DEF TryAcquireAlertSlot, PublishAlert, storeVars, TypeInv, InHand
<1>2. \/ FailItem(i, cur[i], "Exception")
      \/ FailItem(i, cur[i], "AlertPublishError")
      \/ Proceed(i, cur[i], "publish", {})
      \/ Proceed(i, cur[i], "store", {"AlertsSuppressed"})
      \/ Proceed(i, cur[i], "store", {"AlertsPublished"})
  BY DEF TryAcquireAlertSlot, PublishAlert
<1>3. QED
  BY <1>1, <1>2, FailCredits, ProceedCredits

\* The insert is the one call that credits, and it finds the reading absent.
LEMMA StoreCredits ==
  ASSUME TypeInv, CreditInv, NEW i \in Invocation, StoreTelemetry(i)
  PROVE  CreditInv'
<1>1. UNCHANGED emitted /\ hot \subseteq hot' /\ cur[i] \in Msg /\ pc[i] # "respond"
  BY DEF StoreTelemetry, TypeInv, InHand
<1>2. CASE FailItem(i, cur[i], "Exception")
  BY <1>1, <1>2, FailCredits
<1>3. ASSUME NEW b \in {"MessagesStored", "DuplicatesSkipped"},
             FinishItem(i, cur[i], b)
      PROVE  /\ CreditsStay
             /\ \A n \in Msg : CreditedOut(n)' => CreditedOut(n)
             /\ \A n \in Msg, j \in Invocation : CreditedIn(n, j)' =>
                  \/ CreditedIn(n, j)
                  \/ n = cur[i] /\ j = i /\ b = "MessagesStored"
  <2>1. Gains(i, {cur[i]} \X (counts[i] \cup {b}))
    BY <1>1, <1>3 DEF FinishItem, Gains, TypeInv, TypeOK
  <2>2. \A n : <<n, "MessagesStored">> \in {cur[i]} \X (counts[i] \cup {b}) =>
          n = cur[i] /\ b = "MessagesStored"
    BY DEF CreditInv
  <2>3. \A j \in Invocation : "MessagesStored" \notin counts'[j]
    BY <1>3 DEF FinishItem, CreditInv, TypeInv, TypeOK
  <2>4. QED
    BY <1>1, <2>1, <2>2, <2>3, GainsCredit DEF CreditsStay
<1>4. CASE FinishItem(i, cur[i], "DuplicatesSkipped")
  BY <1>3, <1>4, NoCredit
<1>5. CASE /\ FinishItem(i, cur[i], "MessagesStored")
           /\ KeyOf[cur[i]] \notin hot
           /\ KeyOf[cur[i]] \in hot'
  BY <1>1, <1>3, <1>5, OneCredit
<1>6. QED
  BY <1>2, <1>4, <1>5 DEF StoreTelemetry, TookEffect, Seen

\* At the end of a batch the credits move to CloudWatch.
LEMMA EmitCredits ==
  ASSUME TypeInv, CreditInv, NEW i \in Invocation, EmitCounts(i)
  PROVE  CreditInv'
<1>1. /\ UNCHANGED <<totals, counts, hot>>
      /\ emitted' = emitted \cup totals[i]
      /\ pc' = [pc EXCEPT ![i] = "respond"]
  BY DEF EmitCounts, storeVars
<1>2. /\ \A n \in Msg, j \in Invocation : CreditedIn(n, j)' <=> CreditedIn(n, j)
      /\ \A n \in Msg : CreditedOut(n)' => CreditedOut(n) \/ CreditedIn(n, i)
  BY <1>1 DEF CreditedIn, CreditedOut
<1>3. \A n \in Msg : Credited(n)' => Credited(n)
  BY <1>2 DEF Credited
<1>4. ASSUME NEW m \in Msg, NEW n \in Msg, KeyOf[m] = KeyOf[n],
             Counted(m, "MessagesStored")', Counted(n, "MessagesStored")'
      PROVE  /\ m = n
             /\ \A j, k \in Invocation :
                  /\ CreditedIn(m, j)' /\ CreditedIn(m, k)' => j = k
                  /\ CreditedIn(m, j)' /\ CreditedOut(m)' => pc'[j] = "respond"
  <2>1. Counted(m, "MessagesStored") /\ Counted(n, "MessagesStored")
    BY <1>3, <1>4 DEF Credited, CreditedIn, CreditedOut, Counted
  <2>2. m = n /\ \A j, k \in Invocation :
          /\ CreditedIn(m, j) /\ CreditedIn(m, k) => j = k
          /\ CreditedIn(m, j) /\ CreditedOut(m) => pc[j] = "respond"
    BY <1>4, <2>1 DEF CreditInv, StoredOnce, CreditedIn, CreditedOut
  <2>3. pc'[i] = "respond" /\ \A j \in Invocation : pc[j] = "respond" => pc'[j] = "respond"
    BY <1>1 DEF TypeInv, TypeOK
  <2>4. QED
    BY <1>2, <2>2, <2>3
<1>5. StoredOnce'
  BY <1>4 DEF StoredOnce, CreditedIn, CreditedOut
<1>6. QED
  BY <1>1, <1>3, <1>5 DEF CreditInv

\* With the execution its totals are forgotten.
LEMMA EndCredits ==
  ASSUME TypeInv, CreditInv, NEW i \in Invocation,
         Respond(i) \/ Crash(i) \/ Timeout(i)
  PROVE  CreditInv'
<1>1. /\ UNCHANGED <<emitted, hot>>
      /\ pc' = [pc EXCEPT ![i] = "idle"]
      /\ totals' = [totals EXCEPT ![i] = {}]
      /\ counts' = [counts EXCEPT ![i] = {}]
  BY DEF Respond, Crash, Timeout, Release, storeVars
<1>2. /\ \A n \in Msg : CreditedOut(n)' => CreditedOut(n)
      /\ \A n \in Msg, j \in Invocation : CreditedIn(n, j)' => CreditedIn(n, j)
  BY <1>1 DEF CreditedIn, CreditedOut, TypeInv, TypeOK
<1>3. CreditsStay
  BY <1>1 DEF CreditsStay, CreditInv, TypeInv, TypeOK
<1>4. QED
  BY <1>2, <1>3, NoCredit

LEMMA QuietCredits ==
  ASSUME CreditInv, UNCHANGED <<emitted, totals, counts, hot>>,
         \A j \in Invocation : pc[j] = "respond" => pc'[j] = "respond"
  PROVE  CreditInv'
  BY NoCredit DEF CreditInv, CreditsStay, CreditedIn, CreditedOut

LEMMA NextCreditInv == TypeInv /\ CreditInv /\ [Next]_vars => CreditInv'
<1>1. SUFFICES ASSUME TypeInv, CreditInv, [Next]_vars
               PROVE  CreditInv'
  OBVIOUS
<1>2. ASSUME NEW m \in Msg, Send(m) \/ DeadLetter(m) \/ Redrive(m)
      PROVE  CreditInv'
  BY <1>1, <1>2, QuietCredits
  DEF Send, DeadLetter, Redrive, runVars, storeVars
<1>3. ASSUME NEW i \in Invocation, NEW B \in SUBSET Msg, ReceiveBatch(i, B)
      PROVE  CreditInv'
  BY <1>1, <1>3, QuietCredits DEF ReceiveBatch, storeVars, TypeInv, TypeOK
<1>4. ASSUME NEW i \in Invocation, Step(i) \/ Crash(i) \/ Timeout(i)
      PROVE  CreditInv'
  BY <1>1, <1>4, ItemCredits, AlertCredits, StoreCredits, EmitCredits,
     EndCredits
  DEF Step
<1>5. ASSUME Tick \/ \E d \in Device : ExpireSlot(d)
      PROVE  CreditInv'
  BY <1>1, <1>5, QuietCredits DEF Tick, ExpireSlot, runVars, storeVars
<1>6. CASE UNCHANGED vars
  BY <1>1, <1>6, QuietCredits DEF vars, runVars, storeVars
<1>7. QED
  BY <1>1, <1>2, <1>3, <1>4, <1>5, <1>6 DEF Next

\* However often a reading is delivered, in several messages or in one message
\* that the queue delivers again, by whatever executions, and whatever replies
\* are lost: at most one delivery is counted as its insert.
THEOREM CountedOnce == Spec => []StoredOnce
  BY InitTypeInv, NextTypeInv, InitCreditInv, NextCreditInv, PTL
  DEF Spec, CreditInv

-----------------------------------------------------------------------------
(***************************************************************************)
(* Lost alerts.  While calls fail only before they take effect and no      *)
(* execution dies, a slot that was claimed is a publish in progress, or a  *)
(* loss that is counted.  An execution that is about to respond has        *)
(* emitted what it counted, so that its end forgets nothing.               *)
(***************************************************************************)
CleanFaults == Faults \subseteq {"error"}

Failure == "AlertPublishFailures"

EmittedFirst ==
  \A i \in Invocation : pc[i] = "respond" => totals[i] \subseteq emitted

LossInv == LossIsCounted /\ EmittedFirst

LEMMA InitLossInv == Init => LossInv
  BY DEF Init, LossInv, LossIsCounted, EmittedFirst

Answered(d) ==
  \/ \E j \in Invocation : pc[j] = "publish" /\ DeviceInHand(j) = d
  \/ \E m \in Msg : DeviceOf[KeyOf[m]] = d /\ Counted(m, Failure)

LEMMA AllAnswered ==
  ASSUME \A d \in owed' : Answered(d)'
  PROVE  LossIsCounted'
  BY DEF LossIsCounted, Answered, Failure

\* What neither claims, publishes nor forgets a count keeps LossIsCounted.
LEMMA LossKept ==
  ASSUME LossIsCounted,
         owed' \subseteq owed,
         \A m \in Msg : Counted(m, Failure) => Counted(m, Failure)',
         \A j \in Invocation : pc[j] = "publish" =>
           pc'[j] = "publish" /\ cur'[j] = cur[j]
  PROVE  LossIsCounted'
  BY DEF LossIsCounted, DeviceInHand, Failure

\* A call of execution i changes i only, and adds to its counters; it ends in
\* an except branch, in the else branch, or before the next call.
LEMMA CallIsLocal ==
  ASSUME TypeInv, EmittedFirst, NEW i \in Invocation, NEW m,
         UNCHANGED emitted,
         \/ \E e : FailItem(i, m, e)
         \/ \E b : FinishItem(i, m, b)
         \/ \E call \in {"claim", "publish", "store"} : \E c : Proceed(i, m, call, c)
  PROVE  /\ \A n \in Msg : Counted(n, Failure) => Counted(n, Failure)'
         /\ \A j \in Invocation \ {i} : pc'[j] = pc[j] /\ cur'[j] = cur[j]
         /\ EmittedFirst'
<1>1. \A j \in Invocation \ {i} :
        pc'[j] = pc[j] /\ cur'[j] = cur[j] /\ totals'[j] = totals[j]
  BY DEF FailItem, FinishItem, Proceed, TypeInv, TypeOK
<1>2. totals[i] \subseteq totals'[i]
  BY DEF FailItem, FinishItem, Proceed, TypeInv, TypeOK
<1>3. pc'[i] # "respond"
  BY DEF FailItem, FinishItem, Proceed, TypeInv, TypeOK
<1>4. QED
  BY <1>1, <1>2, <1>3 DEF Counted, EmittedFirst

LEMMA ItemLoss ==
  ASSUME TypeInv, LossInv, NEW i \in Invocation, NEW m \in Msg,
         RejectPayload(i, m) \/ StoreRawCopy(i, m)
  PROVE  LossInv'
<1>1. UNCHANGED <<emitted, owed>> /\ pc[i] = "next"
  BY DEF RejectPayload, StoreRawCopy, alertVars, TakeItem
<1>2. \/ \E e : FailItem(i, m, e)
      \/ \E call \in {"claim", "publish", "store"} : \E c : Proceed(i, m, call, c)
  BY DEF RejectPayload, StoreRawCopy
<1>3. QED
  BY <1>1, <1>2, CallIsLocal, LossKept DEF LossInv

LEMMA StoreLoss ==
  ASSUME TypeInv, LossInv, NEW i \in Invocation, StoreTelemetry(i)
  PROVE  LossInv'
<1>1. UNCHANGED <<emitted, owed>> /\ pc[i] = "store"
  BY DEF StoreTelemetry, alertVars
<1>2. (\E e : FailItem(i, cur[i], e)) \/ (\E b : FinishItem(i, cur[i], b))
  BY DEF StoreTelemetry
<1>3. QED
  BY <1>1, <1>2, CallIsLocal, LossKept DEF LossInv

\* The claim is the only step that owes an alert, and then it publishes next.
LEMMA ClaimLoss ==
  ASSUME TypeInv, LossInv, CleanFaults, NEW i \in Invocation,
         TryAcquireAlertSlot(i)
  PROVE  LossInv'
<1>1. UNCHANGED emitted /\ pc[i] = "claim"
  BY DEF TryAcquireAlertSlot
<1>2. \/ \E e : FailItem(i, cur[i], e)
      \/ \E call \in {"claim", "publish", "store"} : \E c : Proceed(i, cur[i], call, c)
  BY DEF TryAcquireAlertSlot
<1>3. CASE owed' = owed
  BY <1>1, <1>2, <1>3, CallIsLocal, LossKept DEF LossInv
<1>4. CASE owed' # owed
  <2>1. /\ owed' = owed \cup {DeviceInHand(i)}
        /\ Proceed(i, cur[i], "publish", {})
    BY <1>4 DEF TryAcquireAlertSlot, Reply, TookEffect, CleanFaults
  <2>2. pc'[i] = "publish" /\ cur'[i] = cur[i]
    BY <2>1 DEF Proceed, TypeInv, TypeOK
  <2>3. QED
    BY <1>1, <1>2, <2>1, <2>2, CallIsLocal
    DEF LossInv, LossIsCounted, DeviceInHand, Failure
<1>5. QED
  BY <1>3, <1>4

\* A publish settles what is owed, or its failure is counted.
LEMMA PublishLoss ==
  ASSUME TypeInv, LossInv, CleanFaults, NEW i \in Invocation, PublishAlert(i)
  PROVE  LossInv'
<1>1. UNCHANGED emitted /\ cur[i] \in Msg
  BY DEF PublishAlert, TypeInv, InHand
<1>2. \/ \E e : FailItem(i, cur[i], e)
      \/ \E call \in {"claim", "publish", "store"} : \E c : Proceed(i, cur[i], call, c)
  BY DEF PublishAlert
<1>3. /\ \A n \in Msg : Counted(n, Failure) => Counted(n, Failure)'
      /\ \A j \in Invocation \ {i} : pc'[j] = pc[j] /\ cur'[j] = cur[j]
      /\ EmittedFirst'
  BY <1>1, <1>2, CallIsLocal DEF LossInv
<1>4. ASSUME NEW d \in owed, d # DeviceInHand(i)
      PROVE  Answered(d)'
  <2>1. CASE \E j \in Invocation : pc[j] = "publish" /\ DeviceInHand(j) = d
    BY <1>3, <1>4, <2>1 DEF DeviceInHand, Answered
  <2>2. CASE \E m \in Msg : DeviceOf[KeyOf[m]] = d /\ Counted(m, Failure)
    BY <1>3, <2>2 DEF Answered, Failure
  <2>3. QED
    BY <1>4, <2>1, <2>2 DEF LossInv, LossIsCounted, Failure
<1>5. CASE owed' = owed \ {DeviceInHand(i)}
  BY <1>3, <1>4, <1>5, AllAnswered DEF LossInv
<1>6. CASE owed' = owed /\ FailItem(i, cur[i], "AlertPublishError")
  <2>1. CountedBy("AlertPublishError") = {Failure}
    BY DEF CountedBy, Failure
  <2>2. <<cur[i], Failure>> \in totals'[i]
    BY <1>1, <1>6, <2>1 DEF FailItem, TypeInv, TypeOK
  <2>3. ASSUME NEW d, d = DeviceInHand(i)
        PROVE  Answered(d)'
    <3>1. PICK m \in Msg : m = cur[i]
      BY <1>1
    <3>2. Counted(m, Failure)'
      BY <2>2, <3>1 DEF Counted
    <3>3. QED
      BY <2>3, <3>1, <3>2 DEF DeviceInHand, Answered
  <2>4. QED
    BY <1>3, <1>4, <1>6, <2>3, AllAnswered DEF LossInv
<1>7. QED
  BY <1>5, <1>6
  DEF PublishAlert, Reply, TookEffect, CleanFaults

LEMMA EndLoss ==
  ASSUME TypeInv, LossInv, CleanFaults, NEW i \in Invocation,
         EmitCounts(i) \/ Respond(i) \/ Crash(i) \/ Timeout(i)
  PROVE  LossInv'
<1>1. CASE EmitCounts(i)
  <2>1. /\ UNCHANGED <<totals, cur, owed>>
        /\ emitted' = emitted \cup totals[i]
        /\ pc' = [pc EXCEPT ![i] = "respond"]
        /\ pc[i] = "next"
    BY <1>1 DEF EmitCounts, alertVars
  <2>2. LossIsCounted'
    BY <2>1, LossKept DEF LossInv, Counted, TypeInv, TypeOK
  <2>3. EmittedFirst'
    BY <2>1 DEF LossInv, EmittedFirst, TypeInv, TypeOK
  <2>4. QED
    BY <2>2, <2>3 DEF LossInv
<1>2. CASE Respond(i)
  <2>1. /\ UNCHANGED <<emitted, owed>>
        /\ totals' = [totals EXCEPT ![i] = {}]
        /\ pc' = [pc EXCEPT ![i] = "idle"]
        /\ cur' = [cur EXCEPT ![i] = NoMsg]
        /\ pc[i] = "respond"
    BY <1>2 DEF Respond, Release, alertVars
  <2>2. \A n \in Msg : Counted(n, Failure) => Counted(n, Failure)'
    BY <2>1 DEF LossInv, EmittedFirst, Counted, TypeInv, TypeOK
  <2>3. LossIsCounted'
    BY <2>1, <2>2, LossKept DEF LossInv, TypeInv, TypeOK
  <2>4. EmittedFirst'
    BY <2>1 DEF LossInv, EmittedFirst, TypeInv, TypeOK
  <2>5. QED
    BY <2>3, <2>4 DEF LossInv
<1>3. QED
  BY <1>1, <1>2 DEF Crash, Timeout, CleanFaults

LEMMA QuietLoss ==
  ASSUME LossInv, UNCHANGED <<emitted, totals, pc, cur, owed>>
  PROVE  LossInv'
  BY DEF LossInv, LossIsCounted, EmittedFirst, Counted, DeviceInHand

LEMMA NextLossInv ==
  TypeInv /\ LossInv /\ CleanFaults /\ [Next]_vars => LossInv'
<1>1. SUFFICES ASSUME TypeInv, LossInv, CleanFaults, [Next]_vars
               PROVE  LossInv'
  OBVIOUS
<1>2. ASSUME NEW m \in Msg, Send(m) \/ DeadLetter(m) \/ Redrive(m)
      PROVE  LossInv'
  BY <1>1, <1>2, QuietLoss DEF Send, DeadLetter, Redrive, runVars, alertVars
<1>3. ASSUME NEW i \in Invocation, NEW B \in SUBSET Msg, ReceiveBatch(i, B)
      PROVE  LossInv'
  <2>1. /\ UNCHANGED <<emitted, totals, cur, owed>>
        /\ pc[i] = "idle"
        /\ pc' = [pc EXCEPT ![i] = "next"]
    BY <1>3 DEF ReceiveBatch, alertVars
  <2>2. LossIsCounted'
    BY <1>1, <2>1, LossKept DEF LossInv, Counted, TypeInv, TypeOK
  <2>3. EmittedFirst'
    BY <1>1, <2>1 DEF LossInv, EmittedFirst, TypeInv, TypeOK
  <2>4. QED
    BY <2>2, <2>3 DEF LossInv
<1>4. ASSUME NEW i \in Invocation, Step(i) \/ Crash(i) \/ Timeout(i)
      PROVE  LossInv'
  BY <1>1, <1>4, ItemLoss, ClaimLoss, PublishLoss, StoreLoss, EndLoss DEF Step
<1>5. ASSUME Tick \/ \E d \in Device : ExpireSlot(d)
      PROVE  LossInv'
  BY <1>1, <1>5, QuietLoss DEF Tick, ExpireSlot, runVars
<1>6. CASE UNCHANGED vars
  BY <1>1, <1>6, QuietLoss DEF vars, runVars, alertVars
<1>7. QED
  BY <1>1, <1>2, <1>3, <1>4, <1>5, <1>6 DEF Next

\* As long as calls that raise have done nothing and no execution dies, every
\* alert that was claimed and not published is counted, whatever is retried,
\* redriven or run at the same time.
THEOREM CleanLossIsCounted ==
  CleanFaults => (Spec => []LossIsCounted)
<1>1. SUFFICES ASSUME CleanFaults PROVE Spec => []LossIsCounted
  OBVIOUS
<1>2. LossInv => LossIsCounted
  BY DEF LossInv
<1>3. TypeInv /\ LossInv /\ [Next]_vars => TypeInv' /\ LossInv'
  BY <1>1, NextTypeInv, NextLossInv
<1>4. QED
  BY <1>2, <1>3, InitTypeInv, InitLossInv, PTL DEF Spec

-----------------------------------------------------------------------------
(***************************************************************************)
(* Where a message is counted.  As long as no execution dies and no        *)
(* message is delivered beside its owner, the totals of a batch have an    *)
(* outcome for exactly the messages that the loop is done with and that    *)
(* have not failed, and CloudWatch has an outcome for exactly the messages *)
(* that are deleted, or are about to be.  A broken message has the one     *)
(* outcome it can have, from its first batch on.  A second delivery would  *)
(* add a DuplicatesSkipped to what the first one counted.                  *)
(***************************************************************************)
NoCrash == "crash" \notin Faults

\* Executions end by responding, and each message has one of them at a time.
OneDelivery == NoCrash /\ NoRedelivery /\ ThrottleWithinSlack

OwnedInv == DurableInv /\ SoleOwner

Outcomes(m, counted) == {c \in Outcome : <<m, c>> \in counted}

InOne(outcomes) == \E b \in Outcome : outcomes = {b}

\* Ahead of the loop, in hand, or failed.
Open(i) == todo[i] \cup failures[i] \cup {cur[i]}

Held(m) == \E i \in Invocation : m \in batch[i]

Answering(m) == \E i \in Invocation : m \in batch[i] /\ pc[i] = "respond"

RunTally(i) ==
  /\ counts[i] \cap Outcome = {}
  /\ todo[i] \cap failures[i] = {}
  /\ pc[i] \in {"claim", "publish", "store"} =>
       cur[i] \notin todo[i] \cup failures[i]
  /\ pc[i] = "idle" => failures[i] = {}
  /\ pc[i] = "respond" => totals[i] \subseteq emitted
  /\ \A m \in Msg \ batch[i] : Outcomes(m, totals[i]) = {}

ValidTally(m) ==
  /\ status[m] = "deleted" => InOne(Outcomes(m, emitted))
  /\ status[m] # "deleted" /\ ~Answering(m) => Outcomes(m, emitted) = {}
  /\ \A i \in Invocation : m \in batch[i] =>
       /\ m \in Open(i) => Outcomes(m, totals[i]) = {}
       /\ m \notin Open(i) => InOne(Outcomes(m, totals[i]))
       /\ pc[i] = "respond" => Outcomes(m, emitted) = Outcomes(m, totals[i])

BrokenTally(m) ==
  /\ Outcomes(m, emitted) \subseteq {"InvalidPayloads"}
  /\ \A i \in Invocation : Outcomes(m, totals[i]) \subseteq {"InvalidPayloads"}
  /\ LevelOf[m] = "INVALID" =>
       /\ status[m] = "dlq" \/ receives[m] > 0 =>
            Held(m) \/ <<m, "InvalidPayloads">> \in emitted
       /\ status[m] = "dlq" => <<m, "InvalidPayloads">> \in emitted
       /\ \A i \in Invocation : m \in batch[i] \ todo[i] =>
            <<m, "InvalidPayloads">> \in totals[i]

TallyInv ==
  /\ \A i \in Invocation : RunTally(i)
  /\ \A m \in Msg : IF Processable(m) THEN ValidTally(m) ELSE BrokenTally(m)

LEMMA InitTallyInv == Init => TallyInv
<1>1. SUFFICES ASSUME Init PROVE TallyInv
  OBVIOUS
<1>2. \A i \in Invocation : RunTally(i)
  BY <1>1 DEF Init, RunTally, Outcomes
<1>3. \A m \in Msg : ValidTally(m) /\ BrokenTally(m)
  BY <1>1 DEF Init, ValidTally, BrokenTally, Answering, Outcomes
<1>4. QED
  BY <1>2, <1>3 DEF TallyInv

LEMMA QuietTally ==
  ASSUME TallyInv,
         UNCHANGED <<status, receives, pc, batch, todo, cur, counts, failures,
                     totals, emitted>>
  PROVE  TallyInv'
<1>1. \A i \in Invocation : RunTally(i)'
  BY DEF TallyInv, RunTally, Outcomes
<1>2. \A m \in Msg : ValidTally(m) => ValidTally(m)'
  BY DEF ValidTally, Answering, Outcomes, Open, InOne
<1>3. \A m \in Msg : BrokenTally(m) => BrokenTally(m)'
  BY DEF BrokenTally, Held, Outcomes
<1>4. QED
  BY <1>1, <1>2, <1>3 DEF TallyInv, Processable

\* The queue moves only what no execution holds.
LEMMA QueueTally ==
  ASSUME NoRedelivery, TypeInv, OwnedInv, TallyInv,
         NEW m \in Msg,
         Send(m) \/ DeadLetter(m) \/ Redrive(m)
  PROVE  TallyInv'
<1>1. /\ UNCHANGED <<runVars, emitted>>
      /\ status' = [status EXCEPT ![m] = status'[m]]
      /\ status[m] # "deleted" /\ status'[m] # "deleted"
      /\ status[m] = "queued" => invisible[m] = 0
      /\ receives' = receives \/ receives' = [receives EXCEPT ![m] = 0]
  BY DEF NoRedelivery, Send, DeadLetter, Redrive, Deliverable, TypeInv, TypeOK
<1>2. ~Held(m)
  BY <1>1 DEF Held, OwnedInv, SoleOwner, TypeInv, TypeOK
<1>3. status'[m] = "dlq" => receives[m] > 0
  BY TimeAssumption DEF Send, DeadLetter, Redrive, TypeInv, TypeOK
<1>4. \A i \in Invocation : RunTally(i)'
  BY <1>1 DEF TallyInv, RunTally, Outcomes, runVars
<1>5. ASSUME NEW n \in Msg, ValidTally(n)
      PROVE  ValidTally(n)'
  BY <1>1, <1>5
  DEF ValidTally, Answering, Outcomes, Open, InOne, runVars, TypeInv, TypeOK
<1>6. ASSUME NEW n \in Msg, BrokenTally(n)
      PROVE  BrokenTally(n)'
  <2>1. UNCHANGED <<batch, todo, totals, emitted>> /\ (Held(n)' <=> Held(n))
    BY <1>1 DEF Held, runVars
  <2>2. CASE n = m
    <3>1. status'[n] = "dlq" \/ receives'[n] > 0 => receives[n] > 0
      BY <1>1, <1>3, <2>2 DEF TypeInv, TypeOK
    <3>2. LevelOf[n] = "INVALID" /\ receives[n] > 0 =>
            <<n, "InvalidPayloads">> \in emitted
      BY <1>2, <1>6, <2>2 DEF BrokenTally
    <3>3. QED
      BY <1>6, <2>1, <3>1, <3>2 DEF BrokenTally, Outcomes
  <2>3. CASE n # m
    <3>1. status'[n] = status[n] /\ receives'[n] = receives[n]
      BY <1>1, <2>3 DEF TypeInv, TypeOK
    <3>2. QED
      BY <1>6, <2>1, <3>1 DEF BrokenTally, Outcomes
  <2>4. QED
    BY <2>2, <2>3
<1>7. QED
  BY <1>4, <1>5, <1>6 DEF TallyInv, Processable

LEMMA ReceiveTally ==
  ASSUME NoRedelivery, TypeInv, OwnedInv, TallyInv,
         NEW i \in Invocation,
         NEW B \in SUBSET Msg,
         ReceiveBatch(i, B)
  PROVE  TallyInv'
<1>1. /\ UNCHANGED <<status, cur, counts, failures, totals, emitted>>
      /\ pc[i] = "idle" /\ pc' = [pc EXCEPT ![i] = "next"]
      /\ batch[i] = {} /\ batch' = [batch EXCEPT ![i] = B]
      /\ todo' = [todo EXCEPT ![i] = B]
      /\ \A n \in Msg \ B : receives'[n] = receives[n]
  BY DEF ReceiveBatch, OwnedInv, DurableInv, WorkInv
<1>2. failures[i] = {} /\ \A n \in Msg : Outcomes(n, totals[i]) = {}
  BY <1>1 DEF TallyInv, RunTally
<1>3. \A n \in B : ~Held(n) /\ status[n] = "queued"
  BY DEF NoRedelivery, ReceiveBatch, Receivable, Deliverable, Held, OwnedInv,
         SoleOwner, TypeInv, TypeOK
<1>4. \A j \in Invocation : RunTally(j)'
  BY <1>1, <1>2 DEF TallyInv, RunTally, Outcomes, TypeInv, TypeOK
<1>5. ASSUME NEW n \in Msg, ValidTally(n)
      PROVE  ValidTally(n)'
  <2>1. Answering(n) <=> Answering(n)'
    BY <1>1 DEF Answering, TypeInv, TypeOK
  <2>2. ASSUME NEW j \in Invocation, j # i
        PROVE  /\ n \in batch'[j] <=> n \in batch[j]
               /\ Open(j)' = Open(j) /\ totals'[j] = totals[j]
               /\ pc'[j] = pc[j]
    BY <1>1, <2>2 DEF Open, TypeInv, TypeOK
  <2>3. n \in batch'[i] => n \in Open(i)' /\ pc'[i] # "respond"
    BY <1>1 DEF Open, TypeInv, TypeOK
  <2>4. QED
    BY <1>1, <1>2, <1>5, <2>1, <2>2, <2>3 DEF ValidTally, Outcomes
<1>6. ASSUME NEW n \in Msg, BrokenTally(n)
      PROVE  BrokenTally(n)'
  <2>1. Held(n) \/ n \in B => Held(n)'
    BY <1>1 DEF Held, TypeInv, TypeOK
  <2>2. \A j \in Invocation : n \in batch'[j] \ todo'[j] => n \in batch[j] \ todo[j]
    BY <1>1 DEF TypeInv, TypeOK
  <2>3. QED
    BY <1>1, <1>6, <2>1, <2>2 DEF BrokenTally, Outcomes
<1>7. QED
  BY <1>4, <1>5, <1>6 DEF TallyInv, Processable

-----------------------------------------------------------------------------

\* What a step of execution i about message n leaves alone.
AboutOne(i, n) ==
  /\ UNCHANGED <<status, receives, batch, emitted>>
  /\ \A j \in Invocation \ {i} :
       /\ pc'[j] = pc[j] /\ cur'[j] = cur[j] /\ todo'[j] = todo[j]
       /\ counts'[j] = counts[j] /\ failures'[j] = failures[j]
       /\ totals'[j] = totals[j]
  /\ pc[i] # "respond" /\ pc'[i] # "respond"
  /\ todo'[i] = todo[i] \ {n}
  /\ \A m \in Msg \ {n} :
       /\ m \in Open(i) <=> m \in Open(i)'
       /\ Outcomes(m, totals'[i]) = Outcomes(m, totals[i])

\* Such a step is right if it leaves the message and the execution right.
LEMMA OneTally ==
  ASSUME TypeInv, TallyInv,
         NEW i \in Invocation, NEW n \in batch[i], n \in Msg, AboutOne(i, n),
         RunTally(i)',
         Processable(n) =>
           IF n \in Open(i)' THEN Outcomes(n, totals'[i]) = {}
                             ELSE InOne(Outcomes(n, totals'[i])),
         ~Processable(n) =>
           /\ Outcomes(n, totals'[i]) \subseteq {"InvalidPayloads"}
           /\ LevelOf[n] = "INVALID" => <<n, "InvalidPayloads">> \in totals'[i]
  PROVE  TallyInv'
<1>1. \A j \in Invocation : RunTally(j)'
  <2>1. ASSUME NEW j \in Invocation \ {i}
        PROVE  RunTally(j)'
    BY DEF AboutOne, TallyInv, RunTally, Outcomes
  <2>2. QED
    BY <2>1
<1>2. \A j \in Invocation \ {i} : Open(j)' = Open(j)
  BY DEF AboutOne, Open
<1>3. \A m \in Msg : Answering(m)' <=> Answering(m)
  BY DEF AboutOne, Answering
<1>4. ASSUME NEW m \in Msg, Processable(m)
      PROVE  ValidTally(m)'
  <2>1. ValidTally(m)
    BY <1>4 DEF TallyInv
  <2>2. ASSUME NEW j \in Invocation, m \in batch'[j]
        PROVE  /\ m \in Open(j)' => Outcomes(m, totals'[j]) = {}
               /\ m \notin Open(j)' => InOne(Outcomes(m, totals'[j]))
               /\ pc'[j] = "respond" =>
                    Outcomes(m, emitted') = Outcomes(m, totals'[j])
    BY <1>2, <1>4, <2>1, <2>2 DEF AboutOne, ValidTally
  <2>3. /\ status'[m] = "deleted" => InOne(Outcomes(m, emitted'))
        /\ status'[m] # "deleted" /\ ~Answering(m)' => Outcomes(m, emitted') = {}
    BY <1>3, <2>1 DEF AboutOne, ValidTally
  <2>4. QED
    BY <2>2, <2>3 DEF ValidTally, InOne, Outcomes
<1>5. ASSUME NEW m \in Msg, ~Processable(m)
      PROVE  BrokenTally(m)'
  <2>1. BrokenTally(m)
    BY <1>5 DEF TallyInv
  <2>2. ASSUME NEW j \in Invocation
        PROVE  /\ Outcomes(m, totals'[j]) \subseteq {"InvalidPayloads"}
               /\ LevelOf[m] = "INVALID" /\ m \in batch'[j] \ todo'[j] =>
                    <<m, "InvalidPayloads">> \in totals'[j]
    <3>1. CASE j # i
      BY <2>1, <3>1 DEF AboutOne, BrokenTally
    <3>2. CASE j = i /\ m = n
      BY <1>5, <3>2
    <3>3. CASE j = i /\ m # n
      <4>1. Outcomes(m, totals'[i]) = Outcomes(m, totals[i])
        BY <3>3 DEF AboutOne
      <4>2. "InvalidPayloads" \in Outcomes(m, totals[i]) =>
              <<m, "InvalidPayloads">> \in totals'[i]
        BY <4>1 DEF Outcomes
      <4>3. QED
        BY <2>1, <3>3, <4>1, <4>2 DEF AboutOne, BrokenTally, Outcomes, Outcome
    <3>4. QED
      BY <3>1, <3>2, <3>3
  <2>3. Held(m)' <=> Held(m)
    BY DEF AboutOne, Held
  <2>4. QED
    BY <2>1, <2>2, <2>3 DEF AboutOne, BrokenTally, Outcomes
<1>6. QED
  BY <1>1, <1>4, <1>5 DEF TallyInv, Processable

\* The message a call is about: the next one of the loop, or the one in hand.
Takes(i, n) ==
  /\ UNCHANGED <<status, receives, batch, emitted>>
  /\ n \in batch[i]
  /\ todo' = [todo EXCEPT ![i] = @ \ {n}]
  /\ \/ pc[i] = "next" /\ n \in todo[i] /\ cur[i] = NoMsg
     \/ pc[i] \in {"claim", "publish", "store"} /\ cur[i] = n

LEMMA TakenIsOpen ==
  ASSUME TypeInv, TallyInv, NEW i \in Invocation, NEW n \in Msg, Takes(i, n)
  PROVE  /\ n \in Open(i) /\ n \notin failures[i]
         /\ \A m \in Msg \ {n} : m \in Open(i) <=> m \in todo[i] \cup failures[i]
  BY DataAssumption DEF Takes, TallyInv, RunTally, Open, TypeInv, TypeOK

LEMMA ChargedOutcomes ==
  ASSUME TypeInv, NEW i \in Invocation, NEW n \in Msg, NEW charge,
         totals' = [totals EXCEPT ![i] = @ \cup ({n} \X charge)]
  PROVE  /\ Outcomes(n, totals'[i]) = Outcomes(n, totals[i]) \cup (charge \cap Outcome)
         /\ \A m \in Msg \ {n} : Outcomes(m, totals'[i]) = Outcomes(m, totals[i])
<1>1. totals'[i] = totals[i] \cup ({n} \X charge)
  BY DEF TypeInv, TypeOK
<1>2. QED
  BY <1>1 DEF Outcomes

\* An except branch: the item is failed, and counted only if it is broken.
LEMMA FailTally ==
  ASSUME TypeInv, TallyInv, NEW i \in Invocation, NEW n \in Msg, Takes(i, n),
         NEW e, FailItem(i, n, e),
         \/ e = "ContractViolationError" /\ LevelOf[n] = "INVALID"
         \/ e \in {"AlertPublishError", "Exception"} /\ LevelOf[n] # "INVALID"
  PROVE  TallyInv'
<1>1. CountedBy(e) \cap Outcome =
        IF LevelOf[n] = "INVALID" THEN {"InvalidPayloads"} ELSE {}
  <2>1. CASE e = "ContractViolationError"
    BY <2>1 DEF CountedBy, Outcome
  <2>2. CASE e = "AlertPublishError"
    BY <2>2 DEF CountedBy, Outcome
  <2>3. CASE e = "Exception"
    BY <2>3 DEF CountedBy, Outcome
  <2>4. QED
    BY <2>1, <2>2, <2>3
<1>2. /\ failures' = [failures EXCEPT ![i] = @ \cup {n}]
      /\ totals' = [totals EXCEPT ![i] = @ \cup ({n} \X CountedBy(e))]
      /\ pc' = [pc EXCEPT ![i] = "next"]
      /\ cur' = [cur EXCEPT ![i] = NoMsg]
      /\ counts' = [counts EXCEPT ![i] = {}]
  BY DEF FailItem
<1>3. /\ Outcomes(n, totals'[i]) =
           Outcomes(n, totals[i]) \cup (CountedBy(e) \cap Outcome)
      /\ \A m \in Msg \ {n} : Outcomes(m, totals'[i]) = Outcomes(m, totals[i])
  BY <1>2, ChargedOutcomes
<1>4. /\ \A m \in Msg \ {n} : m \in Open(i) <=> m \in Open(i)'
      /\ n \in Open(i)'
  BY <1>2, TakenIsOpen, DataAssumption DEF Takes, Open, TypeInv, TypeOK
<1>5. AboutOne(i, n)
  BY <1>2, <1>3, <1>4 DEF AboutOne, Takes, TypeInv, TypeOK
<1>6. RunTally(i)'
  BY <1>2, <1>3, TakenIsOpen
  DEF Takes, TallyInv, RunTally, Outcomes, TypeInv, TypeOK
<1>7. Processable(n) => Outcomes(n, totals'[i]) = {}
  BY <1>1, <1>3, TakenIsOpen
  DEF Takes, TallyInv, ValidTally, Processable
<1>8. ~Processable(n) => Outcomes(n, totals'[i]) \subseteq {"InvalidPayloads"}
  BY <1>1, <1>3 DEF TallyInv, BrokenTally
<1>9. LevelOf[n] = "INVALID" => <<n, "InvalidPayloads">> \in totals'[i]
  BY <1>1, <1>2 DEF TypeInv, TypeOK
<1>10. QED
  BY <1>4, <1>5, <1>6, <1>7, <1>8, <1>9, OneTally DEF Takes

\* Going on to the next call counts no outcome.
LEMMA ProceedTally ==
  ASSUME TypeInv, TallyInv, NEW i \in Invocation, NEW n \in Msg, Takes(i, n),
         Processable(n), NEW call \in {"claim", "publish", "store"},
         NEW counted \in SUBSET Bucket, counted \cap Outcome = {},
         Proceed(i, n, call, counted)
  PROVE  TallyInv'
<1>1. /\ pc' = [pc EXCEPT ![i] = call]
      /\ cur' = [cur EXCEPT ![i] = n]
      /\ counts' = [counts EXCEPT ![i] = @ \cup counted]
      /\ UNCHANGED <<failures, totals>>
  BY DEF Proceed
<1>2. /\ \A m \in Msg \ {n} : m \in Open(i) <=> m \in Open(i)'
      /\ n \in Open(i)'
  BY <1>1, TakenIsOpen DEF Takes, Open, TypeInv, TypeOK
<1>3. AboutOne(i, n)
  BY <1>1, <1>2 DEF AboutOne, Takes, TypeInv, TypeOK
<1>4. RunTally(i)'
  BY <1>1, TakenIsOpen
  DEF Takes, TallyInv, RunTally, Outcomes, TypeInv, TypeOK
<1>5. Outcomes(n, totals'[i]) = {}
  BY <1>1, TakenIsOpen DEF Takes, TallyInv, ValidTally
<1>6. QED
  BY <1>2, <1>3, <1>4, <1>5, OneTally DEF Takes

\* The else branch counts the one outcome of the message.
LEMMA FinishTally ==
  ASSUME TypeInv, TallyInv, NEW i \in Invocation, NEW n \in Msg, Takes(i, n),
         Processable(n), NEW b \in Outcome, FinishItem(i, n, b)
  PROVE  TallyInv'
<1>1. /\ totals' = [totals EXCEPT ![i] = @ \cup ({n} \X (counts[i] \cup {b}))]
      /\ pc' = [pc EXCEPT ![i] = "next"]
      /\ cur' = [cur EXCEPT ![i] = NoMsg]
      /\ counts' = [counts EXCEPT ![i] = {}]
      /\ UNCHANGED failures
  BY DEF FinishItem
<1>2. (counts[i] \cup {b}) \cap Outcome = {b}
  BY DEF TallyInv, RunTally
<1>3. /\ Outcomes(n, totals'[i]) =
           Outcomes(n, totals[i]) \cup ((counts[i] \cup {b}) \cap Outcome)
      /\ \A m \in Msg \ {n} : Outcomes(m, totals'[i]) = Outcomes(m, totals[i])
  BY <1>1, ChargedOutcomes
<1>4. /\ \A m \in Msg \ {n} : m \in Open(i) <=> m \in Open(i)'
      /\ n \notin Open(i)'
  BY <1>1, TakenIsOpen, DataAssumption DEF Takes, Open, TypeInv, TypeOK
<1>5. AboutOne(i, n)
  BY <1>1, <1>3, <1>4 DEF AboutOne, Takes, TypeInv, TypeOK
<1>6. RunTally(i)'
  BY <1>1, <1>3, TakenIsOpen
  DEF Takes, TallyInv, RunTally, Outcomes, TypeInv, TypeOK
<1>7. Outcomes(n, totals'[i]) = {b}
  BY <1>2, <1>3, TakenIsOpen DEF Takes, TallyInv, ValidTally
<1>8. QED
  BY <1>4, <1>5, <1>6, <1>7, OneTally DEF Takes, InOne

LEMMA CallTally ==
  ASSUME TypeInv, DurableInv, TallyInv, NEW i \in Invocation,
         \/ \E m \in Msg : RejectPayload(i, m) \/ StoreRawCopy(i, m)
         \/ TryAcquireAlertSlot(i)
         \/ PublishAlert(i)
         \/ StoreTelemetry(i)
  PROVE  TallyInv'
<1>1. ASSUME NEW m \in Msg, RejectPayload(i, m) \/ StoreRawCopy(i, m)
      PROVE  TallyInv'
  <2>1. Takes(i, m)
    BY <1>1
    DEF RejectPayload, StoreRawCopy, TakeItem, Takes, DurableInv, WorkInv,
        queueVars
  <2>2. CASE RejectPayload(i, m)
    BY <2>1, <2>2, FailTally DEF RejectPayload
  <2>3. CASE StoreRawCopy(i, m)
    <3>1. /\ Processable(m)
          /\ \/ FailItem(i, m, "Exception")
             \/ Proceed(i, m, "claim", {})
             \/ Proceed(i, m, "store", {})
      BY <2>3 DEF StoreRawCopy
    <3>2. QED
      BY <2>1, <3>1, FailTally, ProceedTally DEF Processable
  <2>4. QED
    BY <1>1, <2>2, <2>3
<1>2. ASSUME TryAcquireAlertSlot(i) \/ PublishAlert(i) \/ StoreTelemetry(i)
      PROVE  TallyInv'
  <2>1. /\ pc[i] \in {"claim", "publish", "store"}
        /\ UNCHANGED <<batch, todo, emitted, queueVars>>
    BY <1>2 DEF TryAcquireAlertSlot, PublishAlert, StoreTelemetry
  <2>2. cur[i] \in Msg /\ cur[i] \in batch[i] /\ Processable(cur[i])
    BY <2>1 DEF TypeInv, InHand, DurableInv, WorkInv
  <2>3. cur[i] \notin todo[i]
    BY <2>1 DEF TallyInv, RunTally
  <2>4. Takes(i, cur[i])
    BY <2>1, <2>2, <2>3 DEF Takes, queueVars, TypeInv, TypeOK
  <2>5. \/ \E e \in {"AlertPublishError", "Exception"} : FailItem(i, cur[i], e)
        \/ Proceed(i, cur[i], "publish", {})
        \/ Proceed(i, cur[i], "store", {"AlertsSuppressed"})
        \/ Proceed(i, cur[i], "store", {"AlertsPublished"})
        \/ \E b \in Outcome : FinishItem(i, cur[i], b)
    BY <1>2 DEF TryAcquireAlertSlot, PublishAlert, StoreTelemetry, Outcome
  <2>6. /\ {"AlertsSuppressed"} \in SUBSET Bucket
        /\ {"AlertsPublished"} \in SUBSET Bucket
        /\ {"AlertsSuppressed"} \cap Outcome = {}
        /\ {"AlertsPublished"} \cap Outcome = {}
    BY DEF Bucket, Outcome
  <2>7. QED
    BY <2>2, <2>4, <2>5, <2>6, FailTally, ProceedTally, FinishTally
    DEF Processable
<1>3. QED
  BY <1>1, <1>2

LEMMA EmitTally ==
  ASSUME TypeInv, OwnedInv, TallyInv, NEW i \in Invocation, EmitCounts(i)
  PROVE  TallyInv'
<1>1. /\ pc[i] = "next" /\ pc' = [pc EXCEPT ![i] = "respond"]
      /\ emitted' = emitted \cup totals[i]
      /\ UNCHANGED <<batch, todo, cur, counts, failures, totals, queueVars>>
  BY DEF EmitCounts
<1>2. \A m \in Msg : Outcomes(m, emitted') =
                       Outcomes(m, emitted) \cup Outcomes(m, totals[i])
  BY <1>1 DEF Outcomes
<1>3. \A j \in Invocation : RunTally(j)'
  BY <1>1 DEF TallyInv, RunTally, Outcomes, TypeInv, TypeOK
<1>4. ASSUME NEW m \in Msg, Processable(m)
      PROVE  ValidTally(m)'
  <2>1. ValidTally(m)
    BY <1>4 DEF TallyInv
  <2>2. \A j \in Invocation : Open(j)' = Open(j)
    BY <1>1 DEF Open
  <2>3. CASE m \notin batch[i]
    <3>1. Outcomes(m, totals[i]) = {}
      BY <2>3 DEF TallyInv, RunTally
    <3>2. Outcomes(m, emitted') = Outcomes(m, emitted)
      BY <1>2, <3>1
    <3>3. Answering(m)' <=> Answering(m)
      BY <1>1, <2>3 DEF Answering, TypeInv, TypeOK
    <3>4. ASSUME NEW j \in Invocation, m \in batch'[j]
          PROVE  pc'[j] = pc[j]
      BY <1>1, <2>3, <3>4 DEF TypeInv, TypeOK
    <3>5. QED
      BY <1>1, <2>1, <2>2, <3>2, <3>3, <3>4
      DEF ValidTally, queueVars, InOne, Outcomes
  <2>4. CASE m \in batch[i]
    <3>1. /\ status[m] = "queued"
          /\ \A j \in Invocation \ {i} : m \notin batch[j]
      BY <2>4 DEF OwnedInv, SoleOwner
    <3>2. ~Answering(m) /\ Answering(m)'
      BY <1>1, <2>4, <3>1 DEF Answering, TypeInv, TypeOK
    <3>3. Outcomes(m, emitted') = Outcomes(m, totals[i])
      BY <1>2, <2>1, <3>1, <3>2 DEF ValidTally
    <3>4. QED
      BY <1>1, <2>1, <2>2, <2>4, <3>1, <3>2, <3>3
      DEF ValidTally, queueVars, Outcomes
  <2>5. QED
    BY <2>3, <2>4
<1>5. ASSUME NEW m \in Msg, ~Processable(m)
      PROVE  BrokenTally(m)'
  <2>1. BrokenTally(m)
    BY <1>5 DEF TallyInv
  <2>2. Held(m)' <=> Held(m)
    BY <1>1 DEF Held
  <2>3. QED
    BY <1>1, <1>2, <2>1, <2>2 DEF BrokenTally, Outcomes, queueVars
<1>6. QED
  BY <1>3, <1>4, <1>5 DEF TallyInv, Processable

\* What an owned batch has processed is on the queue, and its deletion sticks.
LEMMA OwnedResponse ==
  ASSUME NoRedelivery, TypeInv, SoleOwner, NEW i \in Invocation, Respond(i)
  PROVE  status' = [m \in Msg |-> IF m \in batch[i] \ failures[i]
                                  THEN "deleted" ELSE status[m]]
<1>1. status' = [m \in Msg |-> IF m \in Processed(i) /\ status[m] = "queued"
                               THEN "deleted" ELSE status[m]]
  BY DEF NoRedelivery, Respond
<1>2. \A m \in Processed(i) : status[m] = "queued"
  BY DEF Processed, SoleOwner
<1>3. QED
  BY <1>1, <1>2 DEF Processed

\* The response: what is deleted has its outcome in CloudWatch, what comes
\* back has none, and what is broken has the one it can have.
LEMMA RespondTally ==
  ASSUME NoRedelivery, TypeInv, OwnedInv, TallyInv,
         NEW i \in Invocation, Respond(i)
  PROVE  TallyInv'
<1>1. /\ pc[i] = "respond" /\ todo[i] = {} /\ cur[i] = NoMsg
      /\ status' = [m \in Msg |-> IF m \in batch[i] \ failures[i]
                                  THEN "deleted" ELSE status[m]]
      /\ pc' = [pc EXCEPT ![i] = "idle"]
      /\ batch' = [batch EXCEPT ![i] = {}]
      /\ todo' = [todo EXCEPT ![i] = {}]
      /\ cur' = [cur EXCEPT ![i] = NoMsg]
      /\ counts' = [counts EXCEPT ![i] = {}]
      /\ failures' = [failures EXCEPT ![i] = {}]
      /\ totals' = [totals EXCEPT ![i] = {}]
      /\ UNCHANGED <<receives, emitted>>
  BY OwnedResponse DEF Respond, Release, OwnedInv, DurableInv, WorkInv
<1>2. /\ \A j \in Invocation \ {i} :
           /\ pc'[j] = pc[j] /\ batch'[j] = batch[j] /\ totals'[j] = totals[j]
           /\ todo'[j] = todo[j] /\ Open(j)' = Open(j)
      /\ pc'[i] = "idle" /\ batch'[i] = {} /\ totals'[i] = {}
  BY <1>1 DEF Open, TypeInv, TypeOK
<1>3. \A j \in Invocation : RunTally(j)'
  <2>1. RunTally(i)'
    BY <1>1 DEF RunTally, Outcomes, TypeInv, TypeOK
  <2>2. ASSUME NEW j \in Invocation \ {i}
        PROVE  RunTally(j)'
    BY <1>1, <1>2 DEF TallyInv, RunTally, Outcomes, TypeInv, TypeOK
  <2>3. QED
    BY <2>1, <2>2
<1>4. ASSUME NEW m \in Msg, Processable(m)
      PROVE  ValidTally(m)'
  <2>1. ValidTally(m)
    BY <1>4 DEF TallyInv
  <2>2. CASE m \notin batch[i]
    <3>1. status'[m] = status[m] /\ (Answering(m)' <=> Answering(m))
      BY <1>1, <1>2, <2>2 DEF Answering
    <3>2. QED
      BY <1>1, <1>2, <2>1, <2>2, <3>1 DEF ValidTally, Outcomes
  <2>3. CASE m \in batch[i]
    <3>1. /\ status[m] = "queued"
          /\ \A j \in Invocation : m \notin batch'[j]
      BY <1>2, <2>3 DEF OwnedInv, SoleOwner
    <3>2. m \in failures[i] <=> m \in Open(i)
      BY <1>1, DataAssumption DEF Open
    <3>3. Outcomes(m, emitted) = Outcomes(m, totals[i])
      BY <1>1, <2>1, <2>3 DEF ValidTally
    <3>4. IF m \in failures[i] THEN Outcomes(m, emitted) = {}
                               ELSE InOne(Outcomes(m, emitted))
      BY <2>1, <2>3, <3>2, <3>3 DEF ValidTally
    <3>5. QED
      BY <1>1, <2>3, <3>1, <3>4 DEF ValidTally, Outcomes
  <2>4. QED
    BY <2>2, <2>3
<1>5. ASSUME NEW m \in Msg, ~Processable(m)
      PROVE  BrokenTally(m)'
  <2>1. BrokenTally(m)
    BY <1>5 DEF TallyInv
  <2>2. LevelOf[m] = "INVALID" /\ m \in batch[i] =>
          <<m, "InvalidPayloads">> \in emitted
    BY <1>1, <2>1 DEF BrokenTally, TallyInv, RunTally
  <2>3. Held(m) => Held(m)' \/ m \in batch[i]
    BY <1>2 DEF Held
  <2>4. status'[m] = "dlq" => status[m] = "dlq"
    BY <1>1
  <2>5. QED
    BY <1>1, <1>2, <2>1, <2>2, <2>3, <2>4 DEF BrokenTally, Outcomes
<1>6. QED
  BY <1>3, <1>4, <1>5 DEF TallyInv, Processable

LEMMA NextTallyInv ==
  OneDelivery /\ TypeInv /\ OwnedInv /\ TallyInv /\ [Next]_vars => TallyInv'
<1>1. SUFFICES ASSUME OneDelivery, TypeInv, OwnedInv, TallyInv, [Next]_vars
               PROVE  TallyInv'
  OBVIOUS
<1>2. ASSUME NEW m \in Msg, Send(m) \/ DeadLetter(m) \/ Redrive(m)
      PROVE  TallyInv'
  BY <1>1, <1>2, QueueTally DEF OneDelivery
<1>3. ASSUME NEW i \in Invocation, NEW B \in SUBSET Msg, ReceiveBatch(i, B)
      PROVE  TallyInv'
  BY <1>1, <1>3, ReceiveTally DEF OneDelivery
<1>4. ASSUME NEW i \in Invocation, Step(i)
      PROVE  TallyInv'
  BY <1>1, <1>4, CallTally, EmitTally, RespondTally
  DEF Step, OwnedInv, OneDelivery
<1>5. ASSUME Tick \/ \E d \in Device : ExpireSlot(d)
      PROVE  TallyInv'
  BY <1>1, <1>5, QuietTally DEF Tick, ExpireSlot, runVars, queueVars
<1>6. CASE UNCHANGED vars
  BY <1>1, <1>6, QuietTally DEF vars, runVars, queueVars
<1>7. QED
  BY <1>1, <1>2, <1>3, <1>4, <1>5, <1>6 DEF Next, OneDelivery, NoCrash, Crash, Timeout

LEMMA TallyAlways == OneDelivery => (Spec => [](TypeInv /\ OwnedInv /\ TallyInv))
<1>1. SUFFICES ASSUME OneDelivery
               PROVE  Spec => [](TypeInv /\ OwnedInv /\ TallyInv)
  OBVIOUS
<1>2. Spec => [](TypeInv /\ OwnedInv)
  <2>1. Spec => [](TypeInv /\ DurableInv /\ SoleOwner)
    BY <1>1, OwnerInvariant DEF OneDelivery
  <2>2. TypeInv /\ DurableInv /\ SoleOwner => TypeInv /\ OwnedInv
    BY DEF OwnedInv
  <2>3. QED
    BY <2>1, <2>2, PTL
<1>3. TypeInv /\ OwnedInv /\ TallyInv /\ [Next]_vars => TallyInv'
  BY <1>1, NextTallyInv
<1>4. QED
  BY <1>2, <1>3, InitTallyInv, PTL DEF Spec

\* Whatever calls fail, take effect and raise, or are repeated: as long as no
\* execution dies and the queue delivers a message again only after its
\* visibility timeout, every deleted message is in exactly one outcome counter,
\* and a valid message that ends in the DLQ in none.
THEOREM AckedInOneBucket == OneDelivery => (Spec => []AcksAreCounted)
<1>1. SUFFICES ASSUME OneDelivery PROVE Spec => []AcksAreCounted
  OBVIOUS
<1>2. TypeInv /\ OwnedInv /\ TallyInv => AcksAreCounted
  <2>1. SUFFICES ASSUME TypeInv, OwnedInv, TallyInv, NEW m \in Msg
                 PROVE  /\ status[m] = "deleted" => InOne(Outcomes(m, emitted))
                        /\ Processable(m) /\ status[m] = "dlq" =>
                             Outcomes(m, emitted) = {}
    BY DEF AcksAreCounted, InOne, Outcomes
  <2>2. status[m] = "deleted" => Processable(m)
    BY <2>1 DEF OwnedInv, DurableInv, AckedIsDurable
  <2>3. Processable(m) => ValidTally(m)
    BY <2>1 DEF TallyInv
  <2>4. status[m] = "dlq" => ~Answering(m)
    BY <2>1 DEF OwnedInv, SoleOwner, Answering
  <2>5. QED
    BY <2>2, <2>3, <2>4 DEF ValidTally
<1>3. QED
  BY <1>1, <1>2, TallyAlways, PTL

-----------------------------------------------------------------------------
(***************************************************************************)
(* Isolation.  While no call fails, no execution dies and nothing is       *)
(* delivered beside its owner (replies may be lost and repeated by the     *)
(* SDK), a valid message is received once: its batch acknowledges it,      *)
(* whatever else is in it.                                                 *)
(***************************************************************************)
HealthyCalls == Faults \subseteq {"retried"} /\ ThrottleWithinSlack

HealthyInv ==
  \A m \in Msg : Processable(m) =>
    /\ status[m] # "dlq"
    /\ \A i \in Invocation : m \notin failures[i]
    /\ status[m] \in {"unsent", "queued"} /\ receives[m] > 0 => Held(m)

LEMMA InitHealthyInv == Init => HealthyInv
  BY DEF Init, HealthyInv

\* An execution fails no valid message.
LEMMA HealthyCall ==
  ASSUME TypeInv, HealthyInv, NEW i \in Invocation, NEW n \in Msg,
         UNCHANGED <<queueVars, batch>>,
         \/ ~Processable(n) /\ \E e : FailItem(i, n, e)
         \/ \E call, c : Proceed(i, n, call, c)
         \/ \E b : FinishItem(i, n, b)
  PROVE  HealthyInv'
<1>1. \A j \in Invocation, m \in Msg :
        m \in failures'[j] => m \in failures[j] \/ ~Processable(m)
  BY DEF FailItem, Proceed, FinishItem, TypeInv, TypeOK
<1>2. \A m \in Msg : Held(m)' <=> Held(m)
  BY DEF Held
<1>3. QED
  BY <1>1, <1>2 DEF HealthyInv, queueVars

LEMMA HealthyCalling ==
  ASSUME TypeInv, DurableInv, HealthyInv, HealthyCalls, NEW i \in Invocation,
         \/ \E m \in Msg : RejectPayload(i, m) \/ StoreRawCopy(i, m)
         \/ TryAcquireAlertSlot(i)
         \/ PublishAlert(i)
         \/ StoreTelemetry(i)
  PROVE  HealthyInv'
<1>1. Reply \subseteq {"ok", "retried"} /\ PlainReply = {"ok"}
  BY DEF HealthyCalls, Reply, PlainReply
<1>2. ASSUME NEW m \in Msg, RejectPayload(i, m)
      PROVE  HealthyInv'
  BY <1>2, HealthyCall DEF RejectPayload, TakeItem, Processable
<1>3. ASSUME NEW m \in Msg, StoreRawCopy(i, m)
      PROVE  HealthyInv'
  BY <1>1, <1>3, HealthyCall DEF StoreRawCopy, TakeItem
<1>4. ASSUME TryAcquireAlertSlot(i) \/ PublishAlert(i) \/ StoreTelemetry(i)
      PROVE  HealthyInv'
  <2>1. cur[i] \in Msg /\ UNCHANGED <<queueVars, batch>>
    BY <1>4
    DEF TryAcquireAlertSlot, PublishAlert, StoreTelemetry, TypeInv, InHand
  <2>2. \/ \E call, c : Proceed(i, cur[i], call, c)
        \/ \E b : FinishItem(i, cur[i], b)
    BY <1>1, <1>4 DEF TryAcquireAlertSlot, PublishAlert, StoreTelemetry
  <2>3. QED
    BY <2>1, <2>2, HealthyCall
<1>5. QED
  BY <1>2, <1>3, <1>4

LEMMA NextHealthyInv ==
  HealthyCalls /\ TypeInv /\ OwnedInv /\ HealthyInv /\ [Next]_vars => HealthyInv'
<1>1. SUFFICES ASSUME HealthyCalls, TypeInv, OwnedInv, HealthyInv, [Next]_vars
               PROVE  HealthyInv'
  OBVIOUS
<1>2. ASSUME NEW m \in Msg, Send(m) \/ DeadLetter(m) \/ Redrive(m)
      PROVE  HealthyInv'
  <2>1. ~Held(m)
    BY <1>1, <1>2
    DEF HealthyCalls, Send, DeadLetter, Redrive, Deliverable, Held, OwnedInv,
        SoleOwner, TypeInv, TypeOK
  <2>2. Processable(m) => ~DeadLetter(m) /\ ~Redrive(m)
    BY <1>1, <2>1, TimeAssumption
    DEF DeadLetter, Redrive, Deliverable, HealthyInv
  <2>3. UNCHANGED <<batch, failures>>
    BY <1>2 DEF Send, DeadLetter, Redrive, runVars
  <2>4. /\ status' = [status EXCEPT ![m] = status'[m]]
        /\ receives' = [receives EXCEPT ![m] = receives'[m]]
        /\ Processable(m) =>
             /\ status[m] = "unsent" /\ status'[m] = "queued"
             /\ receives'[m] = receives[m]
    BY <1>1, <1>2, <2>2 DEF Send, DeadLetter, Redrive, TypeInv, TypeOK
  <2>5. QED
    BY <1>1, <2>3, <2>4 DEF HealthyInv, Held, TypeInv, TypeOK
<1>3. ASSUME NEW i \in Invocation, NEW B \in SUBSET Msg, ReceiveBatch(i, B)
      PROVE  HealthyInv'
  <2>1. /\ batch[i] = {} /\ batch' = [batch EXCEPT ![i] = B]
        /\ UNCHANGED <<status, failures>>
        /\ \A m \in Msg \ B : receives'[m] = receives[m]
    BY <1>1, <1>3 DEF ReceiveBatch, OwnedInv, DurableInv, WorkInv
  <2>2. \A m \in Msg : Held(m) \/ m \in B => Held(m)'
    BY <1>1, <2>1 DEF Held, TypeInv, TypeOK
  <2>3. QED
    BY <1>1, <2>1, <2>2 DEF HealthyInv
<1>4. ASSUME NEW i \in Invocation, EmitCounts(i)
      PROVE  HealthyInv'
  BY <1>1, <1>4 DEF EmitCounts, HealthyInv, Held, queueVars
<1>5. ASSUME NEW i \in Invocation, Respond(i)
      PROVE  HealthyInv'
  <2>1. /\ status' = [m \in Msg |-> IF m \in batch[i] \ failures[i]
                                    THEN "deleted" ELSE status[m]]
        /\ batch' = [batch EXCEPT ![i] = {}]
        /\ failures' = [failures EXCEPT ![i] = {}]
        /\ receives' = receives
    BY <1>1, <1>5, OwnedResponse
    DEF HealthyCalls, NoRedelivery, OwnedInv, Respond, Release
  <2>2. \A m \in Msg : Held(m) => Held(m)' \/ m \in batch[i]
    BY <1>1, <2>1 DEF Held, TypeInv, TypeOK
  <2>3. \A j \in Invocation : failures'[j] \subseteq failures[j]
    BY <1>1, <2>1 DEF TypeInv, TypeOK
  <2>4. QED
    BY <1>1, <2>1, <2>2, <2>3 DEF HealthyInv
<1>6. ASSUME Tick \/ (\E d \in Device : ExpireSlot(d)) \/ UNCHANGED vars
      PROVE  HealthyInv'
  BY <1>1, <1>6
  DEF Tick, ExpireSlot, vars, runVars, queueVars, HealthyInv, Held
<1>7. QED
  BY <1>1, <1>2, <1>3, <1>4, <1>5, <1>6, HealthyCalling
  DEF Next, Step, HealthyCalls, OwnedInv, Crash, Timeout

LEMMA HealthyAlways == HealthyCalls => (Spec => [](TypeInv /\ OwnedInv /\ HealthyInv))
<1>1. SUFFICES ASSUME HealthyCalls
               PROVE  Spec => [](TypeInv /\ OwnedInv /\ HealthyInv)
  OBVIOUS
<1>2. Spec => [](TypeInv /\ OwnedInv)
  <2>1. NoRedelivery /\ ThrottleWithinSlack
    BY <1>1 DEF HealthyCalls, NoRedelivery
  <2>2. Spec => [](TypeInv /\ DurableInv /\ SoleOwner)
    BY <2>1, OwnerInvariant
  <2>3. TypeInv /\ DurableInv /\ SoleOwner => TypeInv /\ OwnedInv
    BY DEF OwnedInv
  <2>4. QED
    BY <2>2, <2>3, PTL
<1>3. TypeInv /\ OwnedInv /\ HealthyInv /\ [Next]_vars => HealthyInv'
  BY <1>1, NextHealthyInv
<1>4. QED
  BY <1>2, <1>3, InitHealthyInv, PTL DEF Spec

\* While no call fails and nothing is delivered beside its owner, a valid message
\* never reaches the DLQ, however many broken messages share its batches.
THEOREM OnlyPoisonIsParked == HealthyCalls => (Spec => []PoisonIsIsolated)
<1>1. SUFFICES ASSUME HealthyCalls PROVE Spec => []PoisonIsIsolated
  OBVIOUS
<1>2. HealthyInv => PoisonIsIsolated
  BY DEF HealthyInv, PoisonIsIsolated
<1>3. QED
  BY <1>1, <1>2, HealthyAlways, PTL

\* The dashboard's sentence holds when no call fails, nothing is delivered beside
\* its owner and no validation raises anything but a contract violation: every
\* message that is done is in exactly one outcome counter.
NothingRaises == \A m \in Msg : LevelOf[m] # "RAISES"

THEOREM EveryMessageInOneBucket ==
  HealthyCalls /\ NothingRaises => (Spec => []OneBucketPerMessage)
<1>1. SUFFICES ASSUME HealthyCalls, NothingRaises
               PROVE  Spec => []OneBucketPerMessage
  OBVIOUS
<1>2. OneDelivery
  BY <1>1 DEF HealthyCalls, OneDelivery, NoCrash, NoRedelivery
<1>3. TypeInv /\ OwnedInv /\ TallyInv /\ HealthyInv => OneBucketPerMessage
  <2>1. SUFFICES ASSUME TypeInv, OwnedInv, TallyInv, HealthyInv,
                        NEW m \in Msg, status[m] \in {"deleted", "dlq"}
                 PROVE  InOne(Outcomes(m, emitted))
    BY DEF OneBucketPerMessage, InOne, Outcomes
  <2>2. CASE status[m] = "deleted"
    BY <2>1, <2>2 DEF OwnedInv, DurableInv, AckedIsDurable, TallyInv, ValidTally
  <2>3. CASE status[m] = "dlq"
    <3>1. LevelOf[m] = "INVALID" /\ ~Processable(m)
      BY <1>1, <2>1, <2>3 DEF HealthyInv, NothingRaises, Processable
    <3>2. Outcomes(m, emitted) = {"InvalidPayloads"}
      BY <2>1, <2>3, <3>1 DEF TallyInv, BrokenTally, Outcomes, Outcome
    <3>3. QED
      BY <3>2 DEF InOne, Outcome
  <2>4. QED
    BY <2>1, <2>2, <2>3
<1>4. QED
  BY <1>1, <1>2, <1>3, TallyAlways, HealthyAlways, PTL

-----------------------------------------------------------------------------
(***************************************************************************)
(* With every fault, executions that die included: a batch has an outcome  *)
(* in its totals for each message it is about to acknowledge, and emits    *)
(* them first.                                                             *)
(***************************************************************************)
RunSeen(i) ==
  /\ pc[i] = "respond" => totals[i] \subseteq emitted
  /\ \A m \in batch[i] \ Open(i) : Outcomes(m, totals[i]) # {}

SeenInv == NoSilentAck /\ \A i \in Invocation : RunSeen(i)

LEMMA InitSeenInv == Init => SeenInv
  BY DEF Init, SeenInv, NoSilentAck, RunSeen

\* Steps that delete nothing, in which every execution stays right.
LEMMA SeenStep ==
  ASSUME SeenInv,
         emitted \subseteq emitted',
         \A m \in Msg : status'[m] = "deleted" => status[m] = "deleted",
         \A i \in Invocation : RunSeen(i)'
  PROVE  SeenInv'
  BY DEF SeenInv, NoSilentAck

\* Executions that a step leaves alone stay right.
LEMMA RunStaysSeen ==
  ASSUME SeenInv, NEW j \in Invocation, emitted \subseteq emitted',
         /\ pc'[j] = pc[j] /\ batch'[j] = batch[j] /\ todo'[j] = todo[j]
         /\ cur'[j] = cur[j] /\ failures'[j] = failures[j]
         /\ totals'[j] = totals[j]
  PROVE  RunSeen(j)'
  BY DEF SeenInv, RunSeen, Open, Outcomes

\* A call about message n: n stays open, or has got an outcome.
LEMMA CallSeen ==
  ASSUME TypeInv, SeenInv, NEW i \in Invocation, NEW n \in Msg,
         UNCHANGED <<status, emitted, batch>>,
         todo' = [todo EXCEPT ![i] = todo'[i]], todo[i] \subseteq todo'[i] \cup {n},
         cur[i] \in {n, NoMsg},
         \/ \E e \in {"ContractViolationError", "AlertPublishError", "Exception"} :
              FailItem(i, n, e)
         \/ \E call \in {"claim", "publish", "store"}, counted \in SUBSET Bucket :
              Proceed(i, n, call, counted)
         \/ \E b \in Outcome : FinishItem(i, n, b)
  PROVE  SeenInv'
<1>1. /\ pc' = [pc EXCEPT ![i] = pc'[i]] /\ pc'[i] # "respond"
      /\ cur' = [cur EXCEPT ![i] = cur'[i]]
      /\ failures' = [failures EXCEPT ![i] = failures'[i]]
      /\ totals' = [totals EXCEPT ![i] = totals'[i]]
      /\ totals[i] \subseteq totals'[i]
  BY DEF FailItem, Proceed, FinishItem, TypeInv, TypeOK
<1>2. n \in failures'[i] \/ cur'[i] = n \/ Outcomes(n, totals'[i]) # {}
  BY DEF FailItem, Proceed, FinishItem, TypeInv, TypeOK, Outcomes
<1>3. failures[i] \subseteq failures'[i]
  BY DEF FailItem, Proceed, FinishItem, TypeInv, TypeOK
<1>4. batch'[i] = batch[i] /\ batch[i] \subseteq Msg
  BY DEF TypeInv, TypeOK
<1>5. RunSeen(i)'
  <2>1. ASSUME NEW m \in batch'[i] \ Open(i)'
        PROVE  Outcomes(m, totals'[i]) # {}
    <3>1. CASE m = n
      BY <1>2, <2>1, <3>1 DEF Open
    <3>2. CASE m # n
      <4>1. m \in batch[i] \ Open(i)
        BY <1>3, <1>4, <2>1, <3>2, DataAssumption DEF Open
      <4>2. Outcomes(m, totals[i]) # {}
        BY <4>1 DEF SeenInv, RunSeen
      <4>3. QED
        BY <1>1, <4>2 DEF Outcomes
    <3>3. QED
      BY <3>1, <3>2
  <2>2. QED
    BY <1>1, <2>1 DEF RunSeen
<1>6. ASSUME NEW j \in Invocation \ {i}
      PROVE  RunSeen(j)'
  <2>1. /\ pc'[j] = pc[j] /\ batch'[j] = batch[j] /\ todo'[j] = todo[j]
        /\ cur'[j] = cur[j] /\ failures'[j] = failures[j]
        /\ totals'[j] = totals[j]
    BY <1>1 DEF TypeInv, TypeOK
  <2>2. QED
    BY <2>1, RunStaysSeen
<1>7. QED
  BY <1>5, <1>6, SeenStep

LEMMA StepSeen ==
  ASSUME TypeInv, DurableInv, SeenInv, NEW i \in Invocation,
         \/ \E m \in Msg : RejectPayload(i, m) \/ StoreRawCopy(i, m)
         \/ TryAcquireAlertSlot(i)
         \/ PublishAlert(i)
         \/ StoreTelemetry(i)
  PROVE  SeenInv'
<1>1. ASSUME NEW m \in Msg, RejectPayload(i, m) \/ StoreRawCopy(i, m)
      PROVE  SeenInv'
  <2>1. /\ UNCHANGED <<status, emitted, batch>> /\ cur[i] = NoMsg
        /\ todo' = [todo EXCEPT ![i] = @ \ {m}]
        /\ todo[i] \subseteq todo'[i] \cup {m}
    BY <1>1
    DEF RejectPayload, StoreRawCopy, TakeItem, DurableInv, WorkInv, queueVars,
        TypeInv, TypeOK
  <2>2. \/ FailItem(i, m, "ContractViolationError") \/ FailItem(i, m, "Exception")
        \/ Proceed(i, m, "claim", {}) \/ Proceed(i, m, "store", {})
    BY <1>1 DEF RejectPayload, StoreRawCopy
  <2>3. QED
    BY <2>1, <2>2, CallSeen
<1>2. ASSUME TryAcquireAlertSlot(i) \/ PublishAlert(i) \/ StoreTelemetry(i)
      PROVE  SeenInv'
  <2>1. /\ pc[i] \in {"claim", "publish", "store"}
        /\ UNCHANGED <<status, emitted, batch, todo>>
    BY <1>2 DEF TryAcquireAlertSlot, PublishAlert, StoreTelemetry, queueVars
  <2>2. cur[i] \in Msg /\ todo' = [todo EXCEPT ![i] = todo'[i]]
    BY <2>1 DEF TypeInv, TypeOK, InHand
  <2>3. \/ \E e \in {"AlertPublishError", "Exception"} : FailItem(i, cur[i], e)
        \/ Proceed(i, cur[i], "publish", {})
        \/ Proceed(i, cur[i], "store", {"AlertsSuppressed"})
        \/ Proceed(i, cur[i], "store", {"AlertsPublished"})
        \/ \E b \in Outcome : FinishItem(i, cur[i], b)
    BY <1>2 DEF TryAcquireAlertSlot, PublishAlert, StoreTelemetry, Outcome
  <2>4. {"AlertsSuppressed"} \in SUBSET Bucket /\ {"AlertsPublished"} \in SUBSET Bucket
    BY DEF Bucket
  <2>5. QED
    BY <2>1, <2>2, <2>3, <2>4, CallSeen
<1>3. QED
  BY <1>1, <1>2

\* An execution that ends, in whatever way, forgets its batch.
LEMMA ReleaseSeen ==
  ASSUME TypeInv, SeenInv, NEW i \in Invocation, Release(i),
         emitted' = emitted
  PROVE  \A j \in Invocation : RunSeen(j)'
<1>1. /\ pc' = [pc EXCEPT ![i] = "idle"] /\ batch' = [batch EXCEPT ![i] = {}]
      /\ todo' = [todo EXCEPT ![i] = {}] /\ cur' = [cur EXCEPT ![i] = NoMsg]
      /\ failures' = [failures EXCEPT ![i] = {}]
      /\ totals' = [totals EXCEPT ![i] = {}]
  BY DEF Release
<1>2. RunSeen(i)'
  BY <1>1 DEF RunSeen, TypeInv, TypeOK
<1>3. ASSUME NEW j \in Invocation \ {i}
      PROVE  RunSeen(j)'
  <2>1. /\ pc'[j] = pc[j] /\ batch'[j] = batch[j] /\ todo'[j] = todo[j]
        /\ cur'[j] = cur[j] /\ failures'[j] = failures[j]
        /\ totals'[j] = totals[j]
    BY <1>1 DEF TypeInv, TypeOK
  <2>2. QED
    BY <2>1, RunStaysSeen
<1>4. QED
  BY <1>2, <1>3

LEMMA EndSeen ==
  ASSUME TypeInv, DurableInv, SeenInv, NEW i \in Invocation,
         EmitCounts(i) \/ Respond(i) \/ Crash(i) \/ Timeout(i)
  PROVE  SeenInv'
<1>1. CASE EmitCounts(i)
  <2>1. /\ pc' = [pc EXCEPT ![i] = "respond"] /\ emitted' = emitted \cup totals[i]
        /\ UNCHANGED <<status, batch, todo, cur, failures, totals>>
    BY <1>1 DEF EmitCounts, queueVars
  <2>2. \A j \in Invocation : Open(j)' = Open(j)
    BY <2>1 DEF Open
  <2>3. ASSUME NEW j \in Invocation
        PROVE  RunSeen(j)'
    <3>1. RunSeen(j)
      BY DEF SeenInv
    <3>2. pc'[j] = "respond" => totals'[j] \subseteq emitted'
      BY <2>1, <3>1 DEF RunSeen, TypeInv, TypeOK
    <3>3. \A m \in batch'[j] \ Open(j)' : Outcomes(m, totals'[j]) # {}
      BY <2>1, <2>2, <3>1 DEF RunSeen
    <3>4. QED
      BY <3>2, <3>3 DEF RunSeen, Outcomes
  <2>4. QED
    BY <2>1, <2>3, SeenStep
<1>2. CASE Crash(i) \/ Timeout(i)
  <2>1. Release(i) /\ UNCHANGED <<status, emitted>>
    BY <1>2 DEF Crash, Timeout, queueVars
  <2>2. QED
    BY <2>1, ReleaseSeen, SeenStep
<1>3. CASE Respond(i)
  <2>1. /\ pc[i] = "respond" /\ todo[i] = {} /\ cur[i] = NoMsg
        /\ \A m \in Msg : status'[m] = "deleted" =>
             status[m] = "deleted" \/ m \in batch[i] \ failures[i]
        /\ Release(i) /\ emitted' = emitted
    BY <1>3 DEF Respond, Processed, DurableInv, WorkInv, TypeInv, TypeOK
  <2>2. ASSUME NEW m \in Msg, m \in batch[i] \ failures[i]
        PROVE  \E c \in Outcome : <<m, c>> \in emitted
    <3>1. m \notin Open(i)
      BY <2>1, <2>2, DataAssumption DEF Open
    <3>2. Outcomes(m, totals[i]) # {} /\ totals[i] \subseteq emitted
      BY <2>1, <2>2, <3>1 DEF SeenInv, RunSeen
    <3>3. QED
      BY <3>2 DEF Outcomes
  <2>3. NoSilentAck'
    BY <2>1, <2>2 DEF SeenInv, NoSilentAck
  <2>4. QED
    BY <2>1, <2>3, ReleaseSeen DEF SeenInv
<1>4. QED
  BY <1>1, <1>2, <1>3

LEMMA QuietSeen ==
  ASSUME SeenInv,
         UNCHANGED <<pc, batch, todo, cur, failures, totals, emitted>>,
         \A m \in Msg : status'[m] = "deleted" => status[m] = "deleted"
  PROVE  SeenInv'
<1>1. \A i \in Invocation : RunSeen(i)'
  BY RunStaysSeen
<1>2. QED
  BY <1>1, SeenStep

LEMMA NextSeenInv ==
  TypeInv /\ DurableInv /\ SeenInv /\ [Next]_vars => SeenInv'
<1>1. SUFFICES ASSUME TypeInv, DurableInv, SeenInv, [Next]_vars
               PROVE  SeenInv'
  OBVIOUS
<1>2. ASSUME NEW m \in Msg, Send(m) \/ DeadLetter(m) \/ Redrive(m)
      PROVE  SeenInv'
  <2>1. /\ UNCHANGED <<runVars, emitted>>
        /\ \A n \in Msg : status'[n] = "deleted" => status[n] = "deleted"
    BY <1>1, <1>2 DEF Send, DeadLetter, Redrive, TypeInv, TypeOK
  <2>2. QED
    BY <1>1, <2>1, QuietSeen DEF runVars
<1>3. ASSUME NEW i \in Invocation, NEW B \in SUBSET Msg, ReceiveBatch(i, B)
      PROVE  SeenInv'
  <2>1. /\ UNCHANGED <<status, cur, failures, totals, emitted>>
        /\ pc' = [pc EXCEPT ![i] = "next"] /\ batch' = [batch EXCEPT ![i] = B]
        /\ todo' = [todo EXCEPT ![i] = B]
    BY <1>3 DEF ReceiveBatch
  <2>2. RunSeen(i)'
    BY <1>1, <2>1 DEF RunSeen, Open, TypeInv, TypeOK
  <2>3. ASSUME NEW j \in Invocation \ {i}
        PROVE  RunSeen(j)'
    <3>1. /\ pc'[j] = pc[j] /\ batch'[j] = batch[j] /\ todo'[j] = todo[j]
          /\ cur'[j] = cur[j] /\ failures'[j] = failures[j]
          /\ totals'[j] = totals[j]
      BY <1>1, <2>1 DEF TypeInv, TypeOK
    <3>2. QED
      BY <1>1, <2>1, <3>1, RunStaysSeen
  <2>4. QED
    BY <1>1, <2>1, <2>2, <2>3, SeenStep
<1>4. ASSUME NEW i \in Invocation, Step(i) \/ Crash(i) \/ Timeout(i)
      PROVE  SeenInv'
  BY <1>1, <1>4, StepSeen, EndSeen DEF Step
<1>5. ASSUME Tick \/ \E d \in Device : ExpireSlot(d)
      PROVE  SeenInv'
  BY <1>1, <1>5, QuietSeen DEF Tick, ExpireSlot, runVars, queueVars
<1>6. CASE UNCHANGED vars
  BY <1>1, <1>6, QuietSeen DEF vars, runVars, queueVars
<1>7. QED
  BY <1>1, <1>2, <1>3, <1>4, <1>5, <1>6 DEF Next

\* Whatever calls fail, wherever executions die and however often the queue
\* delivers it: a message is deleted only after CloudWatch has got an outcome
\* for it.
THEOREM NoAckIsSilent == Spec => []NoSilentAck
<1>1. TypeInv /\ DurableInv /\ SeenInv /\ [Next]_vars => SeenInv'
  BY NextSeenInv
<1>2. SeenInv => NoSilentAck
  BY DEF SeenInv
<1>3. QED
  BY <1>1, <1>2, InitTypeInv, NextTypeInv, InitDurableInv, NextDurableInv,
     InitSeenInv, PTL DEF Spec

=============================================================================
