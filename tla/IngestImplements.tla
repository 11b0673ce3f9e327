-------------------------- MODULE IngestImplements --------------------------
(***************************************************************************)
(* Every step of the ingest path is a step of Pipeline, or changes nothing *)
(* that Pipeline sees.                                                     *)
(***************************************************************************)
EXTENDS IngestDurability

LEMMA InitPromise == Init => Promise!Init
  BY DEF Init, Place, PlaceOf, Promise!Init

\* A message that moves alone moves alone for Pipeline, too.
LEMMA MoveOne ==
  ASSUME TypeInv,
         NEW m \in Msg,
         NEW to,
         status' = [status EXCEPT ![m] = to]
  PROVE  Place' = [Place EXCEPT ![m] = PlaceOf[to]]
<1>1. \A n \in Msg : PlaceOf[status'[n]] =
        IF n = m THEN PlaceOf[to] ELSE PlaceOf[status[n]]
  BY DEF TypeInv, TypeOK
<1>2. QED
  BY <1>1 DEF Place

LEMMA Places ==
  /\ PlaceOf["unsent"] = "unsent"
  /\ PlaceOf["queued"] = "pending"
  /\ PlaceOf["deleted"] = "acknowledged"
  /\ PlaceOf["dlq"] = "parked"
  BY DEF PlaceOf

LEMMA QueueStep ==
  ASSUME TypeInv,
         NEW m \in Msg,
         Send(m) \/ DeadLetter(m) \/ Redrive(m)
  PROVE  Promise!Next
<1>1. UNCHANGED <<archive, hot>>
  BY DEF Send, DeadLetter, Redrive, storeVars
<1>2. CASE Send(m)
  <2>1. status[m] = "unsent" /\ status' = [status EXCEPT ![m] = "queued"]
    BY <1>2 DEF Send
  <2>2. Place[m] = "unsent"
    BY <2>1, Places DEF Place
  <2>3. Place' = [Place EXCEPT ![m] = PlaceOf["queued"]]
    BY <2>1, MoveOne
  <2>4. Promise!Offer(m)
    BY <1>1, <2>2, <2>3, Places DEF Promise!Offer
  <2>5. QED
    BY <2>4 DEF Promise!Next
<1>3. CASE DeadLetter(m)
  <2>1. status[m] = "queued" /\ status' = [status EXCEPT ![m] = "dlq"]
    BY <1>3 DEF DeadLetter, Deliverable
  <2>2. Place[m] = "pending"
    BY <2>1, Places DEF Place
  <2>3. Place' = [Place EXCEPT ![m] = PlaceOf["dlq"]]
    BY <2>1, MoveOne
  <2>4. Promise!Park(m)
    BY <1>1, <2>2, <2>3, Places DEF Promise!Park
  <2>5. QED
    BY <2>4 DEF Promise!Next
<1>4. CASE Redrive(m)
  <2>1. status[m] = "dlq" /\ status' = [status EXCEPT ![m] = "queued"]
    BY <1>4 DEF Redrive
  <2>2. Place[m] = "parked"
    BY <2>1, Places DEF Place
  <2>3. Place' = [Place EXCEPT ![m] = PlaceOf["queued"]]
    BY <2>1, MoveOne
  <2>4. Promise!Retry(m)
    BY <1>1, <2>2, <2>3, Places DEF Promise!Retry
  <2>5. QED
    BY <2>4 DEF Promise!Next
<1>5. QED
  BY <1>2, <1>3, <1>4

LEMMA HiddenStep ==
  ASSUME UNCHANGED <<status, archive, hot>>
  PROVE  UNCHANGED Promise!vars
  BY DEF Place, Promise!vars

\* What an execution works on has been offered to Pipeline, too.
LEMMA BusyPlaces ==
  ASSUME TypeInv, DurableInv
  PROVE  \A i \in Invocation : \A m \in batch[i] : m \in Msg /\ Place[m] # "unsent"
  BY DEF TypeInv, TypeOK, DurableInv, SentInv, Place, PlaceOf

LEMMA ArchiveStep ==
  ASSUME TypeInv, DurableInv,
         NEW i \in Invocation,
         NEW m \in Msg,
         StoreRawCopy(i, m)
  PROVE  [Promise!Next]_Promise!vars
<1>1. /\ m \in Msg
      /\ Place[m] # "unsent"
      /\ Processable(m)
      /\ UNCHANGED <<status, hot>>
      /\ archive' \in {archive, archive \cup {KeyOf[m]}}
  BY BusyPlaces
  DEF StoreRawCopy, TakeItem, queueVars, DurableInv, WorkInv
<1>2. CASE archive' = archive
  BY <1>1, <1>2, HiddenStep
<1>3. CASE archive' = archive \cup {KeyOf[m]}
  <2>1. Promise!Archive(m)
    BY <1>1, <1>3 DEF Place, Promise!Archive
  <2>2. QED
    BY <2>1 DEF Promise!Next
<1>4. QED
  BY <1>1, <1>2, <1>3

LEMMA StoreStep ==
  ASSUME TypeInv, DurableInv,
         NEW i \in Invocation,
         StoreTelemetry(i)
  PROVE  [Promise!Next]_Promise!vars
<1>1. /\ cur[i] \in Msg
      /\ Place[cur[i]] # "unsent"
      /\ Processable(cur[i])
      /\ KeyOf[cur[i]] \in archive
      /\ UNCHANGED <<status, archive>>
      /\ hot' \in {hot, hot \cup {KeyOf[cur[i]]}}
  BY BusyPlaces
  DEF StoreTelemetry, queueVars, DurableInv, WorkInv, TypeInv, InHand
<1>2. CASE hot' = hot
  BY <1>1, <1>2, HiddenStep
<1>3. CASE hot' = hot \cup {KeyOf[cur[i]]}
  <2>1. Promise!Store(cur[i])
    BY <1>1, <1>3 DEF Place, Promise!Store
  <2>2. QED
    BY <1>1, <2>1 DEF Promise!Next
<1>4. QED
  BY <1>1, <1>2, <1>3

LEMMA RespondStep ==
  ASSUME TypeInv, DurableInv,
         NEW i \in Invocation,
         Respond(i)
  PROVE  Promise!Next
<1>1. PICK gone \in SUBSET Processed(i) :
        /\ UNCHANGED <<archive, hot>>
        /\ status' = [m \in Msg |-> IF m \in gone /\ status[m] = "queued"
                                    THEN "deleted" ELSE status[m]]
  BY DEF Respond, storeVars
<1>2. \A m \in Processed(i) : m \in Msg /\ Stored(m)
  <2>1. pc[i] = "respond" /\ todo[i] = {} /\ cur[i] = NoMsg
    BY DEF Respond, DurableInv, WorkInv
  <2>2. QED
    BY <2>1, DataAssumption DEF Processed, DurableInv, WorkInv, TypeInv, TypeOK
<1>3. PICK done \in SUBSET Msg : done = {m \in gone : status[m] = "queued"}
  BY <1>2
<1>4. status' = [m \in Msg |-> IF m \in done THEN "deleted" ELSE status[m]]
  BY <1>1, <1>3
<1>5. \A m \in done : m \in Msg /\ status[m] = "queued" /\ Stored(m)
  BY <1>2, <1>3
<1>6. Promise!Acknowledge(done)
  BY <1>1, <1>4, <1>5 DEF Stored, Place, PlaceOf, Promise!Acknowledge
<1>7. QED
  BY <1>6 DEF Promise!Next

LEMMA NextPromise ==
  TypeInv /\ DurableInv /\ [Next]_vars => [Promise!Next]_Promise!vars
<1>1. SUFFICES ASSUME TypeInv, DurableInv, [Next]_vars
               PROVE  [Promise!Next]_Promise!vars
  OBVIOUS
<1>2. CASE \E m \in Msg : Send(m) \/ DeadLetter(m) \/ Redrive(m)
  BY <1>1, <1>2, QueueStep
<1>3. CASE \E i \in Invocation, m \in Msg : StoreRawCopy(i, m)
  BY <1>1, <1>3, ArchiveStep
<1>4. CASE \E i \in Invocation : StoreTelemetry(i)
  BY <1>1, <1>4, StoreStep
<1>5. CASE \E i \in Invocation : Respond(i)
  BY <1>1, <1>5, RespondStep
<1>6. CASE \/ \E i \in Invocation, B \in SUBSET Msg : ReceiveBatch(i, B)
           \/ \E i \in Invocation, m \in Msg : RejectPayload(i, m)
           \/ \E i \in Invocation :
                \/ TryAcquireAlertSlot(i) \/ PublishAlert(i) \/ EmitCounts(i)
                \/ Crash(i) \/ Timeout(i)
           \/ \E d \in Device : ExpireSlot(d)
           \/ Tick
           \/ UNCHANGED vars
  <2>1. UNCHANGED <<status, archive, hot>>
    BY <1>6
    DEF ReceiveBatch, RejectPayload, TryAcquireAlertSlot, PublishAlert,
        EmitCounts, Crash, Timeout, ExpireSlot, Tick, vars, queueVars, storeVars
  <2>2. QED
    BY <2>1, HiddenStep
<1>7. QED
  BY <1>1, <1>2, <1>3, <1>4, <1>5, <1>6 DEF Next, Step

\* The ingest path is the pipeline it promises to be: with every interleaving
\* of executions, every failed or half-failed call, every retry and every second
\* delivery of a message, what is seen of it is messages that wait, readings archived and then stored,
\* messages acknowledged once stored, and messages parked in the DLQ.
THEOREM Implementation == Spec => ImplementsPipeline
<1>1. Spec => Promise!Init /\ [][Promise!Next]_Promise!vars
  BY InitPromise, NextPromise, TypeAndDurable, PTL DEF Spec
<1>2. QED
  BY <1>1, PTL DEF ImplementsPipeline, Promise!Spec

=============================================================================
