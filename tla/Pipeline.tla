------------------------------ MODULE Pipeline ------------------------------
(***************************************************************************)
(* What the ingest path promises about a message and its reading, without  *)
(* queue timers, executions, retries or failures: a reading is archived    *)
(* before it is stored, a message goes away only when its reading is       *)
(* stored, and a message that cannot be processed is parked, never lost.   *)
(***************************************************************************)
CONSTANTS Msg, Key, KeyOf,
          Valid   \* the messages that satisfy contract v1

VARIABLES place, archived, stored

vars == <<place, archived, stored>>

Init ==
  /\ place = [m \in Msg |-> "unsent"]
  /\ archived = {}
  /\ stored = {}

\* A device's message enters the system.
Offer(m) ==
  /\ place[m] = "unsent"
  /\ place' = [place EXCEPT ![m] = "pending"]
  /\ UNCHANGED <<archived, stored>>

\* The raw body of a valid message is archived.  It need not be pending any
\* more: a queue that delivers at least once may have several copies under way.
Archive(m) ==
  /\ place[m] # "unsent"
  /\ m \in Valid
  /\ archived' = archived \cup {KeyOf[m]}
  /\ UNCHANGED <<place, stored>>

\* Its reading is stored, which needs the archived copy.
Store(m) ==
  /\ place[m] # "unsent"
  /\ m \in Valid
  /\ KeyOf[m] \in archived
  /\ stored' = stored \cup {KeyOf[m]}
  /\ UNCHANGED <<place, archived>>

\* Messages whose readings are stored are acknowledged together.
Acknowledge(done) ==
  /\ \A m \in done : place[m] = "pending" /\ m \in Valid /\ KeyOf[m] \in stored
  /\ place' = [m \in Msg |-> IF m \in done THEN "acknowledged" ELSE place[m]]
  /\ UNCHANGED <<archived, stored>>

\* The system gives up on a message and keeps it.
Park(m) ==
  /\ place[m] = "pending"
  /\ place' = [place EXCEPT ![m] = "parked"]
  /\ UNCHANGED <<archived, stored>>

\* An operator has a parked message tried again.
Retry(m) ==
  /\ place[m] = "parked"
  /\ place' = [place EXCEPT ![m] = "pending"]
  /\ UNCHANGED <<archived, stored>>

Next ==
  \/ \E m \in Msg : Offer(m) \/ Archive(m) \/ Store(m) \/ Park(m) \/ Retry(m)
  \/ \E done \in SUBSET Msg : Acknowledge(done)

Spec == Init /\ [][Next]_vars

=============================================================================
