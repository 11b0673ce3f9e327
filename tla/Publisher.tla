----------------------------- MODULE Publisher ------------------------------
(***************************************************************************)
(* The MQTT smoke publisher: an operator runs the script again and again,  *)
(* and every run connects, publishes MessagesPerDevice rounds of one       *)
(* reading per device at QoS 1, disconnects and exits.                     *)
(*                                                                         *)
(* Time is in ticks; time.time() is clock \div Second.  The wall clock is  *)
(* assumed not to be set back.  Interrupting the script is not modelled.   *)
(***************************************************************************)
EXTENDS Contract

CONSTANTS
  Second,        \* ticks of a second
  Interval,      \* --interval, in ticks
  Rounds,        \* --messages-per-device
  DeviceCounts,  \* values of --devices the operator tries
  MaxSerial,     \* 9999, the last serial of four digits
  MaxRuns,       \* bound of the model: runs of the script
  MaxClock       \* bound of the model: ticks

ASSUME PublisherAssumption ==
  /\ Second \in Nat \ {0}
  /\ Interval \in Nat
  /\ Rounds \in Nat \ {0}
  /\ DeviceCounts \subseteq Int
  /\ MaxSerial \in Nat \ {0}
  /\ MaxRuns \in Nat
  /\ MaxClock \in Nat

VARIABLES
  clock,      \* now
  run,        \* runs of the script so far
  phase,      \* where main is
  args,       \* its options
  seqBase,    \* seq_base
  round,      \* round_index
  index,      \* index of the next device of the round
  wakeAt,     \* when time.sleep is over
  failures,   \* publish_all saw a failure
  exit,       \* exit status of the last run
  delivered   \* readings that reached the broker, with the run that sent them

publisherVars == <<clock, run, phase, args, seqBase, round, index, wakeAt,
                   failures, exit, delivered>>

Now == clock \div Second

\* authorized: the IoT policy accepts the topic and the client of the run.
Options == [devices : DeviceCounts, dryRun : BOOLEAN, critical : BOOLEAN,
            authorized : BOOLEAN]

PublisherInit ==
  /\ clock = 0
  /\ run = 0
  /\ phase = "idle"
  /\ args = [devices |-> 0, dryRun |-> FALSE, critical |-> FALSE,
             authorized |-> FALSE]
  /\ seqBase = 0
  /\ round = 0
  /\ index = 0
  /\ wakeAt = 0
  /\ failures = FALSE
  /\ exit = 0
  /\ delivered = {}

\* device_ids: a serial of more than four digits is no device_id any more.
DeviceIdOf(device) ==
  IF device + 1 <= MaxSerial THEN Text("valid") ELSE Text("invalid")

\* build_payload
BuildPayload(reading) ==
  [schema_version |-> Text("valid"),
   device_id      |-> DeviceIdOf(reading.device),
   gateway_id     |-> Text("valid"),
   ts_device      |-> Text("valid"),
   seq            |-> IntOf(reading.seq),
   lat            |-> FloatOf(4620 + reading.device),
   lon            |-> FloatOf(-74040 - reading.device),
   elevation_m    |-> FloatOf(2900000),
   temp_c         |-> FloatOf(IF reading.critical THEN 55000 ELSE 16500),
   rh_pct         |-> FloatOf(IF reading.critical THEN 12000 ELSE 72000),
   smoke_ppm      |-> FloatOf(IF reading.critical THEN 85000 ELSE 100),
   wind_speed_ms  |-> FloatOf(2500),
   wind_dir_deg   |-> FloatOf(120000),
   battery_pct    |-> FloatOf(95000),
   status         |-> Text("valid")]

\* check_contract returns, the contract being importable.
CheckContract(payload) == ValidatePayload(payload) = "record"

\* A dry run checks the first reading of every device; a violation is not
\* caught.
DryRunStatus(options) ==
  IF \A device \in 0..(options.devices - 1) :
       CheckContract(BuildPayload([device |-> device, seq |-> Now,
                                   critical |-> options.critical]))
  THEN 0 ELSE 1

\* parse_args accepts the options.
ParseArgs(options) == 1 <= options.devices /\ options.devices <= MaxSerial

Exit(status) == phase' = "idle" /\ exit' = status

\* main until the connection: wrong options or a wrong configuration exit
\* with 2, a dry run checks its payloads.
Start ==
  /\ phase = "idle"
  /\ run < MaxRuns
  /\ run' = run + 1
  /\ args' \in Options
  /\ \/ ~ParseArgs(args') /\ Exit(2)
     \/ ParseArgs(args') /\ args'.dryRun /\ Exit(DryRunStatus(args'))
     \/ ParseArgs(args') /\ ~args'.dryRun /\ Exit(2)
     \/ /\ ParseArgs(args')
        /\ ~args'.dryRun
        /\ phase' = "connecting"
        /\ UNCHANGED exit
  /\ UNCHANGED <<clock, seqBase, round, index, wakeAt, failures, delivered>>

\* Mutation of SeqBase: the counter starts at 0, as a device's would.
SeqBase_Zero == 0

\* Epoch-based seq.
SeqBase == Now

\* CONNACK arrives and publish_all begins, or connect raises: exit 1.
Connect ==
  /\ phase = "connecting"
  /\ \/ /\ phase' = "publishing"
        /\ seqBase' = SeqBase
        /\ UNCHANGED exit
     \/ Exit(1) /\ UNCHANGED seqBase
  /\ round' = 0
  /\ index' = 0
  /\ wakeAt' = clock
  /\ failures' = FALSE
  /\ UNCHANGED <<clock, run, args, delivered>>

Reading ==
  [run |-> run, device |-> index, seq |-> seqBase + round,
   critical |-> args.critical]

\* Mutation of Advance: the inner loop takes one device too many.
Advance_OneTooMany ==
  IF index < args.devices
  THEN index' = index + 1 /\ UNCHANGED round
  ELSE index' = 0 /\ round' = round + 1

\* The inner loop moves to the next device, or to the next round.
Advance ==
  IF index + 1 < args.devices
  THEN index' = index + 1 /\ UNCHANGED round
  ELSE index' = 0 /\ round' = round + 1

\* Mutation of Failed: the except branch only prints.
Failed_Swallowed(outcome) == FALSE

\* future.result raises; for "unacked" the PUBACK is late, not missing.
Failed(outcome) == outcome # "acked"

\* One publish with its future, and the sleep after it.
Publish ==
  /\ phase = "publishing"
  /\ round < Rounds
  /\ clock >= wakeAt
  /\ \E outcome \in IF args.authorized THEN {"acked", "unacked", "lost"}
                                       ELSE {"lost"} :
       /\ delivered' = IF outcome = "lost" THEN delivered
                                           ELSE delivered \cup {Reading}
       /\ failures' = (failures \/ Failed(outcome))
  /\ Advance
  /\ wakeAt' = clock + Interval
  /\ UNCHANGED <<clock, run, phase, args, seqBase, exit>>

\* The loops are over; disconnect may raise, and so fail a run that sent all.
Disconnect ==
  /\ phase = "publishing"
  /\ round = Rounds
  /\ clock >= wakeAt
  /\ \/ Exit(IF failures THEN 1 ELSE 0)
     \/ Exit(1)
  /\ UNCHANGED <<clock, run, args, seqBase, round, index, wakeAt, failures,
                 delivered>>

ClockTick ==
  /\ clock < MaxClock
  /\ clock' = clock + 1
  /\ UNCHANGED <<run, phase, args, seqBase, round, index, wakeAt, failures,
                 exit, delivered>>

PublisherNext == Start \/ Connect \/ Publish \/ Disconnect \/ ClockTick

PublisherSpec == PublisherInit /\ [][PublisherNext]_publisherVars

=============================================================================
