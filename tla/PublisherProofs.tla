--------------------------- MODULE PublisherProofs --------------------------
(***************************************************************************)
(* Both ends of contract v1.  The smoke publisher never sends a reading    *)
(* twice in two runs, for all numbers of devices, rounds and runs,         *)
(* provided that a round takes at least a second: the defaults (3 devices, *)
(* 0.5 s) do, one device does not.  The validation is the contract, for    *)
(* every body of JSON values; what no attempt can store is at the ends of  *)
(* the number range or the calendar; and the publisher is heard.           *)
(***************************************************************************)
EXTENDS Edge, TLAPS

\* A round of publishes, each followed by the sleep, lasts a second or more.
Paced ==
  \A options \in Options :
    ParseArgs(options) => options.devices * Interval >= Second

\* The types the argument needs.
PubTypes ==
  /\ clock \in Nat
  /\ run \in Nat
  /\ phase \in {"idle", "connecting", "publishing"}
  /\ seqBase \in Nat
  /\ round \in Nat
  /\ index \in Nat
  /\ wakeAt \in Nat
  /\ \A x \in delivered : x.run \in Nat /\ x.seq \in Nat /\ x.run <= run

\* The sleeps so far have lasted as long as the loop has come.
Slept ==
  phase = "publishing" =>
    /\ index < args.devices
    /\ round < Rounds \/ index = 0
    /\ (seqBase + round) * Second + index * Interval <= wakeAt

\* What a finished run sent is older than now.
Past ==
  \A x \in delivered :
    x.run < run \/ phase # "publishing" => (x.seq + 1) * Second <= clock

\* The current run is ahead of all earlier ones, and behind its loop.
Ahead ==
  phase = "publishing" =>
    \A x \in delivered :
      /\ x.run < run => x.seq < seqBase
      /\ x.run = run => \/ x.seq < seqBase + round
                        \/ x.seq = seqBase + round /\ index > 0

Valid == phase # "idle" => args \in Options /\ ParseArgs(args)

PubInv == PubTypes /\ Valid /\ Slept /\ Past /\ Ahead /\ NoReuse

-----------------------------------------------------------------------------

\* time.time() in whole seconds is not ahead of the clock.
LEMMA SecondsBelow ==
  ASSUME NEW c \in Nat, NEW s \in Nat \ {0}
  PROVE  c \div s \in Nat /\ (c \div s) * s <= c
  BY Z3

\* A second that is over is before the one that has begun.
LEMMA SecondsOver ==
  ASSUME NEW a \in Nat, NEW c \in Nat, NEW s \in Nat \ {0}, (a + 1) * s <= c
  PROVE  a < c \div s
  BY Z3

-----------------------------------------------------------------------------

LEMMA PubInit == EdgeInit => PubInv
  BY PublisherAssumption
  DEF EdgeInit, PublisherInit, PubInv, PubTypes, Valid, Slept, Past, Ahead,
      NoReuse

\* What PubInv speaks of.
pubVars == <<clock, run, phase, args, seqBase, round, index, wakeAt, delivered>>

LEMMA PubStutter ==
  ASSUME PubInv, UNCHANGED pubVars PROVE PubInv'
  BY DEF PubInv, PubTypes, Valid, Slept, Past, Ahead, NoReuse, pubVars,
         ParseArgs, Options

\* Starting the script, or refusing to, makes the runs so far earlier ones.
LEMMA StartStep ==
  ASSUME PubInv, Start PROVE PubInv'
  <1> USE PublisherAssumption DEF PubInv, PubTypes
  <1>1. /\ run' = run + 1
        /\ phase = "idle"
        /\ phase' = "idle" \/ (phase' = "connecting" /\ ParseArgs(args'))
        /\ args' \in Options
        /\ UNCHANGED <<clock, seqBase, round, index, wakeAt, delivered>>
    BY DEF Start, Exit
  <1>2. PubTypes'
    BY <1>1
  <1>3. Valid' /\ Slept' /\ Ahead' /\ NoReuse'
    BY <1>1 DEF Valid, Slept, Ahead, NoReuse, ParseArgs
  <1>4. Past'
    BY <1>1 DEF Past
  <1> QED BY <1>2, <1>3, <1>4

\* The seq_base of a run is ahead of every second a finished run has used.
LEMMA ConnectStep ==
  ASSUME PubInv, Connect PROVE PubInv'
  <1> USE PublisherAssumption DEF PubInv, PubTypes
  <1>1. /\ phase = "connecting"
        /\ phase' \in {"idle", "publishing"}
        /\ phase' = "publishing" => seqBase' = clock \div Second
        /\ phase' = "idle" => seqBase' = seqBase
        /\ round' = 0 /\ index' = 0 /\ wakeAt' = clock
        /\ UNCHANGED <<clock, run, args, delivered>>
    BY DEF Connect, Exit, SeqBase, Now
  <1>2. clock \div Second \in Nat /\ (clock \div Second) * Second <= clock
    BY SecondsBelow
  <1>3. PubTypes' /\ Valid' /\ NoReuse'
    BY <1>1, <1>2 DEF Valid, NoReuse, ParseArgs
  <1>4. Past'
    BY <1>1 DEF Past
  <1>5. Slept'
    <2> SUFFICES ASSUME phase' = "publishing" PROVE Slept'
      BY DEF Slept
    <2>1. ParseArgs(args) /\ args.devices \in Int
      BY <1>1 DEF Valid, Options
    <2>2. 0 < args.devices
      BY <2>1 DEF ParseArgs
    <2>3. (seqBase' + 0) * Second + 0 * Interval <= clock
      BY <1>1, <1>2
    <2> QED BY <1>1, <2>2, <2>3 DEF Slept
  <1>6. Ahead'
    <2> SUFFICES ASSUME phase' = "publishing", NEW x \in delivered
                 PROVE  x.seq < seqBase'
      BY <1>1 DEF Ahead
    <2>1. (x.seq + 1) * Second <= clock
      BY <1>1 DEF Past
    <2>2. x.seq < clock \div Second
      BY <2>1, SecondsOver
    <2> QED BY <1>1, <2>2
  <1> QED BY <1>3, <1>4, <1>5, <1>6

\* A reading of the current run is new, and its sleep pays for its place.
LEMMA PublishStep ==
  ASSUME Paced, PubInv, Publish PROVE PubInv'
  <1> USE PublisherAssumption DEF PubInv, PubTypes
  <1>1. /\ phase = "publishing" /\ round < Rounds /\ clock >= wakeAt
        /\ delivered' = delivered \/ delivered' = delivered \cup {Reading}
        /\ wakeAt' = clock + Interval
        /\ UNCHANGED <<clock, run, phase, args, seqBase>>
    BY DEF Publish
  <1>2. /\ args.devices \in Int /\ args.devices * Interval >= Second
        /\ index < args.devices
    BY <1>1 DEF Valid, Options, Paced, Slept
  <1>3. \/ /\ index + 1 < args.devices /\ index' = index + 1 /\ round' = round
        \/ /\ index + 1 = args.devices /\ index' = 0 /\ round' = round + 1
    BY <1>2 DEF Publish, Advance
  <1>4. /\ Reading.run = run
        /\ Reading.seq = seqBase + round
    BY DEF Reading
  <1>5. PubTypes'
    BY <1>1, <1>3, <1>4
  <1>6. Valid'
    BY <1>1 DEF Valid, ParseArgs
  <1>7. Slept'
    <2>1. (seqBase + round) * Second + index * Interval <= clock
      BY <1>1 DEF Slept
    <2>2. CASE index + 1 < args.devices /\ index' = index + 1 /\ round' = round
      <3>1. (index + 1) * Interval = index * Interval + Interval
        OBVIOUS
      <3>2. (seqBase + round) * Second \in Int /\ index * Interval \in Int
        OBVIOUS
      <3>3. (seqBase + round) * Second + (index + 1) * Interval
              <= clock + Interval
        BY <2>1, <3>1, <3>2
      <3> QED BY <1>1, <2>2, <3>3 DEF Slept
    <2>3. CASE index + 1 = args.devices /\ index' = 0 /\ round' = round + 1
      <3>1. (index + 1) * Interval = index * Interval + Interval
        OBVIOUS
      <3>2. (index + 1) * Interval >= Second
        BY <1>2, <2>3
      <3>3. (seqBase + (round + 1)) * Second = (seqBase + round) * Second + Second
        OBVIOUS
      <3>4. /\ (seqBase + round) * Second \in Int
            /\ index * Interval \in Int
        OBVIOUS
      <3>5. (seqBase + (round + 1)) * Second <= clock + Interval
        BY <2>1, <3>1, <3>2, <3>3, <3>4
      <3>6. 0 * Interval = 0
        OBVIOUS
      <3>7. 0 < args.devices
        BY <1>2
      <3>8. (seqBase + (round + 1)) * Second \in Int
        OBVIOUS
      <3> QED BY <1>1, <2>3, <3>5, <3>6, <3>7, <3>8 DEF Slept
    <2> QED BY <1>3, <2>2, <2>3
  <1>8. Past'
    <2> SUFFICES ASSUME NEW x \in delivered', x.run < run
                 PROVE  (x.seq + 1) * Second <= clock
      BY <1>1 DEF Past
    <2>1. x \in delivered
      BY <1>1, <1>4
    <2> QED BY <2>1 DEF Past
  <1>9. Ahead'
    <2> SUFFICES ASSUME NEW x \in delivered'
                 PROVE  /\ x.run < run => x.seq < seqBase
                        /\ x.run = run => \/ x.seq < seqBase + round'
                                          \/ /\ x.seq = seqBase + round'
                                             /\ index' > 0
      BY <1>1 DEF Ahead
    <2>1. CASE x \in delivered
      BY <1>1, <1>3, <2>1 DEF Ahead
    <2>2. CASE x = Reading
      BY <1>3, <1>4, <2>2
    <2> QED BY <1>1, <2>1, <2>2
  <1>10. NoReuse'
    <2> SUFFICES ASSUME NEW x \in delivered', NEW y \in delivered',
                        x.run # y.run
                 PROVE  x.device # y.device \/ x.seq # y.seq
      BY DEF NoReuse
    <2>1. CASE x \in delivered /\ y \in delivered
      BY <2>1 DEF NoReuse
    <2>2. CASE x = Reading /\ y \in delivered
      BY <1>1, <1>4, <2>2 DEF Ahead
    <2>3. CASE y = Reading /\ x \in delivered
      BY <1>1, <1>4, <2>3 DEF Ahead
    <2> QED BY <1>1, <2>1, <2>2, <2>3
  <1> QED BY <1>5, <1>6, <1>7, <1>8, <1>9, <1>10

\* A run that is over has slept through every second it used.
LEMMA DisconnectStep ==
  ASSUME PubInv, Disconnect PROVE PubInv'
  <1> USE PublisherAssumption DEF PubInv, PubTypes
  <1>1. /\ phase = "publishing" /\ round = Rounds /\ clock >= wakeAt
        /\ phase' = "idle"
        /\ UNCHANGED <<clock, run, args, seqBase, round, index, wakeAt, delivered>>
    BY DEF Disconnect, Exit
  <1>2. PubTypes' /\ Valid' /\ Slept' /\ Ahead' /\ NoReuse'
    BY <1>1 DEF Valid, Slept, Ahead, NoReuse
  <1>3. index = 0 /\ (seqBase + round) * Second + index * Interval <= clock
    BY <1>1 DEF Slept
  <1>4. (seqBase + round) * Second <= clock
    BY <1>3
  <1>5. ASSUME NEW x \in delivered PROVE (x.seq + 1) * Second <= clock
    <2>1. CASE x.run = run
      <3>1. x.seq + 1 <= seqBase + round
        BY <1>1, <1>3, <2>1 DEF Ahead
      <3>2. (x.seq + 1) * Second <= (seqBase + round) * Second
        BY <3>1, Z3
      <3>3. (x.seq + 1) * Second \in Int /\ (seqBase + round) * Second \in Int
        OBVIOUS
      <3> QED BY <1>4, <3>2, <3>3
    <2>2. CASE x.run < run
      BY <2>2 DEF Past
    <2> QED BY <2>1, <2>2
  <1>6. Past'
    BY <1>1, <1>5 DEF Past
  <1> QED BY <1>2, <1>6

LEMMA ClockStep ==
  ASSUME PubInv, ClockTick PROVE PubInv'
  <1> USE PublisherAssumption DEF PubInv, PubTypes
  <1>1. /\ clock' = clock + 1
        /\ UNCHANGED <<run, phase, args, seqBase, round, index, wakeAt, delivered>>
    BY DEF ClockTick
  <1>2. PubTypes' /\ Valid' /\ Slept' /\ Ahead' /\ NoReuse'
    BY <1>1 DEF Valid, Slept, Ahead, NoReuse, ParseArgs
  <1>3. ASSUME NEW x \in delivered, (x.seq + 1) * Second <= clock
        PROVE  (x.seq + 1) * Second <= clock + 1
    <2>1. (x.seq + 1) * Second \in Int
      OBVIOUS
    <2> QED BY <1>3, <2>1
  <1>4. Past'
    BY <1>1, <1>3 DEF Past
  <1> QED BY <1>2, <1>4

LEMMA PubStep ==
  ASSUME Paced, PubInv, [EdgeNext]_edgeVars PROVE PubInv'
  <1>1. CASE Start        BY <1>1, StartStep
  <1>2. CASE Connect      BY <1>2, ConnectStep
  <1>3. CASE Publish      BY <1>3, PublishStep
  <1>4. CASE Disconnect   BY <1>4, DisconnectStep
  <1>5. CASE ClockTick    BY <1>5, ClockStep
  <1>6. CASE UNCHANGED pubVars
    BY <1>6, PubStutter
  <1>7. ASSUME NEW body, NEW sender, Handle(body, sender)
        PROVE  UNCHANGED pubVars
    BY <1>7 DEF Handle, publisherVars, pubVars
  <1>8. ColdStart => UNCHANGED pubVars
    BY DEF ColdStart, publisherVars, pubVars
  <1>9. UNCHANGED edgeVars => UNCHANGED pubVars
    BY DEF edgeVars, publisherVars, pubVars
  <1> QED
    BY <1>1, <1>2, <1>3, <1>4, <1>5, <1>6, <1>7, <1>8, <1>9
    DEF EdgeNext, PublisherNext

\* Runs of the script whose rounds take a second or more never send the same
\* (device_id, seq) pair, as the comment at seq_base promises for all of them.
THEOREM RerunsAreNotDuplicates ==
  ASSUME Paced PROVE EdgeSpec => []NoReuse
  <1>1. EdgeInit => PubInv
    BY PubInit
  <1>2. PubInv /\ [EdgeNext]_edgeVars => PubInv'
    BY PubStep
  <1>3. PubInv => NoReuse
    BY DEF PubInv
  <1> QED BY <1>1, <1>2, <1>3, PTL DEF EdgeSpec

-----------------------------------------------------------------------------
(***************************************************************************)
(* The exit status, whatever the pace.                                     *)
(***************************************************************************)

HasSent(device, r) ==
  \E x \in delivered : x.run = run /\ x.device = device /\ x.seq = seqBase + r

\* Without a failure so far, all that the loop has passed was delivered.
SentSoFar ==
  phase = "publishing" =>
    /\ index < args.devices
    /\ round < Rounds \/ index = 0
    /\ ~failures =>
         \A device \in 0..(args.devices - 1), r \in 0..(Rounds - 1) :
           r < round \/ (r = round /\ device < index) => HasSent(device, r)

HonestTypes ==
  /\ run \in Nat
  /\ phase \in {"idle", "connecting", "publishing"}
  /\ failures \in BOOLEAN
  /\ round \in Nat
  /\ index \in Nat

HonestInv == HonestTypes /\ Valid /\ SentSoFar /\ ExitCodeIsHonest

LEMMA HonestInit == EdgeInit => HonestInv
  <1> SUFFICES ASSUME EdgeInit PROVE HonestInv
    OBVIOUS
  <1>1. /\ run = 0 /\ phase = "idle" /\ failures = FALSE
        /\ round = 0 /\ index = 0
    BY DEF EdgeInit, PublisherInit
  <1>2. HonestTypes /\ Valid /\ SentSoFar
    BY <1>1 DEF HonestTypes, Valid, SentSoFar
  <1>3. ~(run > 0)
    BY <1>1
  <1>4. ExitCodeIsHonest
    BY <1>3, Zenon DEF ExitCodeIsHonest
  <1> QED BY <1>2, <1>4 DEF HonestInv

\* What HonestInv speaks of.
honestVars == <<run, phase, args, seqBase, round, index, failures, exit, delivered>>

LEMMA HonestStutter ==
  ASSUME HonestInv, UNCHANGED honestVars PROVE HonestInv'
  BY DEF HonestInv, HonestTypes, Valid, SentSoFar, HasSent, ExitCodeIsHonest,
         honestVars, ParseArgs, Options

\* No run exits with 0 before it publishes, except a dry run.
LEMMA HonestStart ==
  ASSUME HonestInv, Start \/ Connect PROVE HonestInv'
  <1> USE PublisherAssumption DEF HonestInv, HonestTypes
  <1>1. CASE Start
    <2>1. /\ phase' = "idle" => exit' # 0 \/ args'.dryRun
          /\ phase' # "publishing"
          /\ phase' # "idle" => ParseArgs(args') /\ args' \in Options
          /\ phase' \in {"idle", "connecting"}
          /\ run' \in Nat
          /\ UNCHANGED <<round, index, failures>>
      BY <1>1 DEF Start, Exit
    <2> QED BY <2>1 DEF Valid, SentSoFar, ExitCodeIsHonest, ParseArgs, Options
  <1>2. CASE Connect
    <2>1. /\ phase = "connecting"
          /\ phase' = "idle" => exit' # 0
          /\ phase' \in {"idle", "publishing"}
          /\ round' = 0 /\ index' = 0 /\ failures' = FALSE
          /\ UNCHANGED <<run, args, delivered>>
      BY <1>2 DEF Connect, Exit
    <2>2. Valid'
      BY <2>1 DEF Valid, ParseArgs
    <2>3. ExitCodeIsHonest'
      BY <2>1 DEF ExitCodeIsHonest
    <2>4. args.devices \in Int /\ 0 < args.devices
      <3>1. args.devices \in Int /\ ParseArgs(args)
        BY <2>1 DEF Valid, Options
      <3> QED BY <3>1 DEF ParseArgs
    <2>5. ASSUME NEW device \in 0..(args.devices - 1), NEW r \in 0..(Rounds - 1)
          PROVE  ~(r < round' \/ (r = round' /\ device < index'))
      BY <2>1, <2>4
    <2>6. SentSoFar'
      BY <2>1, <2>4, <2>5 DEF SentSoFar
    <2> QED BY <2>1, <2>2, <2>3, <2>6
  <1> QED BY <1>1, <1>2

\* A publish that does not fail delivers the reading the loop has reached.
LEMMA HonestPublish ==
  ASSUME HonestInv, Publish PROVE HonestInv'
  <1> USE PublisherAssumption DEF HonestInv, HonestTypes
  <1>1. /\ phase = "publishing" /\ round < Rounds
        /\ failures' \in BOOLEAN
        /\ ~failures' => ~failures /\ delivered' = delivered \cup {Reading}
        /\ delivered \subseteq delivered'
        /\ UNCHANGED <<run, phase, args, seqBase, exit>>
    BY DEF Publish, Failed
  <1>2. args.devices \in Int /\ index < args.devices
    BY <1>1 DEF Valid, Options, SentSoFar
  <1>3. \/ /\ index + 1 < args.devices /\ index' = index + 1 /\ round' = round
        \/ /\ index + 1 = args.devices /\ index' = 0 /\ round' = round + 1
    BY <1>2 DEF Publish, Advance
  <1>4. HonestTypes' /\ Valid' /\ ExitCodeIsHonest'
    BY <1>1, <1>3 DEF Valid, ExitCodeIsHonest, ParseArgs
  <1>5. ASSUME ~failures', NEW device \in 0..(args.devices - 1),
               NEW r \in 0..(Rounds - 1),
               r < round' \/ (r = round' /\ device < index')
        PROVE  HasSent(device, r)'
    <2>1. r < round \/ (r = round /\ device < index) \/ (r = round /\ device = index)
      BY <1>2, <1>3, <1>5
    <2>2. CASE r < round \/ (r = round /\ device < index)
      BY <1>1, <1>5, <2>2 DEF SentSoFar, HasSent
    <2>3. CASE r = round /\ device = index
      <3>1. /\ Reading \in delivered' /\ Reading.run = run
            /\ Reading.device = device /\ Reading.seq = seqBase + r
        BY <1>1, <1>5, <2>3 DEF Reading
      <3> QED BY <1>1, <3>1 DEF HasSent
    <2> QED BY <2>1, <2>2, <2>3
  <1>6. SentSoFar'
    <2>1. index' < args.devices' /\ (round' < Rounds \/ index' = 0)
      BY <1>1, <1>2, <1>3
    <2> QED BY <1>1, <1>5, <2>1 DEF SentSoFar
  <1> QED BY <1>4, <1>6

LEMMA HonestDisconnect ==
  ASSUME HonestInv, Disconnect PROVE HonestInv'
  <1> USE PublisherAssumption DEF HonestInv, HonestTypes
  <1>1. /\ phase = "publishing" /\ round = Rounds /\ phase' = "idle"
        /\ exit' = 0 => ~failures
        /\ UNCHANGED <<run, args, seqBase, round, index, failures, delivered>>
    BY DEF Disconnect, Exit
  <1>2. HonestTypes' /\ Valid' /\ SentSoFar'
    BY <1>1 DEF Valid, SentSoFar
  <1>3. ExitCodeIsHonest'
    BY <1>1 DEF SentSoFar, HasSent, ExitCodeIsHonest
  <1> QED BY <1>2, <1>3

LEMMA HonestStep ==
  ASSUME HonestInv, [EdgeNext]_edgeVars PROVE HonestInv'
  <1>1. CASE Start \/ Connect BY <1>1, HonestStart
  <1>2. CASE Publish          BY <1>2, HonestPublish
  <1>3. CASE Disconnect       BY <1>3, HonestDisconnect
  <1>4. ClockTick => UNCHANGED honestVars
    BY DEF ClockTick, honestVars
  <1>5. ASSUME NEW body, NEW sender, Handle(body, sender)
        PROVE  UNCHANGED honestVars
    BY <1>5 DEF Handle, publisherVars, honestVars
  <1>6. ColdStart \/ UNCHANGED edgeVars => UNCHANGED honestVars
    BY DEF ColdStart, edgeVars, publisherVars, honestVars
  <1> QED
    BY <1>1, <1>2, <1>3, <1>4, <1>5, <1>6, HonestStutter
    DEF EdgeNext, PublisherNext

\* main's exit status 0 means that every reading of the run has reached the
\* broker, for all numbers of devices and rounds and every pattern of failures.
THEOREM ZeroMeansDelivered == EdgeSpec => []ExitCodeIsHonest
  <1>1. HonestInv => ExitCodeIsHonest
    BY DEF HonestInv
  <1> QED BY HonestInit, HonestStep, <1>1, PTL DEF EdgeSpec

-----------------------------------------------------------------------------
(***************************************************************************)
(* The types of publish_all's variables: no bound on devices, rounds, runs *)
(* or time is ever passed.                                                 *)
(***************************************************************************)

RunTypes ==
  /\ clock \in 0..MaxClock
  /\ seqBase \in 0..MaxClock
  /\ Valid
  /\ phase # "idle" => run > 0
  /\ phase = "publishing" => index < args.devices
  /\ EdgeTypeOK

LEMMA RunTypesInit == EdgeInit => RunTypes
  <1> SUFFICES ASSUME EdgeInit PROVE RunTypes
    OBVIOUS
  <1> USE PublisherAssumption DEF EdgeInit, PublisherInit
  <1>1. run = 0 /\ ~(run > 0)
    OBVIOUS
  <1>2. /\ clock \in 0..MaxClock /\ seqBase \in 0..MaxClock
        /\ run \in 0..MaxRuns /\ round \in 0..Rounds
        /\ index \in 0..MaxSerial /\ exit \in 0..2
    OBVIOUS
  <1>3. phase = "idle" /\ failures \in BOOLEAN
    OBVIOUS
  <1>4. delivered = {}
    OBVIOUS
  <1>5. EdgeTypeOK
    BY <1>1, <1>2, <1>3, <1>4, Zenon DEF EdgeTypeOK
  <1> QED BY <1>2, <1>3, <1>5, Zenon DEF RunTypes, Valid

\* Seconds are fewer than ticks.
LEMMA SecondsWithin ==
  ASSUME NEW c \in Nat, NEW s \in Nat \ {0}, NEW max \in Nat, c <= max
  PROVE  c \div s \in 0..max
  BY Z3

LEMMA RunTypesStep ==
  ASSUME RunTypes, [EdgeNext]_edgeVars PROVE RunTypes'
  <1> USE PublisherAssumption DEF RunTypes, EdgeTypeOK
  <1>1. CASE Start
    <2>1. /\ phase' \in {"idle", "connecting"}
          /\ phase' # "idle" => ParseArgs(args')
          /\ args' \in Options /\ exit' \in 0..2
          /\ run' \in 0..MaxRuns /\ run' > 0
          /\ UNCHANGED <<clock, seqBase, round, index, failures>>
      BY <1>1 DEF Start, Exit, DryRunStatus
    <2>2. delivered' = delivered
      BY <1>1 DEF Start
    <2> QED BY <2>1, <2>2 DEF Valid, ParseArgs
  <1>2. CASE Connect
    <2>1. /\ phase = "connecting"
          /\ phase' \in {"idle", "publishing"} /\ exit' \in 0..2
          /\ round' = 0 /\ index' = 0 /\ failures' = FALSE
          /\ seqBase' \in {seqBase, clock \div Second}
          /\ UNCHANGED <<clock, run, args, delivered>>
      BY <1>2 DEF Connect, Exit, SeqBase, Now
    <2>2. clock \div Second \in 0..MaxClock
      BY SecondsWithin
    <2>3. args.devices \in Int /\ ParseArgs(args)
      BY <2>1 DEF Valid, Options
    <2>4. 0 < args.devices
      BY <2>3 DEF ParseArgs
    <2>5. Valid'
      BY <2>1 DEF Valid, ParseArgs
    <2>6. run' > 0 /\ run' \in 0..MaxRuns /\ args' \in Options
      BY <2>1
    <2>7. /\ seqBase' \in 0..MaxClock /\ clock' \in 0..MaxClock
          /\ round' \in 0..Rounds /\ index' \in 0..MaxSerial
          /\ index' < args'.devices
      BY <2>1, <2>2, <2>4
    <2>8. EdgeTypeOK'
      BY <2>1, <2>6, <2>7
    <2> QED BY <2>5, <2>6, <2>7, <2>8
  <1>3. CASE Publish
    <2>1. /\ phase = "publishing" /\ round < Rounds
          /\ failures' \in BOOLEAN
          /\ delivered' \subseteq delivered \cup {Reading}
          /\ UNCHANGED <<clock, run, phase, args, seqBase, exit>>
      BY <1>3 DEF Publish, Failed
    <2>2. /\ args.devices \in Int /\ args.devices <= MaxSerial
          /\ args.critical \in BOOLEAN
      BY <2>1 DEF Valid, Options, ParseArgs
    <2>3. /\ index' \in 0..MaxSerial /\ index' < args.devices
          /\ round' \in 0..Rounds
      BY <1>3, <2>1, <2>2 DEF Publish, Advance
    <2>4. Reading \in [run : 1..MaxRuns, device : 0..MaxSerial - 1,
                       seq : 0..MaxClock + Rounds, critical : BOOLEAN]
      <3>1. /\ run \in 1..MaxRuns
            /\ index \in 0..MaxSerial - 1
            /\ seqBase + round \in 0..MaxClock + Rounds
        BY <2>1, <2>2
      <3> QED BY <2>2, <3>1 DEF Reading
    <2>5. Valid'
      BY <2>1 DEF Valid, ParseArgs
    <2> QED BY <2>1, <2>3, <2>4, <2>5
  <1>4. CASE Disconnect
    <2>1. /\ phase' = "idle" /\ exit' \in 0..2
          /\ UNCHANGED <<clock, run, args, seqBase, round, index, failures,
                         delivered>>
      BY <1>4 DEF Disconnect, Exit
    <2> QED BY <2>1 DEF Valid
  <1>5. CASE ClockTick
    <2>1. /\ clock' \in 0..MaxClock
          /\ UNCHANGED <<run, phase, args, seqBase, round, index, failures, exit,
                         delivered>>
      BY <1>5 DEF ClockTick
    <2> QED BY <2>1 DEF Valid, ParseArgs
  <1>6. UNCHANGED publisherVars => RunTypes'
    BY DEF publisherVars, Valid, ParseArgs
  <1>7. ASSUME NEW body, NEW sender, Handle(body, sender)
        PROVE  UNCHANGED publisherVars
    BY <1>7 DEF Handle
  <1>8. ColdStart \/ UNCHANGED edgeVars => UNCHANGED publisherVars
    BY DEF ColdStart, edgeVars
  <1> QED
    BY <1>1, <1>2, <1>3, <1>4, <1>5, <1>6, <1>7, <1>8
    DEF EdgeNext, PublisherNext

LEMMA RunTypesAlways == EdgeSpec => []RunTypes
  BY RunTypesInit, RunTypesStep, PTL DEF EdgeSpec

\* For all numbers of devices, rounds and runs: the loops stay within their
\* bounds, and every reading names a device of the run and a second of it.
THEOREM EdgeTypeCorrect == EdgeSpec => []EdgeTypeOK
  <1>1. RunTypes => EdgeTypeOK
    BY DEF RunTypes
  <1> QED BY RunTypesAlways, <1>1, PTL

-----------------------------------------------------------------------------
(***************************************************************************)
(* The validation against the contract, for every JSON body.               *)
(***************************************************************************)

\* What json.loads makes of a value.  Unbounded is as far as the scale of
\* Contract goes.
IsJson(v) ==
  \/ \E n \in -Unbounded..Unbounded : v = IntOf(n) \/ v = FloatOf(n)
  \/ v \in {TinyFloat, NonFinite, Bool, Null}
  \/ \E t \in {"valid", "invalid", "edge"} : v = Text(t)

WellFormed(body) ==
  /\ body.form \in {"notJson", "breaksLoads", "notObject", "object"}
  /\ body.form = "object" =>
       \A key \in DOMAIN body.payload : IsJson(body.payload[key])

LEMMA ScaleIsInteger ==
  /\ Unbounded \in Int /\ -Unbounded \in Int
  /\ -Unbounded <= 0 /\ 0 <= Unbounded
  /\ -Unbounded..Unbounded \subseteq Int
  <1>1. Unbounded \in Int /\ 0 <= Unbounded
    BY SMT DEF Unbounded, Huge
  <1> QED BY <1>1

\* What a number, the smallest float, or none of them is.
LEMMA NumberIsInt ==
  ASSUME NEW v, IsJson(v), v.kind \in {"int", "float"}
  PROVE  v.val \in -Unbounded..Unbounded
  <1>1. v \notin {TinyFloat, NonFinite, Bool, Null} /\ ~\E t : v = Text(t)
    BY DEF TinyFloat, NonFinite, Bool, Null, Text
  <1>2. PICK n \in -Unbounded..Unbounded : v = IntOf(n) \/ v = FloatOf(n)
    BY <1>1, Zenon DEF IsJson
  <1>3. v.val = n
    BY <1>2 DEF IntOf, FloatOf
  <1> QED BY <1>3

LEMMA TinyIsTiny ==
  ASSUME NEW v, IsJson(v), v.kind = "tinyFloat"
  PROVE  v = TinyFloat
  <1>1. v \notin {NonFinite, Bool, Null} /\ ~\E t : v = Text(t)
    BY DEF NonFinite, Bool, Null, Text
  <1>2. ~\E n : v = IntOf(n) \/ v = FloatOf(n)
    BY DEF IntOf, FloatOf
  <1> QED BY <1>1, <1>2, Zenon DEF IsJson

LEMMA NumericKeysListed ==
  NumericKeys = {"lat", "lon", "elevation_m", "temp_c", "rh_pct", "smoke_ppm",
                 "wind_speed_ms", "wind_dir_deg", "battery_pct"}
  BY SMT DEF NumericKeys, Bounds

\* The bounds of _check_number are the limits of the contract.
LEMMA BoundsAreLimits ==
  ASSUME NEW key \in NumericKeys, NEW n \in -Unbounded..Unbounded
  PROVE  (n < Bounds[key][1] \/ n > Bounds[key][2]) <=> ~WithinLimits(key, n)
  <1>0. n \in Int /\ -Unbounded <= n /\ n <= Unbounded
    BY ScaleIsInteger
  <1>1. key \in {"lat", "lon", "elevation_m", "temp_c", "rh_pct", "smoke_ppm",
                 "wind_speed_ms", "wind_dir_deg", "battery_pct"}
    BY NumericKeysListed
  <1>2. CASE key = "lat"
    <2>1. Bounds[key] = <<-90000, 90000>>
      BY <1>2, SMT DEF Bounds
    <2> QED BY <1>0, <1>2, <2>1, SMT DEF WithinLimits
  <1>3. CASE key = "lon"
    <2>1. Bounds[key] = <<-180000, 180000>>
      BY <1>3, SMT DEF Bounds
    <2> QED BY <1>0, <1>3, <2>1, SMT DEF WithinLimits
  <1>4. CASE key = "elevation_m"
    <2>1. Bounds[key] = <<-Unbounded, Unbounded>>
      BY <1>4, SMT DEF Bounds
    <2> QED BY <1>0, <1>4, <2>1, ScaleIsInteger, SMT DEF WithinLimits
  <1>5. CASE key = "temp_c"
    <2>1. Bounds[key] = <<-20000, 80000>>
      BY <1>5, SMT DEF Bounds
    <2> QED BY <1>0, <1>5, <2>1, SMT DEF WithinLimits
  <1>6. CASE key \in {"rh_pct", "battery_pct"}
    <2>1. Bounds[key] = <<0, 100000>>
      BY <1>6, SMT DEF Bounds
    <2> QED BY <1>0, <1>6, <2>1, SMT DEF WithinLimits
  <1>7. CASE key \in {"smoke_ppm", "wind_speed_ms"}
    <2>1. Bounds[key] = <<0, Unbounded>>
      BY <1>7, SMT DEF Bounds
    <2> QED BY <1>0, <1>7, <2>1, ScaleIsInteger, SMT DEF WithinLimits
  <1>8. CASE key = "wind_dir_deg"
    <2>1. Bounds[key] = <<0, 360000>>
      BY <1>8, SMT DEF Bounds
    <2> QED BY <1>0, <1>8, <2>1, SMT DEF WithinLimits
  <1> QED BY <1>1, <1>2, <1>3, <1>4, <1>5, <1>6, <1>7, <1>8, Zenon

\* _check_number finds an error in exactly the values out of range.
LEMMA NumberErrorIsOutOfRange ==
  ASSUME NEW key \in NumericKeys, NEW v, IsJson(v)
  PROVE  NumberError(key, v) <=> ~InRange(key, v)
  <1> USE DEF NumberError, InRange, IsNumber, IsFinite, Nullable
  <1>1. CASE v.kind \in {"int", "float"}
    <2>1. (v.val < Bounds[key][1] \/ v.val > Bounds[key][2]) <=>
            ~WithinLimits(key, v.val)
      BY <1>1, NumberIsInt, BoundsAreLimits
    <2>2. v # Null
      BY <1>1 DEF Null
    <2> QED BY <1>1, <2>1, <2>2, Zenon
  <1>2. CASE v.kind = "tinyFloat"
    <2>1. v.val = 0 /\ v # Null
      BY <1>2, TinyIsTiny DEF TinyFloat, Null
    <2>2. 0 \in -Unbounded..Unbounded
      BY ScaleIsInteger
    <2>3. (v.val < Bounds[key][1] \/ v.val > Bounds[key][2]) <=>
            ~WithinLimits(key, v.val)
      BY <2>1, <2>2, BoundsAreLimits
    <2>4. WithinLimits(key, v.val)
      BY <2>1, SMT DEF WithinLimits
    <2> QED BY <1>2, <2>1, <2>3, <2>4, Zenon
  <1>3. CASE v = Null
    BY <1>3 DEF Null
  <1>4. CASE v.kind \notin {"int", "float", "tinyFloat", "null"}
    <2>1. v # Null
      BY <1>4 DEF Null
    <2> QED BY <1>4, <2>1
  <1>5. v.kind = "null" => v = Null
    BY DEF IsJson, IntOf, FloatOf, TinyFloat, NonFinite, Bool, Text
  <1> QED BY <1>1, <1>2, <1>3, <1>4, <1>5

LEMMA SeqErrorIsOutOfRange ==
  ASSUME NEW v, IsJson(v)
  PROVE  SeqError(v) <=> ~(InRange("seq", v) /\ v.kind = "int")
  <1>1. CASE v.kind # "int"
    BY <1>1 DEF SeqError
  <1>2. CASE v.kind = "int"
    <2>1. v.val \in Int
      BY <1>2, NumberIsInt, ScaleIsInteger
    <2>2. WithinLimits("seq", v.val) <=> ~(v.val < 0)
      BY <2>1, SMT DEF WithinLimits
    <2>3. v # Null
      BY <1>2 DEF Null
    <2> QED BY <1>2, <2>2, <2>3, Zenon DEF SeqError, InRange
  <1> QED BY <1>1, <1>2

LEMMA TimestampErrorIsNoTimestamp ==
  ASSUME NEW v, IsJson(v)
  PROVE  /\ TimestampError(v) <=> v \notin {Text("valid"), Text("edge")}
         /\ TimestampOverflows(v) => v = Text("edge")
  <1>1. CASE \E t \in {"valid", "invalid", "edge"} : v = Text(t)
    BY <1>1 DEF Text, TimestampError, TimestampOverflows
  <1>2. CASE ~\E t \in {"valid", "invalid", "edge"} : v = Text(t)
    <2>1. v.kind # "text"
      BY <1>2 DEF IsJson, IntOf, FloatOf, TinyFloat, NonFinite, Bool, Null
    <2> QED BY <1>2, <2>1 DEF TimestampError, TimestampOverflows
  <1> QED BY <1>1, <1>2

\* The checks of a complete payload find an error in exactly those that the
\* contract does not allow.
LEMMA ErrorsAreViolations ==
  ASSUME NEW body, WellFormed(body), body.form = "object",
         RequiredKeys \subseteq DOMAIN body.payload
  PROVE  HasErrors(body.payload) <=> ~Conforms(body)
  <1> DEFINE p == body.payload
  <1>1. /\ \A key \in DOMAIN p : IsJson(p[key])
        /\ NumericKeys \subseteq DOMAIN p /\ TextKeys \subseteq DOMAIN p
        /\ "ts_device" \in DOMAIN p /\ "seq" \in DOMAIN p
    BY DEF WellFormed, RequiredKeys
  <1>2. (\E key \in NumericKeys : NumberError(key, p[key])) <=>
          ~\A key \in NumericKeys : InRange(key, p[key])
    BY <1>1, NumberErrorIsOutOfRange
  <1>3. SeqError(p["seq"]) <=> ~(InRange("seq", p["seq"]) /\ p["seq"].kind = "int")
    BY <1>1, SeqErrorIsOutOfRange
  <1>4. TimestampError(p["ts_device"]) <=>
          p["ts_device"] \notin {Text("valid"), Text("edge")}
    BY <1>1, TimestampErrorIsNoTimestamp
  <1>5. (\/ "schema_version" \in DOMAIN p /\ TextError(p["schema_version"])
         \/ \E key \in TextKeys : TextError(p[key])) <=>
          ~\A key \in (TextKeys \cup {"schema_version"}) \cap DOMAIN p :
             p[key] = Text("valid")
    BY <1>1 DEF TextError
  <1>6. ~(DOMAIN p \subseteq AllowedKeys) <=>
          ~(DOMAIN p \subseteq RequiredKeys \cup {"schema_version"})
    BY DEF AllowedKeys
  <1> QED BY <1>2, <1>3, <1>4, <1>5, <1>6, Zenon DEF HasErrors, Conforms

\* What _check_number or the timestamp raises on is extreme.
LEMMA RaisesIsExtreme ==
  ASSUME NEW body, WellFormed(body), body.form = "object",
         RequiredKeys \subseteq DOMAIN body.payload, Raises(body.payload)
  PROVE  Extreme(body)
  <1> DEFINE p == body.payload
  <1>1. /\ \A key \in DOMAIN p : IsJson(p[key])
        /\ NumericKeys \subseteq DOMAIN p /\ "ts_device" \in DOMAIN p
    BY DEF WellFormed, RequiredKeys
  <1>2. CASE TimestampOverflows(p["ts_device"])
    BY <1>1, <1>2, TimestampErrorIsNoTimestamp DEF Extreme
  <1>3. ASSUME NEW key \in NumericKeys, FloatOverflows(p[key])
        PROVE  Extreme(body)
    <2>1. p[key].kind = "int" /\ IsJson(p[key])
      BY <1>1, <1>3 DEF FloatOverflows
    <2>2. p[key].val \in Int
      BY <2>1, NumberIsInt, ScaleIsInteger
    <2>3. p[key].val >= Vast \/ p[key].val <= -Vast
      BY <1>3, <2>2, SMT DEF FloatOverflows, Abs, Huge, Vast
    <2> QED BY <1>1, <2>1, <2>3 DEF Extreme
  <1> QED BY <1>2, <1>3 DEF Raises

\* What is accepted and DynamoDB refuses is extreme.
LEMMA RefusedIsExtreme ==
  ASSUME NEW body, WellFormed(body), Conforms(body), Unstorable(body.payload)
  PROVE  Extreme(body)
  <1> DEFINE p == body.payload
  <1>1. /\ body.form = "object"
        /\ \A key \in DOMAIN p : IsJson(p[key])
        /\ NumericKeys \cup {"seq"} \subseteq DOMAIN p
    BY DEF WellFormed, Conforms, RequiredKeys
  <1>2. PICK key \in NumericKeys \cup {"seq"} : BeyondDynamoDB(p[key])
    BY DEF Unstorable
  <1>3. p[key].kind # "nonFinite"
    BY <1>1, <1>2 DEF Conforms, InRange, Null
  <1>4. CASE p[key].kind = "tinyFloat"
    <2>1. p[key] = TinyFloat
      BY <1>1, <1>4, TinyIsTiny
    <2> QED BY <1>1, <2>1 DEF Extreme
  <1>5. CASE p[key].kind \in {"int", "float"}
    <2>1. p[key].val \in Int
      BY <1>1, <1>5, NumberIsInt, ScaleIsInteger
    <2>2. p[key].val >= Vast \/ p[key].val <= -Vast
      BY <1>2, <1>5, <2>1, SMT DEF BeyondDynamoDB, Abs, Vast
    <2> QED BY <1>1, <1>5, <2>2 DEF Extreme
  <1> QED BY <1>2, <1>3, <1>4, <1>5 DEF BeyondDynamoDB

\* The verdict on a body, in terms of the contract.
LEMMA VerdictIsContract ==
  ASSUME NEW body, WellFormed(body), NEW loaded
  PROVE  /\ Verdict(body, loaded) = "INVALID" => ~Conforms(body)
         /\ Verdict(body, loaded) = "RAISES" => Extreme(body)
         /\ Verdict(body, loaded) \notin {"INVALID", "RAISES"} => Conforms(body)
  <1>1. CASE body.form \in {"notJson", "notObject"}
    BY <1>1 DEF Verdict, Conforms
  <1>2. CASE body.form = "breaksLoads"
    BY <1>2 DEF Verdict, Conforms, Extreme
  <1>3. CASE body.form = "object"
    <2>1. Evaluate(body.payload, loaded) \in {"CRITICAL", "ELEVATED", "NONE"}
      BY DEF Evaluate
    <2>2. ValidatePayload(body.payload) \in {"INVALID", "RAISES", "record"}
      BY DEF ValidatePayload
    <2>3. Verdict(body, loaded) =
            IF ValidatePayload(body.payload) = "record"
            THEN Evaluate(body.payload, loaded)
            ELSE ValidatePayload(body.payload)
      BY <1>3 DEF Verdict
    <2>4. CASE ~(RequiredKeys \subseteq DOMAIN body.payload)
      <3>1. ValidatePayload(body.payload) = "INVALID" /\ ~Conforms(body)
        BY <2>4 DEF ValidatePayload, Conforms
      <3> QED BY <2>3, <3>1
    <2>5. CASE RequiredKeys \subseteq DOMAIN body.payload
      <3>1. ValidatePayload(body.payload) = "RAISES" => Extreme(body)
        BY <1>3, <2>5, RaisesIsExtreme DEF ValidatePayload
      <3>2. ValidatePayload(body.payload) = "INVALID" => ~Conforms(body)
        BY <1>3, <2>5, ErrorsAreViolations DEF ValidatePayload
      <3>3. ValidatePayload(body.payload) = "record" => Conforms(body)
        BY <1>3, <2>5, ErrorsAreViolations DEF ValidatePayload
      <3> QED BY <2>1, <2>2, <2>3, <3>1, <3>2, <3>3
    <2> QED BY <2>4, <2>5
  <1> QED BY <1>1, <1>2, <1>3 DEF WellFormed

-----------------------------------------------------------------------------
(***************************************************************************)
(* What the function has judged, and the contract theorems.                *)
(***************************************************************************)

\* Other senders put JSON on the topic, or something json.loads refuses.
ForeignAreJson == \A body \in Foreign : WellFormed(body)

\* Serials have four digits, and DynamoDB stores an epoch in seconds.
DeployedScale == MaxSerial <= 9999 /\ MaxClock + Rounds < Vast

\* The smoke threshold lies between the two readings of the publisher.
Separates(threshold) ==
  threshold \in Int /\ 100 < threshold /\ threshold <= 85000

ThresholdsSeparate ==
  \A env \in Environments :
    ~FromEnvRaises(env) => Separates(env["SMOKE_ALERT_PPM"].val)

Settings ==
  {FromEnv(env) : env \in {e \in Environments : ~FromEnvRaises(e)}}

Sent(j) ==
  \/ j.sender = "foreign" /\ j.body \in Foreign
  \/ \E reading \in delivered :
       /\ j.body = FromPublisher(reading)
       /\ j.sender = IF reading.critical THEN "critical" ELSE "normal"

\* Every judgement is one of a body that was sent, by settings that were
\* loaded.
JudgedInv ==
  /\ settings \subseteq Settings
  /\ \A j \in judged :
       /\ \E loaded \in Settings : j.verdict = Verdict(j.body, loaded)
       /\ j.fate = Fate(j.body, j.verdict)
       /\ Sent(j)

LEMMA HandleIsJudged ==
  ASSUME JudgedInv, NEW body, NEW sender, Handle(body, sender),
         \/ sender = "foreign" /\ body \in Foreign
         \/ \E reading \in delivered :
              /\ body = FromPublisher(reading)
              /\ sender = IF reading.critical THEN "critical" ELSE "normal"
  PROVE  JudgedInv'
  <1>1. PICK loaded \in settings :
          judged' = {[body |-> body, sender |-> sender,
                      verdict |-> Verdict(body, loaded),
                      fate |-> Fate(body, Verdict(body, loaded))]}
    BY Zenon DEF Handle
  <1>2. delivered' = delivered /\ settings' = settings
    BY DEF Handle, publisherVars
  <1>3. ASSUME NEW j \in judged'
        PROVE  /\ \E l \in Settings : j.verdict = Verdict(j.body, l)
               /\ j.fate = Fate(j.body, j.verdict)
               /\ Sent(j)'
    <2>1. /\ j.body = body /\ j.sender = sender
          /\ j.verdict = Verdict(body, loaded)
          /\ j.fate = Fate(body, Verdict(body, loaded))
      BY <1>1
    <2>2. loaded \in Settings
      BY DEF JudgedInv
    <2>3. Sent(j)'
      BY <1>2, <2>1, Zenon DEF Sent
    <2> QED BY <2>1, <2>2, <2>3, Zenon
  <1>4. settings' \subseteq Settings
    BY <1>2 DEF JudgedInv
  <1> QED BY <1>3, <1>4, Zenon DEF JudgedInv

LEMMA JudgedInit == EdgeInit => JudgedInv
  BY DEF EdgeInit, JudgedInv

LEMMA JudgedStep ==
  ASSUME JudgedInv, [EdgeNext]_edgeVars PROVE JudgedInv'
  <1>1. CASE PublisherNext /\ judged' = {} /\ UNCHANGED settings
    BY <1>1 DEF JudgedInv
  <1>2. CASE ColdStart
    <2>1. PICK env \in Environments :
            ~FromEnvRaises(env) /\ settings' = {FromEnv(env)}
      BY <1>2, Zenon DEF ColdStart
    <2>2. settings' \subseteq Settings
      BY <2>1, Zenon DEF Settings
    <2> QED BY <1>2, <2>2 DEF ColdStart, JudgedInv
  <1>3. ASSUME NEW reading \in delivered,
               Handle(FromPublisher(reading),
                      IF reading.critical THEN "critical" ELSE "normal")
        PROVE  JudgedInv'
    BY <1>3, HandleIsJudged, Zenon
  <1>4. ASSUME NEW body \in Foreign, Handle(body, "foreign")
        PROVE  JudgedInv'
    BY <1>4, HandleIsJudged, Zenon
  <1>5. CASE UNCHANGED edgeVars
    <2>1. UNCHANGED <<delivered, settings, judged>>
      BY <1>5 DEF edgeVars, publisherVars
    <2>2. \A j : Sent(j) => Sent(j)'
      BY <2>1, Zenon DEF Sent
    <2> QED BY <2>1, <2>2, Zenon DEF JudgedInv
  <1> QED BY <1>1, <1>2, <1>3, <1>4, <1>5, Zenon DEF EdgeNext

LEMMA JudgedAlways == EdgeSpec => []JudgedInv
  BY JudgedInit, JudgedStep, PTL DEF EdgeSpec

-----------------------------------------------------------------------------

\* A number far from the ends of the scale, or a valid text.
Modest(v) ==
  \/ v = Text("valid")
  \/ \E n \in Int : -Vast < n /\ n < Vast /\ (v = IntOf(n) \/ v = FloatOf(n))

LEMMA ModestIsJson ==
  ASSUME NEW v, Modest(v)
  PROVE  IsJson(v)
  <1>1. CASE v = Text("valid")
    BY <1>1 DEF IsJson
  <1>2. ASSUME NEW n \in Int, -Vast < n, n < Vast, v = IntOf(n) \/ v = FloatOf(n)
        PROVE  IsJson(v)
    <2>1. Vast \in Int /\ Vast <= Unbounded
      BY SMT DEF Vast, Unbounded, Huge
    <2>2. n \in -Unbounded..Unbounded
      BY <1>2, <2>1, ScaleIsInteger
    <2> QED BY <1>2, <2>2, Zenon DEF IsJson
  <1> QED BY <1>1, <1>2, Zenon DEF Modest

LEMMA ModestIsNotExtreme ==
  ASSUME NEW v, Modest(v)
  PROVE  /\ v # Text("edge") /\ v # TinyFloat
         /\ v.kind \in {"int", "float"} => ~(v.val >= Vast \/ v.val <= -Vast)
  <1>1. CASE v = Text("valid")
    BY <1>1 DEF Text, TinyFloat
  <1>2. ASSUME NEW n \in Int, -Vast < n, n < Vast, v = IntOf(n) \/ v = FloatOf(n)
        PROVE  /\ v # Text("edge") /\ v # TinyFloat
               /\ ~(v.val >= Vast \/ v.val <= -Vast)
    <2>1. v.kind \in {"int", "float"} /\ v.val = n
      BY <1>2 DEF IntOf, FloatOf
    <2>2. v # Text("edge") /\ v # TinyFloat
      BY <2>1 DEF Text, TinyFloat
    <2>3. Vast \in Int
      BY SMT DEF Vast
    <2> QED BY <1>2, <2>1, <2>2, <2>3
  <1> QED BY <1>1, <1>2, Zenon DEF Modest

LEMMA FloatIsModest ==
  ASSUME NEW n \in Int, -Vast < n, n < Vast
  PROVE  Modest(FloatOf(n)) /\ Modest(IntOf(n))
  BY DEF Modest

LEMMA FloatInRange ==
  ASSUME NEW key, NEW n, WithinLimits(key, n)
  PROVE  InRange(key, FloatOf(n)) /\ InRange(key, IntOf(n))
  BY DEF InRange, FloatOf, IntOf

\* The readings a run may have delivered.
Readings ==
  [run : 1..MaxRuns, device : 0..MaxSerial - 1, seq : 0..MaxClock + Rounds,
   critical : BOOLEAN]

LEMMA PayloadFields ==
  ASSUME NEW reading, NEW p, p = BuildPayload(reading)
  PROVE  /\ DOMAIN p = AllowedKeys
         /\ p["schema_version"] = Text("valid")
         /\ p["device_id"] = DeviceIdOf(reading.device)
         /\ p["gateway_id"] = Text("valid")
         /\ p["ts_device"] = Text("valid")
         /\ p["seq"] = IntOf(reading.seq)
         /\ p["lat"] = FloatOf(4620 + reading.device)
         /\ p["lon"] = FloatOf(-74040 - reading.device)
         /\ p["elevation_m"] = FloatOf(2900000)
         /\ p["temp_c"] = FloatOf(IF reading.critical THEN 55000 ELSE 16500)
         /\ p["rh_pct"] = FloatOf(IF reading.critical THEN 12000 ELSE 72000)
         /\ p["smoke_ppm"] = FloatOf(IF reading.critical THEN 85000 ELSE 100)
         /\ p["wind_speed_ms"] = FloatOf(2500)
         /\ p["wind_dir_deg"] = FloatOf(120000)
         /\ p["battery_pct"] = FloatOf(95000)
         /\ p["status"] = Text("valid")
  <1>1. DOMAIN p = AllowedKeys
    BY SMT DEF BuildPayload, AllowedKeys, RequiredKeys, NumericKeys, TextKeys,
               Bounds
  <1> QED BY <1>1, SMT DEF BuildPayload

\* A value that the contract and DynamoDB take for the field.
Sound(key, v) ==
  \E n \in Int :
    -Vast < n /\ n < Vast /\ WithinLimits(key, n) /\ (v = IntOf(n) \/ v = FloatOf(n))

LEMMA FloatIsSound ==
  ASSUME NEW key, NEW n \in Int, -Vast < n, n < Vast, WithinLimits(key, n)
  PROVE  Sound(key, FloatOf(n)) /\ Sound(key, IntOf(n))
  BY DEF Sound

LEMMA SoundIsModest ==
  ASSUME NEW key, NEW v, Sound(key, v)
  PROVE  Modest(v) /\ InRange(key, v)
  BY FloatInRange, Zenon DEF Sound, Modest

LEMMA PayloadNumbers ==
  ASSUME DeployedScale, NEW reading \in Readings,
         NEW p, p = BuildPayload(reading),
         NEW key \in NumericKeys \cup {"seq"}
  PROVE  Sound(key, p[key])
  <1>1. /\ reading.device \in Int /\ 0 <= reading.device /\ reading.device <= 9998
        /\ reading.seq \in Int /\ 0 <= reading.seq /\ reading.seq < Vast
        /\ Vast = 100000000
    BY PublisherAssumption, SMT DEF Readings, DeployedScale, Vast
  <1>2. CASE key = "seq"
    <2>1. WithinLimits("seq", reading.seq)
      BY <1>1, SMT DEF WithinLimits
    <2>2. -Vast < reading.seq
      BY <1>1, SMT
    <2>3. p["seq"] = IntOf(reading.seq)
      BY PayloadFields
    <2> QED BY <1>1, <1>2, <2>1, <2>2, <2>3, FloatIsSound
  <1>3. CASE key = "lat"
    <2>1. PICK n \in Int : n = 4620 + reading.device
      BY <1>1, SMT
    <2>2. -Vast < n /\ n < Vast /\ WithinLimits("lat", n)
      BY <1>1, <2>1, SMT DEF WithinLimits
    <2>3. p["lat"] = FloatOf(n)
      BY <2>1, PayloadFields, SMT
    <2> QED BY <1>3, <2>2, <2>3, FloatIsSound
  <1>4. CASE key = "lon"
    <2>1. PICK n \in Int : n = -74040 - reading.device
      BY <1>1, SMT
    <2>2. -Vast < n /\ n < Vast /\ WithinLimits("lon", n)
      BY <1>1, <2>1, SMT DEF WithinLimits
    <2>3. p["lon"] = FloatOf(n)
      BY <2>1, PayloadFields, SMT
    <2> QED BY <1>4, <2>2, <2>3, FloatIsSound
  <1>5. CASE key = "elevation_m"
    <2>1. PICK n \in Int : n = 2900000
      BY <1>1, SMT
    <2>2. -Vast < n /\ n < Vast /\ WithinLimits("elevation_m", n)
      BY <1>1, <2>1, SMT DEF WithinLimits
    <2>3. p["elevation_m"] = FloatOf(n)
      BY <2>1, PayloadFields, SMT
    <2> QED BY <1>5, <2>2, <2>3, FloatIsSound
  <1>6. CASE key = "temp_c"
    <2>1. PICK n \in Int : n = IF reading.critical THEN 55000 ELSE 16500
      BY <1>1, SMT
    <2>2. -Vast < n /\ n < Vast /\ WithinLimits("temp_c", n)
      BY <1>1, <2>1, SMT DEF WithinLimits
    <2>3. p["temp_c"] = FloatOf(n)
      BY <2>1, PayloadFields, SMT
    <2> QED BY <1>6, <2>2, <2>3, FloatIsSound
  <1>7. CASE key = "rh_pct"
    <2>1. PICK n \in Int : n = IF reading.critical THEN 12000 ELSE 72000
      BY <1>1, SMT
    <2>2. -Vast < n /\ n < Vast /\ WithinLimits("rh_pct", n)
      BY <1>1, <2>1, SMT DEF WithinLimits
    <2>3. p["rh_pct"] = FloatOf(n)
      BY <2>1, PayloadFields, SMT
    <2> QED BY <1>7, <2>2, <2>3, FloatIsSound
  <1>8. CASE key = "smoke_ppm"
    <2>1. PICK n \in Int : n = IF reading.critical THEN 85000 ELSE 100
      BY <1>1, SMT
    <2>2. -Vast < n /\ n < Vast /\ WithinLimits("smoke_ppm", n)
      BY <1>1, <2>1, SMT DEF WithinLimits
    <2>3. p["smoke_ppm"] = FloatOf(n)
      BY <2>1, PayloadFields, SMT
    <2> QED BY <1>8, <2>2, <2>3, FloatIsSound
  <1>9. CASE key = "wind_speed_ms"
    <2>1. PICK n \in Int : n = 2500
      BY <1>1, SMT
    <2>2. -Vast < n /\ n < Vast /\ WithinLimits("wind_speed_ms", n)
      BY <1>1, <2>1, SMT DEF WithinLimits
    <2>3. p["wind_speed_ms"] = FloatOf(n)
      BY <2>1, PayloadFields, SMT
    <2> QED BY <1>9, <2>2, <2>3, FloatIsSound
  <1>10. CASE key = "wind_dir_deg"
    <2>1. PICK n \in Int : n = 120000
      BY <1>1, SMT
    <2>2. -Vast < n /\ n < Vast /\ WithinLimits("wind_dir_deg", n)
      BY <1>1, <2>1, SMT DEF WithinLimits
    <2>3. p["wind_dir_deg"] = FloatOf(n)
      BY <2>1, PayloadFields, SMT
    <2> QED BY <1>10, <2>2, <2>3, FloatIsSound
  <1>11. CASE key = "battery_pct"
    <2>1. PICK n \in Int : n = 95000
      BY <1>1, SMT
    <2>2. -Vast < n /\ n < Vast /\ WithinLimits("battery_pct", n)
      BY <1>1, <2>1, SMT DEF WithinLimits
    <2>3. p["battery_pct"] = FloatOf(n)
      BY <2>1, PayloadFields, SMT
    <2> QED BY <1>11, <2>2, <2>3, FloatIsSound
  <1> QED
    BY <1>2, <1>3, <1>4, <1>5, <1>6, <1>7, <1>8, <1>9, <1>10, <1>11,
       NumericKeysListed

LEMMA PayloadTexts ==
  ASSUME DeployedScale, NEW reading \in Readings,
         NEW p, p = BuildPayload(reading),
         NEW key \in TextKeys \cup {"schema_version", "ts_device"}
  PROVE  p[key] = Text("valid")
  <1>1. reading.device + 1 <= MaxSerial
    BY PublisherAssumption, SMT DEF Readings
  <1>2. DeviceIdOf(reading.device) = Text("valid")
    BY <1>1 DEF DeviceIdOf
  <1> QED BY <1>2, PayloadFields, SMT DEF TextKeys

\* Every reading of the publisher is in the contract, and nothing about it is
\* extreme.
LEMMA PayloadConforms ==
  ASSUME DeployedScale, NEW reading \in Readings,
         NEW body, body = FromPublisher(reading)
  PROVE  WellFormed(body) /\ Conforms(body) /\ ~Extreme(body)
  <1> DEFINE p == body.payload
  <1>1. body.form = "object" /\ p = BuildPayload(reading)
    BY DEF FromPublisher
  <1>2. DOMAIN p = AllowedKeys
    BY <1>1, PayloadFields
  <1> HIDE DEF p
  <1>3. \A key \in NumericKeys \cup {"seq"} : Sound(key, p[key])
    BY <1>1, PayloadNumbers
  <1>4. \A key \in TextKeys \cup {"schema_version", "ts_device"} :
          p[key] = Text("valid")
    BY <1>1, PayloadTexts
  <1>5. ASSUME NEW key \in DOMAIN p PROVE Modest(p[key])
    <2>1. CASE key \in NumericKeys \cup {"seq"}
      BY <1>3, <2>1, SoundIsModest
    <2>2. CASE key \in TextKeys \cup {"schema_version", "ts_device"}
      BY <1>4, <2>2 DEF Modest
    <2> QED BY <1>2, <2>1, <2>2 DEF AllowedKeys, RequiredKeys
  <1>6. WellFormed(body)
    BY <1>1, <1>5, ModestIsJson DEF WellFormed, p
  <1>7. ~Extreme(body)
    BY <1>1, <1>5, ModestIsNotExtreme DEF Extreme, p
  <1>8. Conforms(body)
    <2>1. \A key \in NumericKeys \cup {"seq"} : InRange(key, p[key])
      BY <1>3, SoundIsModest
    <2>2. p["seq"].kind = "int"
      <3>1. p["seq"] = IntOf(reading.seq)
        BY <1>1, PayloadFields
      <3> QED BY <3>1 DEF IntOf
    <2>3. RequiredKeys \subseteq DOMAIN p
          /\ DOMAIN p \subseteq RequiredKeys \cup {"schema_version"}
      BY <1>2 DEF AllowedKeys
    <2> QED BY <1>1, <1>4, <2>1, <2>2, <2>3 DEF Conforms, p
  <1> QED BY <1>6, <1>7, <1>8

-----------------------------------------------------------------------------

LEMMA SentIsWellFormed ==
  ASSUME ForeignAreJson, DeployedScale, RunTypes, JudgedInv, NEW j \in judged
  PROVE  WellFormed(j.body)
  <1>1. CASE j.body \in Foreign
    BY <1>1 DEF ForeignAreJson
  <1>2. ASSUME NEW reading \in delivered, j.body = FromPublisher(reading)
        PROVE  WellFormed(j.body)
    <2>1. reading \in Readings
      BY DEF RunTypes, EdgeTypeOK, Readings
    <2> QED BY <1>2, <2>1, PayloadConforms
  <1> QED BY <1>1, <1>2, Zenon DEF JudgedInv, Sent

\* The fate of a body, in terms of the contract.
LEMMA FateIsContract ==
  ASSUME NEW body, WellFormed(body), NEW loaded,
         NEW fate, fate = Fate(body, Verdict(body, loaded))
  PROVE  /\ fate = "rejected" => ~Conforms(body)
         /\ fate \in {"stored", "refused"} => Conforms(body)
         /\ fate \in {"raises", "refused"} => Extreme(body)
         /\ fate \in {"rejected", "raises", "refused", "stored"}
  <1> DEFINE verdict == Verdict(body, loaded)
  <1>1. /\ verdict = "INVALID" => ~Conforms(body)
        /\ verdict = "RAISES" => Extreme(body)
        /\ verdict \notin {"INVALID", "RAISES"} => Conforms(body)
    BY VerdictIsContract
  <1>2. /\ verdict = "INVALID" => fate = "rejected"
        /\ verdict = "RAISES" => fate = "raises"
        /\ verdict \notin {"INVALID", "RAISES"} =>
             fate = IF Unstorable(body.payload) THEN "refused" ELSE "stored"
    BY DEF Fate
  <1>3. Conforms(body) /\ Unstorable(body.payload) => Extreme(body)
    BY RefusedIsExtreme
  <1> QED BY <1>1, <1>2, <1>3

\* The validation rejects exactly the JSON bodies that contract v1 excludes,
\* for every body made of JSON values and all settings.
THEOREM ValidationIsTheContract ==
  ForeignAreJson /\ DeployedScale => (EdgeSpec => []AcceptsExactlyContract)
  <1> SUFFICES ASSUME ForeignAreJson, DeployedScale
               PROVE  EdgeSpec => []AcceptsExactlyContract
    OBVIOUS
  <1>1. RunTypes /\ JudgedInv => AcceptsExactlyContract
    <2> SUFFICES ASSUME RunTypes, JudgedInv, NEW j \in judged
                 PROVE  /\ j.fate = "rejected" => ~Conforms(j.body)
                        /\ j.fate \in {"stored", "refused"} => Conforms(j.body)
      BY DEF AcceptsExactlyContract
    <2>1. WellFormed(j.body)
      BY SentIsWellFormed
    <2>2. PICK loaded : j.fate = Fate(j.body, Verdict(j.body, loaded))
      BY DEF JudgedInv
    <2> QED BY <2>1, <2>2, FateIsContract
  <1> QED BY RunTypesAlways, JudgedAlways, <1>1, PTL

\* A body on which every attempt fails, though AWS answers, holds a number or
\* a timestamp at the ends of what Python and DynamoDB represent, or is one
\* json.loads breaks on: the validation keeps all other poison out.
THEOREM PoisonIsAtTheEnds ==
  ForeignAreJson /\ DeployedScale => (EdgeSpec => []PoisonIsExtreme)
  <1> SUFFICES ASSUME ForeignAreJson, DeployedScale
               PROVE  EdgeSpec => []PoisonIsExtreme
    OBVIOUS
  <1>1. RunTypes /\ JudgedInv => PoisonIsExtreme
    <2> SUFFICES ASSUME RunTypes, JudgedInv, NEW j \in judged,
                        j.fate \in {"raises", "refused"}
                 PROVE  Extreme(j.body)
      BY DEF PoisonIsExtreme
    <2>1. WellFormed(j.body)
      BY SentIsWellFormed
    <2>2. PICK loaded : j.fate = Fate(j.body, Verdict(j.body, loaded))
      BY DEF JudgedInv
    <2> QED BY <2>1, <2>2, FateIsContract
  <1> QED BY RunTypesAlways, JudgedAlways, <1>1, PTL

LEMMA SmokeSeparates ==
  ASSUME NEW critical \in BOOLEAN, NEW threshold, Separates(threshold),
         NEW smoke, smoke = IF critical THEN 85000 ELSE 100
  PROVE  smoke >= threshold <=> critical
  <1>1. CASE critical
    BY <1>1, SMT DEF Separates
  <1>2. CASE ~critical
    BY <1>2, SMT DEF Separates
  <1> QED BY <1>1, <1>2

\* A reading of the publisher is critical exactly when it was meant to be.
LEMMA ReadingVerdict ==
  ASSUME DeployedScale, NEW reading \in Readings, NEW loaded,
         Separates(loaded.smoke),
         NEW body, body = FromPublisher(reading)
  PROVE  Verdict(body, loaded) = "CRITICAL" <=> reading.critical
  <1>1. body.form = "object" /\ body.payload = BuildPayload(reading)
    BY DEF FromPublisher
  <1>2. Verdict(body, loaded) \notin {"INVALID", "RAISES"}
    BY PayloadConforms, VerdictIsContract
  <1>3. Verdict(body, loaded) = Evaluate(body.payload, loaded)
    BY <1>1, <1>2 DEF Verdict, ValidatePayload
  <1>4. body.payload["smoke_ppm"].val =
          IF reading.critical THEN 85000 ELSE 100
    <2>1. body.payload["smoke_ppm"] =
            FloatOf(IF reading.critical THEN 85000 ELSE 100)
      BY <1>1, PayloadFields, SMT
    <2> QED BY <2>1, SMT DEF FloatOf
  <1>5. reading.critical \in BOOLEAN
    BY DEF Readings
  <1>6. body.payload["smoke_ppm"].val >= loaded.smoke <=> reading.critical
    BY <1>4, <1>5, SmokeSeparates
  <1> QED BY <1>3, <1>6, Zenon DEF Evaluate

\* Every reading that reaches the function is stored, and alerts exactly when
\* the script was started with --critical, whatever the thresholds for
\* temperature and humidity.
THEOREM ReadingsAreHeard ==
  DeployedScale /\ ThresholdsSeparate => (EdgeSpec => []PublisherIsHeard)
  <1> SUFFICES ASSUME DeployedScale, ThresholdsSeparate
               PROVE  EdgeSpec => []PublisherIsHeard
    OBVIOUS
  <1>1. RunTypes /\ JudgedInv => PublisherIsHeard
    <2> SUFFICES ASSUME RunTypes, JudgedInv, NEW j \in judged,
                        j.sender # "foreign"
                 PROVE  /\ j.fate = "stored"
                        /\ j.verdict = "CRITICAL" <=> j.sender = "critical"
      BY DEF PublisherIsHeard
    <2>1. PICK reading \in delivered :
            /\ j.body = FromPublisher(reading)
            /\ j.sender = IF reading.critical THEN "critical" ELSE "normal"
      BY DEF JudgedInv, Sent
    <2>2. reading \in Readings
      BY DEF RunTypes, EdgeTypeOK, Readings
    <2>3. PICK loaded \in Settings : j.verdict = Verdict(j.body, loaded)
      BY DEF JudgedInv
    <2>4. Separates(loaded.smoke)
      <3>1. PICK env \in Environments :
              ~FromEnvRaises(env) /\ loaded = FromEnv(env)
        BY DEF Settings
      <3>2. Separates(env["SMOKE_ALERT_PPM"].val)
        BY <3>1 DEF ThresholdsSeparate
      <3>3. loaded.smoke = env["SMOKE_ALERT_PPM"].val
        BY <3>1 DEF FromEnv
      <3> QED BY <3>2, <3>3
    <2>5. j.verdict = "CRITICAL" <=> reading.critical
      BY <2>1, <2>2, <2>3, <2>4, ReadingVerdict, SMT
    <2>6. j.fate = Fate(j.body, Verdict(j.body, loaded))
      BY <2>3 DEF JudgedInv
    <2>7. j.fate = "stored"
      <3>1. WellFormed(j.body) /\ Conforms(j.body) /\ ~Extreme(j.body)
        BY <2>1, <2>2, PayloadConforms
      <3> QED BY <2>6, <3>1, FateIsContract
    <2> QED BY <2>1, <2>5, <2>7
  <1> QED BY RunTypesAlways, JudgedAlways, <1>1, PTL

=============================================================================
