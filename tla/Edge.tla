-------------------------------- MODULE Edge --------------------------------
(***************************************************************************)
(* The two ends of contract v1: the smoke publisher and other senders      *)
(* produce bodies, and a warm execution of the ingest Lambda judges them   *)
(* with the settings it loaded at its cold start.                          *)
(***************************************************************************)
EXTENDS Publisher

CONSTANTS
  Environments,  \* environments the function may be configured with
  Foreign        \* bodies that other senders put on the topic

VARIABLES
  settings,      \* what get_settings has cached: nothing, or one value
  judged         \* the body the last step handled, if it did, and its fate

edgeVars == <<publisherVars, settings, judged>>

EdgeInit ==
  /\ PublisherInit
  /\ settings = {}
  /\ judged = {}

\* get_settings: with a wrong environment it raises, every time, and the
\* execution handles nothing.
ColdStart ==
  /\ settings = {}
  /\ \E env \in Environments :
       ~FromEnvRaises(env) /\ settings' = {FromEnv(env)}
  /\ judged' = {}
  /\ UNCHANGED publisherVars

\* What becomes of a body when no call to AWS fails: it is rejected for good,
\* it raises in every attempt, or its item is stored or refused in every
\* attempt.
Fate(body, verdict) ==
  CASE verdict = "INVALID" -> "rejected"
    [] verdict = "RAISES"  -> "raises"
    [] OTHER -> IF Unstorable(body.payload) THEN "refused" ELSE "stored"

Handle(body, sender) ==
  /\ \E loaded \in settings :
       LET verdict == Verdict(body, loaded)
       IN  judged' = {[body |-> body, sender |-> sender, verdict |-> verdict,
                       fate |-> Fate(body, verdict)]}
  /\ UNCHANGED <<publisherVars, settings>>

FromPublisher(reading) ==
  [form |-> "object", payload |-> BuildPayload(reading)]

\* A verdict depends on the body and the settings only: as a bound of the
\* model, other senders are heard before the first run of the script.
EdgeNext ==
  \/ PublisherNext /\ judged' = {} /\ UNCHANGED settings
  \/ ColdStart
  \/ \E reading \in delivered :
       Handle(FromPublisher(reading),
              IF reading.critical THEN "critical" ELSE "normal")
  \/ run = 0 /\ \E body \in Foreign : Handle(body, "foreign")

EdgeSpec == EdgeInit /\ [][EdgeNext]_edgeVars

-----------------------------------------------------------------------------

(***************************************************************************)
(* Contract v1 as its documentation lists it: "required keys, closed key   *)
(* set, value ranges, identifier patterns and the device-health enum".     *)
(***************************************************************************)
WithinLimits(key, n) ==
  /\ key = "lat"          => -90000 <= n /\ n <= 90000
  /\ key = "lon"          => -180000 <= n /\ n <= 180000
  /\ key = "temp_c"       => -20000 <= n /\ n <= 80000
  /\ key = "wind_dir_deg" => 0 <= n /\ n <= 360000
  /\ key \in {"rh_pct", "battery_pct"} => 0 <= n /\ n <= 100000
  /\ key \in {"smoke_ppm", "wind_speed_ms", "seq"} => 0 <= n

InRange(key, v) ==
  \/ v.kind \in {"int", "float", "tinyFloat"} /\ WithinLimits(key, v.val)
  \/ v = Null /\ key \in {"wind_speed_ms", "wind_dir_deg"}

Conforms(body) ==
  /\ body.form = "object"
  /\ LET p == body.payload
     IN  /\ RequiredKeys \subseteq DOMAIN p
         /\ DOMAIN p \subseteq RequiredKeys \cup {"schema_version"}
         /\ \A key \in NumericKeys : InRange(key, p[key])
         /\ InRange("seq", p["seq"]) /\ p["seq"].kind = "int"
         /\ p["ts_device"] \in {Text("valid"), Text("edge")}
         /\ \A key \in (TextKeys \cup {"schema_version"}) \cap DOMAIN p :
              p[key] = Text("valid")

\* The validation neither rejects a conforming body nor lets another one
\* through, whichever checks a broken body gets past on the way.
AcceptsExactlyContract ==
  \A j \in judged :
    /\ j.fate = "rejected" => ~Conforms(j.body)
    /\ j.fate \in {"stored", "refused"} => Conforms(j.body)

\* A body is either stored or rejected as invalid, unless it holds a number
\* that Python or DynamoDB cannot represent, a timestamp at the end of the
\* calendar, or is a document json.loads cannot read: these alone fail in
\* every attempt as if AWS were to blame.
Extreme(body) ==
  \/ body.form = "breaksLoads"
  \/ /\ body.form = "object"
     /\ \E key \in DOMAIN body.payload :
          LET v == body.payload[key]
          IN  \/ v = Text("edge") \/ v = TinyFloat
              \/ v.kind \in {"int", "float"} /\ (v.val >= Vast \/ v.val <= -Vast)

PoisonIsExtreme ==
  \A j \in judged : j.fate \in {"raises", "refused"} => Extreme(j.body)

\* What the publisher sends is accepted, and alerts exactly when it was
\* started with --critical.
PublisherIsHeard ==
  \A j \in judged : j.sender # "foreign" =>
    /\ j.fate = "stored"
    /\ j.verdict = "CRITICAL" <=> j.sender = "critical"

\* Runs of the script never send the same reading: a second run is not taken
\* for duplicates of the first.
NoReuse ==
  \A x, y \in delivered :
    x.run # y.run => x.device # y.device \/ x.seq # y.seq

\* A run that exits with 0 and was no dry run has delivered every reading.
ExitCodeIsHonest ==
  phase = "idle" /\ run > 0 /\ exit = 0 /\ ~args.dryRun =>
    \A device \in 0..(args.devices - 1), r \in 0..(Rounds - 1) :
      \E x \in delivered :
        x.run = run /\ x.device = device /\ x.seq = seqBase + r

\* The variables of publish_all keep their types; in particular index never
\* leaves the devices, nor round the rounds.
EdgeTypeOK ==
  /\ run \in 0..MaxRuns
  /\ phase \in {"idle", "connecting", "publishing"}
  /\ run > 0 => args \in Options
  /\ round \in 0..Rounds
  /\ index \in 0..MaxSerial
  /\ failures \in BOOLEAN
  /\ exit \in 0..2
  /\ delivered \subseteq [run : 1..MaxRuns, device : 0..MaxSerial - 1,
                          seq : 0..MaxClock + Rounds, critical : BOOLEAN]

=============================================================================
