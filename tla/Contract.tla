------------------------------ MODULE Contract ------------------------------
(***************************************************************************)
(* What the ingest Lambda makes of a message body before it calls AWS: the *)
(* settings of its environment, json.loads, contract v1 and the risk       *)
(* rules, and what DynamoDB refuses to store afterwards.                   *)
(*                                                                         *)
(* A JSON value is a record with its kind.  Numbers are in thousandths; a  *)
(* magnitude from Vast on is beyond DynamoDB's 10^126 (and its 38 digits), *)
(* one from Huge on is an integer beyond a float.  tinyFloat is closer to  *)
(* 0 than DynamoDB's 10^-130.  A text is valid or invalid for its field;   *)
(* an "edge" timestamp is one of the year 1 or 9999 whose UTC falls        *)
(* outside of datetime's range.                                            *)
(***************************************************************************)
EXTENDS Integers

Vast == 100000000
Huge == 1000000000

IntOf(n)   == [kind |-> "int", val |-> n]
FloatOf(n) == [kind |-> "float", val |-> n]
Text(t)    == [kind |-> "text", text |-> t]
Null       == [kind |-> "null"]
Bool       == [kind |-> "bool", val |-> 1]
TinyFloat  == [kind |-> "tinyFloat", val |-> 0]
NonFinite  == [kind |-> "nonFinite", val |-> 0]

Abs(n) == IF n < 0 THEN -n ELSE n

(***************************************************************************)
(* The numeric fields with their ranges; Unbounded where there is none.    *)
(***************************************************************************)
Unbounded == 2 * Huge

Bounds ==
  [lat           |-> <<-90000, 90000>>,
   lon           |-> <<-180000, 180000>>,
   elevation_m   |-> <<-Unbounded, Unbounded>>,
   temp_c        |-> <<-20000, 80000>>,
   rh_pct        |-> <<0, 100000>>,
   smoke_ppm     |-> <<0, Unbounded>>,
   wind_speed_ms |-> <<0, Unbounded>>,
   wind_dir_deg  |-> <<0, 360000>>,
   battery_pct   |-> <<0, 100000>>]

NumericKeys  == DOMAIN Bounds
TextKeys     == {"device_id", "gateway_id", "status"}
RequiredKeys == NumericKeys \cup TextKeys \cup {"ts_device", "seq"}
AllowedKeys  == RequiredKeys \cup {"schema_version"}
Nullable     == {"wind_speed_ms", "wind_dir_deg"}

\* Mutation of IsNumber: bool is a subclass of int.
IsNumber_Bool(v) == v.kind \in {"int", "float", "tinyFloat", "nonFinite", "bool"}

IsNumber(v) == v.kind \in {"int", "float", "tinyFloat", "nonFinite"}

\* Mutation of IsFinite: the range checks are believed to reject NaN.
IsFinite_Unchecked(v) == TRUE

\* math.isfinite
IsFinite(v) == v.kind # "nonFinite"

\* float(value) raises OverflowError.
FloatOverflows(v) == v.kind = "int" /\ Abs(v.val) >= Huge

\* _check_number appends an error.
NumberError(key, v) ==
  \/ v.kind = "null" /\ key \notin Nullable
  \/ v.kind # "null" /\ ~IsNumber(v)
  \/ IsNumber(v) /\ ~IsFinite(v)
  \/ IsNumber(v) /\ (v.val < Bounds[key][1] \/ v.val > Bounds[key][2])

\* seq: an int, not a bool, and not negative.
SeqError(v) == v.kind # "int" \/ v.val < 0

\* _parse_ts_device appends an error.
TimestampError(v) == v.kind # "text" \/ v.text = "invalid"

\* astimezone(UTC) raises OverflowError.
TimestampOverflows(v) == v.kind = "text" /\ v.text = "edge"

TextError(v) == v # Text("valid")

\* Some check of a complete payload appends an error.
HasErrors(p) ==
  \/ ~(DOMAIN p \subseteq AllowedKeys)
  \/ "schema_version" \in DOMAIN p /\ TextError(p["schema_version"])
  \/ \E key \in TextKeys : TextError(p[key])
  \/ TimestampError(p["ts_device"])
  \/ SeqError(p["seq"])
  \/ \E key \in NumericKeys : NumberError(key, p[key])

\* Some check of a complete payload raises what is no ContractViolationError;
\* the errors found so far are lost.
Raises(p) ==
  \/ TimestampOverflows(p["ts_device"])
  \/ \E key \in NumericKeys : FloatOverflows(p[key])

ValidatePayload(p) ==
  IF ~(RequiredKeys \subseteq DOMAIN p) THEN "INVALID"
  ELSE IF Raises(p) THEN "RAISES"
  ELSE IF HasErrors(p) THEN "INVALID"
  ELSE "record"

-----------------------------------------------------------------------------

\* Mutation of Evaluate: the smoke rule is an elif.
Evaluate_Elif(p, settings) ==
  IF p["temp_c"].val >= settings.temp /\ p["rh_pct"].val <= settings.rh
  THEN "ELEVATED"
  ELSE IF p["smoke_ppm"].val >= settings.smoke THEN "CRITICAL" ELSE "NONE"

\* The risk rules: a critical smoke reading wins over hot and dry.
Evaluate(p, settings) ==
  IF p["smoke_ppm"].val >= settings.smoke THEN "CRITICAL"
  ELSE IF p["temp_c"].val >= settings.temp /\ p["rh_pct"].val <= settings.rh
  THEN "ELEVATED" ELSE "NONE"

\* A body is not JSON, breaks json.loads otherwise (an integer of more than
\* 4300 digits, nesting beyond the recursion limit), is no object, or is one.
Verdict(body, settings) ==
  CASE body.form = "notJson"     -> "INVALID"
    [] body.form = "breaksLoads" -> "RAISES"
    [] body.form = "notObject"   -> "INVALID"
    [] body.form = "object"      ->
         IF ValidatePayload(body.payload) = "record"
         THEN Evaluate(body.payload, settings)
         ELSE ValidatePayload(body.payload)

-----------------------------------------------------------------------------
(***************************************************************************)
(* The environment: a value is empty, text, or a number (Whole for int()). *)
(***************************************************************************)
TextVars  == {"ENVIRONMENT", "TABLE_NAME", "BUCKET_NAME", "ALERT_TOPIC_ARN"}
FloatVars == {"SMOKE_ALERT_PPM", "TEMP_ALERT_C", "RH_ALERT_PCT"}
IntVars   == {"HOT_RETENTION_DAYS", "ALERT_SUPPRESSION_MINUTES"}

\* from_env raises RuntimeError: a variable is absent or empty, or no number.
FromEnvRaises(env) ==
  \/ \E name \in TextVars \cup FloatVars \cup IntVars :
       name \notin DOMAIN env \/ env[name].kind = "empty"
  \/ \E name \in FloatVars : ~IsNumber(env[name])
  \/ \E name \in IntVars : env[name].kind # "int"

FromEnv(env) == [smoke |-> env["SMOKE_ALERT_PPM"].val,
                 temp  |-> env["TEMP_ALERT_C"].val,
                 rh    |-> env["RH_ALERT_PCT"].val]

-----------------------------------------------------------------------------

\* boto3 does not convert the number: too large, too small or too long.
BeyondDynamoDB(v) ==
  \/ v.kind \in {"tinyFloat", "nonFinite"}
  \/ v.kind \in {"int", "float"} /\ Abs(v.val) >= Vast

\* build_telemetry_item: put_item raises before the condition is evaluated.
Unstorable(p) ==
  \E key \in NumericKeys \cup {"seq"} : BeyondDynamoDB(p[key])

=============================================================================
