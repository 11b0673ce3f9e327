------------------------------- MODULE MCEdge -------------------------------
(***************************************************************************)
(* Instances of Edge for TLC.                                              *)
(***************************************************************************)
EXTENDS Edge, TLC

\* The deployed settings: smoke 5.0 ppm, 30 C and 25 % of humidity.
Deployed ==
  [name \in TextVars |-> Text("valid")]
  @@ "SMOKE_ALERT_PPM" :> FloatOf(5000) @@ "TEMP_ALERT_C" :> FloatOf(30000)
  @@ "RH_ALERT_PCT" :> FloatOf(25000) @@ "HOT_RETENTION_DAYS" :> IntOf(19)
  @@ "ALERT_SUPPRESSION_MINUTES" :> IntOf(30)

Without(f, key) == [k \in DOMAIN f \ {key} |-> f[k]]

\* The deployed one, and one with a fault of each kind.
SomeEnvironments ==
  {Deployed, Without(Deployed, "TABLE_NAME"),
   [Deployed EXCEPT !["BUCKET_NAME"] = [kind |-> "empty"]],
   [Deployed EXCEPT !["SMOKE_ALERT_PPM"] = Text("valid")],
   [Deployed EXCEPT !["HOT_RETENTION_DAYS"] = FloatOf(19)]}

Sane == BuildPayload([device |-> 0, seq |-> 1, critical |-> FALSE])

\* Values at and around the bounds of a numeric field, and the odd ones.
Around(key) ==
  {FloatOf(n) : n \in {Bounds[key][1], Bounds[key][1] - 1,
                       Bounds[key][2], Bounds[key][2] + 1, Vast, -Vast}
                      \cap -Vast..Vast}
  \cup {IntOf(0), IntOf(-5), IntOf(Huge), TinyFloat, NonFinite, Bool, Null,
        Text("valid")}

Texts == {Text("valid"), Text("invalid"), Text("edge"), IntOf(1), Bool, Null}

\* One field of a sane payload replaced.
Deviations ==
  UNION {{[Sane EXCEPT ![key] = v] : v \in Around(key)} : key \in NumericKeys}
  \cup {[Sane EXCEPT !["seq"] = v] :
          v \in {IntOf(0), IntOf(-1), IntOf(Vast), IntOf(Huge), FloatOf(1),
                 Bool, Null}}
  \cup {[Sane EXCEPT !["ts_device"] = v] : v \in Texts}
  \cup {[Sane EXCEPT ![key] = v] :
          key \in TextKeys \cup {"schema_version"}, v \in Texts \ {Text("edge")}}

\* Absent and unknown keys, readings around the thresholds, and two faults in
\* one payload.
Combinations ==
  {Without(Sane, key) : key \in AllowedKeys}
  \cup {Sane @@ "note" :> Null}
  \cup {[Sane EXCEPT !["smoke_ppm"] = FloatOf(s), !["temp_c"] = FloatOf(t),
                     !["rh_pct"] = FloatOf(h)] :
          s \in {4999, 5000}, t \in {29999, 30000}, h \in {25000, 25001}}
  \cup {[Sane EXCEPT !["lat"] = IntOf(Huge), !["status"] = Text("invalid")],
        Without([Sane EXCEPT !["ts_device"] = Text("edge")], "seq"),
        [Sane EXCEPT !["smoke_ppm"] = FloatOf(Vast), !["rh_pct"] = NonFinite]}

SomeBodies ==
  {[form |-> f] : f \in {"notJson", "breaksLoads", "notObject"}}
  \cup {[form |-> "object", payload |-> p] : p \in Deviations \cup Combinations}

=============================================================================
