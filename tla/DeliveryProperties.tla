------------------------- MODULE DeliveryProperties -------------------------
(***************************************************************************)
(* What a delivery may do to demo, and what its result means.              *)
(***************************************************************************)
EXTENDS Delivery

\* The state of a delivery keeps its types.
DeliveryTypeOK ==
  /\ tracked \in [Resource -> {"absent", "present", "tainted"}]
  /\ real \in [Resource -> Value \cup {Gone}]
  /\ wanted \in [Resource -> Value \cup {Gone}]
  /\ hidden \subseteq Resource
  /\ phase \in {"idle", "plan", "waiting", "replan", "approved", "apply",
                "verify", "smoke"}
  /\ op \in {"apply", "destroy"}
  /\ todo \subseteq Resource
  /\ failed \in BOOLEAN
  /\ smoke \in {"none", "ok", "failed"}
  /\ result \in {"none", "running", "green", "red", "refused"}
  /\ touched \in BOOLEAN
  /\ orphans \subseteq Resource

\* What a job does to a resource of its plan, be it to the end or, when it is
\* killed, by half.
Handles(r) == ApplyResource(r) \/ (Kill /\ real'[r] # real[r])

\* What is done to a resource is what the reviewer saw for it, whatever others
\* did between the two plans, and nothing else is touched.
AppliedIsApproved ==
  [][\A r \in Resource : Handles(r) =>
       r \in DOMAIN approved /\ plan.changes[r] = approved[r]]_vars

\* An apply never destroys a working resource, even when the configuration asks
\* for it: what it deletes, or what is gone when it is killed, was left tainted
\* by an apply that failed.
NothingLiveIsDestroyed ==
  [][\A r \in Resource : Handles(r) /\ op = "apply" /\ Has(r, "delete") =>
       tracked[r] = "tainted"]_vars

\* A resource that Terraform knows is never created a second time because the
\* role could not see it: nothing is created that was in the state and that
\* the refresh did not find.
NoSecondCopy ==
  [][\A r \in Resource : Handles(r) /\ Has(r, "create") =>
       r \notin plan.lost]_vars

\* A green apply is a complete one: unless somebody intervened during the run,
\* every configured resource is as configured, and no other is left in sight.
GreenIsConverged ==
  phase = "idle" /\ result = "green" /\ op = "apply" /\ ~touched =>
    \A r \in Resource :
      IF wanted[r] # Gone THEN real[r] = wanted[r] /\ tracked[r] = "present"
                          ELSE real[r] = Gone \/ r \in orphans

\* Nothing outlives a green destroy but what Terraform cannot see or does not
\* know: what the role could not read at the destroy's own plan, or has dropped
\* from the state for that reason before, and what a killed job had created and
\* not recorded.  An empty state is no proof of more, and a list that fails
\* counts as an empty state.
GreenDestroyLeavesOrphans ==
  phase = "idle" /\ result = "green" /\ op = "destroy" => Live \subseteq orphans

\* Only what a kill left behind stops the dispatch that continues a failed
\* apply, while the configuration and the account are left alone.  The policy
\* refuses it only if the state has a resource that is gone, deleted by a killed
\* job; and it is set to create what exists only where a killed job had created
\* it and not recorded it.
OnlyKillsStopTheNextApply ==
  outside = 0 =>
    /\ result = "refused" => \E r \in Tracked : real[r] = Gone
    /\ phase = "apply" =>
         \A r \in todo : Has(r, "create") /\ ~Vacant(r) => r \in orphans

\* "A failed apply leaves part of demo deployed.  Dispatch apply again to
\* continue": while nobody else interferes, the policy does not refuse it, and
\* nothing it is set to create is there already, to make it fail for ever.
DispatchAgainContinues ==
  outside = 0 =>
    /\ result # "refused"
    /\ phase = "apply" => \A r \in todo : Has(r, "create") => Vacant(r)

\* A green apply has passed "a smoke check".
GreenPassedSmoke ==
  phase = "idle" /\ result = "green" /\ op = "apply" => smoke # "failed"

=============================================================================
