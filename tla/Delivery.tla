------------------------------ MODULE Delivery ------------------------------
(***************************************************************************)
(* The delivery workflow: a person dispatches apply or destroy, the plan   *)
(* job plans and enforces the policy, a reviewer approves, and the deliver *)
(* job plans again, insists on the approved fingerprint, applies resource  *)
(* by resource, and verifies.  Meanwhile others touch the environment, and *)
(* any job may fail or be killed.                                          *)
(***************************************************************************)
EXTENDS PlanGuard

CONSTANTS
  Resource,    \* addresses of managed resources
  Immutable,   \* those that Terraform can only replace, not update
  Value,       \* what a resource can be configured to
  Gone,        \* "there is none"
  MaxRuns,     \* bound of the model: dispatches
  MaxOutside   \* bound of the model: interventions of others

ASSUME DeliveryAssumption ==
  /\ Gone \notin Value
  /\ Immutable \subseteq Resource
  /\ MaxRuns \in Nat
  /\ MaxOutside \in Nat

VARIABLES
  tracked,    \* Terraform's state: absent, present or tainted
  real,       \* the resources of the account
  wanted,     \* the configuration with its inputs
  hidden,     \* resources the role cannot read (any more)
  phase,      \* where the run is
  op,         \* its operation
  approved,   \* the fingerprint its reviewer has seen
  plan,       \* the plan that is applied
  todo,       \* its resources still to do
  failed,     \* some resource of the apply has failed
  smoke,      \* what the smoke test found
  result,     \* how the last run has ended
  touched,    \* someone else has changed something since the dispatch
  orphans,    \* live resources Terraform has failed to see or to record
  runs, outside

worldVars == <<real, wanted, hidden, touched, outside>>
runVars   == <<phase, op, approved, plan, todo, failed, smoke, result, runs>>
vars      == <<tracked, orphans, worldVars, runVars>>

NoPlan == [changes |-> <<>>, tainted |-> {}, lost |-> {},
           value |-> [r \in Resource |-> Gone]]

Init ==
  /\ tracked = [r \in Resource |-> "absent"]
  /\ real = [r \in Resource |-> Gone]
  /\ wanted \in [Resource -> Value]
  /\ hidden = {}
  /\ phase = "idle"
  /\ op = "apply"
  /\ approved = <<>>
  /\ plan = NoPlan
  /\ todo = {}
  /\ failed = FALSE
  /\ smoke = "none"
  /\ result = "none"
  /\ touched = FALSE
  /\ orphans = {}
  /\ runs = 0
  /\ outside = 0

-----------------------------------------------------------------------------
(***************************************************************************)
(* terraform plan                                                          *)
(***************************************************************************)

Live == {r \in Resource : real[r] # Gone}

Tracked == {r \in Resource : tracked[r] # "absent"}

\* The refresh finds what is in the state, exists and can be read.
Found == (Live \cap Tracked) \ hidden

LostNow == Tracked \ Found

Replace == {"create", "delete"}

\* What an apply has to do with a resource of the configuration.
ApplyActions(r) ==
  CASE r \notin Found                              -> {"create"}
    [] r \in Found /\ tracked[r] = "tainted"       -> Replace
    [] r \in Found /\ tracked[r] = "present" /\ real[r] = wanted[r] -> {"no-op"}
    [] OTHER -> IF r \in Immutable THEN Replace ELSE {"update"}

Wanted == {r \in Resource : wanted[r] # Gone}

PlanOf(operation) ==
  [changes |-> IF operation = "apply"
               THEN [r \in Wanted \cup Found |->
                       IF r \in Wanted THEN ApplyActions(r) ELSE {"delete"}]
               ELSE [r \in Found |-> {"delete"}],
   tainted |-> {r \in Found \cap Wanted : tracked[r] = "tainted"},
   lost    |-> LostNow,
   value   |-> wanted]

Guard(operation, p, expect) ==
  GuardStatus(operation, p.changes, p.tainted, p.lost, expect)

-----------------------------------------------------------------------------
(***************************************************************************)
(* deploy.yml                                                              *)
(***************************************************************************)

\* Mutation of End: the two are mixed up.
End_Swapped(outcome) == phase' = outcome /\ result' = "idle"

End(outcome) == phase' = "idle" /\ result' = outcome

\* A dispatch; preflight refuses another branch or a wrong confirmation.
Dispatch(operation) ==
  /\ phase = "idle"
  /\ runs < MaxRuns
  /\ runs' = runs + 1
  /\ op' = operation
  /\ smoke' = "none"
  /\ touched' = FALSE
  /\ approved' = <<>>
  /\ plan' = NoPlan
  /\ \/ phase' = "plan" /\ result' = "running"
     \/ End("red")
  /\ UNCHANGED <<tracked, orphans, real, wanted, hidden, outside, todo, failed>>

\* What is not in the state stays unknown to Terraform while it exists; what is
\* in the state is overlooked as long as the refresh does not find it.
Overlook(p) ==
  orphans' = {r \in orphans : tracked[r] = "absent"} \cup (p.lost \cap Live)

\* Those of them that still exist after a step.
StillThere(rs) == {r \in rs : real'[r] # Gone}

\* The plan job: terraform, or the guard, may fail for reasons of its own; the
\* policy may refuse; nothing to do ends the run; else a reviewer is asked.
PlanJob ==
  /\ phase = "plan"
  /\ LET p == PlanOf(op)
     IN  \/ /\ End("red")
            /\ UNCHANGED <<approved, orphans>>
         \/ /\ Guard(op, p, {}) # 0
            /\ End("refused")
            /\ Overlook(p)
            /\ UNCHANGED approved
         \/ /\ Guard(op, p, {}) = 0
            /\ ~HasChanges(p.changes)
            /\ End("green")
            /\ Overlook(p)
            /\ UNCHANGED approved
         \/ /\ Guard(op, p, {}) = 0
            /\ HasChanges(p.changes)
            /\ phase' = "waiting"
            /\ approved' = Fingerprint(p.changes)
            /\ Overlook(p)
            /\ UNCHANGED result
  /\ UNCHANGED <<tracked, worldVars, op, plan, todo, failed, smoke, runs>>

\* The reviewer of environment demo approves or rejects.
Review ==
  /\ phase = "waiting"
  /\ \/ phase' = "replan" /\ UNCHANGED result
     \/ End("red")
  /\ UNCHANGED <<tracked, orphans, worldVars>>
  /\ UNCHANGED <<op, approved, plan, todo, failed, smoke, runs>>

\* The deliver job plans with the apply role and checks policy and fingerprint.
Replan ==
  /\ phase = "replan"
  /\ LET p == PlanOf(op)
     IN  \/ /\ End("red")
            /\ UNCHANGED <<plan, orphans>>
         \/ /\ Guard(op, p, {approved}) # 0
            /\ End("red")
            /\ Overlook(p)
            /\ UNCHANGED plan
         \/ /\ Guard(op, p, {approved}) = 0
            /\ phase' = "approved"
            /\ plan' = p
            /\ Overlook(p)
            /\ UNCHANGED result
  /\ UNCHANGED <<tracked, worldVars, op, approved, todo, failed, smoke, runs>>

\* terraform apply of the saved plan; its state no longer has what was lost.
BeginApply ==
  /\ phase = "approved"
  /\ phase' = "apply"
  /\ todo' = DOMAIN plan.changes
  /\ failed' = FALSE
  /\ tracked' = [r \in Resource |->
                   IF r \in plan.lost THEN "absent" ELSE tracked[r]]
  /\ UNCHANGED <<orphans, worldVars, op, approved, plan, smoke, result, runs>>

Has(r, action) == action \in plan.changes[r]

\* One resource is brought to exist and to be, and the state says so.
Becomes(r, existing, recorded) ==
  /\ real' = [real EXCEPT ![r] = existing]
  /\ tracked' = [tracked EXCEPT ![r] = recorded]

\* Nothing is done to it; what does not succeed makes the apply fail.
Fails(r) == UNCHANGED <<real, tracked>> /\ failed' = TRUE

\* The delete half of a replacement comes first.
Vacant(r) == Has(r, "delete") \/ real[r] = Gone

ApplyResource(r) ==
  /\ phase = "apply"
  /\ r \in todo
  /\ todo' = todo \ {r}
  /\ \/ Has(r, "no-op") /\ UNCHANGED <<real, tracked, failed>>
     \/ /\ Has(r, "update")
        /\ real[r] # Gone
        /\ Becomes(r, plan.value[r], "present")
        /\ UNCHANGED failed
     \/ /\ Has(r, "create")
        /\ Vacant(r)
        /\ Becomes(r, plan.value[r], "present")
        /\ UNCHANGED failed
     \/ /\ plan.changes[r] = {"delete"}
        /\ Becomes(r, Gone, "absent")
        /\ UNCHANGED failed
     \* created, but not to the end
     \/ /\ Has(r, "create")
        /\ Vacant(r)
        /\ Becomes(r, plan.value[r], "tainted")
        /\ failed' = TRUE
     \* deleted, and not created again
     \/ /\ plan.changes[r] = Replace
        /\ Becomes(r, Gone, "absent")
        /\ failed' = TRUE
     \/ ~Has(r, "no-op") /\ Fails(r)
  /\ orphans' = StillThere(orphans)
  /\ UNCHANGED <<wanted, hidden, touched, outside>>
  /\ UNCHANGED <<phase, op, approved, plan, smoke, result, runs>>

\* The job is killed: the 50 minutes are over, or the runner is lost.  What is
\* being done to a resource then may be done without being recorded; of a
\* replacement, the half that was under way.
Kill ==
  /\ phase \in {"replan", "approved", "apply", "verify", "smoke"}
  /\ End("red")
  /\ \/ UNCHANGED <<tracked, real, orphans>>
     \/ \E r \in todo :
          /\ phase = "apply"
          /\ \/ /\ Has(r, "create")
                /\ Vacant(r)
                /\ Becomes(r, plan.value[r], "absent")
                /\ orphans' = orphans \cup {r}
             \/ /\ Has(r, "delete")
                /\ Becomes(r, Gone, tracked[r])
                /\ orphans' = StillThere(orphans)
             \/ /\ Has(r, "update")
                /\ real[r] # Gone
                /\ Becomes(r, plan.value[r], tracked[r])
                /\ UNCHANGED orphans
  /\ UNCHANGED <<wanted, hidden, touched, outside>>
  /\ UNCHANGED <<op, approved, plan, todo, failed, smoke, runs>>

EndApply ==
  /\ phase = "apply"
  /\ todo = {}
  /\ IF failed THEN End("red") ELSE phase' = "verify" /\ UNCHANGED result
  /\ UNCHANGED <<tracked, orphans, worldVars>>
  /\ UNCHANGED <<op, approved, plan, todo, failed, smoke, runs>>

\* A plan after the apply must be empty.
Converged ==
  /\ phase = "verify"
  /\ op = "apply"
  /\ LET p == PlanOf("apply")
     IN  \/ End("red")
         \/ ~HasChanges(p.changes) /\ phase' = "smoke" /\ UNCHANGED result
  /\ UNCHANGED <<tracked, orphans, worldVars>>
  /\ UNCHANGED <<op, approved, plan, todo, failed, smoke, runs>>

\* Status of "script | tee" in a shell without pipefail: that of tee.
PipeStatus(script) == "green"

SmokeTest ==
  /\ phase = "smoke"
  /\ smoke' \in {"ok", "failed"}
  /\ End(PipeStatus(smoke'))
  /\ UNCHANGED <<tracked, orphans, worldVars>>
  /\ UNCHANGED <<op, approved, plan, todo, failed, runs>>

\* What "terraform state list | wc -l" counts: if the list fails, nothing.
Counted(listed) == IF listed THEN Tracked ELSE {}

\* The state must be empty; a step before it may fail.
NothingLeft ==
  /\ phase = "verify"
  /\ op = "destroy"
  /\ \/ \E listed \in BOOLEAN :
          End(IF Counted(listed) = {} THEN "green" ELSE "red")
     \/ End("red")
  /\ UNCHANGED <<tracked, orphans, worldVars>>
  /\ UNCHANGED <<op, approved, plan, todo, failed, smoke, runs>>

-----------------------------------------------------------------------------
(***************************************************************************)
(* The others: someone deletes or changes a resource, an input or a commit *)
(* changes the configuration, a role loses or gets back a permission.      *)
(***************************************************************************)

Intervene ==
  /\ outside < MaxOutside
  /\ outside' = outside + 1
  /\ touched' = TRUE
  /\ UNCHANGED <<tracked, runVars>>

OutsideChange(r) ==
  /\ r \in Live
  /\ \E v \in Value \cup {Gone} :
       v # real[r] /\ real' = [real EXCEPT ![r] = v]
  /\ orphans' = StillThere(orphans)
  /\ Intervene
  /\ UNCHANGED <<wanted, hidden>>

\* A run checks out the commit of its dispatch, so only the inputs, values of
\* what is configured, can change during a run.
NewConfiguration(r) ==
  /\ \E v \in Value \cup {Gone} :
       /\ v # wanted[r]
       /\ phase = "idle" \/ (v # Gone /\ wanted[r] # Gone)
       /\ wanted' = [wanted EXCEPT ![r] = v]
  /\ Intervene
  /\ UNCHANGED <<real, hidden, orphans>>

NewPermissions(r) ==
  /\ hidden' = IF r \in hidden THEN hidden \ {r} ELSE hidden \cup {r}
  /\ Intervene
  /\ UNCHANGED <<real, wanted, orphans>>

Next ==
  \/ \E operation \in {"apply", "destroy"} : Dispatch(operation)
  \/ PlanJob \/ Review \/ Replan \/ BeginApply \/ EndApply
  \/ \E r \in Resource : ApplyResource(r)
  \/ Kill \/ Converged \/ SmokeTest \/ NothingLeft
  \/ \E r \in Resource :
       OutsideChange(r) \/ NewConfiguration(r) \/ NewPermissions(r)

Spec == Init /\ [][Next]_vars

=============================================================================
