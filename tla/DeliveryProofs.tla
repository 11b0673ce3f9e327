--------------------------- MODULE DeliveryProofs ---------------------------
(***************************************************************************)
(* What a delivery may do and what its result means, for every set of      *)
(* resources, every configuration, and any number of runs and of           *)
(* interventions between any two steps.                                    *)
(***************************************************************************)
EXTENDS DeliveryProperties, TLAPS

Operation == {"apply", "destroy"}

PlanTyped(p) ==
  /\ DOMAIN p.changes \subseteq Resource
  /\ p.lost \subseteq Resource
  /\ p.tainted \subseteq Resource
  /\ p.value \in [Resource -> Value \cup {Gone}]

TypeInv == DeliveryTypeOK /\ PlanTyped(plan)

\* A saved plan has passed the guard against the approved fingerprint, and
\* what it takes for tainted is.
Approval ==
  /\ phase \in {"approved", "apply"} => Guard(op, plan, {approved}) = 0
  /\ phase = "approved" =>
       \A r \in plan.tainted : tracked[r] = "tainted" /\ r \notin plan.lost
  /\ phase = "apply" =>
       /\ todo \subseteq DOMAIN plan.changes
       /\ \A r \in plan.tainted \cap todo : tracked[r] = "tainted"

Inv1 == TypeInv /\ Approval

-----------------------------------------------------------------------------

\* A plan speaks of resources, and finds tainted what it has found.
LEMMA PlanFacts ==
  ASSUME DeliveryTypeOK, NEW o \in Operation
  PROVE  /\ PlanTyped(PlanOf(o))
         /\ \A r \in PlanOf(o).tainted :
              tracked[r] = "tainted" /\ r \notin PlanOf(o).lost
  <1>1. /\ DOMAIN PlanOf(o).changes \subseteq Wanted \cup Found
        /\ PlanOf(o).lost = LostNow
        /\ PlanOf(o).tainted = {r \in Found \cap Wanted : tracked[r] = "tainted"}
        /\ PlanOf(o).value = wanted
    BY DEF PlanOf
  <1>2. Found \subseteq Resource /\ Wanted \subseteq Resource
    BY DEF Found, Tracked, Wanted, Live
  <1>3. LostNow \subseteq Resource /\ LostNow \cap Found = {}
    BY DEF LostNow, Tracked
  <1>4. PlanTyped(PlanOf(o))
    BY <1>1, <1>2, <1>3 DEF DeliveryTypeOK, PlanTyped
  <1>5. \A r \in PlanOf(o).tainted :
          tracked[r] = "tainted" /\ r \notin PlanOf(o).lost
    BY <1>1, <1>3
  <1> QED BY <1>4, <1>5

LEMMA Inv1Init == Init => Inv1
  <1>1. PlanTyped(NoPlan)
    BY DEF PlanTyped, NoPlan
  <1>2. Init => DeliveryTypeOK /\ Approval
    BY DEF Init, DeliveryTypeOK, Approval
  <1>3. Init => PlanTyped(plan)
    BY <1>1 DEF Init
  <1> QED BY <1>2, <1>3 DEF Inv1, TypeInv

LEMMA Inv1Step == ASSUME Inv1, [Next]_vars PROVE Inv1'
  <1> USE DEF Inv1, TypeInv, DeliveryTypeOK
  <1>1. ASSUME NEW o \in Operation, Dispatch(o) PROVE Inv1'
    <2>1. phase' \in {"idle", "plan"} /\ PlanTyped(NoPlan)
      BY <1>1, DeliveryAssumption DEF Dispatch, End, PlanTyped, NoPlan
    <2> QED BY <1>1, <2>1 DEF Dispatch, End, Operation, PlanTyped, Approval
  <1>2. CASE PlanJob
    <2>1. orphans' \subseteq Resource
      BY <1>2 DEF PlanJob, Overlook, Live
    <2>2. /\ phase' \in {"idle", "waiting"} /\ result' \in {"red", "refused", "green", result}
          /\ UNCHANGED <<tracked, worldVars, op, plan, todo, failed, smoke>>
      BY <1>2 DEF PlanJob, End
    <2>3. DeliveryTypeOK'
      BY <2>1, <2>2 DEF worldVars
    <2> QED BY <2>2, <2>3 DEF PlanTyped, Approval
  <1>3. CASE Review
    BY <1>3 DEF Review, End, worldVars, PlanTyped, Approval
  <1>4. CASE Replan
    <2>1. CASE phase' = "idle" /\ plan' = plan
      <3>1. orphans' \subseteq Resource
        BY <1>4 DEF Replan, Overlook, Live
      <3>2. /\ result' \in {"red", result}
            /\ UNCHANGED <<tracked, worldVars, op, todo, failed, smoke>>
        BY <1>4 DEF Replan, End
      <3>3. DeliveryTypeOK'
        BY <2>1, <3>1, <3>2 DEF worldVars
      <3> QED BY <2>1, <3>3 DEF PlanTyped, Approval
    <2>2. CASE /\ Guard(op, PlanOf(op), {approved}) = 0
               /\ phase' = "approved" /\ plan' = PlanOf(op)
      <3>1. /\ PlanTyped(plan')
            /\ \A r \in plan'.tainted :
                 tracked[r] = "tainted" /\ r \notin plan'.lost
        BY <2>2, PlanFacts DEF Operation
      <3>2. Approval'
        BY <1>4, <2>2, <3>1 DEF Replan, Approval, Guard
      <3>3. DeliveryTypeOK'
        <4>1. orphans' \subseteq Resource
          BY <1>4 DEF Replan, Overlook, Live
        <4>2. UNCHANGED <<tracked, worldVars, op, todo, failed, smoke>>
              /\ result' = result
          BY <1>4, <2>2 DEF Replan, End
        <4> QED BY <2>2, <4>1, <4>2 DEF worldVars
      <3>4. PlanTyped(plan)'
        BY <3>1 DEF PlanTyped
      <3> QED BY <3>2, <3>3, <3>4
    <2> QED BY <1>4, <2>1, <2>2 DEF Replan, End
  <1>5. CASE BeginApply
    BY <1>5 DEF BeginApply, worldVars, PlanTyped, Approval, Guard
  <1>6. ASSUME NEW r \in Resource, ApplyResource(r) PROVE Inv1'
    <2>1. \/ UNCHANGED <<real, tracked>>
          \/ \E v \in Value \cup {Gone}, t \in {"absent", "present", "tainted"} :
               Becomes(r, v, t)
      BY <1>6 DEF ApplyResource, Fails, PlanTyped
    <2>2. /\ phase = "apply" /\ todo' = todo \ {r} /\ failed' \in BOOLEAN
          /\ orphans' \subseteq orphans
          /\ UNCHANGED <<wanted, hidden, touched, outside>>
          /\ UNCHANGED <<phase, op, approved, plan, smoke, result, runs>>
      BY <1>6 DEF ApplyResource, Fails, StillThere
    <2>3. DeliveryTypeOK' /\ PlanTyped(plan)'
      BY <2>1, <2>2 DEF Becomes, PlanTyped
    <2>4. \A q \in Resource \ {r} : tracked'[q] = tracked[q]
      BY <2>1 DEF Becomes
    <2>5. Approval'
      BY <2>2, <2>4 DEF Approval, Guard, PlanTyped
    <2> QED BY <2>3, <2>5
  <1>7. CASE EndApply
    BY <1>7 DEF EndApply, End, worldVars, PlanTyped, Approval
  <1>8. CASE Kill
    <2>1. \/ UNCHANGED <<tracked, real, orphans>>
          \/ \E r \in todo, v \in Value \cup {Gone}, t \in {"absent", "present", "tainted"} :
               Becomes(r, v, t) /\ orphans' \subseteq orphans \cup {r}
      BY <1>8 DEF Kill, PlanTyped, StillThere
    <2>2. /\ phase' = "idle" /\ result' = "red"
          /\ UNCHANGED <<wanted, hidden, touched, outside>>
          /\ UNCHANGED <<op, approved, plan, todo, failed, smoke, runs>>
      BY <1>8 DEF Kill, End
    <2>3. DeliveryTypeOK' /\ PlanTyped(plan)'
      BY <2>1, <2>2 DEF Becomes, PlanTyped
    <2> QED BY <2>2, <2>3 DEF Approval
  <1>9. CASE Converged
    BY <1>9 DEF Converged, End, worldVars, PlanTyped, Approval
  <1>10. CASE SmokeTest
    BY <1>10 DEF SmokeTest, End, PipeStatus, worldVars, PlanTyped, Approval
  <1>11. CASE NothingLeft
    BY <1>11 DEF NothingLeft, End, worldVars, PlanTyped, Approval
  <1>12. ASSUME NEW r \in Resource,
                OutsideChange(r) \/ NewConfiguration(r) \/ NewPermissions(r)
         PROVE  Inv1'
    <2>1. /\ touched' = TRUE
          /\ UNCHANGED <<tracked, runVars>>
          /\ orphans' \subseteq orphans
          /\ real' \in [Resource -> Value \cup {Gone}]
      BY <1>12
      DEF OutsideChange, NewConfiguration, NewPermissions, Intervene, StillThere
    <2>2. wanted' \in [Resource -> Value \cup {Gone}]
      BY <1>12 DEF OutsideChange, NewConfiguration, NewPermissions
    <2>3. hidden' \subseteq Resource
      BY <1>12 DEF OutsideChange, NewConfiguration, NewPermissions
    <2>4. DeliveryTypeOK'
      BY <2>1, <2>2, <2>3 DEF runVars
    <2>5. PlanTyped(plan)' /\ Approval'
      BY <2>1 DEF runVars, PlanTyped, Approval, Guard
    <2> QED BY <2>4, <2>5
  <1>13. CASE UNCHANGED vars
    BY <1>13 DEF vars, worldVars, runVars, PlanTyped, Approval, Guard
  <1> QED
    BY <1>1, <1>2, <1>3, <1>4, <1>5, <1>6, <1>7, <1>8, <1>9, <1>10, <1>11,
       <1>12, <1>13
    DEF Next, Operation

LEMMA Inv1Always == Spec => []Inv1
  BY Inv1Init, Inv1Step, PTL DEF Spec

\* Every variable keeps its type.
THEOREM DeliveryTypeCorrect == Spec => []DeliveryTypeOK
  <1>1. Inv1 => DeliveryTypeOK
    BY DEF Inv1, TypeInv
  <1> QED BY Inv1Always, <1>1, PTL

\* A guard that ends with 0 has found no violation and the expected plan.
LEMMA GuardPassed ==
  ASSUME NEW o, NEW p, NEW e, Guard(o, p, {e}) = 0
  PROVE  /\ p.changes = e
         /\ Violations(o, p.changes, p.tainted, p.lost) = {}
  BY DEF Guard, GuardStatus, Fingerprint

\* What a job does, to the end or by half, it does to a resource of its apply
\* that is still to do.
LEMMA HandledIsToDo ==
  ASSUME Inv1, NEW r \in Resource, Handles(r)
  PROVE  phase = "apply" /\ r \in todo
  <1>1. real \in [Resource -> Value \cup {Gone}]
    BY DEF Inv1, TypeInv, DeliveryTypeOK
  <1>2. CASE ApplyResource(r)
    BY <1>2 DEF ApplyResource
  <1>3. CASE Kill /\ real'[r] # real[r]
    <2>1. PICK q \in todo : phase = "apply" /\ \E v, t : Becomes(q, v, t)
      BY <1>3 DEF Kill
    <2>2. q = r
      BY <1>1, <1>3, <2>1 DEF Becomes
    <2> QED BY <2>1, <2>2
  <1> QED BY <1>2, <1>3 DEF Handles

\* What is applied is what the reviewer saw, the policy and the state allow no
\* deletion of a working resource, and nothing lost is created again.
LEMMA ApplyIsLawful ==
  ASSUME Inv1, NEW r \in Resource, Handles(r)
  PROVE  /\ r \in DOMAIN approved /\ plan.changes[r] = approved[r]
         /\ op = "apply" /\ Has(r, "delete") => tracked[r] = "tainted"
         /\ Has(r, "create") => r \notin plan.lost
  <1>1. phase = "apply" /\ r \in todo /\ r \in DOMAIN plan.changes
    BY HandledIsToDo DEF Inv1, Approval
  <1>2. /\ plan.changes = approved
        /\ Violations(op, plan.changes, plan.tainted, plan.lost) = {}
    BY <1>1, GuardPassed DEF Inv1, Approval
  <1>3. op \in {"apply", "destroy"}
    BY DEF Inv1, TypeInv, DeliveryTypeOK
  <1>4. ASSUME op = "apply", Has(r, "delete")
        PROVE  r \in plan.tainted
    BY <1>1, <1>2, <1>4 DEF Violations, IsRecovery, Allowed, Has
  <1>5. ASSUME Has(r, "create")
        PROVE  r \notin plan.lost
    BY <1>1, <1>2, <1>3, <1>5 DEF Violations, IsRecovery, IsLost, Allowed, Has
  <1>6. r \in plan.tainted => tracked[r] = "tainted"
    BY <1>1 DEF Inv1, Approval
  <1> QED BY <1>1, <1>2, <1>4, <1>5, <1>6

\* The plan that is applied resource by resource is the one the reviewer
\* approved, however much happens between the two plans.
THEOREM OnlyTheApprovedIsApplied == Spec => AppliedIsApproved
  <1>1. Inv1 /\ [Next]_vars =>
          [\A r \in Resource : Handles(r) =>
             r \in DOMAIN approved /\ plan.changes[r] = approved[r]]_vars
    BY ApplyIsLawful
  <1> QED BY Inv1Always, <1>1, PTL DEF Spec, AppliedIsApproved

\* An apply deletes only what a failed apply had left tainted, killed or not.
THEOREM ApplyDestroysNothingLive == Spec => NothingLiveIsDestroyed
  <1>1. Inv1 /\ [Next]_vars =>
          [\A r \in Resource :
             Handles(r) /\ op = "apply" /\ Has(r, "delete") =>
               tracked[r] = "tainted"]_vars
    BY ApplyIsLawful
  <1> QED BY Inv1Always, <1>1, PTL DEF Spec, NothingLiveIsDestroyed

\* No resource that is in the state and cannot be read is created again.
THEOREM NothingIsCreatedTwice == Spec => NoSecondCopy
  <1>1. Inv1 /\ [Next]_vars =>
          [\A r \in Resource : Handles(r) /\ Has(r, "create") =>
             r \notin plan.lost]_vars
    BY ApplyIsLawful
  <1> QED BY Inv1Always, <1>1, PTL DEF Spec, NoSecondCopy

-----------------------------------------------------------------------------
(***************************************************************************)
(* What a green result means.                                              *)
(***************************************************************************)

\* Everything is as configured, as far as Terraform can see.
Complete ==
  \A r \in Resource :
    IF wanted[r] # Gone THEN real[r] = wanted[r] /\ tracked[r] = "present"
                        ELSE real[r] = Gone \/ r \in orphans

\* A live resource that is not in the state is a known orphan, and so is one
\* that the apply about to begin will drop from the state.
Accounted ==
  /\ \A r \in Live : tracked[r] = "absent" => r \in orphans
  /\ phase = "approved" => plan.lost \cap Live \subseteq orphans

\* A plan brings resources to what is configured, or removes them.
Shaped(o, p) ==
  \A r \in DOMAIN p.changes :
    /\ p.changes[r] \in {{"no-op"}, {"create"}, {"update"}, {"delete"}, Replace}
    /\ p.changes[r] # {"delete"} => p.value[r] # Gone
    /\ o = "destroy" => p.changes[r] = {"delete"}

PlanInv ==
  phase \in {"approved", "apply"} =>
    Shaped(op, plan) /\ (~touched => plan.value = wanted)

InDelivery == phase \in {"waiting", "replan", "approved", "apply", "verify", "smoke"}

\* In an undisturbed apply, what nobody wants and the role cannot see is known.
HiddenKnown ==
  InDelivery /\ op = "apply" /\ ~touched =>
    \A r \in hidden \cap Live : wanted[r] = Gone => r \in orphans

\* What a destroy still has to delete.
Dismantled ==
  op = "destroy" =>
    /\ phase = "approved" => Live \subseteq DOMAIN plan.changes \cup orphans
    /\ phase = "apply" /\ ~failed => Live \subseteq todo \cup orphans
    /\ phase = "verify" => Live \subseteq orphans

Checked == phase = "smoke" => op = "apply" /\ (~touched => Complete)

Meaning == GreenIsConverged /\ GreenDestroyLeavesOrphans

Inv2 == Accounted /\ PlanInv /\ HiddenKnown /\ Dismantled /\ Checked /\ Meaning

-----------------------------------------------------------------------------

LEMMA PlanIsShaped ==
  ASSUME NEW o \in Operation, DeliveryTypeOK
  PROVE  Shaped(o, PlanOf(o)) /\ PlanOf(o).value = wanted
  <1>1. PlanOf(o).value = wanted
    BY DEF PlanOf
  <1>2. CASE o = "destroy"
    <2>1. PlanOf(o).changes = [r \in Found |-> {"delete"}]
      BY <1>2 DEF PlanOf
    <2> QED BY <1>1, <2>1 DEF Shaped
  <1>3. CASE o = "apply"
    <2>1. PlanOf(o).changes =
            [r \in Wanted \cup Found |->
               IF r \in Wanted THEN ApplyActions(r) ELSE {"delete"}]
      BY <1>3 DEF PlanOf
    <2>2. ASSUME NEW r PROVE ApplyActions(r) \in {{"no-op"}, {"create"}, {"update"}, Replace}
      BY DEF ApplyActions
    <2>3. \A r \in Wanted : wanted[r] # Gone
      BY DEF Wanted
    <2> QED BY <1>1, <1>3, <2>1, <2>2, <2>3 DEF Shaped
  <1> QED BY <1>2, <1>3 DEF Operation

\* A plan without changes: the configuration is complete.
LEMMA NothingToDo ==
  ASSUME DeliveryTypeOK, ~HasChanges(PlanOf("apply").changes), NEW known,
         \A r \in Live : tracked[r] = "absent" => r \in known,
         \A r \in hidden \cap Live :
           wanted[r] = Gone /\ tracked[r] # "absent" => r \in known
  PROVE  \A r \in Resource :
           IF wanted[r] # Gone THEN real[r] = wanted[r] /\ tracked[r] = "present"
                               ELSE real[r] = Gone \/ r \in known
  <1>1. PlanOf("apply").changes =
          [r \in Wanted \cup Found |->
             IF r \in Wanted THEN ApplyActions(r) ELSE {"delete"}]
    BY DEF PlanOf
  <1>2. \A r \in Wanted \cup Found :
          (IF r \in Wanted THEN ApplyActions(r) ELSE {"delete"}) = {"no-op"}
    BY <1>1 DEF HasChanges
  <1>3. {"create"} # {"no-op"} /\ {"update"} # {"no-op"}
        /\ {"delete"} # {"no-op"} /\ Replace # {"no-op"}
    BY DEF Replace
  <1>4. ASSUME NEW r \in Resource, wanted[r] # Gone
        PROVE  real[r] = wanted[r] /\ tracked[r] = "present"
    <2>1. ApplyActions(r) = {"no-op"}
      BY <1>2, <1>4 DEF Wanted
    <2> QED BY <1>3, <2>1 DEF ApplyActions
  <1>5. ASSUME NEW r \in Resource, wanted[r] = Gone, real[r] # Gone
        PROVE  r \in known
    <2>1. r \notin Found
      BY <1>2, <1>3, <1>5 DEF Wanted
    <2>2. r \in Live /\ (tracked[r] = "absent" \/ r \in hidden)
      BY <1>5, <2>1 DEF Found, Tracked, Live
    <2> QED BY <1>5, <2>2
  <1> QED BY <1>4, <1>5

\* What a plan overlooks is what it has lost and what was an orphan before.
LEMMA Overlooked ==
  ASSUME DeliveryTypeOK, NEW o \in Operation, NEW known,
         \A r \in Live : tracked[r] = "absent" => r \in known
  PROVE  /\ \A r \in Live \ Found : r \in known \cup (PlanOf(o).lost \cap Live)
         /\ \A r \in hidden \cap Live : r \in known \cup (PlanOf(o).lost \cap Live)
  <1>1. PlanOf(o).lost = LostNow
    BY DEF PlanOf
  <1>2. Live \subseteq Resource
    BY DEF Live
  <1>3. \A r \in Live \ Found : tracked[r] = "absent" \/ r \in LostNow
    BY <1>2 DEF LostNow, Tracked
  <1>4. hidden \cap Live \subseteq Live \ Found
    BY DEF Found
  <1> QED BY <1>1, <1>3, <1>4

LEMMA Inv2Init == Init => Inv2
  BY DEF Init, Inv2, Accounted, PlanInv, HiddenKnown, InDelivery, Dismantled,
         Checked, Meaning, GreenIsConverged, GreenDestroyLeavesOrphans, Live

\* The steps of the jobs that touch neither resources nor Terraform's state.
LEMMA PlanJobStep == ASSUME Inv1, Inv2, PlanJob PROVE Inv2'
  <1> DEFINE p == PlanOf(op)
             known == {r \in orphans : tracked[r] = "absent"}
  <1>1. DeliveryTypeOK /\ op \in Operation
    BY DEF Inv1, TypeInv, DeliveryTypeOK, Operation
  <1>2. /\ UNCHANGED <<tracked, real, wanted, hidden, touched, op, plan, todo, failed>>
        /\ orphans' = orphans \/ orphans' = known \cup (p.lost \cap Live)
        /\ phase' \in {"idle", "waiting"}
        /\ (phase' = "idle" /\ result' = "green") \/ phase' = "waiting" =>
             orphans' = known \cup (p.lost \cap Live)
        /\ phase' = "idle" /\ result' = "green" => ~HasChanges(p.changes)
    BY DEF PlanJob, End, Overlook, worldVars
  <1>3. \A r \in Live : tracked[r] = "absent" => r \in known
    BY DEF Inv2, Accounted
  <1>4. Live' = Live
    BY <1>2 DEF Live
  <1>5. /\ \A r \in Live \ Found : r \in known \cup (p.lost \cap Live)
        /\ \A r \in hidden \cap Live : r \in known \cup (p.lost \cap Live)
    BY <1>1, <1>3, Overlooked
  <1>6. Accounted' /\ PlanInv' /\ Dismantled' /\ Checked'
    BY <1>2, <1>3, <1>4 DEF Accounted, PlanInv, Dismantled, Checked
  <1>7. HiddenKnown'
    BY <1>2, <1>4, <1>5 DEF HiddenKnown, InDelivery
  <1>8. GreenIsConverged'
    <2> SUFFICES ASSUME phase' = "idle", result' = "green", op = "apply"
                 PROVE  Complete'
      BY <1>2 DEF GreenIsConverged, Complete
    <2>1. /\ ~HasChanges(PlanOf("apply").changes)
          /\ orphans' = known \cup (p.lost \cap Live)
      BY <1>2
    <2>2. \A r \in Live : tracked[r] = "absent" => r \in orphans'
      BY <1>3, <2>1
    <2>3. \A r \in hidden \cap Live :
            wanted[r] = Gone /\ tracked[r] # "absent" => r \in orphans'
      BY <1>5, <2>1
    <2>4. \A r \in Resource :
            IF wanted[r] # Gone THEN real[r] = wanted[r] /\ tracked[r] = "present"
                                ELSE real[r] = Gone \/ r \in orphans'
      BY <1>1, <2>1, <2>2, <2>3, NothingToDo
    <2> QED BY <1>2, <2>4 DEF Complete
  <1>9. GreenDestroyLeavesOrphans'
    <2> SUFFICES ASSUME phase' = "idle", result' = "green", op = "destroy"
                 PROVE  Live \subseteq orphans'
      BY <1>2, <1>4 DEF GreenDestroyLeavesOrphans
    <2>1. p.changes = [r \in Found |-> {"delete"}]
      BY DEF PlanOf
    <2>2. \A r \in Found : FALSE
      BY <1>2, <2>1 DEF HasChanges
    <2> QED BY <1>2, <1>5, <2>2
  <1> QED BY <1>6, <1>7, <1>8, <1>9 DEF Inv2, Meaning

LEMMA ReplanStep == ASSUME Inv1, Inv2, Replan PROVE Inv2'
  <1> DEFINE p == PlanOf(op)
             known == {r \in orphans : tracked[r] = "absent"}
  <1>1. DeliveryTypeOK /\ op \in Operation
    BY DEF Inv1, TypeInv, DeliveryTypeOK, Operation
  <1>2. /\ phase = "replan"
        /\ UNCHANGED <<tracked, real, wanted, hidden, touched, op, todo, failed>>
        /\ orphans' = orphans \/ orphans' = known \cup (p.lost \cap Live)
        /\ \/ phase' = "idle" /\ result' = "red"
           \/ /\ phase' = "approved" /\ plan' = p
              /\ orphans' = known \cup (p.lost \cap Live)
    BY DEF Replan, End, Overlook, worldVars
  <1>3. \A r \in Live : tracked[r] = "absent" => r \in known
    BY DEF Inv2, Accounted
  <1>4. Live' = Live
    BY <1>2 DEF Live
  <1>5. /\ \A r \in Live \ Found : r \in known \cup (p.lost \cap Live)
        /\ \A r \in hidden \cap Live : r \in known \cup (p.lost \cap Live)
    BY <1>1, <1>3, Overlooked
  <1>6. Accounted'
    BY <1>2, <1>3, <1>4 DEF Accounted
  <1>7. PlanInv'
    <2>1. Shaped(op, p) /\ p.value = wanted
      BY <1>1, PlanIsShaped
    <2>2. phase' = "approved" => Shaped(op, plan)'
      BY <1>2, <2>1 DEF Shaped
    <2> QED BY <1>2, <2>1, <2>2 DEF PlanInv
  <1>8. HiddenKnown'
    BY <1>2, <1>4, <1>5 DEF HiddenKnown, InDelivery
  <1>9. Dismantled'
    <2> SUFFICES ASSUME op = "destroy", phase' = "approved"
                 PROVE  Live \subseteq DOMAIN p.changes \cup orphans'
      BY <1>2, <1>4 DEF Dismantled
    <2>1. DOMAIN p.changes = Found
      BY DEF PlanOf
    <2> QED BY <1>2, <1>5, <2>1
  <1>10. Checked' /\ Meaning'
    BY <1>2 DEF Checked, Meaning, GreenIsConverged, GreenDestroyLeavesOrphans
  <1> QED BY <1>6, <1>7, <1>8, <1>9, <1>10 DEF Inv2

LEMMA BeginApplyStep == ASSUME Inv1, Inv2, BeginApply PROVE Inv2'
  <1>1. /\ phase = "approved" /\ phase' = "apply"
        /\ todo' = DOMAIN plan.changes /\ failed' = FALSE
        /\ UNCHANGED <<orphans, real, wanted, hidden, touched, op, plan>>
        /\ \A r \in Resource :
             tracked'[r] = "absent" => tracked[r] = "absent" \/ r \in plan.lost
    BY DEF BeginApply, worldVars
  <1>2. Live' = Live /\ Live \subseteq Resource
    BY <1>1 DEF Live
  <1>3. Accounted'
    BY <1>1, <1>2 DEF Inv2, Accounted
  <1>4. PlanInv' /\ HiddenKnown' /\ Dismantled'
    BY <1>1, <1>2 DEF Inv2, PlanInv, Shaped, HiddenKnown, InDelivery, Dismantled
  <1>5. Checked' /\ Meaning'
    BY <1>1 DEF Checked, Meaning, GreenIsConverged, GreenDestroyLeavesOrphans
  <1> QED BY <1>3, <1>4, <1>5 DEF Inv2

\* A resource of the plan is brought to what is configured, or is gone.
LEMMA ApplyStep ==
  ASSUME Inv1, Inv2, NEW r \in Resource, ApplyResource(r) PROVE Inv2'
  <1>1. /\ phase = "apply" /\ r \in todo /\ todo' = todo \ {r}
        /\ UNCHANGED <<wanted, hidden, touched, phase, op, plan>>
        /\ \A q \in orphans : q \in Live' => q \in orphans'
    BY DEF ApplyResource, StillThere, Live
  <1>2. r \in DOMAIN plan.changes
    BY <1>1 DEF Inv1, Approval
  <1>3. /\ Shaped(op, plan)
        /\ ~touched => plan.value = wanted
    BY <1>1 DEF Inv2, PlanInv
  <1>4. tracked \in [Resource -> {"absent", "present", "tainted"}]
        /\ real \in [Resource -> Value \cup {Gone}]
    BY DEF Inv1, TypeInv, DeliveryTypeOK
  <1>5. \/ UNCHANGED <<real, tracked>> /\ (failed' \/ Has(r, "no-op"))
        \/ Becomes(r, Gone, "absent")
        \/ /\ Has(r, "create") \/ Has(r, "update")
           /\ Becomes(r, plan.value[r], "present") \/ Becomes(r, plan.value[r], "tainted")
    BY DEF ApplyResource, Fails
  <1>6. /\ Has(r, "create") \/ Has(r, "update") =>
             plan.value[r] # Gone /\ op # "destroy"
        /\ op = "destroy" => ~Has(r, "no-op")
    BY <1>2, <1>3 DEF Shaped, Has, Replace
  <1>7. /\ \A q \in Resource \ {r} : tracked'[q] = tracked[q] /\ real'[q] = real[q]
        /\ \/ tracked'[r] = tracked[r] /\ real'[r] = real[r]
              /\ (failed' \/ Has(r, "no-op"))
           \/ real'[r] = Gone
           \/ /\ Has(r, "create") \/ Has(r, "update")
              /\ real'[r] = plan.value[r] /\ tracked'[r] # "absent"
    BY <1>4, <1>5 DEF Becomes
  <1>8. failed => failed'
    BY DEF ApplyResource, Fails
  <1>9. Accounted'
    BY <1>1, <1>7 DEF Inv2, Accounted, Live
  <1>10. PlanInv'
    BY <1>1 DEF Inv2, PlanInv, Shaped
  <1>11. HiddenKnown'
    <2> SUFFICES ASSUME op = "apply", ~touched, NEW q \in hidden, q \in Live',
                        wanted[q] = Gone
                 PROVE  q \in orphans'
      BY <1>1 DEF HiddenKnown
    <2>1. \A x \in hidden \cap Live : wanted[x] = Gone => x \in orphans
      BY <1>1 DEF Inv2, HiddenKnown, InDelivery
    <2>2. q \in Live
      BY <1>3, <1>6, <1>7 DEF Live
    <2> QED BY <1>1, <2>1, <2>2
  <1>12. Dismantled'
    <2> SUFFICES ASSUME op = "destroy", ~failed', NEW q \in Live'
                 PROVE  q \in todo' \cup orphans'
      BY <1>1 DEF Dismantled
    <2>1. Live \subseteq todo \cup orphans
      BY <1>1, <1>8 DEF Inv2, Dismantled
    <2>2. q # r /\ q \in Live
      BY <1>6, <1>7 DEF Live
    <2> QED BY <1>1, <2>1, <2>2
  <1>13. Checked' /\ Meaning'
    BY <1>1 DEF Checked, Meaning, GreenIsConverged, GreenDestroyLeavesOrphans
  <1> QED BY <1>9, <1>10, <1>11, <1>12, <1>13 DEF Inv2

LEMMA ConvergedStep == ASSUME Inv1, Inv2, Converged PROVE Inv2'
  <1>1. /\ phase = "verify" /\ op = "apply"
        /\ \/ phase' = "idle" /\ result' = "red"
           \/ phase' = "smoke" /\ ~HasChanges(PlanOf("apply").changes)
        /\ UNCHANGED <<tracked, orphans, real, wanted, hidden, touched, op>>
    BY DEF Converged, End, worldVars
  <1>2. Live' = Live
    BY <1>1 DEF Live
  <1>3. Accounted' /\ PlanInv' /\ HiddenKnown' /\ Dismantled' /\ Meaning'
    BY <1>1, <1>2
    DEF Inv2, Accounted, PlanInv, HiddenKnown, InDelivery, Dismantled, Meaning,
        GreenIsConverged, GreenDestroyLeavesOrphans
  <1>4. Checked'
    <2> SUFFICES ASSUME phase' = "smoke", ~touched PROVE Complete
      BY <1>1 DEF Checked, Complete
    <2>1. \A r \in Live : tracked[r] = "absent" => r \in orphans
      BY DEF Inv2, Accounted
    <2>2. \A r \in hidden \cap Live :
            wanted[r] = Gone /\ tracked[r] # "absent" => r \in orphans
      BY <1>1 DEF Inv2, HiddenKnown, InDelivery
    <2>3. DeliveryTypeOK
      BY DEF Inv1, TypeInv
    <2> QED BY <1>1, <2>1, <2>2, <2>3, NothingToDo DEF Complete
  <1> QED BY <1>3, <1>4 DEF Inv2

\* The steps that leave the account alone, up to the end of a run.
LEMMA QuietStep ==
  ASSUME Inv1, Inv2,
         \/ \E o \in Operation : Dispatch(o)
         \/ Review \/ EndApply \/ SmokeTest \/ NothingLeft
  PROVE  Inv2'
  <1> USE DEF Inv2, Accounted, PlanInv, HiddenKnown, InDelivery, Dismantled,
              Checked, Meaning, GreenIsConverged, GreenDestroyLeavesOrphans
  <1>1. UNCHANGED <<tracked, orphans, real, wanted, hidden>> /\ Live' = Live
    BY DEF Dispatch, Review, EndApply, SmokeTest, NothingLeft, worldVars, Live
  <1>2. ASSUME NEW o \in Operation, Dispatch(o) PROVE Inv2'
    BY <1>1, <1>2 DEF Dispatch, End
  <1>3. CASE Review
    BY <1>1, <1>3 DEF Review, End, worldVars
  <1>4. CASE EndApply
    BY <1>1, <1>4 DEF EndApply, End, worldVars
  <1>5. CASE SmokeTest
    BY <1>1, <1>5 DEF SmokeTest, End, PipeStatus, worldVars, Complete
  <1>6. CASE NothingLeft
    BY <1>1, <1>6 DEF NothingLeft, End, worldVars
  <1> QED BY <1>2, <1>3, <1>4, <1>5, <1>6

LEMMA KillStep == ASSUME Inv1, Inv2, Kill PROVE Inv2'
  <1>1. phase' = "idle" /\ result' = "red"
    BY DEF Kill, End
  <1>2. /\ real \in [Resource -> Value \cup {Gone}]
        /\ tracked \in [Resource -> {"absent", "present", "tainted"}]
        /\ todo \subseteq Resource
    BY DEF Inv1, TypeInv, DeliveryTypeOK
  <1>3. \A q \in Live : tracked[q] = "absent" => q \in orphans
    BY DEF Inv2, Accounted
  <1>4. ASSUME UNCHANGED <<tracked, real, orphans>> PROVE Accounted'
    <2>1. tracked' = tracked /\ real' = real /\ orphans' = orphans
      BY <1>4
    <2>2. Live' = Live
      BY <2>1 DEF Live
    <2> QED BY <1>1, <1>3, <2>1, <2>2 DEF Accounted
  <1>5. ASSUME NEW r \in todo, NEW v, NEW t, Becomes(r, v, t),
               \/ orphans' = orphans \cup {r}
               \/ /\ t = tracked[r] /\ (v = Gone \/ real[r] # Gone)
                  /\ orphans' = orphans \/ orphans' = StillThere(orphans)
        PROVE  Accounted'
    <2>1. /\ tracked'[r] = t /\ real'[r] = v
          /\ \A q \in Resource \ {r} : tracked'[q] = tracked[q] /\ real'[q] = real[q]
      BY <1>2, <1>5 DEF Becomes
    <2>2. \A q \in orphans : real'[q] # Gone => q \in orphans'
      BY <1>5 DEF StillThere
    <2> QED BY <1>1, <1>2, <1>3, <1>5, <2>1, <2>2 DEF Accounted, Live
  <1>6. ASSUME ~UNCHANGED <<tracked, real, orphans>> PROVE Accounted'
    <2>1. PICK r \in todo :
            \/ Becomes(r, plan.value[r], "absent") /\ orphans' = orphans \cup {r}
            \/ Becomes(r, Gone, tracked[r]) /\ orphans' = StillThere(orphans)
            \/ /\ real[r] # Gone /\ Becomes(r, plan.value[r], tracked[r])
               /\ orphans' = orphans
      BY <1>6 DEF Kill
    <2>2. CASE Becomes(r, plan.value[r], "absent") /\ orphans' = orphans \cup {r}
      BY <1>5, <2>2
    <2>3. CASE Becomes(r, Gone, tracked[r]) /\ orphans' = StillThere(orphans)
      BY <1>5, <2>3
    <2>4. CASE /\ real[r] # Gone /\ Becomes(r, plan.value[r], tracked[r])
               /\ orphans' = orphans
      BY <1>5, <2>4
    <2> QED BY <2>1, <2>2, <2>3, <2>4
  <1>7. Accounted'
    BY <1>4, <1>6
  <1> QED BY <1>1, <1>7
      DEF Inv2, PlanInv, HiddenKnown, InDelivery, Dismantled, Checked, Meaning,
          GreenIsConverged, GreenDestroyLeavesOrphans

\* Others can only take resources away, and make the run a disturbed one.
LEMMA OutsideStep ==
  ASSUME Inv1, Inv2, NEW r \in Resource,
         OutsideChange(r) \/ NewConfiguration(r) \/ NewPermissions(r)
  PROVE  Inv2'
  <1>1. /\ touched' = TRUE /\ UNCHANGED <<tracked, runVars>>
        /\ \A q \in orphans : q \in Live' => q \in orphans'
    BY DEF OutsideChange, NewConfiguration, NewPermissions, Intervene,
           StillThere, Live
  <1>2. Live' \subseteq Live
    <2>1. real \in [Resource -> Value \cup {Gone}]
      BY DEF Inv1, TypeInv, DeliveryTypeOK
    <2> QED BY <2>1 DEF OutsideChange, NewConfiguration, NewPermissions, Live
  <1>3. Accounted' /\ PlanInv' /\ HiddenKnown' /\ Dismantled' /\ Checked'
    BY <1>1, <1>2
    DEF Inv2, runVars, Accounted, PlanInv, Shaped, HiddenKnown, Dismantled, Checked
  <1>4. Meaning'
    BY <1>1, <1>2
    DEF Inv2, runVars, Meaning, GreenIsConverged, GreenDestroyLeavesOrphans
  <1> QED BY <1>3, <1>4 DEF Inv2

LEMMA Inv2Step == ASSUME Inv1, Inv2, [Next]_vars PROVE Inv2'
  <1>1. CASE UNCHANGED vars
    <2>1. Live' = Live
      BY <1>1 DEF vars, worldVars, Live
    <2> QED
      BY <1>1, <2>1
      DEF vars, worldVars, runVars, Inv2, Accounted, PlanInv, Shaped, HiddenKnown,
          InDelivery, Dismantled, Checked, Complete, Meaning, GreenIsConverged,
          GreenDestroyLeavesOrphans
  <1> QED
    BY <1>1, QuietStep, PlanJobStep, ReplanStep, BeginApplyStep, ApplyStep,
       ConvergedStep, KillStep, OutsideStep
    DEF Next, Operation

LEMMA Inv2Always == Spec => []Inv2
  BY Inv1Always, Inv2Init, Inv2Step, PTL DEF Spec

\* A green apply that nobody disturbed has left demo as it is configured.
THEOREM GreenApplyIsComplete == Spec => []GreenIsConverged
  <1>1. Inv2 => GreenIsConverged
    BY DEF Inv2, Meaning
  <1> QED BY Inv2Always, <1>1, PTL

\* A green destroy has left nothing but what Terraform could not see or had
\* not recorded, whoever intervened.
THEOREM GreenDestroyIsThorough == Spec => []GreenDestroyLeavesOrphans
  <1>1. Inv2 => GreenDestroyLeavesOrphans
    BY DEF Inv2, Meaning
  <1> QED BY Inv2Always, <1>1, PTL

-----------------------------------------------------------------------------
(***************************************************************************)
(* What stops the dispatch that continues a failed apply.  As long as      *)
(* nobody has intervened, every resource that is in the state and not      *)
(* tainted is as configured: what an apply left undone is absent, tainted  *)
(* or gone, and the policy lets all of these be repaired but the last.     *)
(***************************************************************************)

Pristine ==
  outside = 0 =>
    /\ hidden = {}
    /\ ~touched
    /\ \A r \in Resource : wanted[r] # Gone
    /\ \A r \in Live : tracked[r] = "present" => real[r] = wanted[r]

RefusalInv ==
  outside = 0 /\ result = "refused" => \E r \in Tracked : real[r] = Gone

Inv3 ==
  /\ outside \in Nat
  /\ Pristine
  /\ result = "refused" => phase = "idle"
  /\ RefusalInv

LEMMA Inv3Init == Init => Inv3
  BY DeliveryAssumption
  DEF Init, Inv3, Pristine, Live, RefusalInv

\* The guard refuses a plan for one of its addresses.
LEMMA RefusedAddress ==
  ASSUME NEW o, NEW p, Guard(o, p, {}) # 0
  PROVE  \E r \in DOMAIN p.changes :
           \/ ~(p.changes[r] \subseteq KnownActions)
           \/ o = "apply" /\ r \in p.lost
           \/ /\ ~(p.changes[r] \subseteq Allowed(o))
              /\ ~(o = "apply" /\ p.changes[r] \ Allowed(o) = {"delete"}
                               /\ r \in p.tainted)
  BY DEF Guard, GuardStatus, Violations, IsLost, IsRecovery

\* What the policy refuses in a pristine environment is a resource that the
\* state has and the account has not.
LEMMA OnlyTheVanished ==
  ASSUME Inv1, Pristine, outside = 0, NEW o \in Operation,
         Guard(o, PlanOf(o), {}) # 0
  PROVE  \E r \in Resource : tracked[r] # "absent" /\ real[r] = Gone
  <1> DEFINE p == PlanOf(o)
  <1>1. PICK r \in DOMAIN p.changes :
          \/ ~(p.changes[r] \subseteq KnownActions)
          \/ o = "apply" /\ r \in p.lost
          \/ /\ ~(p.changes[r] \subseteq Allowed(o))
             /\ ~(o = "apply" /\ p.changes[r] \ Allowed(o) = {"delete"}
                              /\ r \in p.tainted)
    BY RefusedAddress
  <1>2. /\ tracked \in [Resource -> {"absent", "present", "tainted"}]
        /\ hidden = {} /\ Wanted = Resource
        /\ \A q \in Live : tracked[q] = "present" => real[q] = wanted[q]
    BY DEF Inv1, TypeInv, DeliveryTypeOK, Pristine, Wanted
  <1>3. CASE o = "destroy"
    <2>1. p.changes[r] = {"delete"}
      BY <1>3 DEF PlanOf
    <2> QED BY <1>1, <1>3, <2>1 DEF KnownActions, Allowed
  <1>4. CASE o = "apply"
    <2>1. r \in Resource /\ p.changes[r] = ApplyActions(r) /\ p.lost = LostNow
      BY <1>2, <1>4 DEF PlanOf, Found, Live, Tracked
    <2>2. r \notin p.lost => p.changes[r] \subseteq KnownActions
      BY <2>1 DEF ApplyActions, KnownActions, Replace
    <2>3. CASE r \in p.lost
      BY <1>2, <2>1, <2>3 DEF LostNow, Found, Live, Tracked
    <2>4. CASE r \in Found /\ tracked[r] = "tainted"
      <3>1. p.changes[r] = Replace /\ r \in p.tainted /\ r \notin p.lost
        BY <1>2, <2>1, <2>4 DEF ApplyActions, PlanOf, LostNow
      <3> QED BY <1>1, <1>4, <2>2, <3>1 DEF Allowed, Replace
    <2>5. CASE r \in Found /\ tracked[r] # "tainted"
      <3>1. tracked[r] = "present" /\ real[r] = wanted[r] /\ r \notin p.lost
        BY <1>2, <2>1, <2>5 DEF Found, LostNow, Tracked
      <3>2. p.changes[r] = {"no-op"}
        BY <2>1, <2>5, <3>1 DEF ApplyActions
      <3> QED BY <1>1, <1>4, <3>1, <3>2 DEF KnownActions, Allowed
    <2>6. CASE r \notin Found /\ r \notin p.lost
      <3>1. p.changes[r] = {"create"}
        BY <2>1, <2>6 DEF ApplyActions
      <3> QED BY <1>1, <1>4, <2>6, <3>1 DEF KnownActions, Allowed
    <2> QED BY <2>3, <2>4, <2>5, <2>6
  <1> QED BY <1>3, <1>4 DEF Operation

\* The steps that neither touch a resource nor refuse a plan.
LEMMA UntouchedStep ==
  ASSUME Inv3, UNCHANGED <<real, wanted, hidden, outside>>,
         touched' => touched,
         \A r \in Resource : tracked'[r] = tracked[r] \/ tracked'[r] = "absent",
         result' = "refused" => UNCHANGED <<tracked, result, phase>>
  PROVE  Inv3'
  <1>1. Live' = Live /\ Live \subseteq Resource
    BY DEF Live
  <1>2. Pristine'
    BY <1>1 DEF Inv3, Pristine
  <1> QED BY <1>2 DEF Inv3, RefusalInv, Tracked

\* What an apply, or its end, makes of one resource.
LEMMA RepairableStep ==
  ASSUME Inv3, NEW r \in Resource,
         tracked \in [Resource -> {"absent", "present", "tainted"}],
         real \in [Resource -> Value \cup {Gone}],
         UNCHANGED <<wanted, hidden, touched, outside>>,
         NEW v, NEW t, Becomes(r, v, t),
         outside = 0 => v \in {wanted[r], Gone} \/ t # "present",
         result' # "refused"
  PROVE  Inv3'
  <1>1. /\ tracked'[r] = t /\ real'[r] = v
        /\ \A q \in Resource \ {r} : tracked'[q] = tracked[q] /\ real'[q] = real[q]
    BY DEF Becomes
  <1>2. ASSUME outside = 0, NEW q \in Live', tracked'[q] = "present"
        PROVE  real'[q] = wanted'[q]
    BY <1>1, <1>2 DEF Live, Inv3, Pristine
  <1>3. Pristine'
    BY <1>2 DEF Inv3, Pristine
  <1> QED BY <1>3 DEF Inv3, RefusalInv, Tracked

LEMMA ResourceStep ==
  ASSUME Inv1, Inv2, Inv3, NEW r \in Resource, ApplyResource(r) PROVE Inv3'
  <1>1. /\ phase = "apply" /\ result' = result /\ r \in todo
        /\ UNCHANGED <<wanted, hidden, touched, outside, phase>>
    BY DEF ApplyResource
  <1>2. /\ tracked \in [Resource -> {"absent", "present", "tainted"}]
        /\ real \in [Resource -> Value \cup {Gone}]
    BY DEF Inv1, TypeInv, DeliveryTypeOK
  <1>3. result' # "refused"
    BY <1>1 DEF Inv3
  <1>4. outside = 0 => plan.value[r] = wanted[r]
    BY <1>1 DEF Inv2, PlanInv, Inv3, Pristine
  <1>5. \/ UNCHANGED <<real, tracked>>
        \/ Becomes(r, plan.value[r], "present")
        \/ Becomes(r, plan.value[r], "tainted")
        \/ Becomes(r, Gone, "absent")
    BY DEF ApplyResource, Fails
  <1>6. CASE UNCHANGED <<real, tracked>>
    BY <1>1, <1>3, <1>6, UntouchedStep
  <1>7. CASE ~UNCHANGED <<real, tracked>>
    BY <1>1, <1>2, <1>3, <1>4, <1>5, <1>7, RepairableStep
  <1> QED BY <1>6, <1>7

LEMMA KilledStep == ASSUME Inv1, Inv2, Inv3, Kill PROVE Inv3'
  <1>1. /\ result' = "red"
        /\ UNCHANGED <<wanted, hidden, touched, outside>>
    BY DEF Kill, End
  <1>2. /\ tracked \in [Resource -> {"absent", "present", "tainted"}]
        /\ real \in [Resource -> Value \cup {Gone}]
        /\ todo \subseteq Resource
    BY DEF Inv1, TypeInv, DeliveryTypeOK
  <1>3. CASE UNCHANGED <<tracked, real>>
    BY <1>1, <1>3, UntouchedStep
  <1>4. CASE ~UNCHANGED <<tracked, real>>
    <2>1. PICK r \in todo :
            /\ phase = "apply"
            /\ \/ Becomes(r, plan.value[r], "absent")
               \/ Becomes(r, Gone, tracked[r])
               \/ Becomes(r, plan.value[r], tracked[r])
      BY <1>4 DEF Kill
    <2>2. outside = 0 => plan.value[r] = wanted[r]
      BY <2>1 DEF Inv2, PlanInv, Inv3, Pristine
    <2> QED BY <1>1, <1>2, <2>1, <2>2, RepairableStep
  <1> QED BY <1>3, <1>4

LEMMA Inv3Step == ASSUME Inv1, Inv2, Inv3, [Next]_vars PROVE Inv3'
  <1>1. ASSUME NEW o \in Operation, Dispatch(o) PROVE Inv3'
    <2>1. result' # "refused" /\ touched' = FALSE
      BY <1>1 DEF Dispatch, End
    <2>2. UNCHANGED <<tracked, real, wanted, hidden, outside>>
      BY <1>1 DEF Dispatch
    <2> QED BY <2>1, <2>2, UntouchedStep
  <1>2. CASE PlanJob
    <2>1. /\ UNCHANGED <<tracked, real, wanted, hidden, touched, outside>>
          /\ phase = "plan"
          /\ result' = "refused" =>
               phase' = "idle" /\ Guard(op, PlanOf(op), {}) # 0
      <3>1. result # "refused"
        BY <1>2 DEF PlanJob, Inv3
      <3>2. UNCHANGED worldVars /\ tracked' = tracked
        BY <1>2 DEF PlanJob
      <3>3. \/ End("red") \/ End("green")
            \/ Guard(op, PlanOf(op), {}) # 0 /\ End("refused")
            \/ UNCHANGED result
        BY <1>2, Zenon DEF PlanJob
      <3> QED BY <1>2, <3>1, <3>2, <3>3 DEF PlanJob, End, worldVars
    <2>2. CASE result' # "refused"
      BY <2>1, <2>2, UntouchedStep
    <2>3. CASE result' = "refused"
      <3>1. Live' = Live
        BY <2>1 DEF Live
      <3>2. Pristine'
        BY <2>1, <3>1 DEF Inv3, Pristine
      <3>3. op \in Operation
        BY DEF Inv1, TypeInv, DeliveryTypeOK, Operation
      <3>4. outside = 0 => \E r \in Resource : tracked[r] # "absent" /\ real[r] = Gone
        BY <2>1, <2>3, <3>3, OnlyTheVanished DEF Inv3
      <3> QED BY <2>1, <2>3, <3>2, <3>4 DEF Inv3, RefusalInv, Tracked
    <2> QED BY <2>2, <2>3
  <1>3. CASE Review \/ Replan \/ BeginApply \/ EndApply \/ Converged \/ SmokeTest
             \/ NothingLeft
    <2>1. /\ UNCHANGED <<real, wanted, hidden, touched, outside>>
          /\ \A r \in Resource : tracked'[r] = tracked[r] \/ tracked'[r] = "absent"
      BY <1>3
      DEF Review, Replan, BeginApply, EndApply, Converged, SmokeTest,
          NothingLeft, worldVars
    <2>2. result' # "refused"
      BY <1>3
      DEF Review, Replan, BeginApply, EndApply, Converged, SmokeTest,
          NothingLeft, End, PipeStatus, Inv3
    <2> QED BY <2>1, <2>2, UntouchedStep
  <1>4. ASSUME NEW r \in Resource, ApplyResource(r) PROVE Inv3'
    BY <1>4, ResourceStep
  <1>5. CASE Kill
    BY <1>5, KilledStep
  <1>6. ASSUME NEW r \in Resource,
               OutsideChange(r) \/ NewConfiguration(r) \/ NewPermissions(r)
        PROVE  Inv3'
    <2>1. outside' = outside + 1 /\ UNCHANGED <<phase, result>>
      BY <1>6
      DEF OutsideChange, NewConfiguration, NewPermissions, Intervene, runVars
    <2> QED BY <2>1 DEF Inv3, Pristine, RefusalInv
  <1>7. CASE UNCHANGED vars
    <2>1. UNCHANGED <<tracked, real, wanted, hidden, touched, outside, phase, result>>
      BY <1>7 DEF vars, worldVars, runVars
    <2> QED BY <2>1, UntouchedStep
  <1> QED
    BY <1>1, <1>2, <1>3, <1>4, <1>5, <1>6, <1>7 DEF Next, Operation

\* What an apply is set to create and cannot, because it exists, is an orphan.
CreatesVacant(rs) ==
  \A r \in rs : Has(r, "create") /\ ~Vacant(r) => r \in orphans

Inv4 ==
  outside = 0 =>
    /\ phase = "approved" => CreatesVacant(DOMAIN plan.changes)
    /\ phase = "apply" => CreatesVacant(todo)

\* A plan creates what is not found; what is not found although nothing is
\* hidden is gone or not in the state.
LEMMA ApprovedCreates ==
  ASSUME Inv1, Inv2, Inv3, Replan, phase' = "approved", outside = 0
  PROVE  CreatesVacant(DOMAIN plan.changes)'
  <1> DEFINE p == PlanOf(op)
  <1>1. /\ plan' = p /\ real' = real
        /\ orphans' = {r \in orphans : tracked[r] = "absent"} \cup (p.lost \cap Live)
    BY DEF Replan, End, Overlook, worldVars
  <1>2. hidden = {} /\ \A r \in Live : tracked[r] = "absent" => r \in orphans
    BY DEF Inv2, Accounted, Inv3, Pristine
  <1>3. op = "apply" \/ op = "destroy"
    BY DEF Inv1, TypeInv, DeliveryTypeOK
  <1>4. ASSUME NEW r \in DOMAIN p.changes, "create" \in p.changes[r],
               "delete" \notin p.changes[r], real[r] # Gone
        PROVE  r \in orphans'
    <2>1. op = "apply"
      BY <1>3, <1>4 DEF PlanOf
    <2>2. p.changes = [q \in Wanted \cup Found |->
                         IF q \in Wanted THEN ApplyActions(q) ELSE {"delete"}]
      BY <2>1 DEF PlanOf
    <2>3. r \in Wanted \cup Found
      BY <1>4, <2>2
    <2>4. p.changes[r] = IF r \in Wanted THEN ApplyActions(r) ELSE {"delete"}
      BY <2>2, <2>3
    <2>5. r \notin Found
      BY <1>4, <2>4 DEF ApplyActions, Replace
    <2>6. r \in Live
      BY <1>4, <2>3 DEF Wanted, Found, Live
    <2>7. tracked[r] = "absent"
      BY <1>2, <2>5, <2>6 DEF Found, Tracked, Live
    <2> QED BY <1>1, <1>2, <2>6, <2>7
  <1> QED BY <1>1, <1>4 DEF CreatesVacant, Has, Vacant

LEMMA Inv4Step == ASSUME Inv1, Inv2, Inv3, Inv4, [Next]_vars PROVE Inv4'
  <1> SUFFICES ASSUME outside' = 0, phase' \in {"approved", "apply"}
               PROVE  /\ phase' = "approved" => CreatesVacant(DOMAIN plan.changes)'
                      /\ phase' = "apply" => CreatesVacant(todo)'
    BY DEF Inv4
  <1>1. outside \in Nat
    BY DEF Inv3
  <1>2. CASE Replan
    BY <1>2, ApprovedCreates DEF Replan, End, worldVars
  <1>3. CASE BeginApply
    BY <1>3 DEF BeginApply, worldVars, Inv4, CreatesVacant, Has, Vacant
  <1>4. ASSUME NEW r \in Resource, ApplyResource(r)
        PROVE  phase' = "apply" /\ CreatesVacant(todo)'
    <2>1. /\ phase = "apply" /\ phase' = phase /\ todo' = todo \ {r}
          /\ outside' = outside /\ plan' = plan
          /\ orphans' = StillThere(orphans)
      BY <1>4 DEF ApplyResource
    <2>2. real \in [Resource -> Value \cup {Gone}] /\ todo \subseteq Resource
      BY DEF Inv1, TypeInv, DeliveryTypeOK
    <2>3. real' = real \/ \E v : real' = [real EXCEPT ![r] = v]
      BY <1>4 DEF ApplyResource, Fails, Becomes
    <2>4. \A q \in todo' : q \in todo /\ real'[q] = real[q]
      BY <2>1, <2>2, <2>3
    <2> QED BY <2>1, <2>4 DEF Inv4, CreatesVacant, Has, Vacant, StillThere
  <1>5. ~Kill /\ ~Review /\ ~EndApply /\ ~Converged /\ ~SmokeTest
        /\ ~NothingLeft /\ ~PlanJob /\ \A o \in Operation : ~Dispatch(o)
    BY DEF Kill, Review, EndApply, Converged, SmokeTest, NothingLeft, PlanJob,
           Dispatch, End
  <1>6. \A r \in Resource :
          ~(OutsideChange(r) \/ NewConfiguration(r) \/ NewPermissions(r))
    BY <1>1
    DEF OutsideChange, NewConfiguration, NewPermissions, Intervene
  <1>7. CASE UNCHANGED vars
    BY <1>7
    DEF vars, worldVars, runVars, Inv4, CreatesVacant, Has, Vacant
  <1> QED
    BY <1>2, <1>3, <1>4, <1>5, <1>6, <1>7 DEF Next, Operation

\* While the configuration and the account are left alone, only what a killed
\* job has deleted, or created, without recording it stops the next apply: for
\* all resources, however many applies have failed before, and wherever.
THEOREM OnlyKillsStand == Spec => []OnlyKillsStopTheNextApply
  <1>1. Init => Inv4
    BY DEF Init, Inv4
  <1>2. Inv3 /\ Inv4 => OnlyKillsStopTheNextApply
    BY DEF Inv3, RefusalInv, Inv4, CreatesVacant, OnlyKillsStopTheNextApply
  <1> QED
    BY Inv1Always, Inv2Always, Inv3Init, Inv3Step, <1>1, Inv4Step, <1>2, PTL
    DEF Spec

=============================================================================
