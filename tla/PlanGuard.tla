----------------------------- MODULE PlanGuard ------------------------------
(***************************************************************************)
(* plan_guard.py: the policy between a Terraform plan and its apply.       *)
(*                                                                         *)
(* changes maps the address of every managed resource of a plan to the set *)
(* of its actions; a replacement is {"create", "delete"}.  tainted holds   *)
(* the addresses whose reason is replace_because_tainted, lost those that  *)
(* are in the state and that the refresh did not find.                     *)
(***************************************************************************)
EXTENDS Integers

KnownActions == {"no-op", "create", "update", "delete"}

Allowed(operation) ==
  IF operation = "apply" THEN {"no-op", "create", "update"}
                         ELSE {"no-op", "delete"}

\* Addresses and actions, never values.
Fingerprint(changes) == changes

\* Mutation of HasChanges: a resource that exists is not counted.
HasChanges_CreatesOnly(changes) ==
  \E address \in DOMAIN changes : "create" \in changes[address]

HasChanges(changes) ==
  \E address \in DOMAIN changes : changes[address] # {"no-op"}

\* Mutation of IsLost: the refresh is believed.
IsLost_Never(operation, actions, address, lost) == FALSE

\* In the state, not readable, and about to be created again.
IsLost(operation, actions, address, lost) ==
  operation = "apply" /\ address \in lost /\ "create" \in actions

\* Mutation of IsRecovery: a failed apply is for a person to repair.
IsRecovery_Never(operation, refused, address, tainted) == FALSE

\* Mutation of IsRecovery: every replacement is let through.
IsRecovery_Any(operation, refused, address, tainted) ==
  operation = "apply" /\ refused = {"delete"}

\* The replacement of what a failed apply left tainted.
IsRecovery(operation, refused, address, tainted) ==
  operation = "apply" /\ refused = {"delete"} /\ address \in tainted

Violations(operation, changes, tainted, lost) ==
  {address \in DOMAIN changes :
     LET actions == changes[address]
         refused == actions \ Allowed(operation)
     IN  \/ ~(actions \subseteq KnownActions)
         \/ IsLost(operation, actions, address, lost)
         \/ refused # {} /\ ~IsRecovery(operation, refused, address, tainted)}

\* Mutation of GuardStatus: the mismatch is reported and does not set status.
GuardStatus_NoExpect(operation, changes, tainted, lost, expect) ==
  IF Violations(operation, changes, tainted, lost) = {} THEN 0 ELSE 1

\* Exit status of main; expect holds the fingerprint of --expect, if given.
GuardStatus(operation, changes, tainted, lost, expect) ==
  IF Violations(operation, changes, tainted, lost) = {}
     /\ expect \subseteq {Fingerprint(changes)}
  THEN 0 ELSE 1

=============================================================================
