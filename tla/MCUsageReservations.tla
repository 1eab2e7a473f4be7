---- MODULE MCUsageReservations ----
(***************************************************************************)
(* Small instances of UsageReservations: an owner who pays for a member of *)
(* his team, who is refilled up to a maximum or blocked at his limit.      *)
(***************************************************************************)
EXTENDS UsageReservations, TLC

CONSTANTS owner, teammate

MCUsers == {owner, teammate}

Team(limit, action, max) ==
  [payer |-> owner, limit |-> limit, action |-> action, refill |-> 2, max |-> max]

\* The owner pays for himself; the teammate may be moved between policies.
MCPolicies ==
  [u \in MCUsers |-> IF u = owner THEN {Unbilled}
                     ELSE {Unbilled, Team(1, "auto_refill", 4)}]

\* He may be blocked at his limit, too.
MCAllPolicies == [MCPolicies EXCEPT ![teammate] = @ \cup {Team(1, "block", NULL)}]

MCFunds == [u \in MCUsers |-> IF u = owner THEN 4 ELSE 0]

\* The teammate can pay for a little himself.
MCOwnFunds == [u \in MCUsers |-> IF u = owner THEN 4 ELSE 1]

\* Edits are edits of the teammate.
MCEdited == [e \in Edits |-> teammate]

MCHoldSymmetry == Permutations(Holds)

====
