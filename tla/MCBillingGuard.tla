---- MODULE MCBillingGuard ----
(***************************************************************************)
(* A small instance of BillingGuard: an application messaging turn and     *)
(* ordinary requests of one user, who pays for himself or is paid for by   *)
(* the owner of his team, as somebody decides while they run.              *)
(***************************************************************************)
EXTENDS BillingGuard

CONSTANTS turn, chat, other, owner, teammate

MCUserOf == [r \in Requests |-> teammate]

MCPinned == [r \in Turns |-> owner]

====
