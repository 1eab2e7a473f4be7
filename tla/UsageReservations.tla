---- MODULE UsageReservations ----
(***************************************************************************)
(* The billing ledger of src/billing/usage_reservations.py: balances, team *)
(* spending limits and the table BILLING_USAGE_RESERVATIONS.               *)
(*                                                                         *)
(* Every public coroutine of that file runs one BEGIN IMMEDIATE            *)
(* transaction and rolls it back on any refusal, so an operation is one    *)
(* atomic action here and a refused operation is no action at all.  The    *)
(* order in which web requests, workers and the reconciler call the        *)
(* operations is left open: any caller may call any operation at any time. *)
(* What a caller read before its transaction is a parameter of the action  *)
(* (the month of a reservation) or kept in a variable (an edit of a user). *)
(*                                                                         *)
(* Amounts are natural numbers of a smallest unit (the code's floats and   *)
(* their 1e-12 tolerances are abstracted).  Time is what the code can see  *)
(* of it: the UTC month, and for each row whether its timestamps have left *)
(* the reconciliation window.                                              *)
(***************************************************************************)
EXTENDS Integers, FiniteSets, Sums

CONSTANTS
  Users,         \* rows of USER_DETAILS
  Holds,         \* reservation ids
  Calls,         \* idempotency keys of billable AI provider calls
  Purposes,      \* the purposes holds are opened for
  Amounts,       \* amounts that are reserved or added to a hold
  Deposits,      \* amounts that are paid into or charged back from a wallet
  Costs,         \* costs of one AI provider call, and final AI charges
  Policies,      \* Policies[u]: team billing policies u may be given
  Edits,         \* edits of users by creators and administrators, at one time
  Edited,        \* Edited[e]: the user edit e is about
  Sponsor,       \* the payer of the sponsored application grant
  GrantLimit,    \* the monthly limit of that grant
  InitialFunds,  \* InitialFunds[u]: balance of u at the start
  MaxFunds,      \* bound: no deposit takes funded[u] above this
  MaxHold,       \* bound: no extension takes a hold above this
  MaxMonth,      \* bound: the last month
  NULL           \* SQL NULL

FixedPurposes == {"image", "video", "tts", "stt", "web_search", "phone"}

Optional(S) == S \cup {NULL}

Policy == [payer : Optional(Users), limit : Optional(Nat), action : {"block", "notify", "auto_refill"},
           refill : Nat, max : Optional(Nat)]

ASSUME UsersAssumption == Users # {} /\ Sponsor \in Users
ASSUME HoldsAssumption == IsFiniteSet(Holds)
ASSUME PurposesAssumption == Purposes \subseteq FixedPurposes \cup {"ai"}
ASSUME AmountsAssumption == Amounts \cup Deposits \subseteq Nat \ {0} /\ Costs \subseteq Nat
ASSUME PoliciesAssumption == \A u \in Users : \A p \in Policies[u] : p \in Policy
ASSUME EditsAssumption == Edited \in [Edits -> Users]
ASSUME FundsAssumption == InitialFunds \in [Users -> Nat] /\ GrantLimit \in Nat
ASSUME BoundsAssumption == MaxFunds \in Nat /\ MaxHold \in Nat /\ MaxMonth \in Nat
ASSUME NullAssumption == NULL \notin Nat /\ NULL \notin Users

VARIABLES
  balance,     \* USER_DETAILS.balance
  member,      \* the team billing columns of USER_DETAILS
  hold,        \* BILLING_USAGE_RESERVATIONS with its application attribution
  month,       \* the current UTC month
  edit,        \* edit[e]: the policy edit e has read and not yet written
  funded,      \* history: money paid in minus money taken out
  configured,  \* history: the limit last assigned to the user by a person
  overwritten  \* history: users an edit set back to an earlier policy while
               \* they had holds open, and nobody has configured since

vars == <<balance, member, hold, month, edit, funded, configured, overwritten>>

----------------------------------------------------------------------------
(* State *)

Members == [payer : Optional(Users), limit : Optional(Nat), action : {"block", "notify", "auto_refill"},
            refill : Nat, max : Optional(Nat), spent : Nat, month : Nat, count : Nat]

Rows == [status : {"none", "active", "settled", "refunded"},
         purpose : FixedPurposes \cup {"ai"}, user : Users, payer : Users,
         amount : Nat, settled : Nat, month : Nat, settledMonth : Nat,
         limitDelta : Nat, countDelta : Nat,
         started : BOOLEAN, succeeded : BOOLEAN,
         components : {s \in SUBSET (Calls \X Costs) : IsFiniteSet(s)},
         sponsored : BOOLEAN, budgetMonth : Nat,
         old : BOOLEAN, startOld : BOOLEAN]

SomeUser == CHOOSE u \in Users : TRUE

\* The row of an id that was never inserted.
EmptyRow ==
  [status |-> "none", purpose |-> "ai", user |-> SomeUser, payer |-> SomeUser,
   amount |-> 0, settled |-> 0, month |-> 0, settledMonth |-> 0,
   limitDelta |-> 0, countDelta |-> 0, started |-> FALSE, succeeded |-> FALSE,
   components |-> {}, sponsored |-> FALSE, budgetMonth |-> 0,
   old |-> FALSE, startOld |-> FALSE]

Active(h) == hold[h].status = "active"

ActiveAi(h) == Active(h) /\ hold[h].purpose = "ai"

ActiveFixed(h) == Active(h) /\ hold[h].purpose # "ai"

\* The account that pays for u outside a sponsored operation.
PayerOf(u) == IF member[u].payer = NULL THEN u ELSE member[u].payer

CanPay_Unchecked(u, n) == TRUE

CanPay(u, n) == balance[u] >= n

HasActiveHold_OfPayer(u) == \E h \in Holds : Active(h) /\ hold[h].payer = u

\* The gate of every change of billing configuration.
HasActiveHold(u) == \E h \in Holds : Active(h) /\ hold[h].user = u

NewMember(p) ==
  [payer |-> p.payer, limit |-> p.limit, action |-> p.action, refill |-> p.refill,
   max |-> p.max, spent |-> 0, month |-> 0, count |-> 0]

Unbilled == [payer |-> NULL, limit |-> NULL, action |-> "block", refill |-> 10, max |-> NULL]

----------------------------------------------------------------------------
(* The member's monthly allowance *)

AfterRollover_KeepsSpent(m, at) == [m EXCEPT !.month = at]

\* The first charge of another month than the row's starts from zero.
AfterRollover(m, at) ==
  IF m.month = at THEN m ELSE [m EXCEPT !.spent = 0, !.month = at, !.count = 0]

WithinLimit(m, n) == m.limit = NULL \/ m.spent + n <= m.limit

\* May n more be charged to member row m, raising the limit if it may refill?
LimitAllows(m, n) ==
  /\ m.action = "auto_refill" /\ m.max # NULL => m.spent + n <= m.max
  /\ \/ WithinLimit(m, n)
     \/ m.action = "notify"
     \/ m.action = "auto_refill" /\ m.refill > 0

CeilDiv(n, d) == (n + d - 1) \div d

\* The smallest number of refills that covers the charge of n.
RefillCount(m, n) ==
  IF WithinLimit(m, n) \/ m.action # "auto_refill" THEN 0
  ELSE CeilDiv(m.spent + n - m.limit, m.refill)

RaisedLimit(m, n) ==
  IF RefillCount(m, n) = 0 THEN m.limit
  ELSE LET raised == m.limit + RefillCount(m, n) * m.refill
       IN IF m.max # NULL /\ m.max < raised THEN m.max ELSE raised

LimitDelta_Uncapped(m, n) == RefillCount(m, n) * m.refill

\* What undoing those refills has to take off the limit again.
LimitDelta(m, n) == IF RefillCount(m, n) = 0 THEN 0 ELSE RaisedLimit(m, n) - m.limit

Charged(m, n) ==
  [m EXCEPT !.spent = @ + n, !.limit = RaisedLimit(m, n), !.count = @ + RefillCount(m, n)]

Monus(a, b) == IF a > b THEN a - b ELSE 0

SpendReleased_AnyMonth(m, r, n) ==
  IF r.user # r.payer THEN [m EXCEPT !.spent = Monus(@, n)] ELSE m

SpendReleased_Never(m, r, n) == m

\* The charge comes off the month it was counted in, never below zero.
SpendReleased(m, r, n) ==
  IF r.user # r.payer /\ r.month = month THEN [m EXCEPT !.spent = Monus(@, n)] ELSE m

RefillReleased_BelowSpend(m, r) ==
  IF r.limitDelta # 0 /\ r.month = month /\ m.month = month /\ m.limit # NULL
  THEN [m EXCEPT !.limit = Monus(@, r.limitDelta), !.count = Monus(@, r.countDelta)]
  ELSE m

\* Refills are undone only within the month they were granted in, and never
\* below what is spent without the hold.
RefillReleased(m, r) ==
  IF /\ r.limitDelta # 0 \/ r.countDelta # 0
     /\ r.month = month /\ m.month = month
  THEN [m EXCEPT
          !.limit = IF @ = NULL THEN NULL
                    ELSE IF @ - r.limitDelta > m.spent THEN @ - r.limitDelta ELSE m.spent,
          !.count = Monus(@, r.countDelta)]
  ELSE m

\* Member row m after n of the amount of hold row r went back.
Released(m, r, n) == IF r.sponsored THEN m ELSE RefillReleased(SpendReleased(m, r, n), r)

----------------------------------------------------------------------------
(* The sponsored grant *)

\* What hold h takes from the grant's budget of month b.
GrantCharge(h, b) ==
  IF ~hold[h].sponsored \/ hold[h].budgetMonth # b THEN 0
  ELSE IF Active(h) THEN hold[h].amount
  ELSE IF hold[h].status = "settled" THEN hold[h].settled
  ELSE 0

GrantUsed(b) == SumOver(Holds, [h \in Holds |-> GrantCharge(h, b)])

GrantAllows_OpenOnly(b, n) ==
  SumOver(Holds, [h \in Holds |-> IF Active(h) THEN GrantCharge(h, b) ELSE 0]) + n <= GrantLimit

GrantAllows(b, n) == GrantUsed(b) + n <= GrantLimit

----------------------------------------------------------------------------
(* Reserving *)

Init ==
  /\ balance = InitialFunds
  /\ funded = InitialFunds
  /\ \E p \in [Users -> UNION {Policies[u] : u \in Users}] :
       /\ \A u \in Users : p[u] \in Policies[u]
       /\ member = [u \in Users |-> NewMember(p[u])]
       /\ configured = [u \in Users |-> p[u].limit]
  /\ hold = [h \in Holds |-> EmptyRow]
  /\ month = 1
  /\ edit = [e \in Edits |-> NULL]
  /\ overwritten = {}

\* The month a call may have read before its transaction, which it retries
\* while the database is locked: this one or the last.
Readings == {month, month - 1} \ {0}

\* Reserve n of a known or maximal provider cost before the provider is
\* called, in the month read before.  A sponsored operation was admitted in
\* month b, this one or the last; b is 0 for any other.
Reserve(h, u, p, n, b, at) ==
  LET sponsored == b # 0
      payer == IF sponsored THEN Sponsor ELSE PayerOf(u)
      team == ~sponsored /\ payer # u
      m == AfterRollover(member[u], at)
  IN /\ hold[h].status = "none"
     /\ at \in Readings /\ b \in Readings \cup {0}
     /\ sponsored => GrantAllows(b, n)
     /\ team => LimitAllows(m, n)
     /\ CanPay(payer, n)
     /\ balance' = [balance EXCEPT ![payer] = @ - n]
     /\ member' = IF team THEN [member EXCEPT ![u] = Charged(m, n)] ELSE member
     /\ hold' = [hold EXCEPT ![h] =
                   [EmptyRow EXCEPT !.status = "active", !.purpose = p, !.user = u,
                      !.payer = payer, !.amount = n, !.month = at,
                      !.limitDelta = IF team THEN LimitDelta(m, n) ELSE 0,
                      !.countDelta = IF team THEN RefillCount(m, n) ELSE 0,
                      !.sponsored = sponsored, !.budgetMonth = b]]
     /\ UNCHANGED <<month, edit, funded, configured, overwritten>>

\* Add the maximum of one more provider call to an open AI hold, in the month
\* read before.
Extend(h, n, at) ==
  LET r == hold[h]
      u == r.user
      team == ~r.sponsored /\ r.payer # u
      m == AfterRollover(member[u], at)
  IN /\ ActiveAi(h)
     /\ at \in Readings
     /\ r.amount + n <= MaxHold
     /\ r.sponsored => GrantAllows(r.budgetMonth, n)
     /\ ~r.sponsored => r.payer = PayerOf(u)
     /\ team => LimitAllows(m, n)
     /\ CanPay(r.payer, n)
     /\ balance' = [balance EXCEPT ![r.payer] = @ - n]
     /\ member' = IF team THEN [member EXCEPT ![u] = Charged(m, n)] ELSE member
     /\ hold' = [hold EXCEPT ![h].amount = @ + n,
                             ![h].limitDelta = @ + IF team THEN LimitDelta(m, n) ELSE 0,
                             ![h].countDelta = @ + IF team THEN RefillCount(m, n) ELSE 0]
     /\ UNCHANGED <<month, edit, funded, configured, overwritten>>

----------------------------------------------------------------------------
(* What the provider did *)

Recorded(h, c) == \E x \in hold[h].components : x[1] = c

\* Append the cost of a completed provider call, once per call.
Accumulate(h, c, x) ==
  /\ ActiveAi(h)
  /\ ~Recorded(h, c)
  /\ hold' = [hold EXCEPT ![h].components = @ \cup {<<c, x>>}]
  /\ UNCHANGED <<balance, member, month, edit, funded, configured, overwritten>>

MarkAiStarted(h) ==
  /\ ActiveAi(h)
  /\ hold' = [hold EXCEPT ![h].started = TRUE]
  /\ UNCHANGED <<balance, member, month, edit, funded, configured, overwritten>>

\* Grant one worker permission to call a fixed-cost provider.
ClaimProvider(h) ==
  /\ ActiveFixed(h)
  /\ ~hold[h].started
  /\ hold' = [hold EXCEPT ![h].started = TRUE]
  /\ UNCHANGED <<balance, member, month, edit, funded, configured, overwritten>>

MarkSucceeded(h) ==
  /\ ActiveFixed(h)
  /\ hold' = [hold EXCEPT ![h].succeeded = TRUE]
  /\ UNCHANGED <<balance, member, month, edit, funded, configured, overwritten>>

----------------------------------------------------------------------------
(* Closing a hold *)

Closed_StaysActive(r, status) == r

\* The row that closes r; only an open hold has an age.
Closed(r, status) == [r EXCEPT !.status = status, !.old = FALSE, !.startOld = FALSE]

\* Settle hold h for n of its amount.
CloseSettled(h, n) ==
  hold' = [hold EXCEPT ![h] =
             [Closed(@, "settled") EXCEPT !.settled = n, !.settledMonth = month]]

CloseRefunded_ToUser(h) ==
  LET r == hold[h]
  IN /\ hold' = [hold EXCEPT ![h] = Closed(@, "refunded")]
     /\ balance' = [balance EXCEPT ![r.user] = @ + r.amount]
     /\ member' = [member EXCEPT ![r.user] = Released(@, r, r.amount)]

\* Refund hold h whole.
CloseRefunded(h) ==
  LET r == hold[h]
  IN /\ hold' = [hold EXCEPT ![h] = Closed(@, "refunded")]
     /\ balance' = [balance EXCEPT ![r.payer] = @ + r.amount]
     /\ member' = [member EXCEPT ![r.user] = Released(@, r, r.amount)]

SettleWhole(h) ==
  /\ CloseSettled(h, hold[h].amount)
  /\ UNCHANGED <<balance, member>>

SettleFixed(h) ==
  /\ ActiveFixed(h)
  /\ SettleWhole(h)
  /\ UNCHANGED <<month, edit, funded, configured, overwritten>>

\* The provider confirmed a smaller cost n than was held.
SettleFixedAmount(h, n) ==
  LET r == hold[h]
      credit == r.amount - n
  IN /\ ActiveFixed(h)
     /\ n <= r.amount
     /\ CloseSettled(h, n)
     /\ balance' = [balance EXCEPT ![r.payer] = @ + credit]
     /\ member' = IF credit > 0 THEN [member EXCEPT ![r.user] = Released(@, r, credit)]
                  ELSE member
     /\ UNCHANGED <<month, edit, funded, configured, overwritten>>

Refundable_Confirmed(r) == r.status = "active"

Refundable(r) == r.status = "active" /\ ~r.succeeded

Refund(h) ==
  /\ Refundable(hold[h])
  /\ CloseRefunded(h)
  /\ UNCHANGED <<month, edit, funded, configured, overwritten>>

\* The payer's balance once the held maximum is back in it.
CreditFrom(r) == balance[r.payer] + r.amount

\* Return the held maximum and charge the actual cost n in one transaction,
\* which is rolled back when the charge is refused or exceeds the maximum.
SettleAiFor(h, n) ==
  LET r == hold[h]
      u == r.user
      credited == CreditFrom(r)
      returned == Released(member[u], r, r.amount)
      m == AfterRollover(returned, month)
      team == ~r.sponsored /\ r.payer # u
  IN /\ ActiveAi(h)
     /\ team => LimitAllows(m, n)
     /\ n <= credited
     /\ n <= r.amount
     /\ CloseSettled(h, n)
     /\ balance' = [balance EXCEPT ![r.payer] = credited - n]
     /\ member' = [member EXCEPT ![u] = IF team THEN Charged(m, n) ELSE returned]

\* The final charge of a completed turn, with the message it saves.
SettleAi(h, n) ==
  /\ SettleAiFor(h, n)
  /\ UNCHANGED <<month, edit, funded, configured, overwritten>>

\* What the recorded provider calls of hold h cost together.
Accumulated(h) == SumOver(hold[h].components, [x \in hold[h].components |-> x[2]])

\* Capture the recorded calls when no final response is saved.
SettleAccumulated(h) ==
  /\ ActiveAi(h)
  /\ hold[h].components # {}
  /\ SettleAiFor(h, Accumulated(h))
  /\ UNCHANGED <<month, edit, funded, configured, overwritten>>

----------------------------------------------------------------------------
(* Reconciliation of abandoned holds *)

\* created_at, or provider_started_at, of h leaves its purpose's window.
Expire(h) ==
  /\ Active(h) /\ ~hold[h].old
  /\ hold' = [hold EXCEPT ![h].old = TRUE]
  /\ UNCHANGED <<balance, member, month, edit, funded, configured, overwritten>>

ExpireStart(h) ==
  /\ Active(h) /\ hold[h].started /\ ~hold[h].startOld
  /\ hold' = [hold EXCEPT ![h].startOld = TRUE]
  /\ UNCHANGED <<balance, member, month, edit, funded, configured, overwritten>>

Stale_ClaimedMediaKept(r) ==
  /\ r.status = "active"
  /\ \/ r.purpose \in {"image", "video", "tts", "web_search"} /\ ~r.started /\ r.old
     \/ r.purpose = "stt" /\ r.old /\ (~r.started \/ r.succeeded)
     \/ r.purpose = "ai" /\ r.old /\ (~r.started \/ r.components # {})

Stale_UnstartedOnly(r) ==
  /\ r.status = "active"
  /\ \/ r.purpose # "phone" /\ ~r.started /\ r.old
     \/ r.purpose \in {"image", "video"} /\ r.startOld

\* _STALE_RESERVATION_PREDICATE: web searches that started, and phone holds,
\* are never stale.
Stale(r) ==
  /\ r.status = "active"
  /\ \/ r.purpose \in {"image", "video"} /\ ((~r.started /\ r.old) \/ r.startOld)
     \/ r.purpose = "tts" /\ ((~r.started /\ r.old) \/ (r.startOld /\ r.succeeded))
     \/ r.purpose = "stt" /\ r.old /\ (~r.started \/ r.succeeded)
     \/ r.purpose = "web_search" /\ ~r.started /\ r.old
     \/ r.purpose = "ai" /\ r.old /\ (~r.started \/ r.components # {})

Reconcile(h) ==
  LET r == hold[h]
  IN /\ Stale(r)
     /\ \/ r.components # {} /\ SettleAiFor(h, Accumulated(h))
        \/ r.purpose # "ai" /\ r.succeeded /\ SettleWhole(h)
        \/ r.components = {} /\ ~r.succeeded /\ CloseRefunded(h)
     /\ UNCHANGED <<month, edit, funded, configured, overwritten>>

----------------------------------------------------------------------------
(* The ledger's surroundings *)

MonthTurns ==
  /\ month < MaxMonth
  /\ month' = month + 1
  /\ UNCHANGED <<balance, member, hold, edit, funded, configured, overwritten>>

\* A checkout, a redemption or a grant credits the wallet.
TopUp(u, n) ==
  /\ funded[u] + n <= MaxFunds
  /\ balance' = [balance EXCEPT ![u] = @ + n]
  /\ funded' = [funded EXCEPT ![u] = @ + n]
  /\ UNCHANGED <<member, hold, month, edit, configured, overwritten>>

\* A chargeback takes what the wallet still has, held money excepted.
Chargeback(u, n) ==
  LET taken == IF n <= balance[u] THEN n ELSE balance[u]
  IN /\ balance' = [balance EXCEPT ![u] = @ - taken]
     /\ funded' = [funded EXCEPT ![u] = @ - taken]
     /\ UNCHANGED <<member, hold, month, edit, configured, overwritten>>

----------------------------------------------------------------------------
(* Who pays for whom *)

\* The policy in the row of u, as an edit reads it.
Config(u) ==
  [payer |-> IF member[u].payer = u THEN NULL ELSE member[u].payer, limit |-> member[u].limit,
   action |-> member[u].action, refill |-> member[u].refill, max |-> member[u].max]

\* Can the form of an edit of u ask for policy p?
Requestable(u, p) ==
  \/ p = Unbilled
  \/ /\ p.payer \notin {NULL, u}
     /\ 0 \notin {p.limit, p.refill, p.max}
     /\ p.action = "auto_refill" /\ p.limit # NULL /\ p.max # NULL => p.limit <= p.max

\* Write policy p to the row of u, where `limit` is what is configured now.
Assign(u, p, limit) ==
  /\ member' = [member EXCEPT ![u].payer = p.payer, ![u].limit = p.limit,
                              ![u].action = p.action, ![u].refill = p.refill,
                              ![u].max = p.max]
  /\ configured' = [configured EXCEPT ![u] = limit]

\* Edit e reads the policy of its user, outside any transaction.
ReadForEdit(e) ==
  /\ edit[e] = NULL
  /\ edit' = [edit EXCEPT ![e] = Config(Edited[e])]
  /\ UNCHANGED <<balance, member, hold, month, funded, configured, overwritten>>

\* Edit e asks for a policy p other than the one it read: the write
\* transaction makes sure that the user has no hold open.
Configure(e, p) ==
  LET u == Edited[e]
  IN /\ edit[e] \notin {NULL, p}
     /\ Requestable(u, p)
     /\ ~HasActiveHold(u)
     /\ Assign(u, p, p.limit)
     /\ overwritten' = overwritten \ {u}
     /\ edit' = [edit EXCEPT ![e] = NULL]
     /\ UNCHANGED <<balance, hold, month, funded>>

\* Edit e asks for the policy it read, of which it writes every column again
\* without looking for holds, whatever the row has become.
WriteBack(e) ==
  LET u == Edited[e]
      read == edit[e]
  IN /\ edit[e] # NULL
     /\ Requestable(u, read)
     /\ Assign(u, read, IF read = Config(u) THEN configured[u] ELSE read.limit)
     /\ overwritten' = IF read = Config(u) THEN overwritten
                       ELSE IF HasActiveHold(u) THEN overwritten \cup {u}
                       ELSE overwritten \ {u}
     /\ edit' = [edit EXCEPT ![e] = NULL]
     /\ UNCHANGED <<balance, hold, month, funded>>

\* Edit e is refused or fails.
AbandonEdit(e) ==
  /\ edit[e] # NULL
  /\ edit' = [edit EXCEPT ![e] = NULL]
  /\ UNCHANGED <<balance, member, hold, month, funded, configured, overwritten>>

\* An acquisition whose creator pays binds an unbound user, who may have
\* holds open; a limit the acquisition does not name stays as it was.
Bind(u, p) ==
  LET OrKept(new, old) == IF new = NULL THEN old ELSE new
      limit == OrKept(p.limit, member[u].limit)
  IN /\ member[u].payer = NULL
     /\ p.payer # NULL
     /\ Assign(u, [p EXCEPT !.limit = limit, !.max = OrKept(@, member[u].max)], limit)
     /\ UNCHANGED <<balance, hold, month, edit, funded, overwritten>>

\* Refunding that acquisition unbinds the user.
Unbind(u) ==
  /\ member[u].payer # NULL
  /\ ~HasActiveHold(u)
  /\ member' = [member EXCEPT ![u] = NewMember(Unbilled)]
  /\ configured' = [configured EXCEPT ![u] = NULL]
  /\ overwritten' = overwritten \ {u}
  /\ UNCHANGED <<balance, hold, month, edit, funded>>

----------------------------------------------------------------------------

Operation(h) ==
  \/ \E u \in Users, p \in Purposes, n \in Amounts, b \in 0..month, at \in 1..month :
       Reserve(h, u, p, n, b, at)
  \/ \E n \in Amounts, at \in 1..month : Extend(h, n, at)
  \/ \E c \in Calls, x \in Costs : Accumulate(h, c, x)
  \/ MarkAiStarted(h)
  \/ ClaimProvider(h)
  \/ MarkSucceeded(h)
  \/ SettleFixed(h)
  \/ \E n \in Amounts : SettleFixedAmount(h, n)
  \/ Refund(h)
  \/ \E n \in Costs : SettleAi(h, n)
  \/ SettleAccumulated(h)
  \/ Reconcile(h)
  \/ Expire(h)
  \/ ExpireStart(h)

Environment ==
  \/ MonthTurns
  \/ \E u \in Users, n \in Deposits : TopUp(u, n) \/ Chargeback(u, n)
  \/ \E u \in Users : Unbind(u) \/ \E p \in Policies[u] : Bind(u, p)
  \/ \E e \in Edits : \/ ReadForEdit(e)
                     \/ \E p \in Policies[Edited[e]] : Configure(e, p)
                     \/ WriteBack(e)
                     \/ AbandonEdit(e)

Next == (\E h \in Holds : Operation(h)) \/ Environment

Spec == Init /\ [][Next]_vars

\* Time passes, and every stale row is retried for as long as it is stale: any
\* use of the billing locks restarts the reconciler after five minutes, and
\* one row that cannot be reconciled does not stop the others.
Fairness ==
  \A h \in Holds : /\ WF_vars(Expire(h))
                   /\ WF_vars(ExpireStart(h))
                   /\ WF_vars(Reconcile(h))

LiveSpec == Spec /\ Fairness

----------------------------------------------------------------------------
(* Properties *)

\* Every column keeps the type its schema and its writers give it; balances,
\* spend, limits and refill counts never go below zero.
TypeOK ==
  /\ balance \in [Users -> Nat]
  /\ member \in [Users -> Members]
  /\ hold \in [Holds -> Rows]
  /\ month \in Nat
  /\ edit \in [Edits -> Optional(Policy)]
  /\ funded \in [Users -> Int]
  /\ configured \in [Users -> Optional(Nat)]
  /\ overwritten \subseteq Users

Ledger == INSTANCE Escrow WITH
  Accounts <- Users,
  Amounts <- Deposits,
  available <- balance,
  escrow <- [h \in Holds |-> [status |-> hold[h].status, payer |-> hold[h].payer,
                              amount |-> hold[h].amount, captured |-> hold[h].settled]]

\* The ledger implements the escrow it promises: every transaction is one
\* opening, growth, capture or return of one hold, or moves outside money.
ImplementsEscrow == Ledger!Spec

\* No money is created or lost: what was paid into an account is in its
\* balance, in its open holds or in its settled charges, whatever the order
\* in which settlement, refund and reconciliation reach a hold.
BooksBalance == Ledger!BooksBalance

TeamHold(h, u) == hold[h].user = u /\ hold[h].payer # u /\ ~hold[h].sponsored

OpenThisMonth(h, u) == TeamHold(h, u) /\ Active(h) /\ hold[h].month = month

\* The month whose allowance a settled hold is charged to: a fixed cost keeps
\* the month it was reserved in, an AI charge is made when it is settled.
ChargeMonth(h) == IF hold[h].purpose = "ai" THEN hold[h].settledMonth ELSE hold[h].month

OpenSpend(u) ==
  SumOver(Holds, [h \in Holds |-> IF OpenThisMonth(h, u) THEN hold[h].amount ELSE 0])

OpenRefills(u) ==
  SumOver(Holds, [h \in Holds |-> IF OpenThisMonth(h, u) THEN hold[h].countDelta ELSE 0])

\* The row of u contains every open team hold of the month, so that no
\* release has to clamp its spend or its refill count at zero.
Covered(u) ==
  /\ (\E h \in Holds : OpenThisMonth(h, u)) => member[u].month = month
  /\ member[u].month = month => /\ OpenSpend(u) <= member[u].spent
                                /\ OpenRefills(u) <= member[u].count

\* A reservation or extension that read the clock in the last month dates the
\* row of u back to it and forgets what this month's holds have added.
DatedBack(u) == hold' # hold /\ member'[u].month \in 1..(member[u].month - 1)

\* Nothing but such a late call makes a member's row lose an open hold:
\* charges, releases, rollovers, policies and the turn of the month keep it.
AllowanceCoversHolds ==
  [][\A u \in Users : ~Covered(u)' /\ Covered(u) => DatedBack(u)]_<<member, hold, month>>

ExplainedSpend(h, u) ==
  IF ~TeamHold(h, u) THEN 0
  ELSE IF Active(h) THEN hold[h].amount
  ELSE IF hold[h].status = "settled" /\ ChargeMonth(h) = month THEN hold[h].settled
  ELSE 0

\* A member is never counted as having spent more this month than its open
\* holds and this month's settled charges: closing a hold undoes its
\* temporary team spend (_release_team_reservation_state).
SpendExplained ==
  \A u \in Users : member[u].month = month =>
    member[u].spent <= SumOver(Holds, [h \in Holds |-> ExplainedSpend(h, u)])

\* Undoing the auto-refills of closed holds, in any order, never takes a
\* limit below the one a person configured, unless an edit wrote an old limit
\* over a refill that is still open (app.py update_user checks for open holds
\* only if the request differs from what it read).
LimitNotEroded ==
  \A u \in Users \ overwritten :
    IF configured[u] = NULL THEN member[u].limit = NULL
    ELSE member[u].limit # NULL /\ configured[u] <= member[u].limit

SpentNow(u) == IF member[u].month = month THEN member[u].spent ELSE 0

InLimit(u) ==
  member[u].action # "notify" /\ member[u].limit # NULL => SpentNow(u) <= member[u].limit

\* No operation on a hold, and no turn of the month, takes a member whose
\* limit binds from within its limit to beyond it: undoing a refill never
\* strands spend above the lowered limit.
SpendStaysInLimit ==
  [][hold' # hold \/ month' # month => \A u \in Users : InLimit(u) => InLimit(u)']_vars

\* Work a fixed-cost provider confirmed is never given back, by a failing
\* caller or by the reconciler.
ConfirmedWorkIsCharged ==
  \A h \in Holds : hold[h].status = "refunded" => ~hold[h].succeeded

\* While a team hold is open its user's payer stays the account the money came
\* from: nobody configures, binds or unbinds him, and an edit of another part
\* of his account changes nothing unless it writes back a policy it read before
\* the hold was opened under another one.
PayerFrozen ==
  \A h \in Holds : Active(h) /\ TeamHold(h, hold[h].user) /\ hold[h].user \notin overwritten =>
    member[hold[h].user].payer = hold[h].payer

\* Holds and charges under the sponsored grant never exceed its budget.
GrantWithinBudget == \A b \in 1..month : GrantUsed(b) <= GrantLimit

\* Reconciliation closes every image and video hold a crashed worker leaves,
\* and media and speech work whose success was recorded is charged in the end.
ReconciliationCloses ==
  \A h \in Holds :
    /\ (Active(h) /\ hold[h].purpose \in {"image", "video"}) ~> ~Active(h)
    /\ (Active(h) /\ hold[h].succeeded /\ hold[h].purpose \in {"image", "video", "tts", "stt"})
         ~> hold[h].status = "settled"

\* Recorded AI usage of a user who pays for himself is eventually charged,
\* unless it exceeds its hold.
RecordedUsageSettles ==
  \A h \in Holds :
    (ActiveAi(h) /\ hold[h].components # {} /\ hold[h].payer = hold[h].user)
      ~> (~Active(h) \/ Accumulated(h) > hold[h].amount)

====
