---- MODULE Escrow ----
(***************************************************************************)
(* What the usage reservation ledger promises about money.                 *)
(*                                                                         *)
(* An account has available money and money held for provider work.  A     *)
(* hold is opened by moving money out of an account, may grow while it is  *)
(* open, and is closed exactly once: it is captured for at most what it    *)
(* holds and the rest returns to the account it came from, or it is        *)
(* returned whole.  Nothing else touches held money.                       *)
(***************************************************************************)
EXTENDS Integers, FiniteSets, Sums

CONSTANTS Accounts, Holds,
          Amounts      \* the amounts one deposit may bring in

VARIABLES available,  \* available[a]: what account a can spend now
          funded,     \* funded[a]: money paid in minus money taken out
          escrow      \* escrow[h]: the hold h and what became of it

vars == <<available, funded, escrow>>

Statuses == {"none", "active", "settled", "refunded"}

Escrows == [status : Statuses, payer : Accounts, amount : Nat, captured : Nat]

\* Money is never negative, and a hold has one payer and one of four states.
TypeOK ==
  /\ available \in [Accounts -> Nat]
  /\ funded \in [Accounts -> Int]
  /\ escrow \in [Holds -> Escrows]

\* What hold h keeps out of account a: all of an open hold, the captured
\* part of a settled one.
Taken(h, a) ==
  IF escrow[h].payer # a THEN 0
  ELSE IF escrow[h].status = "active" THEN escrow[h].amount
  ELSE IF escrow[h].status = "settled" THEN escrow[h].captured
  ELSE 0

TakenFrom(a) == SumOver(Holds, [h \in Holds |-> Taken(h, a)])

Init ==
  /\ available \in [Accounts -> Nat]
  /\ funded = available
  /\ \E a \in [Holds -> Accounts] :
       escrow = [h \in Holds |-> [status |-> "none", payer |-> a[h],
                                  amount |-> 0, captured |-> 0]]

Deposit(a) ==
  /\ \E n \in Amounts : /\ available' = [available EXCEPT ![a] = @ + n]
                        /\ funded' = [funded EXCEPT ![a] = @ + n]
  /\ UNCHANGED escrow

Withdraw(a) ==
  /\ \E n \in 0..available[a] : /\ available' = [available EXCEPT ![a] = @ - n]
                                /\ funded' = [funded EXCEPT ![a] = @ - n]
  /\ UNCHANGED escrow

Open(h, a) ==
  /\ escrow[h].status = "none"
  /\ \E n \in 0..available[a] :
       /\ available' = [available EXCEPT ![a] = @ - n]
       /\ escrow' = [escrow EXCEPT ![h] = [status |-> "active", payer |-> a,
                                           amount |-> n, captured |-> 0]]
  /\ UNCHANGED funded

Grow(h) ==
  /\ escrow[h].status = "active"
  /\ \E n \in 0..available[escrow[h].payer] :
       /\ available' = [available EXCEPT ![escrow[h].payer] = @ - n]
       /\ escrow' = [escrow EXCEPT ![h].amount = @ + n]
  /\ UNCHANGED funded

Capture(h) ==
  /\ escrow[h].status = "active"
  /\ \E n \in 0..escrow[h].amount :
       /\ available' = [available EXCEPT ![escrow[h].payer] = @ + escrow[h].amount - n]
       /\ escrow' = [escrow EXCEPT ![h] = [status |-> "settled", payer |-> @.payer,
                                           amount |-> @.amount, captured |-> n]]
  /\ UNCHANGED funded

Return(h) ==
  /\ escrow[h].status = "active"
  /\ available' = [available EXCEPT ![escrow[h].payer] = @ + escrow[h].amount]
  /\ escrow' = [escrow EXCEPT ![h].status = "refunded"]
  /\ UNCHANGED funded

Next ==
  \/ \E a \in Accounts : Deposit(a) \/ Withdraw(a)
  \/ \E h \in Holds, a \in Accounts : Open(h, a)
  \/ \E h \in Holds : Grow(h) \/ Capture(h) \/ Return(h)

Spec == Init /\ [][Next]_vars

\* Every account's books balance: the money put into it is available, held,
\* or captured for work, and nothing is counted twice or lost.
BooksBalance == \A a \in Accounts : funded[a] = available[a] + TakenFrom(a)

====
