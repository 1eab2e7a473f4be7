---- MODULE PhoneBilling ----
(***************************************************************************)
(* The metered minutes of one telephone call:                              *)
(* src/integrations/telephony/billing.py with the reservation ledger of    *)
(* src/billing/usage_reservations.py, the dispatcher that pays for the     *)
(* first tranche before it asks the provider, the live meters that extend  *)
(* the coverage, the signed status callbacks that report the duration, and *)
(* the recovery that a starting runtime runs.                              *)
(*                                                                         *)
(* A tranche is one row of PHONE_CALL_COST_COMPONENTS, a hold one row of   *)
(* BILLING_USAGE_RESERVATIONS.  Every connection block of the code is one  *)
(* transaction and one action; the tasks interleave between them.  A task  *)
(* can die between any two of its transactions (a crashed process, a       *)
(* cancelled request).  Time is abstracted to one question: has a row      *)
(* outlived the recovery threshold of fifteen minutes.                     *)
(***************************************************************************)
EXTENDS Integers, Sums

CONSTANTS
  Dispatchers,   \* the task that dials an outbound call
  Gates,         \* deliveries of the webhook that connects the media stream
  Meters,        \* the live meters of media sessions
  Callbacks,     \* deliveries of the signed status callback, duplicates included
  Recovering,    \* whether a runtime may start, and recover, during the call
  Tranches,      \* 1..n: the tranches a call may reserve
  TrancheUnits,  \* units of time in one tranche
  Durations,     \* the durations the provider may report, in units
  Rate,          \* what a unit costs the caller: 0 if the creator pays Twilio
  Funds,         \* the owner's balance when the call begins
  MaxCrashes,    \* bound: how often a task dies
  NULL

ASSUME TranchesAssumption ==
  Tranches # {} /\ IsFiniteSet(Tranches) /\ Tranches = 1..Cardinality(Tranches)
ASSUME BillingNumbers ==
  /\ TrancheUnits \in Nat \ {0}
  /\ Rate \in Nat
  /\ Funds \in Nat
  /\ Durations \subseteq Nat
  /\ Recovering \in BOOLEAN
  /\ MaxCrashes \in Nat
ASSUME TasksAssumption ==
  /\ Dispatchers \cap (Gates \cup Meters) = {} /\ Gates \cap Meters = {}
  /\ (Dispatchers \cup Gates \cup Meters) \cap Callbacks = {}
  /\ IsFiniteSet(Dispatchers \cup Gates \cup Meters)

Reservers == Dispatchers \cup Gates \cup Meters
Tasks == Reservers \cup Callbacks

\* A reserver tries each tranche once, with a hold of its own.
Holds == Reservers \X Tranches

ASSUME BillingNull == NULL \notin Holds /\ NULL \notin Nat

VARIABLES
  call,      \* the row of PHONE_CALLS, and whether the provider has the call
  row,       \* row[c]: the cost component of tranche c
  hold,      \* hold[h]: a fixed usage reservation of purpose phone
  balance,   \* what the owner can spend
  task,      \* the running reservers and callbacks
  recovery,  \* recover_stale_phone_billing, in a runtime that starts
  crashes    \* how often a task has died

vars == <<call, row, hold, balance, task, recovery, crashes>>

----------------------------------------------------------------------------
(* States *)

Open == {"reserved", "provider_started", "needs_attention"}
RowStates == Open \cup {"none", "settled", "refunded"}

\* old: untouched for longer than the recovery threshold.
Rows == [state : RowStates, hold : Holds \cup {NULL}, quantity : 0..TrancheUnits,
         old : BOOLEAN]

HoldRows == [status : {"none", "active", "settled", "refunded"}, started : BOOLEAN,
             captured : Nat, old : BOOLEAN]

\* absorbed is the row of usage beyond the reserved tranches, which the
\* platform pays; final is final_cost.
Calls == [placed : BOOLEAN, ended : BOOLEAN, duration : Durations \cup {NULL},
          absorbed : Nat, final : Nat \cup {NULL}]

ReserverSteps == {"look", "fund", "insert", "conflict", "giveup", "ready", "start",
                  "post", "undo", "unwind", "surface", "rejected", "fenced", "fail", "dead"}
StartSteps == {"claim", "check", "update", "reconcile"}
CallbackSteps == {"recorded", "rows", "settle"}

Views == [state : RowStates, quantity : 0..TrancheUnits]

\* covered is the meter's covered index, next the tranche in hand, goal the
\* last one wanted, made the rows this task created and may take back, got
\* those it started; seen and left are a callback's reading of the rows and
\* the duration it has not yet allocated.
TaskStates == [pc : {"idle", "done"} \cup ReserverSteps \cup StartSteps \cup CallbackSteps,
               covered : Tranches \cup {0}, next : Nat, goal : Tranches \cup {0},
               made : SUBSET Tranches, got : SUBSET Tranches,
               seen : [Tranches -> Views], left : Nat]

RecoveryStates == [pc : {"idle", "list", "rows"},
                   refund : SUBSET Tranches, surface : SUBSET Tranches]

NoView == [c \in Tranches |-> [state |-> "none", quantity |-> 0]]

Fresh == [pc |-> "idle", covered |-> 0, next |-> 0, goal |-> 0, made |-> {},
          got |-> {}, seen |-> NoView, left |-> 0]

Resting == [pc |-> "idle", refund |-> {}, surface |-> {}]

\* An inbound call is with the provider from the start, an outbound one not
\* before a dispatcher posts it.
Init ==
  /\ \E placed \in BOOLEAN :
       call = [placed |-> placed, ended |-> FALSE, duration |-> NULL,
               absorbed |-> 0, final |-> NULL]
  /\ row = [c \in Tranches |-> [state |-> "none", hold |-> NULL, quantity |-> 0,
                                old |-> FALSE]]
  /\ hold = [h \in Holds |-> [status |-> "none", started |-> FALSE, captured |-> 0,
                              old |-> FALSE]]
  /\ balance = Funds
  /\ task = [t \in Tasks |-> Fresh]
  /\ recovery = Resting
  /\ crashes = 0

----------------------------------------------------------------------------
(* Pieces of transactions *)

Cost == Rate * TrancheUnits

Charge(r) == IF r.state = "settled" THEN Rate * r.quantity ELSE 0

Charged(rows) == SumOver(Tranches, [c \in Tranches |-> Charge(rows[c])])

AllClosed(rows) == \A c \in Tranches : rows[c].state \notin Open

\* What the transaction makes of the call's totals.
Totalled(k, rows) ==
  [k EXCEPT !.final = IF k.ended /\ AllClosed(rows) THEN Charged(rows) ELSE NULL]

\* Tranche c goes to state s with quantity q, and the call is totalled anew.
Write(c, s, q) ==
  /\ row' = [row EXCEPT ![c].state = s, ![c].quantity = q, ![c].old = FALSE]
  /\ call' = Totalled(call, row')

\* Hold h goes back to the owner, if it is still open.
Release(h) ==
  IF h # NULL /\ hold[h].status = "active"
  THEN /\ hold' = [hold EXCEPT ![h].status = "refunded"]
       /\ balance' = balance + Cost
  ELSE UNCHANGED <<hold, balance>>

HoldIs(h, status) == h # NULL /\ hold[h].status = status

\* refund_component raises for usage that was charged.
Refundable(c) == row[c].state # "settled" /\ ~HoldIs(row[c].hold, "settled")

RefundRow(c) ==
  IF row[c].state = "refunded" THEN UNCHANGED <<row, call, hold, balance>>
  ELSE Write(c, "refunded", 0) /\ Release(row[c].hold)

\* refund_component_if_unstarted
RefundIfUnstarted(c) ==
  IF row[c].state = "reserved" /\ ~(row[c].hold # NULL /\ hold[row[c].hold].started)
  THEN Write(c, "refunded", 0) /\ Release(row[c].hold)
  ELSE UNCHANGED <<row, call, hold, balance>>

\* mark_ambiguous: the totals are refreshed even when no row changes.
MarkAmbiguous(c) ==
  /\ row' = IF row[c].state \in {"reserved", "provider_started"}
            THEN [row EXCEPT ![c].state = "needs_attention", ![c].old = FALSE]
            ELSE row
  /\ call' = Totalled(call, row')
  /\ UNCHANGED <<hold, balance>>

\* A task that is over keeps nothing.
Becomes(t, r) == task' = [task EXCEPT ![t] = IF r.pc = "done" THEN [Fresh EXCEPT !.pc = "done"] ELSE r]
Goes(t, pc) == Becomes(t, [task[t] EXCEPT !.pc = pc])
In(t, pc) == task[t].pc = pc

Database == <<call, row, hold, balance>>

----------------------------------------------------------------------------
(* Reserving: _reserve_component_owned for tranches covered+1 .. goal *)

\* The record of a task whose reservations failed: first it takes back what
\* it created, and a dispatcher then fails its call.
Failed(t, r) ==
  [r EXCEPT !.pc = IF r.made # {} THEN "undo" ELSE IF t \in Dispatchers THEN "fail" ELSE "done"]

\* The record of a task that has a row for its tranche, and of one that
\* created that row itself.
Reserved(t, r, made) ==
  IF r.next < r.goal THEN [r EXCEPT !.pc = "look", !.next = @ + 1, !.made = made]
  ELSE IF t \in Dispatchers THEN [r EXCEPT !.pc = "ready", !.made = made]
  ELSE [r EXCEPT !.pc = "start", !.next = r.covered + 1, !.made = made]

\* A dispatcher dials an outbound call.  A gate and a media session need a
\* call the provider has; the session's meter extends the coverage, the
\* others only ask for the first tranche.
MayBegin(t) ==
  IF t \in Dispatchers THEN ~call.placed /\ ~call.ended ELSE call.placed

\* The tasks that look for the row of a tranche: one at its beginning, for
\* any goal, and one that goes on to its next tranche.
Looking(t) ==
  IF In(t, "look") THEN {task[t]}
  ELSE {[task[t] EXCEPT !.next = task[t].covered + 1, !.goal = goal] :
          goal \in {c \in Tranches : c > task[t].covered /\ (t \notin Meters => c = 1)}}

Look(t) ==
  /\ In(t, "look") \/ (In(t, "idle") /\ MayBegin(t))
  /\ \E r \in Looking(t) :
       Becomes(t, IF call.ended THEN Failed(t, r)
                  ELSE IF row[r.next].state # "none" THEN Reserved(t, r, r.made)
                  ELSE [r EXCEPT !.pc = IF Rate > 0 THEN "fund" ELSE "insert"])
  /\ UNCHANGED <<call, row, hold, balance, recovery>>

OwnHold(t) == IF Rate > 0 THEN <<t, task[t].next>> ELSE NULL

\* The balance not looked at.
X_FundOnCredit(t) ==
  /\ In(t, "fund")
  /\ balance' = balance - Cost
  /\ hold' = [hold EXCEPT ![OwnHold(t)].status = "active"]
  /\ Goes(t, "insert")
  /\ UNCHANGED <<call, row, recovery>>

\* reserve_fixed_usage
Fund(t) ==
  /\ In(t, "fund")
  /\ IF balance >= Cost
     THEN /\ balance' = balance - Cost
          /\ hold' = [hold EXCEPT ![OwnHold(t)].status = "active"]
          /\ Goes(t, "insert")
     ELSE /\ UNCHANGED <<hold, balance>>
          /\ Becomes(t, Failed(t, task[t]))
  /\ UNCHANGED <<call, row, recovery>>

\* The check for an ended call forgotten in the inserting transaction.
X_InsertWhenEnded(t) ==
  LET c == task[t].next IN
  /\ In(t, "insert")
  /\ IF row[c].state # "none"
     THEN /\ UNCHANGED <<call, row>>
          /\ Becomes(t, IF Rate > 0 THEN [task[t] EXCEPT !.pc = "conflict"]
                        ELSE Reserved(t, task[t], task[t].made))
     ELSE /\ row' = [row EXCEPT ![c] = [state |-> "reserved", hold |-> OwnHold(t),
                                        quantity |-> 0, old |-> FALSE]]
          /\ call' = Totalled(call, row')
          /\ Becomes(t, Reserved(t, task[t], task[t].made \cup {c}))
  /\ UNCHANGED <<hold, balance, recovery>>

\* The row is inserted unless the call ended or another task was first; then
\* the hold just opened has to be given back.
Insert(t) ==
  LET c == task[t].next
      refused == IF call.ended THEN "giveup" ELSE "conflict"
  IN
  /\ In(t, "insert")
  /\ IF call.ended \/ row[c].state # "none"
     THEN /\ UNCHANGED <<call, row>>
          /\ Becomes(t, IF Rate > 0 THEN [task[t] EXCEPT !.pc = refused]
                        ELSE IF call.ended THEN Failed(t, task[t]) ELSE Reserved(t, task[t], task[t].made))
     ELSE /\ row' = [row EXCEPT ![c] = [state |-> "reserved", hold |-> OwnHold(t),
                                        quantity |-> 0, old |-> FALSE]]
          /\ call' = Totalled(call, row')
          /\ Becomes(t, Reserved(t, task[t], task[t].made \cup {c}))
  /\ UNCHANGED <<hold, balance, recovery>>

\* refund_fixed_usage of the hold whose row was not inserted.
DropHold(t) ==
  /\ task[t].pc \in {"conflict", "giveup"}
  /\ Release(OwnHold(t))
  /\ Becomes(t, IF In(t, "giveup") THEN Failed(t, task[t]) ELSE Reserved(t, task[t], task[t].made))
  /\ UNCHANGED <<call, row, recovery>>

----------------------------------------------------------------------------
(* mark_provider_started, called by a reserver for its rows in turn and by  *)
(* a callback for a row its duration used                                   *)

\* The record of a task to which it returns, and to which it raises.  A
\* callback answers 503 and is delivered again.
Marked(t) ==
  LET r == task[t] IN
  IF t \in Callbacks THEN [r EXCEPT !.pc = "settle"]
  ELSE IF r.next < r.goal
  THEN [r EXCEPT !.pc = "start", !.next = @ + 1, !.got = @ \cup {r.next}]
  ELSE IF t \in Dispatchers THEN [r EXCEPT !.pc = "post", !.got = @ \cup {r.next}]
  ELSE IF t \in Gates THEN [r EXCEPT !.pc = "done"]
  ELSE [Fresh EXCEPT !.covered = r.goal]

Raised(t) ==
  LET r == task[t]
      mine == {c \in r.made : c >= r.next}
  IN  IF t \in Callbacks THEN Fresh
      ELSE [r EXCEPT !.made = mine,
                     !.pc = IF mine # {} THEN "unwind"
                            ELSE IF r.got # {} THEN "surface" ELSE "done"]

\* A callback comes here when its reading says the row was used but not
\* started; what it does next depends on the row as it is now.
Used(t) ==
  IF task[t].left < TrancheUnits THEN task[t].left ELSE TrancheUnits

AtBoundary(t) ==
  \/ In(t, "start")
  \/ /\ In(t, "rows")
     /\ task[t].next \in Tranches
     /\ task[t].seen[task[t].next].state \in {"reserved", "needs_attention"}
     /\ Used(t) > 0

MarkStarted(t) ==
  LET r == row[task[t].next] IN
  /\ AtBoundary(t)
  /\ IF r.state \in {"provider_started", "settled"} THEN Becomes(t, Marked(t))
     ELSE IF r.state = "needs_attention" THEN Goes(t, "reconcile")
     ELSE IF r.state # "reserved" THEN Becomes(t, Raised(t))
     ELSE Goes(t, IF r.hold = NULL THEN "update" ELSE "claim")
  /\ UNCHANGED <<call, row, hold, balance, recovery>>

\* The totals are not refreshed, and the state the row has by now is not
\* looked at: only the hold is.
Reconcile(t) ==
  LET c == task[t].next
      h == row[c].hold
  IN
  /\ In(t, "reconcile")
  /\ IF h # NULL => hold[h].status = "active" /\ hold[h].started
     THEN /\ row' = [row EXCEPT ![c].state = "provider_started", ![c].old = FALSE]
          /\ Becomes(t, Marked(t))
     ELSE /\ UNCHANGED row
          /\ Becomes(t, Raised(t))
  /\ UNCHANGED <<call, hold, balance, recovery>>

\* The start recorded in the row only.
X_ClaimWithoutMark(t) ==
  LET h == row[task[t].next].hold IN
  /\ In(t, "claim")
  /\ UNCHANGED hold
  /\ Goes(t, IF hold[h].status = "active" /\ ~hold[h].started THEN "update" ELSE "check")
  /\ UNCHANGED <<call, row, balance, recovery>>

\* claim_fixed_usage_provider
Claim(t) ==
  LET h == row[task[t].next].hold IN
  /\ In(t, "claim")
  /\ IF hold[h].status = "active" /\ ~hold[h].started
     THEN hold' = [hold EXCEPT ![h].started = TRUE] /\ Goes(t, "update")
     ELSE UNCHANGED hold /\ Goes(t, "check")
  /\ UNCHANGED <<call, row, balance, recovery>>

\* Somebody else claimed the hold: it must still be open.
Check(t) ==
  LET h == row[task[t].next].hold IN
  /\ In(t, "check")
  /\ IF hold[h].status = "active" /\ hold[h].started THEN Goes(t, "update")
     ELSE Becomes(t, Raised(t))
  /\ UNCHANGED <<call, row, hold, balance, recovery>>

Update(t) ==
  LET c == task[t].next IN
  /\ In(t, "update")
  /\ row' = IF row[c].state = "reserved"
            THEN [row EXCEPT ![c].state = "provider_started", ![c].old = FALSE]
            ELSE row
  /\ Becomes(t, Marked(t))
  /\ UNCHANGED <<call, hold, balance, recovery>>

----------------------------------------------------------------------------
(* The dispatcher around the provider request, and failures of a reserver *)

\* mark_provider_request_started commits, or the lease, the foreground or
\* the runtime's own admission is lost; a fenced runtime fails its call.
Cross(t) ==
  /\ In(t, "ready")
  /\ \/ Becomes(t, [task[t] EXCEPT !.pc = "start", !.next = 1]) /\ UNCHANGED call
     \/ /\ \E fenced \in BOOLEAN : call' = [call EXCEPT !.ended = @ \/ fenced]
        /\ Becomes(t, [task[t] EXCEPT !.pc = IF task[t].made # {} THEN "unwind" ELSE "done"])
  /\ UNCHANGED <<row, hold, balance, recovery>>

\* create_call_once: refused, or placed and answered, or without an answer,
\* when the provider may or may not have the call.  The final fence can also
\* close before the request.
Post(t) ==
  /\ In(t, "post")
  /\ \/ /\ \E next \in {"rejected", "fenced"} : Goes(t, next)
        /\ UNCHANGED call
     \/ /\ call' = [call EXCEPT !.placed = TRUE]
        /\ \E next \in {"done", "surface"} : Goes(t, next)
     \/ Goes(t, "surface") /\ UNCHANGED call
  /\ UNCHANGED <<row, hold, balance, recovery>>

\* refund_component of what was started; the runtime's fence falls back to
\* mark_ambiguous, a rejection lets the error out.
GiveBack(t) ==
  /\ task[t].pc \in {"rejected", "fenced"}
  /\ \E c \in task[t].got :
       /\ \A d \in task[t].got : c <= d
       /\ IF Refundable(c) THEN RefundRow(c)
          ELSE IF In(t, "fenced") THEN MarkAmbiguous(c)
          ELSE UNCHANGED Database
       /\ LET rest == task[t].got \ {c} IN
          Becomes(t, [task[t] EXCEPT !.got = rest,
                        !.pc = IF In(t, "rejected") /\ ~Refundable(c) THEN "done"
                               ELSE IF rest # {} THEN @
                               ELSE IF In(t, "rejected") THEN "fail" ELSE "done"])
  /\ UNCHANGED recovery

\* fail_unstarted_dispatch and fail_provider_dispatch: no total is computed.
FailCall(t) ==
  /\ In(t, "fail")
  /\ call' = [call EXCEPT !.ended = TRUE]
  /\ Goes(t, "done")
  /\ UNCHANGED <<row, hold, balance, recovery>>

\* Rows this task created go back if nobody started them.
Undo(t) ==
  /\ task[t].pc \in {"undo", "unwind"}
  /\ \E c \in task[t].made :
       /\ \A d \in task[t].made : c <= d
       /\ RefundIfUnstarted(c)
       /\ LET rest == task[t].made \ {c} IN
          Becomes(t, [task[t] EXCEPT !.made = rest,
                        !.pc = IF rest # {} THEN @
                               ELSE IF In(t, "undo")
                               THEN (IF t \in Dispatchers THEN "fail" ELSE "done")
                               ELSE IF task[t].got # {} THEN "surface" ELSE "done"])
  /\ UNCHANGED recovery

Surface(t) ==
  /\ In(t, "surface")
  /\ \E c \in task[t].got :
       /\ \A d \in task[t].got : c <= d
       /\ MarkAmbiguous(c)
       /\ Becomes(t, [task[t] EXCEPT !.got = @ \ {c},
                        !.pc = IF task[t].got = {c} THEN "done" ELSE @])
  /\ UNCHANGED recovery

----------------------------------------------------------------------------
(* The status callback: record_call_status, settle_duration_components *)

\* The call ends, with the provider's duration; a repeated callback carries
\* the same one.
Deliver(t) ==
  /\ In(t, "idle")
  /\ call.placed
  /\ IF call.duration # NULL THEN UNCHANGED call
     ELSE \E d \in Durations : call' = [call EXCEPT !.ended = TRUE, !.duration = d]
  /\ Goes(t, "recorded")
  /\ UNCHANGED <<row, hold, balance, recovery>>

\* The rows are read once; what follows works from this reading.
ReadRows(t) ==
  /\ In(t, "recorded")
  /\ Becomes(t, [task[t] EXCEPT !.pc = "rows", !.next = 1, !.left = call.duration,
                   !.seen = [c \in Tranches |-> [state |-> row[c].state,
                                                 quantity |-> row[c].quantity]]])
  /\ UNCHANGED <<call, row, hold, balance, recovery>>

Less(m, n) == IF m > n THEN m - n ELSE 0

\* On to the next row as it was read, with n units of the duration allocated.
Allocated(t, n) ==
  LET r == task[t] IN
  [r EXCEPT !.pc = "rows", !.next = r.next + 1, !.left = Less(r.left, n),
            !.seen[r.next] = NoView[r.next]]

\* The quantity of a settled row not taken off the duration.
X_SkipRowUncounted(t) ==
  LET view == task[t].seen[task[t].next] IN
  /\ In(t, "rows")
  /\ task[t].next \in Tranches
  /\ view.state \in {"none", "settled", "refunded"}
  /\ Becomes(t, Allocated(t, 0))
  /\ UNCHANGED <<call, row, hold, balance, recovery>>

\* A row that was settled when read has used up its part of the duration,
\* one that was refunded or never reserved none.
SkipRow(t) ==
  LET view == task[t].seen[task[t].next] IN
  /\ In(t, "rows")
  /\ task[t].next \in Tranches
  /\ view.state \in {"none", "settled", "refunded"}
  /\ Becomes(t, Allocated(t, view.quantity))
  /\ UNCHANGED <<call, row, hold, balance, recovery>>

AtSettle(t) ==
  \/ In(t, "settle")
  \/ /\ In(t, "rows")
     /\ task[t].next \in Tranches
     /\ task[t].seen[task[t].next].state = "provider_started"
     /\ Used(t) > 0

\* The settlement of a settled row done once more.
X_SettleAgain(t) ==
  LET c == task[t].next
      h == row[c].hold
  IN
  /\ AtSettle(t)
  /\ \/ /\ row[c].state \in {"settled", "provider_started"}
        /\ Write(c, "settled", Used(t))
        /\ IF h = NULL THEN UNCHANGED <<hold, balance>>
           ELSE /\ hold' = [hold EXCEPT ![h].status = "settled",
                                        ![h].captured = Rate * Used(t)]
                /\ balance' = balance + Cost - Rate * Used(t)
        /\ Becomes(t, Allocated(t, Used(t)))
     \/ /\ row[c].state \notin {"settled", "provider_started"}
        /\ Becomes(t, Raised(t))
        /\ UNCHANGED <<row, call, hold, balance>>
  /\ UNCHANGED recovery

\* settle_component: a settled row is left as it is, any other that is not
\* started is an error.
Settle(t) ==
  LET c == task[t].next
      h == row[c].hold
  IN
  /\ AtSettle(t)
  /\ \/ /\ row[c].state = "settled"
        /\ Becomes(t, Allocated(t, Used(t)))
        /\ UNCHANGED <<row, call, hold, balance>>
     \/ /\ row[c].state = "provider_started"
        /\ h # NULL => hold[h].status = "active"
        /\ Write(c, "settled", Used(t))
        /\ IF h = NULL THEN UNCHANGED <<hold, balance>>
           ELSE /\ hold' = [hold EXCEPT ![h].status = "settled",
                                        ![h].captured = Rate * Used(t)]
                /\ balance' = balance + Cost - Rate * Used(t)
        /\ Becomes(t, Allocated(t, Used(t)))
     \/ /\ row[c].state \notin {"settled", "provider_started"}
        /\ Becomes(t, Raised(t))
        /\ UNCHANGED <<row, call, hold, balance>>
  /\ UNCHANGED recovery

\* A row the duration did not reach, and that was not closed when read.
RefundUnused(t) ==
  LET c == task[t].next IN
  /\ In(t, "rows")
  /\ c \in Tranches
  /\ task[t].seen[c].state \in Open
  /\ Used(t) = 0
  /\ IF Refundable(c)
     THEN RefundRow(c) /\ Becomes(t, Allocated(t, 0))
     ELSE UNCHANGED Database /\ Becomes(t, Raised(t))
  /\ UNCHANGED recovery

\* _record_confirmed_unreserved_usage: the rest of the duration, once for a
\* provider call.
Absorb(t) ==
  /\ In(t, "rows")
  /\ task[t].next \notin Tranches
  /\ call' = IF task[t].left = 0 THEN call
             ELSE Totalled([call EXCEPT !.absorbed = IF @ = 0 THEN task[t].left ELSE @], row)
  /\ Goes(t, "done")
  /\ UNCHANGED <<row, hold, balance, recovery>>

----------------------------------------------------------------------------
(* recover_stale_phone_billing *)

Attached(h) == \E c \in Tranches : row[c].hold = h

\* One transaction refunds the old holds that never got a row.
Orphans == {h \in Holds : /\ hold[h].status = "active" /\ ~hold[h].started
                          /\ hold[h].old /\ ~Attached(h)}

Sweep ==
  /\ Recovering /\ recovery.pc = "idle"
  /\ hold' = [h \in Holds |-> IF h \in Orphans THEN [hold[h] EXCEPT !.status = "refunded"]
                              ELSE hold[h]]
  /\ balance' = balance + Cost * Cardinality(Orphans)
  /\ recovery' = [Resting EXCEPT !.pc = "list"]
  /\ UNCHANGED <<call, row, task>>

\* The old open rows are read, with what to do to each.
Stale == {c \in Tranches : row[c].old /\ row[c].state \in {"reserved", "provider_started"}}

Unclaimed(c) ==
  row[c].state = "reserved" /\ ~(row[c].hold # NULL /\ hold[row[c].hold].started)

ReadStale ==
  /\ recovery.pc = "list"
  /\ recovery' = IF Stale = {} THEN Resting
                 ELSE [pc |-> "rows", refund |-> {c \in Stale : Unclaimed(c)},
                       surface |-> {c \in Stale : ~Unclaimed(c)}]
  /\ UNCHANGED <<call, row, hold, balance, task>>

Rest(refund, surface) ==
  recovery' = IF refund = {} /\ surface = {} THEN Resting
              ELSE [pc |-> "rows", refund |-> refund, surface |-> surface]

\* The rows in the order of their identities, as they were read; the first
\* error ends the recovery, and with it the start of the runtime.
RecoverRow ==
  /\ recovery.pc = "rows"
  /\ \E c \in recovery.refund \cup recovery.surface :
       /\ \A d \in recovery.refund \cup recovery.surface : c <= d
       /\ IF c \in recovery.surface
          THEN MarkAmbiguous(c) /\ Rest(recovery.refund, recovery.surface \ {c})
          ELSE IF Refundable(c)
          THEN RefundRow(c) /\ Rest(recovery.refund \ {c}, recovery.surface)
          ELSE UNCHANGED Database /\ recovery' = Resting
  /\ UNCHANGED task

----------------------------------------------------------------------------
(* Time and crashes *)

\* No task works for fifteen minutes on one row: a row or a hold grows old
\* only when no task is at it.
At(t, c) == task[t].pc \notin {"idle", "done", "dead"}
            /\ IF t \in Callbacks THEN TRUE ELSE task[t].covered < c /\ c <= task[t].goal

RowAges(c) ==
  /\ row[c].state \in {"reserved", "provider_started"}
  /\ ~row[c].old
  /\ \A t \in Tasks : ~At(t, c)
  /\ row' = [row EXCEPT ![c].old = TRUE]
  /\ UNCHANGED <<call, hold, balance, task, recovery>>

\* Only the age of a hold without a row is ever asked for.
HoldAges(h) ==
  /\ hold[h].status = "active" /\ ~hold[h].old /\ ~Attached(h)
  /\ ~At(h[1], h[2])
  /\ hold' = [hold EXCEPT ![h].old = TRUE]
  /\ UNCHANGED <<call, row, balance, task, recovery>>

\* A reserver that dies is not restarted, an unanswered callback is
\* delivered again, and a recovery is run by the next runtime.
Crash(t) ==
  /\ crashes < MaxCrashes
  /\ crashes' = crashes + 1
  /\ task[t].pc \notin {"idle", "done", "dead"}
  /\ Becomes(t, IF t \in Callbacks THEN Fresh ELSE [Fresh EXCEPT !.pc = "dead"])
  /\ UNCHANGED <<call, row, hold, balance, recovery>>

RecoveryCrash ==
  /\ crashes < MaxCrashes
  /\ crashes' = crashes + 1
  /\ recovery.pc # "idle"
  /\ recovery' = Resting
  /\ UNCHANGED <<call, row, hold, balance, task>>

----------------------------------------------------------------------------

Reserve(t) == Look(t) \/ Fund(t) \/ Insert(t) \/ DropHold(t)
Boundary(t) == MarkStarted(t) \/ Reconcile(t) \/ Claim(t) \/ Check(t) \/ Update(t)
Dial(t) == Cross(t) \/ Post(t) \/ GiveBack(t) \/ FailCall(t)
Callback(t) == Deliver(t) \/ ReadRows(t) \/ SkipRow(t) \/ Settle(t) \/ RefundUnused(t) \/ Absorb(t)
Recover == Sweep \/ ReadStale \/ RecoverRow

Work ==
  \/ \E t \in Reservers : Reserve(t) \/ Undo(t) \/ Surface(t)
  \/ \E t \in Dispatchers : Dial(t)
  \/ \E t \in Callbacks : Callback(t)
  \/ \E t \in Tasks : Boundary(t)
  \/ Recover

TimePasses == (\E c \in Tranches : RowAges(c)) \/ (\E h \in Holds : HoldAges(h))

Next ==
  \/ (Work \/ TimePasses) /\ UNCHANGED crashes
  \/ \E t \in Tasks : Crash(t)
  \/ RecoveryCrash

Spec == Init /\ [][Next]_vars

----------------------------------------------------------------------------
(* Properties *)

TypeOK ==
  /\ call \in Calls
  /\ row \in [Tranches -> Rows]
  /\ hold \in [Holds -> HoldRows]
  /\ balance \in Nat
  /\ task \in [Tasks -> TaskStates]
  /\ recovery \in RecoveryStates
  /\ crashes \in 0..MaxCrashes

\* The ledger and the call agree, although each row is written by other
\* transactions than its hold: a settled or refunded row has a hold closed
\* the same way for the same amount, an open row an open hold, and a row that
\* was started or needs attention a hold whose provider start is recorded,
\* without which no callback could ever reconcile it.  No two rows share a
\* hold, and only a task that died between the reservation and the insert
\* leaves a hold that no row and no task answers for.
HoldsFollowRows ==
  /\ \A c \in Tranches : LET h == row[c].hold IN h # NULL =>
       /\ row[c].state = "settled" => hold[h].status = "settled"
                                      /\ hold[h].captured = Charge(row[c])
       /\ row[c].state = "refunded" => hold[h].status = "refunded"
       /\ row[c].state \in Open => hold[h].status = "active"
       /\ row[c].state \in Open \ {"reserved"} => hold[h].started
  /\ \A c, d \in Tranches : row[c].hold = row[d].hold /\ row[c].hold # NULL => c = d
  /\ \A h \in Holds : hold[h].status = "active" /\ ~Attached(h) =>
       \/ /\ task[h[1]].next = h[2]
          /\ task[h[1]].pc \in {"insert", "conflict", "giveup"}
       \/ In(h[1], "dead")

\* The provider's minutes are paid exactly once: when a callback has been
\* answered, what was charged to the tranches and what the platform absorbed
\* add up to the duration, however many deliveries overlapped.
Billed == SumOver(Tranches, [c \in Tranches |->
                               IF row[c].state = "settled" THEN row[c].quantity ELSE 0])

MinutesPaidOnce ==
  /\ call.duration # NULL => Billed + call.absorbed <= call.duration
  /\ (\E t \in Callbacks : In(t, "done")) => Billed + call.absorbed = call.duration

\* recover_stale_phone_billing: "Refund safe pre-I/O holds and surface every
\* ambiguous stale boundary": it refunds no hold whose provider start is
\* recorded.
RecoveryRefundsOnlyUnstarted ==
  [][\A h \in Holds : /\ recovery.pc = "rows" /\ recovery' # recovery
                      /\ hold[h].status = "active" /\ hold'[h].status = "refunded"
                      => ~hold[h].started]_vars

\* The books of the reservation ledger balance for this call too: what the
\* owner had is still available, held, or captured for minutes, whatever
\* task died, lost a conflict or was refused.
Ledger == INSTANCE Escrow WITH
  Accounts <- {"owner"}, Amounts <- {},
  available <- [a \in {"owner"} |-> balance],
  funded <- [a \in {"owner"} |-> Funds],
  escrow <- [h \in Holds |->
    [status |-> hold[h].status, payer |-> "owner",
     amount |-> IF hold[h].status = "none" THEN 0 ELSE Cost,
     captured |-> hold[h].captured]]

BooksBalance == Ledger!BooksBalance

\* When a callback has been answered the call is closed for good: no tranche
\* is reserved, started or in need of attention, whatever reserver, recovery
\* or other delivery is still running, and a charged call has its final cost.
\* A final cost is only shown for an ended call whose rows are all closed, and
\* is what the holds of the call captured.
AnsweredMeansClosed ==
  /\ (\E t \in Callbacks : In(t, "done")) =>
       /\ AllClosed(row)
       /\ (\E c \in Tranches : row[c].state = "settled") => call.final # NULL
  /\ call.final # NULL =>
       /\ call.ended /\ AllClosed(row)
       /\ call.final = SumOver(Holds, [h \in Holds |-> hold[h].captured])

====
