---- MODULE PhoneBillingProofs ----
(***************************************************************************)
(* The metered minutes of a call, for any number of reservers, deliveries, *)
(* tranches and crashes: the books balance, each hold follows its row, the *)
(* provider's minutes are paid exactly once, and an answered delivery      *)
(* leaves the call closed.                                                 *)
(*                                                                         *)
(* Three invariants carry them, each inductive given the ones before it.   *)
(*                                                                         *)
(* Solid: what rows, holds and the tasks between two transactions have to  *)
(* do with each other.  A hold is opened by the one task it is named for   *)
(* and ends as its row does; what a task has read only ever gets closer to *)
(* closed.                                                                 *)
(*                                                                         *)
(* Booked: what the owner had is his balance and what the holds keep.      *)
(*                                                                         *)
(* Paying: the duration is paid front to back.  A row is settled only when *)
(* the rows before it are closed, with as much of what they left as fits;  *)
(* so two deliveries that reach a row, whatever they read of it and when,  *)
(* have the same amount left there, and pay or skip the same.              *)
(*                                                                         *)
(* Paying needs Rate > 0.  When the creator pays the provider there is no  *)
(* hold to tell mark_provider_started that another delivery settled the    *)
(* row since it was read as needing attention, and the row is reopened.    *)
(***************************************************************************)
EXTENDS PhoneBilling, SumsProofs, TLAPS
Closed == {"none", "settled", "refunded"}

\* A row without a hold was never inserted or is free of charge, and a hold
\* ends as its row does.
RowOk(c) ==
  LET r == row[c] IN
  /\ r.state = "none" => r.quantity = 0
  /\ r.hold = NULL <=> r.state = "none" \/ Rate = 0
  /\ r.hold # NULL =>
       /\ r.hold[2] = c
       /\ r.state = "settled" => hold[r.hold].status = "settled"
                                 /\ hold[r.hold].captured = Rate * r.quantity
       /\ r.state = "refunded" => hold[r.hold].status = "refunded"
       /\ r.state \in Open => hold[r.hold].status = "active"
       /\ r.state \in Open \ {"reserved"} => hold[r.hold].started

\* A task between the reservation of a hold and the row it is for.
Holding(t, c) == task[t].next = c /\ task[t].pc \in {"insert", "conflict", "giveup"}

\* Only a settled hold has captured anything, and only the hold of a row is
\* ever started.
HoldOk(h) ==
  /\ hold[h].status # "settled" => hold[h].captured = 0
  /\ hold[h].captured <= Cost
  /\ hold[h].started => Attached(h)
  /\ hold[h].status # "none" => Rate > 0
  /\ hold[h].status = "none" => ~hold[h].old

\* An open hold without a row is in the hands of its task, or abandoned.
Carried(h) ==
  /\ hold[h].status = "active" /\ hold[h].old => In(h[1], "dead")
  /\ hold[h].status = "active" /\ ~Attached(h) => Holding(h[1], h[2]) \/ In(h[1], "dead")

\* The tranches a task is at.
Placed(t) ==
  LET r == task[t] IN
  /\ t \in Callbacks =>
       r.pc \in {"idle", "done", "claim", "check", "update", "reconcile"} \cup CallbackSteps
  /\ t \in Reservers => r.pc \notin CallbackSteps
  /\ t \in Callbacks /\ r.pc # "idle" => call.duration # NULL
  /\ r.pc \in {"look", "fund", "insert", "conflict", "giveup"} => r.covered < r.next /\ r.next <= r.goal
  /\ t \in Reservers /\ r.pc \in StartSteps \cup {"start"} => 1 <= r.next /\ r.next <= r.goal
  /\ r.pc = "ready" => 1 <= r.goal
  /\ r.pc \in StartSteps \cup {"settle"} => r.next \in Tranches
  /\ r.pc = "rows" => 1 <= r.next
  /\ r.pc \in {"fund", "conflict", "giveup"} => Rate > 0

\* The holds a reserver may yet open are untouched, and the one in hand is
\* its own.
Unfunded(t) ==
  LET r == task[t] IN
  /\ r.pc = "idle" => \A c \in Tranches : c > r.covered => hold[<<t, c>>].status = "none"
  /\ r.pc \in {"look", "fund"} => \A c \in Tranches : c >= r.next => hold[<<t, c>>].status = "none"
  /\ r.pc \in {"insert", "conflict", "giveup"} =>
       /\ \A c \in Tranches : c > r.next => hold[<<t, c>>].status = "none"
       /\ Rate > 0 => hold[<<t, r.next>>].status = "active" /\ ~Attached(<<t, r.next>>)
  /\ r.pc \in StartSteps \cup {"ready", "start"} =>
       \A c \in Tranches : c > r.goal => hold[<<t, c>>].status = "none"

\* What a task has read or written stays true of the rows, whoever else
\* writes them.
Known(t) ==
  LET r == task[t] IN
  /\ \A c \in r.got : row[c].state \notin {"none", "reserved"}
  /\ \A c \in r.made : row[c].state # "none"
  /\ \A c \in Tranches : r.seen[c].state # "none" => row[c].state # "none"
  /\ r.pc \in {"claim", "check"} => row[r.next].hold # NULL
  /\ r.pc = "update" => /\ row[r.next].state # "none"
                        /\ row[r.next].hold # NULL => hold[row[r.next].hold].started
  /\ r.pc = "reconcile" => row[r.next].state \notin {"none", "reserved"}

Listed ==
  /\ \A c \in recovery.refund : row[c].state # "none"
  /\ \A c \in recovery.surface :
       /\ row[c].state # "none"
       /\ row[c].state = "reserved" => row[c].hold # NULL /\ hold[row[c].hold].started

Solid ==
  /\ TypeOK
  /\ \A c \in Tranches : RowOk(c)
  /\ \A h \in Holds : HoldOk(h) /\ Carried(h)
  /\ \A t \in Tasks : Placed(t) /\ Known(t)
  /\ \A t \in Reservers : Unfunded(t)
  /\ Listed

\* The quantities of the rows before c.
Minutes == [c \in Tranches |-> row[c].quantity]
Before(c) == SumOver({d \in Tranches : d < c}, Minutes)
Whole == SumOver(Tranches, Minutes)

Lesser(m, n) == IF m < n THEN m ELSE n

Paid(c) ==
  /\ row[c].state # "settled" => row[c].quantity = 0
  /\ row[c].state = "settled" =>
       /\ call.duration # NULL
       /\ \A d \in Tranches : d < c => row[d].state \in Closed
       /\ Before(c) < call.duration
       /\ row[c].quantity = Lesser(call.duration - Before(c), TrancheUnits)

Counted ==
  /\ call.duration # NULL => call.ended /\ Whole + call.absorbed <= call.duration
  /\ call.absorbed # 0 => call.duration # NULL /\ AllClosed(row) /\ Whole + call.absorbed = call.duration
  /\ call.duration = NULL => Whole = 0

Captured == SumOver(Holds, [h \in Holds |-> hold[h].captured])

Totals ==
  /\ AllClosed(row) /\ (\E c \in Tranches : row[c].state = "settled") => call.final # NULL
  /\ call.final # NULL => call.ended /\ AllClosed(row) /\ call.final = Charged(row)
  /\ Captured = Charged(row)

\* A callback has paid for the rows it passed, and reads the others rightly.
Passing(t) ==
  LET r == task[t] IN
  /\ r.pc = "done" => AllClosed(row) /\ Whole + call.absorbed = call.duration
  /\ r.pc \notin {"idle", "done", "recorded"} =>
       /\ \A d \in Tranches : d < r.next => row[d].state \in Closed
       /\ Before(r.next) + r.left = call.duration
       /\ \A c \in Tranches : c >= r.next /\ r.seen[c].state \in Closed =>
            row[c].state = r.seen[c].state /\ row[c].quantity = r.seen[c].quantity
  /\ r.pc \in StartSteps \cup {"settle"} => r.left > 0

Paying ==
  /\ \A c \in Tranches : Paid(c)
  /\ Counted
  /\ Totals
  /\ \A t \in Callbacks : Passing(t)

----------------------------------------------------------------------------
(* The constants, and the pieces of transactions *)

\* The assumptions on the constants, as the steps use them.
LEMMA BillingFacts ==
  /\ Rate \in Nat /\ TrancheUnits \in Nat \ {0} /\ Cost \in Nat /\ Funds \in Nat
  /\ Durations \subseteq Nat /\ MaxCrashes \in Nat
  /\ IsFiniteSet(Tranches) /\ IsFiniteSet(Holds)
  /\ NULL \notin Holds /\ NULL \notin Nat
  /\ Tasks = Reservers \cup Callbacks /\ Reservers \cap Callbacks = {}
  /\ Dispatchers \subseteq Reservers /\ Gates \subseteq Reservers /\ Meters \subseteq Reservers
<1>1. Rate \in Nat /\ TrancheUnits \in Nat \ {0} /\ Cost \in Nat
  BY BillingNumbers DEF Cost
<1>2. IsFiniteSet(Reservers) /\ IsFiniteSet(Tranches)
  BY TasksAssumption, TranchesAssumption DEF Reservers
<1>3. IsFiniteSet(Holds)
  BY <1>2, FS_Product DEF Holds
<1> QED BY <1>1, <1>2, <1>3, BillingNumbers, BillingNull, TasksAssumption DEF Tasks, Reservers

\* The tranches are numbered from one, without a gap.
LEMMA TrancheFacts ==
  /\ Tranches \subseteq Nat \ {0} /\ 1 \in Tranches
  /\ \A c \in Tranches, n \in Nat : 1 <= n /\ n <= c => n \in Tranches
<1>1. PICK n \in Nat : Tranches = 1..n
  BY TranchesAssumption, FS_CardinalityType
<1>2. n >= 1
  BY <1>1, TranchesAssumption
<1> QED BY <1>1, <1>2

LEMMA TrancheNumbers == \A c \in Tranches : c \in Nat /\ 1 <= c
BY TrancheFacts

\* A charge is a natural number, and so is a total of charges.
LEMMA ChargedType ==
  ASSUME NEW rows \in [Tranches -> Rows]
  PROVE  Charged(rows) \in Nat
<1>1. \A c \in Tranches : Charge(rows[c]) \in Nat
  BY BillingFacts DEF Charge, Rows
<1> DEFINE f == [c \in Tranches |-> Charge(rows[c])]
<1>2. \A c \in Tranches : f[c] \in Nat
  BY <1>1
<1> HIDE DEF f
<1>3. SumOver(Tranches, f) \in Nat
  BY <1>2, BillingFacts, SumType
<1> QED BY <1>3 DEF Charged, f

\* The totals change nothing of a call but its final cost.
LEMMA TotalledType ==
  ASSUME NEW k \in Calls, NEW rows \in [Tranches -> Rows]
  PROVE  /\ Totalled(k, rows) \in Calls
         /\ Totalled(k, rows).placed = k.placed /\ Totalled(k, rows).ended = k.ended
         /\ Totalled(k, rows).duration = k.duration /\ Totalled(k, rows).absorbed = k.absorbed
         /\ Totalled(k, rows).final = IF k.ended /\ AllClosed(rows) THEN Charged(rows) ELSE NULL
<1> DEFINE f == IF k.ended /\ AllClosed(rows) THEN Charged(rows) ELSE NULL
<1>1. f \in Nat \cup {NULL}
  BY ChargedType
<1>2. Totalled(k, rows) = [k EXCEPT !.final = f]
  BY DEF Totalled
<1> HIDE DEF f
<1>3. /\ [k EXCEPT !.final = f] \in Calls /\ [k EXCEPT !.final = f].final = f
      /\ [k EXCEPT !.final = f].placed = k.placed /\ [k EXCEPT !.final = f].ended = k.ended
      /\ [k EXCEPT !.final = f].duration = k.duration
      /\ [k EXCEPT !.final = f].absorbed = k.absorbed
  BY <1>1 DEF Calls
<1> QED BY <1>2, <1>3 DEF f

\* A task that is over.
Over == [Fresh EXCEPT !.pc = "done"]

LEMMA FreshType ==
  /\ Fresh \in TaskStates /\ Over \in TaskStates
  /\ Fresh.pc = "idle" /\ Over.pc = "done"
  /\ Fresh.covered = 0 /\ Over.covered = 0
  /\ Fresh.made = {} /\ Over.made = {} /\ Fresh.got = {} /\ Over.got = {}
  /\ Fresh.seen = NoView /\ Over.seen = NoView
  /\ NoView \in [Tranches -> Views]
  /\ \A c \in Tranches : NoView[c].state = "none" /\ NoView[c].quantity = 0
<1>1. [state |-> "none", quantity |-> 0] \in Views
  BY BillingFacts DEF Views, RowStates, Open
<1>2. NoView \in [Tranches -> Views]
  BY <1>1 DEF NoView
<1> QED BY <1>2 DEF Fresh, Over, TaskStates, NoView

\* What a task becomes.
LEMMA BecomesType ==
  ASSUME task \in [Tasks -> TaskStates], NEW t \in Tasks, NEW r \in TaskStates, Becomes(t, r)
  PROVE  /\ task' \in [Tasks -> TaskStates]
         /\ \A u \in Tasks : u = t \/ task'[u] = task[u]
         /\ task'[t] = IF r.pc = "done" THEN Over ELSE r
BY FreshType DEF Becomes, Over

Steps == {"idle", "done"} \cup ReserverSteps \cup StartSteps \cup CallbackSteps

LEMMA GoesType ==
  ASSUME task \in [Tasks -> TaskStates], NEW t \in Tasks, NEW pc \in Steps \ {"done"}, Goes(t, pc)
  PROVE  /\ task' \in [Tasks -> TaskStates]
         /\ \A u \in Tasks : u = t \/ task'[u] = task[u]
         /\ task'[t].pc = pc
         /\ task'[t].covered = task[t].covered /\ task'[t].next = task[t].next
         /\ task'[t].goal = task[t].goal /\ task'[t].made = task[t].made
         /\ task'[t].got = task[t].got /\ task'[t].seen = task[t].seen
         /\ task'[t].left = task[t].left
<1> DEFINE r == [task[t] EXCEPT !.pc = pc]
<1>1. r \in TaskStates /\ r.pc = pc
  BY DEF TaskStates, Steps
<1>2. Becomes(t, r)
  BY DEF Goes
<1> HIDE DEF r
<1>3. /\ task' \in [Tasks -> TaskStates] /\ \A u \in Tasks : u = t \/ task'[u] = task[u]
      /\ task'[t] = r
  BY <1>1, <1>2, BecomesType
<1> QED BY <1>1, <1>3 DEF r, TaskStates

----------------------------------------------------------------------------
(* Where a task goes *)

LEMMA ReservedType ==
  ASSUME NEW t \in Reservers, NEW r \in TaskStates, r.covered < r.next, r.next <= r.goal,
         NEW made \in SUBSET Tranches
  PROVE  LET s == Reserved(t, r, made) IN
         /\ s \in TaskStates /\ s.covered = r.covered /\ s.goal = r.goal
         /\ s.made = made /\ s.got = r.got /\ s.seen = r.seen
         /\ \/ s.pc = "look" /\ s.next = r.next + 1 /\ r.next < r.goal
            \/ s.pc = "ready" /\ r.next = r.goal
            \/ s.pc = "start" /\ s.next = r.covered + 1 /\ r.next = r.goal
<1>1. r.next \in Nat /\ r.covered \in Nat /\ r.goal \in Nat
  <2>1. r.next \in Nat /\ r.covered \in Tranches \cup {0} /\ r.goal \in Tranches \cup {0}
    BY DEF TaskStates
  <2>2. Tranches \cup {0} \subseteq Nat
    BY TrancheFacts
  <2> QED BY <2>1, <2>2
<1>0. ~(r.next < r.goal) => r.next = r.goal
  BY <1>1
<1>2. CASE r.next < r.goal
  <2>1. Reserved(t, r, made) = [r EXCEPT !.pc = "look", !.next = r.next + 1, !.made = made]
    BY <1>2 DEF Reserved
  <2>2. r.next + 1 \in Nat
    BY <1>1
  <2> QED BY <1>2, <2>1, <2>2 DEF TaskStates, ReserverSteps
<1>3. CASE ~(r.next < r.goal) /\ t \in Dispatchers
  <2>1. Reserved(t, r, made) = [r EXCEPT !.pc = "ready", !.made = made]
    BY <1>3 DEF Reserved
  <2> QED BY <1>0, <1>3, <2>1 DEF TaskStates, ReserverSteps
<1>4. CASE ~(r.next < r.goal) /\ t \notin Dispatchers
  <2>1. Reserved(t, r, made) = [r EXCEPT !.pc = "start", !.next = r.covered + 1, !.made = made]
    BY <1>4 DEF Reserved
  <2>2. r.covered + 1 \in Nat
    BY <1>1
  <2> QED BY <1>0, <1>4, <2>1, <2>2 DEF TaskStates, ReserverSteps
<1> QED BY <1>2, <1>3, <1>4

LEMMA FailedType ==
  ASSUME NEW t \in Reservers, NEW r \in TaskStates
  PROVE  LET s == Failed(t, r) IN
         /\ s \in TaskStates /\ s.made = r.made /\ s.got = r.got /\ s.seen = r.seen
         /\ s.pc \in {"undo", "fail", "done"}
BY DEF Failed, TaskStates, ReserverSteps

LEMMA MarkedType ==
  ASSUME task \in [Tasks -> TaskStates], NEW t \in Tasks, task[t].next \in Tranches,
         t \in Reservers => task[t].next <= task[t].goal
  PROVE  LET r == task[t]
             s == Marked(t) IN
         /\ s \in TaskStates
         /\ t \in Callbacks =>
              /\ s.pc = "settle" /\ s.next = r.next /\ s.seen = r.seen /\ s.left = r.left
              /\ s.got = r.got /\ s.made = r.made
         /\ t \in Reservers =>
              \/ /\ s.pc = "start" /\ s.next = r.next + 1 /\ r.next < r.goal /\ s.goal = r.goal
                 /\ s.got = r.got \cup {r.next} /\ s.made = r.made /\ s.seen = r.seen
              \/ /\ s.pc \in {"post", "done"}
                 /\ s.got \subseteq r.got \cup {r.next} /\ s.made = r.made /\ s.seen = r.seen
              \/ /\ s.pc = "idle" /\ s.covered = r.goal
                 /\ s.got = {} /\ s.made = {} /\ s.seen = NoView
<1> DEFINE r == task[t]
<1>1. r \in TaskStates
  OBVIOUS
<1>2. r.next + 1 \in Nat /\ r.got \cup {r.next} \in SUBSET Tranches
  BY TrancheFacts DEF TaskStates
<1>3. CASE t \in Callbacks
  <2>1. Marked(t) = [r EXCEPT !.pc = "settle"]
    BY <1>3 DEF Marked
  <2> HIDE DEF r
  <2>2. t \notin Reservers
    BY <1>3, BillingFacts
  <2> QED BY <1>1, <2>1, <2>2 DEF TaskStates, CallbackSteps, r
<1>4. CASE t \notin Callbacks /\ r.next < r.goal
  <2>1. Marked(t) = [r EXCEPT !.pc = "start", !.next = r.next + 1, !.got = r.got \cup {r.next}]
    BY <1>4 DEF Marked
  <2> HIDE DEF r
  <2> QED BY <1>1, <1>2, <1>4, <2>1 DEF TaskStates, ReserverSteps, r
<1>5. CASE t \notin Callbacks /\ ~(r.next < r.goal) /\ t \in Dispatchers
  <2>1. Marked(t) = [r EXCEPT !.pc = "post", !.got = r.got \cup {r.next}]
    BY <1>5 DEF Marked
  <2> HIDE DEF r
  <2> QED BY <1>1, <1>2, <1>5, <2>1 DEF TaskStates, ReserverSteps, r
<1>6. CASE t \notin Callbacks /\ ~(r.next < r.goal) /\ t \notin Dispatchers /\ t \in Gates
  <2>1. Marked(t) = [r EXCEPT !.pc = "done"]
    BY <1>6 DEF Marked
  <2> HIDE DEF r
  <2> QED BY <1>1, <1>6, <2>1 DEF TaskStates, r
<1>7. CASE t \notin Callbacks /\ ~(r.next < r.goal) /\ t \notin Dispatchers /\ t \notin Gates
  <2>1. Marked(t) = [Fresh EXCEPT !.covered = r.goal]
    BY <1>7 DEF Marked
  <2>2. r.goal \in Tranches \cup {0}
    BY <1>1 DEF TaskStates
  <2> HIDE DEF r
  <2> QED BY <1>7, <2>1, <2>2, FreshType DEF TaskStates, r
<1> QED BY <1>3, <1>4, <1>5, <1>6, <1>7

LEMMA RaisedType ==
  ASSUME task \in [Tasks -> TaskStates], NEW t \in Tasks
  PROVE  LET r == task[t]
             s == Raised(t) IN
         /\ s \in TaskStates
         /\ t \in Callbacks => s = Fresh
         /\ t \notin Callbacks => s.pc \in {"unwind", "surface", "done"}
         /\ s.made \subseteq r.made /\ s.got \subseteq r.got /\ s.seen \in {r.seen, NoView}
<1> DEFINE r == task[t]
           mine == {c \in r.made : c >= r.next}
<1>1. r \in TaskStates /\ mine \in SUBSET Tranches /\ mine \subseteq r.made
  BY DEF TaskStates
<1>2. CASE t \in Callbacks
  BY <1>2, FreshType DEF Raised
<1>3. CASE t \notin Callbacks
  <2> DEFINE pc == IF mine # {} THEN "unwind" ELSE IF r.got # {} THEN "surface" ELSE "done"
  <2>1. Raised(t) = [r EXCEPT !.made = mine, !.pc = pc]
    BY <1>3 DEF Raised
  <2>2. pc \in {"unwind", "surface", "done"}
    OBVIOUS
  <2> HIDE DEF r, mine, pc
  <2> QED BY <1>1, <1>3, <2>1, <2>2 DEF TaskStates, ReserverSteps, r
<1> QED BY <1>2, <1>3

LEMMA AllocatedType ==
  ASSUME task \in [Tasks -> TaskStates], NEW t \in Tasks, task[t].next \in Tranches,
         NEW n \in Nat
  PROVE  LET r == task[t]
             s == Allocated(t, n) IN
         /\ s \in TaskStates /\ s.pc = "rows" /\ s.next = r.next + 1
         /\ s.left = Less(r.left, n) /\ s.made = r.made /\ s.got = r.got
         /\ s.seen \in [Tranches -> Views]
         /\ \A c \in Tranches : c # r.next => s.seen[c] = r.seen[c]
         /\ s.seen[r.next].state = "none"
<1> DEFINE r == task[t]
           seen == [r.seen EXCEPT ![r.next] = NoView[r.next]]
<1>1. r \in TaskStates /\ r.next + 1 \in Nat /\ Less(r.left, n) \in Nat
  BY TrancheFacts DEF TaskStates, Less
<1>2. /\ seen \in [Tranches -> Views] /\ seen[r.next].state = "none"
      /\ \A c \in Tranches : c # r.next => seen[c] = r.seen[c]
  BY <1>1, FreshType DEF TaskStates
<1>3. Allocated(t, n) = [r EXCEPT !.pc = "rows", !.next = r.next + 1, !.left = Less(r.left, n),
                                  !.seen = seen]
  BY <1>1 DEF Allocated, TaskStates
<1> DEFINE left == Less(r.left, n)
<1> HIDE DEF r, seen, left
<1>4. Allocated(t, n) = [r EXCEPT !.pc = "rows", !.next = r.next + 1, !.left = left, !.seen = seen]
  BY <1>3 DEF left
<1>5. left \in Nat
  BY <1>1 DEF left
<1>6. Allocated(t, n) \in TaskStates
  BY <1>1, <1>2, <1>4, <1>5 DEF TaskStates, CallbackSteps
<1>7. /\ Allocated(t, n).pc = "rows" /\ Allocated(t, n).next = r.next + 1
      /\ Allocated(t, n).left = left /\ Allocated(t, n).made = r.made
      /\ Allocated(t, n).got = r.got /\ Allocated(t, n).seen = seen
  BY <1>1, <1>4 DEF TaskStates
<1> QED BY <1>2, <1>6, <1>7 DEF r, left

----------------------------------------------------------------------------
(* What every step leaves true, and the step lemma *)

\* Rows keep their hold and never go back, a recorded start and a reported
\* duration stay.
Follows ==
  /\ \A c \in Tranches :
       /\ row[c].state # "none" => row'[c].state # "none" /\ row'[c].hold = row[c].hold
       /\ row[c].state \notin {"none", "reserved"} => row'[c].state \notin {"none", "reserved"}
  /\ \A h \in Holds : hold[h].started => hold'[h].started
  /\ call.duration # NULL => call'.duration # NULL

\* The holds of a living task u do not open or grow old, and those without a
\* row are left alone.
Untouched(u) ==
  In(u, "dead") \/ \A c \in Tranches :
    /\ hold'[<<u, c>>].old = hold[<<u, c>>].old
    /\ hold'[<<u, c>>].status = "active" => hold[<<u, c>>].status = "active"
    /\ ~Attached(<<u, c>>) => hold'[<<u, c>>] = hold[<<u, c>>] /\ ~(Attached(<<u, c>>))'

Sound ==
  /\ call' \in Calls /\ row' \in [Tranches -> Rows] /\ hold' \in [Holds -> HoldRows]
  /\ balance' \in Nat
  /\ Follows
  /\ \A c \in Tranches : RowOk(c)'
  /\ \A h \in Holds : HoldOk(h)'

Tame == Sound /\ \A u \in Reservers : Untouched(u)

\* A row with a hold exists, and a hold with a row is not unused.
LEMMA AttachedFacts ==
  ASSUME Solid
  PROVE  /\ \A c \in Tranches : row[c].hold # NULL =>
              row[c].hold \in Holds /\ row[c].state # "none" /\ hold[row[c].hold].status # "none"
         /\ \A c, d \in Tranches : row[c].hold = row[d].hold /\ row[c].hold # NULL => c = d
         /\ \A h \in Holds : Attached(h) => hold[h].status # "none"
<1>1. ASSUME NEW c \in Tranches, row[c].hold # NULL
      PROVE  row[c].hold \in Holds /\ row[c].state # "none" /\ hold[row[c].hold].status # "none"
  <2>1. row[c] \in Rows
    BY DEF Solid, TypeOK
  <2>2. row[c].hold \in Holds /\ row[c].state \in {"settled", "refunded"} \cup Open \cup {"none"}
    BY <1>1, <2>1 DEF Rows, RowStates
  <2>3. row[c].state # "none"
    BY <1>1 DEF Solid, RowOk
  <2> QED BY <1>1, <2>2, <2>3 DEF Solid, RowOk
<1>2. \A c, d \in Tranches : row[c].hold = row[d].hold /\ row[c].hold # NULL => c = d
  BY DEF Solid, RowOk
<1>3. \A h \in Holds : Attached(h) => hold[h].status # "none"
  BY <1>1, BillingFacts DEF Attached
<1> QED BY <1>1, <1>2, <1>3

\* What a task that is left alone has read stays true.
LEMMA StaysKnown ==
  ASSUME Solid, Follows, NEW t \in Tasks, task'[t] = task[t]
  PROVE  Placed(t)' /\ Known(t)'
<1>1. Placed(t) /\ Known(t) /\ task[t].next \in Nat
  BY DEF Solid, TypeOK, TaskStates
<1>2. Placed(t)'
  BY <1>1 DEF Placed, Follows
<1>3. task[t].got \subseteq Tranches /\ task[t].made \subseteq Tranches
  BY DEF Solid, TypeOK, TaskStates
<1>4. task[t].pc \in StartSteps => task[t].next \in Tranches
  BY <1>1 DEF Placed
<1>5. /\ \A c \in task[t].got : row'[c].state \notin {"none", "reserved"}
      /\ \A c \in task[t].made : row'[c].state # "none"
      /\ \A c \in Tranches : task[t].seen[c].state # "none" => row'[c].state # "none"
  BY <1>1, <1>3 DEF Known, Follows
<1>6. task[t].pc \in {"claim", "check"} => row'[task[t].next].hold # NULL
  BY <1>1, <1>4, AttachedFacts DEF Known, Follows, StartSteps
<1>7. task[t].pc = "update" =>
        /\ row'[task[t].next].state # "none"
        /\ row'[task[t].next].hold # NULL => hold'[row'[task[t].next].hold].started
  BY <1>1, <1>4, AttachedFacts DEF Known, Follows, StartSteps
<1>8. task[t].pc = "reconcile" => row'[task[t].next].state \notin {"none", "reserved"}
  BY <1>1, <1>4 DEF Known, Follows, StartSteps
<1> QED BY <1>2, <1>5, <1>6, <1>7, <1>8 DEF Known

\* The holds of a reserver whose hands are left alone.
LEMMA StaysAttached ==
  ASSUME Solid, Follows, NEW h \in Holds, Attached(h)
  PROVE  (Attached(h))'
BY AttachedFacts, BillingFacts DEF Attached, Follows

LEMMA StaysUnfunded ==
  ASSUME Solid, NEW t \in Reservers, Untouched(t), ~In(t, "dead"), NEW c \in Tranches,
         hold[<<t, c>>].status = "none"
  PROVE  hold'[<<t, c>>].status = "none"
<1>1. <<t, c>> \in Holds
  BY DEF Holds
<1> QED BY <1>1, AttachedFacts DEF Untouched

LEMMA StaysCarried ==
  ASSUME Solid, Follows, NEW t \in Reservers, Untouched(t), NEW c \in Tranches,
         In(t, "dead") => In(t, "dead")',
         Holding(t, c) => Holding(t, c)'
  PROVE  Carried(<<t, c>>)'
<1> DEFINE h == <<t, c>>
<1>1. h \in Holds /\ h[1] = t /\ h[2] = c /\ Carried(h)
  BY DEF Holds, Solid
<1>2. CASE In(t, "dead")
  BY <1>1, <1>2 DEF Carried
<1>3. CASE ~In(t, "dead")
  <2>1. /\ hold'[h].old = hold[h].old
        /\ hold'[h].status = "active" => hold[h].status = "active"
        /\ ~Attached(h) => hold'[h] = hold[h]
    BY <1>3 DEF Untouched
  <2>2. (hold[h].status = "active" /\ hold[h].old => In(t, "dead"))'
    BY <1>1, <1>3, <2>1 DEF Carried
  <2>3. (hold[h].status = "active" /\ ~Attached(h) => Holding(t, c) \/ In(t, "dead"))'
    BY <1>1, <1>3, <2>1, StaysAttached DEF Carried
  <2> QED BY <1>1, <2>2, <2>3 DEF Carried
<1> QED BY <1>2, <1>3

LEMMA StaysHeld ==
  ASSUME Solid, Follows, NEW t \in Reservers, task'[t] = task[t], Untouched(t)
  PROVE  Unfunded(t)' /\ \A c \in Tranches : Carried(<<t, c>>)'
<1>1. \A c \in Tranches : Carried(<<t, c>>)'
  BY StaysCarried DEF In, Holding
<1>2. CASE In(t, "dead")
  <2>1. task'[t].pc = "dead"
    BY <1>2 DEF In
  <2> QED BY <1>1, <2>1 DEF Unfunded, StartSteps
<1>3. CASE ~In(t, "dead")
  <2>1. Unfunded(t) /\ Placed(t)
    BY BillingFacts DEF Solid
  <2>2. \A c \in Tranches : hold[<<t, c>>].status = "none" => hold'[<<t, c>>].status = "none"
    BY <1>3, StaysUnfunded
  <2>3. task[t].pc \in {"insert", "conflict", "giveup"} => task[t].next \in Tranches
    <3>1. task[t].next \in Nat /\ task[t].covered \in Tranches \cup {0} /\ task[t].goal \in Tranches \cup {0}
      BY BillingFacts DEF Solid, TypeOK, TaskStates
    <3>2. task[t].pc \in {"insert", "conflict", "giveup"} =>
            task[t].covered < task[t].next /\ task[t].next <= task[t].goal
      BY <2>1 DEF Placed
    <3>3. Tranches \cup {0} \subseteq Nat
      BY TrancheFacts
    <3>4. ASSUME task[t].covered < task[t].next, task[t].next <= task[t].goal
          PROVE  task[t].next \in Tranches
      <4>1. 1 <= task[t].next /\ task[t].goal \in Tranches
        BY <3>1, <3>3, <3>4
      <4> QED BY <3>1, <3>4, <4>1, TrancheFacts
    <3> QED BY <3>2, <3>4
  <2>4. task[t].pc \in {"insert", "conflict", "giveup"} /\ Rate > 0 =>
          hold'[<<t, task[t].next>>].status = "active" /\ ~(Attached(<<t, task[t].next>>))'
    BY <1>3, <2>1, <2>3 DEF Unfunded, Untouched
  <2> QED BY <1>1, <2>1, <2>2, <2>4 DEF Unfunded
<1> QED BY <1>2, <1>3

LEMMA StaysListed ==
  ASSUME Solid, Follows, recovery' = recovery
  PROVE  Listed'
<1>1. recovery.refund \subseteq Tranches /\ recovery.surface \subseteq Tranches /\ Listed
  BY DEF Solid, TypeOK, RecoveryStates
<1>2. \A c \in recovery.refund \cup recovery.surface : row'[c].state # "none"
  BY <1>1 DEF Listed, Follows
<1>3. ASSUME NEW c \in recovery.surface, row'[c].state = "reserved"
      PROVE  row'[c].hold # NULL /\ hold'[row'[c].hold].started
  <2>1. row[c].state = "reserved" /\ row[c].hold # NULL /\ hold[row[c].hold].started
    BY <1>1, <1>3 DEF Listed, Follows
  <2> QED BY <1>1, <2>1, AttachedFacts DEF Follows
<1> QED BY <1>2, <1>3 DEF Listed

\* A step keeps the invariant if the rows and holds stay right, and every
\* task either stays as it is with its holds left alone, or is right again.
LEMMA Step ==
  ASSUME Solid, Sound,
         task' \in [Tasks -> TaskStates], recovery' \in RecoveryStates, crashes' \in 0..MaxCrashes,
         Listed',
         NEW S \in SUBSET Tasks,
         \A u \in Tasks \ S : task'[u] = task[u] /\ (u \in Reservers => Untouched(u)),
         \A u \in S : /\ Placed(u)' /\ Known(u)'
                      /\ u \in Reservers => Unfunded(u)' /\ \A c \in Tranches : Carried(<<u, c>>)'
  PROVE  Solid'
<1>1. Follows /\ TypeOK' /\ (\A c \in Tranches : RowOk(c)') /\ (\A h \in Holds : HoldOk(h)')
  BY DEF Sound, TypeOK
<1>2. \A u \in Tasks : Placed(u)' /\ Known(u)'
  BY <1>1, StaysKnown
<1>3. \A u \in Reservers : Unfunded(u)' /\ \A c \in Tranches : Carried(<<u, c>>)'
  BY <1>1, StaysHeld, BillingFacts
<1>4. \A h \in Holds : Carried(h)'
  BY <1>3 DEF Holds
<1> QED BY <1>1, <1>2, <1>3, <1>4 DEF Solid

----------------------------------------------------------------------------
(* What the transactions do to the rows and the holds *)

\* The rows and the holds left alone.
LEMMA Quiet ==
  ASSUME Solid, row' = row, hold' = hold, balance' = balance, call' \in Calls,
         call.duration # NULL => call'.duration # NULL
  PROVE  Tame
<1>1. Follows
  BY DEF Follows
<1>2. \A c \in Tranches : RowOk(c)'
  BY DEF Solid, RowOk
<1>3. \A h \in Holds : HoldOk(h)'
  BY DEF Solid, HoldOk, Attached
<1>4. \A u \in Reservers : Untouched(u)
  BY DEF Untouched, Attached
<1>5. row' \in [Tranches -> Rows] /\ hold' \in [Holds -> HoldRows] /\ balance' \in Nat
  BY DEF Solid, TypeOK
<1> QED BY <1>1, <1>2, <1>3, <1>4, <1>5 DEF Tame, Sound

\* One row goes on, with its own hold or without.
LEMMA OneRow ==
  ASSUME Solid, NEW c \in Tranches,
         call' \in Calls, call.duration # NULL => call'.duration # NULL, balance' \in Nat,
         row' \in [Tranches -> Rows], hold' \in [Holds -> HoldRows],
         \A d \in Tranches : d # c => row'[d] = row[d],
         \A h \in Holds : h # row[c].hold => hold'[h] = hold[h],
         row[c].state # "none",
         row'[c].hold = row[c].hold, row'[c].state # "none",
         row[c].state # "reserved" => row'[c].state # "reserved",
         row[c].hold # NULL =>
           /\ hold[row[c].hold].started => hold'[row[c].hold].started
           /\ hold'[row[c].hold].old = hold[row[c].hold].old
           /\ hold'[row[c].hold].status = "active" => hold[row[c].hold].status = "active"
           /\ hold'[row[c].hold].status # "settled" => hold'[row[c].hold].captured = 0
           /\ hold'[row[c].hold].captured <= Cost
           /\ row'[c].state = "settled" =>
                hold'[row[c].hold].status = "settled"
                /\ hold'[row[c].hold].captured = Rate * row'[c].quantity
           /\ row'[c].state = "refunded" => hold'[row[c].hold].status = "refunded"
           /\ row'[c].state \in Open => hold'[row[c].hold].status = "active"
           /\ row'[c].state \in Open \ {"reserved"} => hold'[row[c].hold].started
  PROVE  Tame
<1> DEFINE k == row[c].hold
<1>0. row[c].hold # NULL => k \in Holds /\ k[2] = c
  BY AttachedFacts DEF Solid, RowOk
<1>1. Follows
  <2>1. ASSUME NEW d \in Tranches
        PROVE  /\ row[d].state # "none" => row'[d].state # "none" /\ row'[d].hold = row[d].hold
               /\ row[d].state \notin {"none", "reserved"} => row'[d].state \notin {"none", "reserved"}
    <3>1. CASE d = c
      BY <3>1
    <3>2. CASE d # c
      BY <3>2
    <3> QED BY <3>1, <3>2
  <2>2. ASSUME NEW h \in Holds, hold[h].started PROVE hold'[h].started
    <3>1. CASE h = k
      BY <1>0, <2>2, <3>1, BillingFacts
    <3>2. CASE h # k
      BY <2>2, <3>2
    <3> QED BY <3>1, <3>2
  <2> QED BY <2>1, <2>2 DEF Follows
<1>2. ASSUME NEW d \in Tranches PROVE RowOk(d)'
  <2>1. CASE d = c
    <3>1. row[c].hold = NULL <=> Rate = 0
      BY DEF Solid, RowOk
    <3> QED BY <1>0, <2>1, <3>1 DEF RowOk
  <2>2. CASE d # c
    <3>1. row[d].hold # NULL => row[d].hold # k /\ row[d].hold \in Holds
      BY <1>0, <2>2, AttachedFacts
    <3>2. row[d].hold # NULL => hold'[row[d].hold] = hold[row[d].hold]
      BY <3>1
    <3> QED BY <2>2, <3>2 DEF Solid, RowOk
  <2> QED BY <2>1, <2>2
<1>3. \A h \in Holds : (Attached(h))' <=> Attached(h)
  BY DEF Attached
<1>4. ASSUME NEW h \in Holds PROVE HoldOk(h)'
  <2>1. CASE h # k
    <3> HIDE DEF k
    <3>1. hold'[h] = hold[h]
      BY <2>1 DEF k
    <3> QED BY <1>3, <3>1 DEF Solid, HoldOk
  <2>2. CASE h = k
    <3>1. row[c].hold # NULL
      BY <2>2, BillingFacts
    <3>2. Attached(h)
      BY <2>2 DEF Attached
    <3>3. Rate > 0
      BY <2>2, <3>1, AttachedFacts DEF Solid, HoldOk
    <3>4. hold'[h].status # "none"
      <4>1. row'[c].state \in Open \cup {"settled", "refunded"}
        BY DEF Rows, RowStates
      <4> QED BY <2>2, <3>1, <4>1
    <3> QED BY <1>3, <2>2, <3>1, <3>2, <3>3, <3>4 DEF HoldOk
  <2> QED BY <2>1, <2>2
<1>5. ASSUME NEW u \in Reservers, NEW d \in Tranches
      PROVE  /\ hold'[<<u, d>>].old = hold[<<u, d>>].old
             /\ hold'[<<u, d>>].status = "active" => hold[<<u, d>>].status = "active"
             /\ ~Attached(<<u, d>>) => hold'[<<u, d>>] = hold[<<u, d>>] /\ ~(Attached(<<u, d>>))'
  <2>1. <<u, d>> \in Holds
    BY DEF Holds
  <2>2. CASE <<u, d>> # k
    BY <1>3, <2>1, <2>2
  <2>3. CASE <<u, d>> = k
    <3>1. Attached(<<u, d>>) /\ row[c].hold # NULL
      BY <2>1, <2>3, BillingFacts DEF Attached
    <3> QED BY <2>3, <3>1
  <2> QED BY <2>2, <2>3
<1>6. \A u \in Reservers : Untouched(u)
  BY <1>5 DEF Untouched
<1> QED BY <1>1, <1>2, <1>4, <1>6 DEF Tame, Sound

\* A row written, and the totals of its call.
LEMMA WriteType ==
  ASSUME Solid, NEW c \in Tranches, NEW s \in RowStates, NEW q \in 0..TrancheUnits, Write(c, s, q)
  PROVE  /\ row' \in [Tranches -> Rows] /\ call' \in Calls /\ call'.duration = call.duration
         /\ \A d \in Tranches : d # c => row'[d] = row[d]
         /\ row'[c].state = s /\ row'[c].quantity = q /\ row'[c].hold = row[c].hold
<1>1. row \in [Tranches -> Rows] /\ call \in Calls
  BY DEF Solid, TypeOK
<1> DEFINE r == [row[c] EXCEPT !.state = s, !.quantity = q, !.old = FALSE]
<1>2. r \in Rows /\ r.state = s /\ r.quantity = q /\ r.hold = row[c].hold
  BY <1>1 DEF Rows
<1>3. row' = [row EXCEPT ![c] = r]
  BY <1>1 DEF Write, Rows
<1> HIDE DEF r
<1>4. row' \in [Tranches -> Rows] /\ row'[c] = r /\ \A d \in Tranches : d # c => row'[d] = row[d]
  BY <1>1, <1>2, <1>3
<1>5. call' = Totalled(call, row')
  BY DEF Write
<1>6. call' \in Calls /\ call'.duration = call.duration
  BY <1>1, <1>4, <1>5, TotalledType
<1> QED BY <1>2, <1>4, <1>6

\* A hold given back.
LEMMA ReleaseType ==
  ASSUME Solid, NEW h \in Holds \cup {NULL}, Release(h)
  PROVE  /\ hold' \in [Holds -> HoldRows] /\ balance' \in Nat
         /\ \A g \in Holds : g # h => hold'[g] = hold[g]
         /\ h # NULL => /\ hold'[h].started = hold[h].started /\ hold'[h].old = hold[h].old
                        /\ hold'[h].captured = hold[h].captured
                        /\ hold'[h].status = IF hold[h].status = "active" THEN "refunded"
                                             ELSE hold[h].status
<1>1. hold \in [Holds -> HoldRows] /\ balance \in Nat
  BY DEF Solid, TypeOK
<1>2. CASE h # NULL /\ hold[h].status = "active"
  <2> DEFINE r == [hold[h] EXCEPT !.status = "refunded"]
  <2>1. h \in Holds /\ hold[h] \in HoldRows
    BY <1>1, <1>2
  <2>2. /\ r \in HoldRows /\ r.status = "refunded" /\ r.started = hold[h].started
        /\ r.old = hold[h].old /\ r.captured = hold[h].captured
    BY <2>1 DEF HoldRows
  <2>3. hold' = [hold EXCEPT ![h] = r] /\ balance' = balance + Cost
    BY <1>2 DEF Release
  <2> HIDE DEF r
  <2> QED BY <1>1, <1>2, <2>1, <2>2, <2>3, BillingFacts
<1>3. CASE ~(h # NULL /\ hold[h].status = "active")
  <2>1. hold' = hold /\ balance' = balance
    BY <1>3 DEF Release
  <2> QED BY <1>1, <1>3, <2>1
<1> QED BY <1>2, <1>3

\* A row refunded.
LEMMA GoneBack ==
  ASSUME Solid, NEW c \in Tranches, row[c].state # "none", Refundable(c),
         Write(c, "refunded", 0), Release(row[c].hold)
  PROVE  Tame
<1>1. row[c].hold \in Holds \cup {NULL} /\ RowOk(c)
  BY DEF Solid, TypeOK, Rows
<1>2. /\ row' \in [Tranches -> Rows] /\ call' \in Calls /\ call'.duration = call.duration
      /\ \A d \in Tranches : d # c => row'[d] = row[d]
      /\ row'[c].state = "refunded" /\ row'[c].quantity = 0 /\ row'[c].hold = row[c].hold
  BY WriteType, BillingFacts DEF RowStates
<1>3. /\ hold' \in [Holds -> HoldRows] /\ balance' \in Nat
      /\ \A g \in Holds : g # row[c].hold => hold'[g] = hold[g]
      /\ row[c].hold # NULL =>
           /\ hold'[row[c].hold].started = hold[row[c].hold].started
           /\ hold'[row[c].hold].old = hold[row[c].hold].old
           /\ hold'[row[c].hold].captured = hold[row[c].hold].captured
           /\ hold'[row[c].hold].status = IF hold[row[c].hold].status = "active" THEN "refunded"
                                          ELSE hold[row[c].hold].status
  BY <1>1, ReleaseType
<1>4. row[c].hold # NULL => hold[row[c].hold].status \in {"active", "refunded"}
  <2>1. row[c].state \in Open \cup {"settled", "refunded"}
    BY DEF Solid, TypeOK, Rows, RowStates
  <2> QED BY <1>1, <2>1 DEF RowOk, Refundable, HoldIs
<1>5. row[c].hold # NULL => hold[row[c].hold].captured = 0
  BY <1>1, <1>4 DEF Solid, HoldOk
<1>6. "refunded" \notin Open
  BY DEF Open
<1> QED BY <1>2, <1>3, <1>4, <1>5, <1>6, BillingFacts, OneRow

LEMMA RefundRowTame ==
  ASSUME Solid, NEW c \in Tranches, row[c].state # "none", Refundable(c), RefundRow(c)
  PROVE  Tame
<1>1. CASE row[c].state = "refunded"
  BY <1>1, Quiet DEF RefundRow, Solid, TypeOK
<1>2. CASE row[c].state # "refunded"
  BY <1>2, GoneBack DEF RefundRow
<1> QED BY <1>1, <1>2

LEMMA RefundIfUnstartedTame ==
  ASSUME Solid, NEW c \in Tranches, RefundIfUnstarted(c)
  PROVE  Tame
<1>1. CASE row[c].state = "reserved" /\ ~(row[c].hold # NULL /\ hold[row[c].hold].started)
  <2>1. Refundable(c)
    BY <1>1 DEF Solid, RowOk, Refundable, HoldIs, Open
  <2> QED BY <1>1, <2>1, GoneBack DEF RefundIfUnstarted
<1>2. CASE ~(row[c].state = "reserved" /\ ~(row[c].hold # NULL /\ hold[row[c].hold].started))
  BY <1>2, Quiet DEF RefundIfUnstarted, Solid, TypeOK
<1> QED BY <1>1, <1>2

\* A row that is open goes to another open state, with its hold as it is.
LEMMA OpenRowTame ==
  ASSUME Solid, NEW c \in Tranches, NEW s \in Open \ {"reserved"},
         row' = [row EXCEPT ![c].state = s, ![c].old = FALSE],
         row[c].state # "none",
         row[c].hold # NULL => hold[row[c].hold].started /\ hold[row[c].hold].status = "active",
         call' \in Calls, call'.duration = call.duration, hold' = hold, balance' = balance
  PROVE  Tame
<1>1. row \in [Tranches -> Rows] /\ hold \in [Holds -> HoldRows] /\ balance \in Nat
  BY DEF Solid, TypeOK
<1> DEFINE r == [row[c] EXCEPT !.state = s, !.old = FALSE]
<1>2. r \in Rows /\ r.state = s /\ r.hold = row[c].hold
  BY <1>1 DEF Rows, RowStates
<1>3. row' = [row EXCEPT ![c] = r]
  BY <1>1 DEF Rows
<1> HIDE DEF r
<1>4. row' \in [Tranches -> Rows] /\ row'[c] = r /\ \A d \in Tranches : d # c => row'[d] = row[d]
  BY <1>1, <1>2, <1>3
<1>5. s \notin {"none", "settled", "refunded", "reserved"}
  BY DEF Open
<1>6. row[c].hold # NULL =>
        /\ row[c].hold \in Holds
        /\ hold[row[c].hold].status # "settled" => hold[row[c].hold].captured = 0
        /\ hold[row[c].hold].captured <= Cost
  BY AttachedFacts DEF Solid, HoldOk
<1> QED BY <1>1, <1>2, <1>4, <1>5, <1>6, OneRow

LEMMA MarkAmbiguousTame ==
  ASSUME Solid, NEW c \in Tranches, MarkAmbiguous(c),
         row[c].state = "reserved" /\ row[c].hold # NULL => hold[row[c].hold].started
  PROVE  Tame
<1>0. call \in Calls /\ row \in [Tranches -> Rows]
  BY DEF Solid, TypeOK
<1>1. CASE row[c].state \in {"reserved", "provider_started"}
  <2>1. row' = [row EXCEPT ![c].state = "needs_attention", ![c].old = FALSE]
    BY <1>1 DEF MarkAmbiguous
  <2>2. row' \in [Tranches -> Rows]
    BY <1>0, <2>1 DEF Rows, RowStates, Open
  <2>3. call' \in Calls /\ call'.duration = call.duration
    BY <1>0, <2>2, TotalledType DEF MarkAmbiguous
  <2>4. row[c].hold # NULL => hold[row[c].hold].started /\ hold[row[c].hold].status = "active"
    BY <1>1 DEF Solid, RowOk, Open
  <2>5. hold' = hold /\ balance' = balance
    BY DEF MarkAmbiguous
  <2>6. "needs_attention" \in Open \ {"reserved"}
    BY DEF Open
  <2> QED BY <1>1, <2>1, <2>3, <2>4, <2>5, <2>6, OpenRowTame
<1>2. CASE row[c].state \notin {"reserved", "provider_started"}
  <2>1. row' = row /\ call' = Totalled(call, row')
    BY <1>2 DEF MarkAmbiguous
  <2>2. call' \in Calls /\ call'.duration = call.duration
    BY <1>0, <2>1, TotalledType
  <2> QED BY <2>1, <2>2, Quiet DEF MarkAmbiguous
<1> QED BY <1>1, <1>2

----------------------------------------------------------------------------
(* Where a task may go *)

\* What a task carries along stays true of the rows.
LEMMA StillKnown ==
  ASSUME Solid, Follows, NEW t \in Tasks, task'[t] \in TaskStates,
         \A c \in task'[t].got \ task[t].got : row'[c].state \notin {"none", "reserved"},
         \A c \in task'[t].made \ task[t].made : row'[c].state # "none",
         \A c \in Tranches : task'[t].seen[c].state # "none" => task[t].seen[c].state # "none",
         task'[t].pc \notin StartSteps
  PROVE  Known(t)'
<1>1. /\ task[t].got \subseteq Tranches /\ task[t].made \subseteq Tranches
      /\ task'[t].got \subseteq Tranches /\ task'[t].made \subseteq Tranches /\ Known(t)
  BY DEF Solid, TypeOK, TaskStates
<1>2. \A c \in task'[t].got : row'[c].state \notin {"none", "reserved"}
  BY <1>1 DEF Known, Follows
<1>3. \A c \in task'[t].made : row'[c].state # "none"
  BY <1>1 DEF Known, Follows
<1>4. \A c \in Tranches : task'[t].seen[c].state # "none" => row'[c].state # "none"
  BY <1>1 DEF Known, Follows
<1> QED BY <1>2, <1>3, <1>4 DEF Known, StartSteps

\* A task that is over has no claim on any row.
LEMMA Finished ==
  ASSUME Solid, Follows, NEW t \in Tasks, task'[t] \in {Over, Fresh},
         t \in Callbacks => task'[t] = Fresh \/ call'.duration # NULL,
         t \in Reservers => task'[t] = Over
  PROVE  Placed(t)' /\ Known(t)' /\ (t \in Reservers => Unfunded(t)')
<1>1. task'[t].pc \in {"idle", "done"} /\ task'[t].got = {} /\ task'[t].made = {}
  BY FreshType
<1>2. \A c \in Tranches : task'[t].seen[c].state = "none"
  BY FreshType
<1>3. task'[t].pc = "idle" => t \in Callbacks /\ t \notin Reservers
  BY FreshType, BillingFacts
<1>4. t \in Callbacks /\ task'[t].pc # "idle" => call'.duration # NULL
  BY FreshType
<1>5. Placed(t)'
  BY <1>1, <1>4 DEF Placed, CallbackSteps, StartSteps
<1>6. Known(t)'
  BY <1>1, <1>2 DEF Known
<1>7. t \in Reservers => Unfunded(t)'
  BY <1>1, <1>3 DEF Unfunded, StartSteps
<1> QED BY <1>5, <1>6, <1>7

LEMMA TaskStep ==
  ASSUME Solid, Sound, NEW t \in Tasks, task' \in [Tasks -> TaskStates],
         \A u \in Tasks : u = t \/ task'[u] = task[u],
         \A u \in Reservers : u = t \/ Untouched(u),
         recovery' = recovery, crashes' = crashes,
         Placed(t)', Known(t)',
         t \in Reservers => Unfunded(t)' /\ \A c \in Tranches : Carried(<<t, c>>)'
  PROVE  Solid'
<1>1. recovery' \in RecoveryStates /\ crashes' \in 0..MaxCrashes
  BY DEF Solid, TypeOK
<1>2. Listed'
  BY StaysListed DEF Sound
<1>3. {t} \in SUBSET Tasks
  OBVIOUS
<1> QED BY <1>1, <1>2, <1>3, Step

\* A reserver that has no hold in hand.
LEMMA HandsFree ==
  ASSUME Solid, Tame, NEW t \in Reservers,
         task[t].pc \notin {"insert", "conflict", "giveup", "dead"}
  PROVE  \A c \in Tranches : Carried(<<t, c>>)'
BY StaysCarried DEF Tame, Sound, In, Holding

Leaving == {"post", "undo", "unwind", "surface", "rejected", "fenced", "fail", "done"}

\* A reserver that takes no further tranche.
LEMMA Leave ==
  ASSUME Solid, Sound, NEW t \in Reservers, NEW s \in TaskStates, Becomes(t, s),
         \A u \in Reservers : u = t \/ Untouched(u),
         s.pc \in Leaving, s.seen = task[t].seen,
         \A c \in s.got \ task[t].got : row'[c].state \notin {"none", "reserved"},
         \A c \in s.made \ task[t].made : row'[c].state # "none",
         \A c \in Tranches : Carried(<<t, c>>)',
         recovery' = recovery, crashes' = crashes
  PROVE  Solid'
<1>1. /\ task' \in [Tasks -> TaskStates] /\ \A u \in Tasks : u = t \/ task'[u] = task[u]
      /\ task'[t] = IF s.pc = "done" THEN Over ELSE s
  BY BecomesType, BillingFacts DEF Solid, TypeOK
<1>2. t \in Tasks /\ t \notin Callbacks
  BY BillingFacts
<1>3. Placed(t)' /\ Known(t)' /\ Unfunded(t)'
  <2>1. CASE s.pc = "done"
    BY <1>1, <1>2, <2>1, Finished DEF Sound
  <2>2. CASE s.pc # "done"
    <3>1. task'[t] = s /\ s.pc \in Leaving \ {"done"}
      BY <1>1, <2>2
    <3>2. Placed(t)'
      BY <1>2, <3>1 DEF Placed, Leaving, CallbackSteps, StartSteps
    <3>3. Unfunded(t)'
      BY <3>1 DEF Unfunded, Leaving, StartSteps
    <3>4. s.pc \notin StartSteps
      BY DEF Leaving, StartSteps
    <3>5. Known(t)'
      BY <1>2, <3>1, <3>4, StillKnown DEF Sound
    <3> QED BY <3>2, <3>3, <3>5
  <2> QED BY <2>1, <2>2
<1> QED BY <1>1, <1>2, <1>3, TaskStep

\* A reserver that has a row for its tranche.
LEMMA HasRow ==
  ASSUME Solid, Sound, NEW t \in Reservers, NEW r \in TaskStates, NEW made \in SUBSET Tranches,
         Becomes(t, Reserved(t, r, made)),
         \A u \in Reservers : u = t \/ Untouched(u),
         r.covered < r.next, r.next <= r.goal,
         r.got = task[t].got, r.seen = task[t].seen,
         \A c \in made \ task[t].made : row'[c].state # "none",
         \A c \in Tranches : c > r.next => hold'[<<t, c>>].status = "none",
         \A c \in Tranches : Carried(<<t, c>>)',
         recovery' = recovery, crashes' = crashes
  PROVE  Solid'
<1> DEFINE s == Reserved(t, r, made)
<1>1. /\ s \in TaskStates /\ s.covered = r.covered /\ s.goal = r.goal
      /\ s.made = made /\ s.got = r.got /\ s.seen = r.seen
      /\ \/ s.pc = "look" /\ s.next = r.next + 1 /\ r.next < r.goal
         \/ s.pc = "ready" /\ r.next = r.goal
         \/ s.pc = "start" /\ s.next = r.covered + 1 /\ r.next = r.goal
  BY ReservedType
<1>0. Becomes(t, s)
  OBVIOUS
<1> HIDE DEF s
<1>2. t \in Tasks /\ t \notin Callbacks
  BY BillingFacts
<1>3. /\ task' \in [Tasks -> TaskStates] /\ \A u \in Tasks : u = t \/ task'[u] = task[u]
      /\ task'[t] = s
  BY <1>0, <1>1, <1>2, BecomesType DEF Solid, TypeOK
<1>4. r.next \in Nat /\ r.covered \in Nat /\ r.goal \in Nat /\ Tranches \subseteq Nat
  <2>1. r.next \in Nat /\ r.covered \in Tranches \cup {0} /\ r.goal \in Tranches \cup {0}
    BY DEF TaskStates
  <2>2. Tranches \cup {0} \subseteq Nat
    BY TrancheFacts
  <2> QED BY <2>1, <2>2
<1>5. Placed(t)'
  <2>1. s.pc \in {"look", "ready", "start"}
    BY <1>1
  <2>2. s.pc = "look" => s.covered < s.next /\ s.next <= s.goal
    BY <1>1, <1>4
  <2>3. s.pc = "start" => 1 <= s.next /\ s.next <= s.goal
    BY <1>1, <1>4
  <2>4. 1 <= s.goal
    BY <1>1, <1>4
  <2> QED BY <1>2, <1>3, <2>1, <2>2, <2>3, <2>4 DEF Placed, CallbackSteps, StartSteps
<1>6. Unfunded(t)'
  <2>1. s.pc = "look" => \A c \in Tranches : c >= s.next => c > r.next
    BY <1>1, <1>4
  <2>2. s.pc \in {"ready", "start"} => \A c \in Tranches : c > s.goal => c > r.next
    BY <1>1, <1>4
  <2>3. s.pc \in {"look", "ready", "start"}
    BY <1>1
  <2> QED BY <1>3, <2>1, <2>2, <2>3 DEF Unfunded, StartSteps
<1>7. Known(t)'
  <2>1. s.pc \notin StartSteps
    BY <1>1 DEF StartSteps
  <2> QED BY <1>1, <1>2, <1>3, <2>1, StillKnown DEF Sound
<1> QED BY <1>2, <1>3, <1>5, <1>6, <1>7, TaskStep

----------------------------------------------------------------------------
(* Reserving *)

\* A task in a step that only some reserver takes; the tranche in its hand.
LEMMA HandType ==
  ASSUME Solid, NEW t \in Tasks,
         task[t].pc \in {"look", "fund", "insert", "conflict", "giveup"}
  PROVE  /\ task[t].covered \in Nat /\ task[t].next \in Tranches /\ task[t].goal \in Tranches
         /\ task[t].covered < task[t].next /\ task[t].next <= task[t].goal
<1>1. /\ task[t].next \in Nat /\ task[t].covered \in Tranches \cup {0}
      /\ task[t].goal \in Tranches \cup {0} /\ Placed(t)
  BY DEF Solid, TypeOK, TaskStates
<1>2. task[t].covered < task[t].next /\ task[t].next <= task[t].goal
  BY <1>1 DEF Placed
<1>3. Tranches \cup {0} \subseteq Nat
  BY TrancheFacts
<1>4. 1 <= task[t].next /\ task[t].goal \in Tranches /\ task[t].covered \in Nat
  BY <1>1, <1>2, <1>3
<1> QED BY <1>1, <1>2, <1>4, TrancheFacts

LEMMA LookingType ==
  ASSUME Solid, NEW t \in Reservers, task[t].pc \in {"look", "idle"}, NEW r \in Looking(t)
  PROVE  /\ r \in TaskStates /\ r.next \in Tranches /\ r.covered < r.next /\ r.next <= r.goal
         /\ r.pc = task[t].pc
         /\ r.got = task[t].got /\ r.made = task[t].made /\ r.seen = task[t].seen
         /\ \A c \in Tranches : c >= r.next => hold[<<t, c>>].status = "none"
<1>1. t \in Tasks /\ task[t] \in TaskStates /\ Unfunded(t)
  BY BillingFacts DEF Solid, TypeOK
<1>2. CASE In(t, "look")
  BY <1>1, <1>2, HandType DEF Looking, In, Unfunded
<1>3. CASE ~In(t, "look")
  <2>1. task[t].pc = "idle"
    BY <1>3 DEF In
  <2>2. PICK goal \in {c \in Tranches : c > task[t].covered /\ (t \notin Meters => c = 1)} :
          r = [task[t] EXCEPT !.next = task[t].covered + 1, !.goal = goal]
    BY <1>3 DEF Looking
  <2>3. task[t].covered \in Nat /\ goal \in Nat
    <3>1. task[t].covered \in Tranches \cup {0}
      BY <1>1 DEF TaskStates
    <3>2. Tranches \cup {0} \subseteq Nat
      BY TrancheFacts
    <3> QED BY <3>1, <3>2
  <2>4. task[t].covered + 1 \in Nat /\ 1 <= task[t].covered + 1 /\ task[t].covered + 1 <= goal
    BY <2>3
  <2>5. task[t].covered + 1 \in Tranches
    BY <2>4, TrancheFacts
  <2>6. /\ r \in TaskStates /\ r.next = task[t].covered + 1 /\ r.goal = goal
        /\ r.covered = task[t].covered /\ r.pc = task[t].pc
        /\ r.got = task[t].got /\ r.made = task[t].made /\ r.seen = task[t].seen
    BY <1>1, <2>2, <2>4 DEF TaskStates
  <2>7. \A c \in Tranches : c >= task[t].covered + 1 => c > task[t].covered
    BY <2>3, TrancheFacts
  <2> QED BY <1>1, <2>1, <2>3, <2>4, <2>5, <2>6, <2>7 DEF Unfunded
<1> QED BY <1>2, <1>3

LEMMA LookStep ==
  ASSUME Solid, NEW t \in Reservers, Look(t), crashes' = crashes
  PROVE  Solid'
<1>1. PICK r \in Looking(t) :
        Becomes(t, IF call.ended THEN Failed(t, r)
                   ELSE IF row[r.next].state # "none" THEN Reserved(t, r, r.made)
                   ELSE [r EXCEPT !.pc = IF Rate > 0 THEN "fund" ELSE "insert"])
  BY DEF Look
<1>2. /\ r \in TaskStates /\ r.next \in Tranches /\ r.covered < r.next /\ r.next <= r.goal
      /\ task[t].pc \in {"look", "idle"}
      /\ r.got = task[t].got /\ r.made = task[t].made /\ r.seen = task[t].seen
      /\ \A c \in Tranches : c >= r.next => hold[<<t, c>>].status = "none"
  BY LookingType DEF Look, In
<1>3. Tame
  BY Quiet DEF Look, Solid, TypeOK
<1>4. \A c \in Tranches : Carried(<<t, c>>)'
  BY <1>2, <1>3, HandsFree
<1>5. Sound /\ (\A u \in Reservers : u = t \/ Untouched(u)) /\ recovery' = recovery
  BY <1>3 DEF Tame, Look
<1>6. \A c \in Tranches : c >= r.next => hold'[<<t, c>>].status = "none"
  BY <1>2 DEF Look
<1>7. CASE call.ended
  <2> DEFINE s == Failed(t, r)
  <2>1. s \in TaskStates /\ s.made = r.made /\ s.got = r.got /\ s.seen = r.seen /\ s.pc \in Leaving
    BY <1>2, FailedType DEF Leaving
  <2>2. Becomes(t, s)
    BY <1>1, <1>7
  <2> HIDE DEF s
  <2> QED BY <1>2, <1>4, <1>5, <2>1, <2>2, Leave
<1>8. CASE ~call.ended /\ row[r.next].state # "none"
  <2>1. Becomes(t, Reserved(t, r, r.made))
    BY <1>1, <1>8
  <2>2. r.made \in SUBSET Tranches
    BY <1>2 DEF TaskStates
  <2>3. \A c \in Tranches : c > r.next => hold'[<<t, c>>].status = "none"
    BY <1>2, <1>6, TrancheNumbers
  <2> QED BY <1>2, <1>4, <1>5, <2>1, <2>2, <2>3, HasRow
<1>9. CASE ~call.ended /\ ~(row[r.next].state # "none")
  <2> DEFINE pc == IF Rate > 0 THEN "fund" ELSE "insert"
             s == [r EXCEPT !.pc = pc]
  <2>1. Becomes(t, s)
    BY <1>1, <1>9
  <2>2. /\ s \in TaskStates /\ s.pc = pc /\ pc \in {"fund", "insert"} /\ (pc = "fund" <=> Rate > 0)
        /\ s.covered = r.covered /\ s.next = r.next /\ s.goal = r.goal
        /\ s.got = r.got /\ s.made = r.made /\ s.seen = r.seen
    BY <1>2, BillingFacts DEF TaskStates, ReserverSteps
  <2> HIDE DEF s, pc
  <2>3. t \in Tasks /\ t \notin Callbacks
    BY BillingFacts
  <2>4. /\ task' \in [Tasks -> TaskStates] /\ \A u \in Tasks : u = t \/ task'[u] = task[u]
        /\ task'[t] = s
    BY <2>1, <2>2, <2>3, BecomesType DEF Solid, TypeOK
  <2>5. Placed(t)'
    BY <1>2, <2>2, <2>3, <2>4 DEF Placed, CallbackSteps, StartSteps
  <2>6. Unfunded(t)'
    <3>1. \A c \in Tranches : c > r.next => c >= r.next
      BY <1>2, TrancheNumbers
    <3> QED BY <1>6, <2>2, <2>4, <3>1 DEF Unfunded, StartSteps
  <2>7. s.pc \notin StartSteps
    BY <2>2 DEF StartSteps
  <2>8. Known(t)'
    BY <1>2, <1>5, <2>2, <2>3, <2>4, <2>7, StillKnown DEF Sound
  <2> QED BY <1>4, <1>5, <2>3, <2>4, <2>5, <2>6, <2>8, TaskStep
<1> QED BY <1>7, <1>8, <1>9

LEMMA FundStep ==
  ASSUME Solid, NEW t \in Reservers, Fund(t), crashes' = crashes
  PROVE  Solid'
<1>0. /\ t \in Tasks /\ t \notin Callbacks /\ task \in [Tasks -> TaskStates] /\ task[t].pc = "fund"
      /\ Placed(t) /\ Unfunded(t) /\ Known(t) /\ recovery' = recovery /\ call' = call /\ row' = row
      /\ hold \in [Holds -> HoldRows] /\ balance \in Nat
  BY BillingFacts DEF Solid, TypeOK, Fund, In
<1>1. /\ task[t].next \in Tranches /\ task[t].covered < task[t].next /\ task[t].next <= task[t].goal
  BY <1>0, HandType
<1>2. CASE balance >= Cost
  <2> DEFINE g == <<t, task[t].next>>
             k == [hold[g] EXCEPT !.status = "active"]
  <2>1. g \in Holds /\ OwnHold(t) = g /\ Rate > 0 /\ g[1] = t /\ g[2] = task[t].next
    BY <1>0, <1>1 DEF OwnHold, Placed, Holds
  <2>2. /\ k \in HoldRows /\ k.status = "active" /\ k.started = hold[g].started
        /\ k.old = hold[g].old /\ k.captured = hold[g].captured
    BY <1>0, <2>1 DEF HoldRows
  <2>3. hold' = [hold EXCEPT ![g] = k] /\ balance' = balance - Cost /\ Goes(t, "insert")
    BY <1>2, <2>1 DEF Fund
  <2> HIDE DEF g, k
  <2>4. /\ hold' \in [Holds -> HoldRows] /\ hold'[g] = k /\ \A h \in Holds : h # g => hold'[h] = hold[h]
    BY <1>0, <2>1, <2>2, <2>3
  <2>5. /\ task' \in [Tasks -> TaskStates] /\ \A u \in Tasks : u = t \/ task'[u] = task[u]
        /\ task'[t].pc = "insert" /\ task'[t].covered = task[t].covered
        /\ task'[t].next = task[t].next /\ task'[t].goal = task[t].goal
        /\ task'[t].made = task[t].made /\ task'[t].got = task[t].got
        /\ task'[t].seen = task[t].seen
    BY <1>0, <2>3, GoesType DEF Steps, ReserverSteps
  <2>6. hold[g].status = "none" /\ ~Attached(g)
    <3>1. hold[g].status = "none"
      <4>1. task[t].next >= task[t].next
        BY <1>1, TrancheNumbers
      <4> QED BY <1>0, <1>1, <4>1 DEF g, Unfunded
    <3> QED BY <2>1, <3>1, AttachedFacts
  <2>7. hold[g].captured = 0 /\ ~hold[g].started /\ ~hold[g].old
    BY <2>1, <2>6 DEF Solid, HoldOk
  <2>8. Follows
    BY <1>0, <2>1, <2>2, <2>4 DEF Follows
  <2>9. \A c \in Tranches : RowOk(c)'
    <3>1. \A c \in Tranches : row[c].hold # NULL => hold'[row[c].hold] = hold[row[c].hold]
      BY <2>4, <2>6, AttachedFacts DEF Attached
    <3> QED BY <1>0, <3>1 DEF Solid, RowOk
  <2>10. ASSUME NEW h \in Holds PROVE HoldOk(h)'
    <3>1. CASE h = g
      BY <2>1, <2>2, <2>4, <2>7, <3>1, BillingFacts DEF HoldOk
    <3>2. CASE h # g
      BY <1>0, <2>4, <3>2 DEF Solid, HoldOk, Attached
    <3> QED BY <3>1, <3>2
  <2>11. balance' \in Nat
    BY <1>0, <1>2, <2>3, BillingFacts
  <2>12. Sound
    BY <1>0, <2>4, <2>8, <2>9, <2>10, <2>11 DEF Sound, Solid, TypeOK
  <2>13. ASSUME NEW u \in Reservers, u # t PROVE Untouched(u)
    <3>1. \A c \in Tranches : <<u, c>> \in Holds /\ <<u, c>> # g
      BY <2>13 DEF g, Holds
    <3> QED BY <1>0, <2>4, <3>1 DEF Untouched, Attached
  <2>14. ASSUME NEW c \in Tranches PROVE Carried(<<t, c>>)'
    <3> DEFINE h == <<t, c>>
    <3>1. h \in Holds /\ h[1] = t /\ h[2] = c
      BY DEF Holds
    <3>2. CASE c = task[t].next
      <4>1. h = g
        BY <3>2 DEF g
      <4>2. Holding(t, c)'
        BY <2>5, <3>2 DEF Holding
      <4>3. ~hold[h].old
        BY <2>7, <4>1
      <4> QED BY <2>2, <2>4, <3>1, <4>1, <4>2, <4>3 DEF Carried
    <3>3. CASE c # task[t].next
      <4>1. h # g
        BY <3>3 DEF g
      <4>2. hold'[h] = hold[h] /\ Carried(h)
        BY <2>4, <3>1, <4>1 DEF Solid
      <4>3. ~Holding(t, c) /\ ~In(t, "dead")
        BY <1>0, <3>3 DEF Holding, In
      <4> QED BY <1>0, <3>1, <4>2, <4>3 DEF Carried, Attached
    <3> QED BY <3>2, <3>3
  <2>15. Placed(t)'
    BY <1>0, <1>1, <2>5 DEF Placed, CallbackSteps, StartSteps
  <2>16. Unfunded(t)'
    <3>1. \A c \in Tranches : c > task[t].next => hold'[<<t, c>>].status = "none"
      <4>1. ASSUME NEW c \in Tranches, c > task[t].next PROVE hold'[<<t, c>>].status = "none"
        <5>1. c >= task[t].next /\ c # task[t].next
          BY <1>1, <4>1, TrancheNumbers
        <5>2. <<t, c>> # g /\ <<t, c>> \in Holds
          BY <5>1 DEF g, Holds
        <5>3. hold[<<t, c>>].status = "none"
          BY <1>0, <4>1, <5>1 DEF Unfunded
        <5> QED BY <2>4, <5>2, <5>3
      <4> QED BY <4>1
    <3>2. hold'[<<t, task[t].next>>].status = "active" /\ ~(Attached(<<t, task[t].next>>))'
      <4>1. \A c \in Tranches : row'[c].hold # g
        BY <1>0, <2>6 DEF Attached
      <4> QED BY <2>2, <2>4, <2>5, <4>1 DEF g, Attached
    <3> QED BY <2>5, <3>1, <3>2 DEF Unfunded, StartSteps
  <2>17. Known(t)'
    BY <1>0, <2>5, <2>8, StillKnown DEF StartSteps
  <2> QED BY <1>0, <2>5, <2>12, <2>13, <2>14, <2>15, <2>16, <2>17, TaskStep
<1>3. CASE ~(balance >= Cost)
  <2> DEFINE s == Failed(t, task[t])
  <2>1. Becomes(t, s) /\ hold' = hold /\ balance' = balance
    BY <1>3 DEF Fund
  <2>2. s \in TaskStates /\ s.made = task[t].made /\ s.got = task[t].got /\ s.seen = task[t].seen
        /\ s.pc \in Leaving
    BY <1>0, FailedType DEF Leaving
  <2>3. Tame
    BY <1>0, <2>1, Quiet DEF Solid, TypeOK
  <2>4. \A c \in Tranches : Carried(<<t, c>>)'
    BY <1>0, <2>3, HandsFree
  <2> HIDE DEF s
  <2> QED BY <1>0, <2>1, <2>2, <2>3, <2>4, Leave DEF Tame
<1> QED BY <1>2, <1>3

LEMMA InsertRefused ==
  ASSUME Solid, NEW t \in Reservers, Insert(t), crashes' = crashes,
         call.ended \/ row[task[t].next].state # "none"
  PROVE  Solid'
<1>0. /\ t \in Tasks /\ t \notin Callbacks /\ task \in [Tasks -> TaskStates] /\ task[t].pc = "insert"
      /\ Placed(t) /\ Unfunded(t) /\ Known(t) /\ recovery' = recovery /\ call' = call /\ row' = row
      /\ hold' = hold /\ balance' = balance
  BY BillingFacts DEF Solid, TypeOK, Insert, In
<1>1. /\ task[t].next \in Tranches /\ task[t].covered < task[t].next /\ task[t].next <= task[t].goal
  BY <1>0, HandType
<1>2. Tame
  BY <1>0, Quiet DEF Solid, TypeOK
<1>3. CASE Rate > 0
  <2>1. PICK pc \in {"giveup", "conflict"} : Becomes(t, [task[t] EXCEPT !.pc = pc])
    BY <1>3 DEF Insert
  <2>2. Goes(t, pc)
    BY <2>1 DEF Goes
  <2>3. /\ task' \in [Tasks -> TaskStates] /\ \A u \in Tasks : u = t \/ task'[u] = task[u]
        /\ task'[t].pc = pc /\ task'[t].covered = task[t].covered
        /\ task'[t].next = task[t].next /\ task'[t].goal = task[t].goal
        /\ task'[t].made = task[t].made /\ task'[t].got = task[t].got
        /\ task'[t].seen = task[t].seen
    BY <1>0, <2>2, GoesType DEF Steps, ReserverSteps
  <2>4. Placed(t)'
    BY <1>0, <1>1, <1>3, <2>3 DEF Placed, CallbackSteps, StartSteps
  <2>5. Unfunded(t)'
    BY <1>0, <2>3 DEF Unfunded, StartSteps, Attached
  <2>6. Known(t)'
    BY <1>0, <1>2, <2>3, StillKnown DEF StartSteps, Tame, Sound
  <2>7. ASSUME NEW c \in Tranches PROVE Carried(<<t, c>>)'
    BY <1>0, <1>2, <2>3, StaysCarried DEF Tame, Sound, In, Holding
  <2> QED BY <1>0, <1>2, <2>3, <2>4, <2>5, <2>6, <2>7, TaskStep DEF Tame
<1>4. CASE ~(Rate > 0)
  <2>1. \A c \in Tranches : hold'[<<t, c>>].status = "none"
    <3>1. \A c \in Tranches : <<t, c>> \in Holds
      BY DEF Holds
    <3> QED BY <1>0, <1>4, <3>1 DEF Solid, HoldOk
  <2>2. \A c \in Tranches : Carried(<<t, c>>)'
    BY <2>1 DEF Carried
  <2>3. CASE call.ended
    <3> DEFINE s == Failed(t, task[t])
    <3>1. Becomes(t, s)
      BY <1>4, <2>3 DEF Insert
    <3>2. s \in TaskStates /\ s.made = task[t].made /\ s.got = task[t].got /\ s.seen = task[t].seen
          /\ s.pc \in Leaving
      BY <1>0, FailedType DEF Leaving
    <3> HIDE DEF s
    <3> QED BY <1>0, <1>2, <2>2, <3>1, <3>2, Leave DEF Tame
  <2>4. CASE ~call.ended
    <3>1. Becomes(t, Reserved(t, task[t], task[t].made))
      BY <1>4, <2>4 DEF Insert
    <3>2. task[t].made \in SUBSET Tranches /\ task[t] \in TaskStates
      BY <1>0 DEF TaskStates
    <3> QED BY <1>0, <1>1, <1>2, <2>1, <2>2, <3>1, <3>2, HasRow DEF Tame
  <2> QED BY <2>3, <2>4
<1> QED BY <1>3, <1>4

LEMMA InsertRow ==
  ASSUME Solid, NEW t \in Reservers, Insert(t), crashes' = crashes,
         ~(call.ended \/ row[task[t].next].state # "none")
  PROVE  Solid'
<1>0. /\ t \in Tasks /\ t \notin Callbacks /\ task \in [Tasks -> TaskStates] /\ task[t].pc = "insert"
      /\ Placed(t) /\ Unfunded(t) /\ Known(t) /\ recovery' = recovery /\ hold' = hold /\ balance' = balance
      /\ row \in [Tranches -> Rows] /\ call \in Calls /\ hold \in [Holds -> HoldRows] /\ balance \in Nat
  BY BillingFacts DEF Solid, TypeOK, Insert, In
<1>1. /\ task[t].next \in Tranches /\ task[t].covered < task[t].next /\ task[t].next <= task[t].goal
  BY <1>0, HandType
<1> DEFINE c == task[t].next
           g == OwnHold(t)
           r == [state |-> "reserved", hold |-> g, quantity |-> 0, old |-> FALSE]
           made == task[t].made \cup {c}
<1>2. /\ row' = [row EXCEPT ![c] = r] /\ call' = Totalled(call, row')
      /\ Becomes(t, Reserved(t, task[t], made))
  BY DEF Insert
<1>3. made \in SUBSET Tranches /\ task[t] \in TaskStates
  BY <1>0, <1>1 DEF TaskStates
<1>4. /\ g = NULL <=> Rate = 0
      /\ g # NULL => g \in Holds /\ g = <<t, c>> /\ hold[g].status = "active" /\ ~Attached(g) /\ Rate > 0
  <2>1. CASE Rate > 0
    <3>1. g = <<t, c>> /\ g \in Holds
      BY <1>1, <2>1 DEF OwnHold, Holds
    <3>2. hold[g].status = "active" /\ ~Attached(g)
      BY <1>0, <2>1, <3>1 DEF Unfunded
    <3> QED BY <2>1, <3>1, <3>2, BillingFacts
  <2>2. CASE ~(Rate > 0)
    BY <2>2, BillingFacts DEF OwnHold
  <2> QED BY <2>1, <2>2
<1>5. r \in Rows /\ r.state = "reserved" /\ r.hold = g /\ r.quantity = 0
  BY <1>4, BillingFacts DEF Rows, RowStates, Open
<1>6. row[c].state = "none"
  OBVIOUS
<1>7. \A h \in Holds : h # g => hold[h].status # "active" \/ Attached(h) \/ h[1] # t \/ In(t, "dead")
  <2>1. ASSUME NEW h \in Holds, hold[h].status = "active", ~Attached(h), h[1] = t, ~In(t, "dead")
        PROVE  h = g
    <3>1. Holding(t, h[2])
      BY <2>1 DEF Solid, Carried
    <3>2. h[2] = c
      BY <3>1 DEF Holding
    <3>3. Rate > 0
      BY <2>1 DEF Solid, HoldOk
    <3> QED BY <2>1, <3>2, <3>3 DEF OwnHold, Holds
  <2> HIDE DEF g
  <2> QED BY <2>1
<1> HIDE DEF c, g, r, made
<1>8. row' \in [Tranches -> Rows] /\ row'[c] = r /\ \A d \in Tranches : d # c => row'[d] = row[d]
  BY <1>0, <1>1, <1>2, <1>5 DEF c
<1>9. call' \in Calls /\ call'.duration = call.duration
  BY <1>0, <1>2, <1>8, TotalledType
<1>10. c \in Tranches
  BY <1>1 DEF c
<1>11. Follows
  BY <1>0, <1>6, <1>8, <1>9, <1>10 DEF Follows
<1>12. ASSUME NEW d \in Tranches PROVE RowOk(d)'
  <2>1. CASE d = c
    <3>1. g # NULL => g[2] = c
      BY <1>4
    <3> QED BY <1>0, <1>4, <1>5, <1>8, <1>10, <2>1, <3>1 DEF RowOk, Open
  <2>2. CASE d # c
    BY <1>0, <1>8, <2>2 DEF Solid, RowOk
  <2> QED BY <2>1, <2>2
<1>13. ASSUME NEW h \in Holds PROVE HoldOk(h)'
  <2>1. Attached(h) => (Attached(h))'
    BY <1>11, StaysAttached
  <2> QED BY <1>0, <2>1 DEF Solid, HoldOk
<1>14. ASSUME NEW h \in Holds, h # g PROVE (Attached(h))' => Attached(h)
  BY <1>5, <1>8, <1>10, <1>14 DEF Attached
<1>15. g # NULL => \E d \in Tranches : row'[d].hold = g
  BY <1>5, <1>8, <1>10
<1>16. Sound
  BY <1>0, <1>8, <1>9, <1>11, <1>12, <1>13 DEF Sound
<1>17. ASSUME NEW u \in Reservers, u # t PROVE Untouched(u)
  <2>1. \A d \in Tranches : <<u, d>> \in Holds
    BY DEF Holds
  <2>2. \A d \in Tranches : <<u, d>> # g
    BY <1>4, <1>17, <2>1, BillingFacts
  <2> QED BY <1>0, <1>14, <2>1, <2>2 DEF Untouched
<1>18. ASSUME NEW d \in Tranches PROVE Carried(<<t, d>>)'
  <2> DEFINE h == <<t, d>>
  <2>1. h \in Holds /\ h[1] = t /\ Carried(h) /\ ~In(t, "dead")
    BY <1>0 DEF Holds, Solid, In
  <2>2. ~(hold[h].status = "active" /\ hold[h].old)
    BY <2>1 DEF Carried
  <2>3. CASE h # g
    <3>1. hold[h].status # "active" \/ (Attached(h))'
      BY <1>7, <1>11, <2>1, <2>3, StaysAttached
    <3> QED BY <1>0, <2>2, <3>1 DEF Carried
  <2>4. CASE h = g
    <3>1. (Attached(h))'
      BY <1>15, <2>1, <2>4, BillingFacts DEF Attached
    <3> QED BY <1>0, <2>2, <3>1 DEF Carried
  <2> QED BY <2>3, <2>4
<1>19. \A d \in made \ task[t].made : row'[d].state # "none"
  BY <1>5, <1>8, <1>10 DEF made, c
<1>20. \A d \in Tranches : d > task[t].next => hold'[<<t, d>>].status = "none"
  BY <1>0 DEF Unfunded
<1>21. made \in SUBSET Tranches /\ Becomes(t, Reserved(t, task[t], made))
  BY <1>2, <1>3
<1> QED BY <1>0, <1>1, <1>3, <1>16, <1>17, <1>18, <1>19, <1>20, <1>21, HasRow

LEMMA InsertStep ==
  ASSUME Solid, NEW t \in Reservers, Insert(t), crashes' = crashes
  PROVE  Solid'
BY InsertRefused, InsertRow

LEMMA DropHoldStep ==
  ASSUME Solid, NEW t \in Reservers, DropHold(t), crashes' = crashes
  PROVE  Solid'
<1>0. /\ t \in Tasks /\ t \notin Callbacks /\ task \in [Tasks -> TaskStates]
      /\ task[t].pc \in {"conflict", "giveup"} /\ call \in Calls /\ row \in [Tranches -> Rows]
      /\ Placed(t) /\ Unfunded(t) /\ Known(t) /\ recovery' = recovery /\ call' = call /\ row' = row
  BY BillingFacts DEF Solid, TypeOK, DropHold
<1>1. /\ task[t].next \in Tranches /\ task[t].covered < task[t].next /\ task[t].next <= task[t].goal
  BY <1>0, HandType
<1> DEFINE g == <<t, task[t].next>>
<1>2. g \in Holds /\ OwnHold(t) = g /\ Rate > 0 /\ g # NULL
  BY <1>0, <1>1, BillingFacts DEF OwnHold, Placed, Holds
<1>3. hold[g].status = "active" /\ ~Attached(g)
  BY <1>0, <1>2 DEF Unfunded
<1>4. /\ hold' \in [Holds -> HoldRows] /\ balance' \in Nat
      /\ \A h \in Holds : h # g => hold'[h] = hold[h]
      /\ hold'[g].status = "refunded" /\ hold'[g].captured = hold[g].captured
      /\ hold'[g].started = hold[g].started
  <2>1. Release(g)
    BY <1>2 DEF DropHold
  <2> HIDE DEF g
  <2> QED BY <1>2, <1>3, <2>1, ReleaseType
<1>5. \A c \in Tranches : row[c].hold # NULL => row[c].hold # g
  BY <1>3 DEF Attached
<1> HIDE DEF g
<1>6. Follows
  BY <1>0, <1>2, <1>4 DEF Follows
<1>7. \A c \in Tranches : RowOk(c)'
  <2>1. \A c \in Tranches : row[c].hold # NULL => hold'[row[c].hold] = hold[row[c].hold]
    BY <1>4, <1>5, AttachedFacts
  <2> QED BY <1>0, <2>1 DEF Solid, RowOk
<1>8. ASSUME NEW h \in Holds PROVE HoldOk(h)'
  <2>1. HoldOk(h) /\ (Attached(h) => (Attached(h))')
    BY <1>0 DEF Solid, Attached
  <2>2. CASE h = g
    BY <1>2, <1>3, <1>4, <2>1, <2>2 DEF HoldOk
  <2>3. CASE h # g
    BY <1>4, <2>1, <2>3 DEF HoldOk
  <2> QED BY <2>2, <2>3
<1>9. Sound
  BY <1>0, <1>4, <1>6, <1>7, <1>8 DEF Sound
<1>10. ASSUME NEW u \in Reservers, u # t PROVE Untouched(u)
  <2>1. \A c \in Tranches : <<u, c>> \in Holds /\ <<u, c>> # g
    BY <1>10 DEF g, Holds
  <2> QED BY <1>0, <1>4, <2>1 DEF Untouched, Attached
<1>11. ASSUME NEW c \in Tranches PROVE Carried(<<t, c>>)'
  <2> DEFINE h == <<t, c>>
  <2>1. h \in Holds /\ h[1] = t /\ h[2] = c /\ Carried(h)
    BY DEF Holds, Solid
  <2>2. CASE h = g
    BY <1>4, <2>2 DEF Carried
  <2>3. CASE h # g
    <3>1. hold'[h] = hold[h] /\ ~Holding(t, c) /\ ~In(t, "dead")
      BY <1>0, <1>4, <2>1, <2>3 DEF g, Holding, In
    <3> QED BY <1>0, <2>1, <3>1 DEF Carried, Attached
  <2> QED BY <2>2, <2>3
<1>12. ASSUME NEW c \in Tranches, c > task[t].next PROVE hold'[<<t, c>>].status = "none"
  <2>1. c # task[t].next
    BY <1>1, <1>12, TrancheNumbers
  <2>2. <<t, c>> \in Holds /\ <<t, c>> # g
    BY <2>1 DEF g, Holds
  <2> QED BY <1>0, <1>4, <1>12, <2>2 DEF Unfunded
<1>13. CASE In(t, "giveup")
  <2> DEFINE s == Failed(t, task[t])
  <2>1. Becomes(t, s)
    BY <1>13 DEF DropHold
  <2>2. s \in TaskStates /\ s.made = task[t].made /\ s.got = task[t].got /\ s.seen = task[t].seen
        /\ s.pc \in Leaving
    BY <1>0, FailedType DEF Leaving
  <2> HIDE DEF s
  <2> QED BY <1>0, <1>9, <1>10, <1>11, <2>1, <2>2, Leave
<1>14. CASE ~In(t, "giveup")
  <2>1. Becomes(t, Reserved(t, task[t], task[t].made))
    BY <1>14 DEF DropHold
  <2>2. task[t].made \in SUBSET Tranches /\ task[t] \in TaskStates
    BY <1>0 DEF TaskStates
  <2> QED BY <1>0, <1>1, <1>9, <1>10, <1>11, <1>12, <2>1, <2>2, HasRow
<1> QED BY <1>13, <1>14

----------------------------------------------------------------------------
(* mark_provider_started *)

\* The tranche a task wants to start.
LEMMA StartType ==
  ASSUME Solid, NEW t \in Tasks, AtBoundary(t) \/ task[t].pc \in StartSteps
  PROVE  /\ task[t].next \in Tranches
         /\ t \in Reservers => /\ task[t].pc \in StartSteps \cup {"start"}
                               /\ task[t].next <= task[t].goal
         /\ t \in Callbacks => task[t].pc \in StartSteps \cup {"rows"} /\ call.duration # NULL
<1>1. Placed(t) /\ task[t].next \in Nat /\ task[t].goal \in Tranches \cup {0}
  BY DEF Solid, TypeOK, TaskStates
<1>2. t \in Reservers => task[t].pc \in StartSteps \cup {"start"}
  BY <1>1 DEF AtBoundary, In, Placed, CallbackSteps
<1>3. t \in Callbacks => task[t].pc \in StartSteps \cup {"rows"} /\ call.duration # NULL
  BY <1>1 DEF AtBoundary, In, Placed, CallbackSteps, StartSteps
<1>4. t \in Reservers => 1 <= task[t].next /\ task[t].next <= task[t].goal
  BY <1>1, <1>2 DEF Placed
<1>5. t \in Reservers => task[t].next \in Tranches
  <2>1. SUFFICES ASSUME t \in Reservers PROVE task[t].next \in Tranches
    OBVIOUS
  <2>2. task[t].goal \in Tranches
    BY <1>1, <1>4, <2>1
  <2> QED BY <1>1, <1>4, <2>1, <2>2, TrancheFacts
<1>6. t \in Callbacks => task[t].next \in Tranches
  BY <1>1, <1>3, BillingFacts DEF Placed, AtBoundary, In, StartSteps
<1> QED BY <1>2, <1>3, <1>4, <1>5, <1>6, BillingFacts

\* A task that goes from one transaction of the start to the next.
LEMMA ToBoundary ==
  ASSUME Solid, Tame, NEW t \in Tasks, AtBoundary(t) \/ task[t].pc \in StartSteps,
         NEW pc \in StartSteps, Goes(t, pc),
         pc \in {"claim", "check"} => row'[task[t].next].hold # NULL,
         pc = "update" =>
           /\ row'[task[t].next].state # "none"
           /\ row'[task[t].next].hold # NULL => hold'[row'[task[t].next].hold].started,
         pc = "reconcile" => row'[task[t].next].state \notin {"none", "reserved"},
         recovery' = recovery, crashes' = crashes
  PROVE  Solid'
<1>0. task \in [Tasks -> TaskStates] /\ Placed(t) /\ Known(t) /\ Sound /\ Follows
  BY DEF Solid, TypeOK, Tame, Sound
<1>1. /\ task[t].next \in Tranches
      /\ t \in Reservers => /\ task[t].pc \in StartSteps \cup {"start"}
                            /\ task[t].next <= task[t].goal
      /\ t \in Callbacks => task[t].pc \in StartSteps \cup {"rows"} /\ call.duration # NULL
  BY StartType
<1>2. /\ task' \in [Tasks -> TaskStates] /\ \A u \in Tasks : u = t \/ task'[u] = task[u]
      /\ task'[t].pc = pc /\ task'[t].covered = task[t].covered
      /\ task'[t].next = task[t].next /\ task'[t].goal = task[t].goal
      /\ task'[t].made = task[t].made /\ task'[t].got = task[t].got
      /\ task'[t].seen = task[t].seen
  BY <1>0, GoesType DEF Steps, StartSteps
<1>3. Placed(t)'
  <2>1. t \in Callbacks => call'.duration # NULL
    BY <1>0, <1>1 DEF Follows
  <2>2. pc \notin {"idle", "done", "look", "fund", "insert", "conflict", "giveup", "ready", "rows",
                   "start"} \cup CallbackSteps
    BY DEF StartSteps, CallbackSteps
  <2>3. t \in Reservers => 1 <= task[t].next
    BY <1>1, TrancheNumbers
  <2> QED BY <1>1, <1>2, <2>1, <2>2, <2>3 DEF Placed, StartSteps
<1>4. Known(t)'
  <2>1. \A c \in task'[t].got : row'[c].state \notin {"none", "reserved"}
    BY <1>0, <1>2 DEF Known, Follows, TaskStates
  <2>2. \A c \in task'[t].made : row'[c].state # "none"
    BY <1>0, <1>2 DEF Known, Follows, TaskStates
  <2>3. \A c \in Tranches : task'[t].seen[c].state # "none" => row'[c].state # "none"
    BY <1>0, <1>2 DEF Known, Follows
  <2> QED BY <1>2, <2>1, <2>2, <2>3 DEF Known
<1>5. ASSUME t \in Reservers PROVE Unfunded(t)' /\ \A c \in Tranches : Carried(<<t, c>>)'
  <2>1. task[t].pc \notin {"insert", "conflict", "giveup", "dead"} /\ Unfunded(t) /\ Untouched(t)
    BY <1>1, <1>5 DEF StartSteps, Solid, Tame
  <2>2. \A c \in Tranches : c > task[t].goal => hold[<<t, c>>].status = "none"
    BY <1>1, <1>5, <2>1 DEF Unfunded
  <2>3. \A c \in Tranches : c > task[t].goal => hold'[<<t, c>>].status = "none"
    BY <1>5, <2>1, <2>2, StaysUnfunded DEF In
  <2>4. Unfunded(t)'
    BY <1>2, <2>3 DEF Unfunded, StartSteps
  <2> QED BY <1>5, <2>1, <2>4, HandsFree
<1> QED BY <1>0, <1>2, <1>3, <1>4, <1>5, TaskStep DEF Tame

\* A task whose tranche is started.
LEMMA MarkedStep ==
  ASSUME Solid, Tame, NEW t \in Tasks, AtBoundary(t) \/ task[t].pc \in StartSteps,
         Becomes(t, Marked(t)), row'[task[t].next].state \notin {"none", "reserved"},
         recovery' = recovery, crashes' = crashes
  PROVE  Solid'
<1>0. task \in [Tasks -> TaskStates] /\ task[t] \in TaskStates /\ Placed(t) /\ Known(t) /\ Sound /\ Follows
  BY DEF Solid, TypeOK, Tame, Sound
<1>1. /\ task[t].next \in Tranches
      /\ t \in Reservers => /\ task[t].pc \in StartSteps \cup {"start"}
                            /\ task[t].next <= task[t].goal
      /\ t \in Callbacks => task[t].pc \in StartSteps \cup {"rows"} /\ call.duration # NULL
  BY StartType
<1> DEFINE s == Marked(t)
<1>2. /\ s \in TaskStates
      /\ t \in Callbacks =>
           /\ s.pc = "settle" /\ s.next = task[t].next /\ s.seen = task[t].seen
           /\ s.got = task[t].got /\ s.made = task[t].made
      /\ t \in Reservers =>
           \/ /\ s.pc = "start" /\ s.next = task[t].next + 1 /\ task[t].next < task[t].goal
              /\ s.goal = task[t].goal /\ s.got = task[t].got \cup {task[t].next}
              /\ s.made = task[t].made /\ s.seen = task[t].seen
           \/ /\ s.pc \in {"post", "done"}
              /\ s.got \subseteq task[t].got \cup {task[t].next} /\ s.made = task[t].made
              /\ s.seen = task[t].seen
           \/ /\ s.pc = "idle" /\ s.covered = task[t].goal
              /\ s.got = {} /\ s.made = {} /\ s.seen = NoView
  BY <1>0, <1>1, MarkedType
<1>3. Becomes(t, s)
  OBVIOUS
<1> HIDE DEF s
<1>4. /\ task' \in [Tasks -> TaskStates] /\ \A u \in Tasks : u = t \/ task'[u] = task[u]
      /\ task'[t] = IF s.pc = "done" THEN Over ELSE s
  BY <1>0, <1>2, <1>3, BecomesType
<1>5. ASSUME t \in Callbacks PROVE Solid'
  <2>1. task'[t] = s /\ t \notin Reservers
    BY <1>2, <1>4, <1>5, BillingFacts
  <2>2. Placed(t)'
    <3>1. call'.duration # NULL
      BY <1>0, <1>1, <1>5 DEF Follows
    <3> QED BY <1>1, <1>2, <1>5, <2>1, <3>1 DEF Placed, CallbackSteps, StartSteps
  <2>3. Known(t)'
    BY <1>0, <1>2, <1>5, <2>1, StillKnown DEF StartSteps
  <2> QED BY <1>0, <1>4, <2>1, <2>2, <2>3, TaskStep DEF Tame
<1>6. ASSUME t \in Reservers PROVE Solid'
  <2>0. t \notin Callbacks /\ Unfunded(t) /\ task[t].pc \notin {"insert", "conflict", "giveup", "dead"}
        /\ Untouched(t)
    BY <1>1, <1>6, BillingFacts DEF Solid, StartSteps, Tame
  <2>1. \A c \in Tranches : Carried(<<t, c>>)'
    BY <1>6, <2>0, HandsFree
  <2>2. \A c \in Tranches : c > task[t].goal => hold[<<t, c>>].status = "none"
    BY <1>1, <1>6, <2>0 DEF Unfunded
  <2>3. \A c \in Tranches : c > task[t].goal => hold'[<<t, c>>].status = "none"
    BY <1>6, <2>0, <2>2, StaysUnfunded DEF In
  <2>4. CASE s.pc = "start"
    <3>1. /\ s.next = task[t].next + 1 /\ task[t].next < task[t].goal
          /\ s.goal = task[t].goal /\ s.got = task[t].got \cup {task[t].next}
          /\ s.made = task[t].made /\ s.seen = task[t].seen /\ task'[t] = s
      BY <1>2, <1>4, <1>6, <2>4
    <3>2. Unfunded(t)'
      BY <2>3, <2>4, <3>1 DEF Unfunded, StartSteps
    <3>3. 1 <= s.next /\ s.next <= s.goal
      <4>1. task[t].next \in Nat /\ task[t].goal \in Tranches \cup {0}
        BY <1>0 DEF TaskStates
      <4>2. Tranches \cup {0} \subseteq Nat
        BY TrancheFacts
      <4> QED BY <3>1, <4>1, <4>2
    <3>4. Placed(t)'
      BY <2>0, <2>4, <3>1, <3>3 DEF Placed, CallbackSteps, StartSteps
    <3>5. Known(t)'
      BY <1>0, <1>2, <2>4, <3>1, StillKnown DEF StartSteps
    <3> QED BY <1>0, <1>4, <2>1, <3>2, <3>4, <3>5, TaskStep DEF Tame
  <2>5. CASE s.pc \in {"post", "done"}
    <3>1. s.got \subseteq task[t].got \cup {task[t].next} /\ s.made = task[t].made
          /\ s.seen = task[t].seen /\ s.pc \in Leaving
      BY <1>2, <1>6, <2>5 DEF Leaving
    <3> QED BY <1>0, <1>2, <1>3, <1>6, <2>1, <3>1, Leave DEF Tame
  <2>6. CASE s.pc = "idle"
    <3>1. s.covered = task[t].goal /\ s.got = {} /\ s.made = {} /\ s.seen = NoView /\ task'[t] = s
      BY <1>2, <1>4, <1>6, <2>6
    <3>2. Unfunded(t)'
      BY <2>3, <2>6, <3>1 DEF Unfunded, StartSteps
    <3>3. Placed(t)'
      BY <2>0, <2>6, <3>1 DEF Placed, CallbackSteps, StartSteps
    <3>4. Known(t)'
      BY <1>0, <1>2, <2>6, <3>1, StillKnown, FreshType DEF StartSteps
    <3> QED BY <1>0, <1>4, <2>1, <3>2, <3>3, <3>4, TaskStep DEF Tame
  <2> QED BY <1>2, <1>6, <2>4, <2>5, <2>6
<1> QED BY <1>5, <1>6, BillingFacts

\* A task that gets an error.
LEMMA RaisedStep ==
  ASSUME Solid, Tame, NEW t \in Tasks,
         t \in Reservers => task[t].pc \notin {"insert", "conflict", "giveup", "dead"},
         Becomes(t, Raised(t)), recovery' = recovery, crashes' = crashes
  PROVE  Solid'
<1>0. task \in [Tasks -> TaskStates] /\ Sound /\ Follows
  BY DEF Solid, TypeOK, Tame, Sound
<1> DEFINE s == Raised(t)
<1>1. /\ s \in TaskStates /\ (t \in Callbacks => s = Fresh)
      /\ t \notin Callbacks => s.pc \in {"unwind", "surface", "done"}
      /\ s.made \subseteq task[t].made /\ s.got \subseteq task[t].got
      /\ t \notin Callbacks => s.seen = task[t].seen
  <2>1. t \notin Callbacks => s.seen = task[t].seen
    BY <1>0 DEF Raised, TaskStates
  <2> QED BY <1>0, <2>1, RaisedType
<1>2. Becomes(t, s)
  OBVIOUS
<1> HIDE DEF s
<1>3. CASE t \in Callbacks
  <2>1. /\ task' \in [Tasks -> TaskStates] /\ \A u \in Tasks : u = t \/ task'[u] = task[u]
        /\ task'[t] = Fresh /\ t \notin Reservers
    BY <1>0, <1>1, <1>2, <1>3, BecomesType, FreshType, BillingFacts
  <2>2. Placed(t)' /\ Known(t)'
    BY <1>0, <2>1, Finished
  <2> QED BY <1>0, <2>1, <2>2, TaskStep DEF Tame
<1>4. CASE t \notin Callbacks
  <2>1. t \in Reservers
    BY <1>4, BillingFacts
  <2>2. \A c \in Tranches : Carried(<<t, c>>)'
    BY <2>1, HandsFree
  <2>3. s.pc \in Leaving
    BY <1>1, <1>4 DEF Leaving
  <2> QED BY <1>0, <1>1, <1>2, <1>4, <2>1, <2>2, <2>3, Leave DEF Tame
<1> QED BY <1>3, <1>4

LEMMA MarkStartedStep ==
  ASSUME Solid, NEW t \in Tasks, MarkStarted(t), crashes' = crashes
  PROVE  Solid'
<1> DEFINE c == task[t].next
<1>0. AtBoundary(t) /\ row' = row /\ hold' = hold /\ recovery' = recovery
  BY DEF MarkStarted
<1>1. Tame
  BY Quiet DEF MarkStarted, Solid, TypeOK
<1>2. /\ c \in Tranches
      /\ t \in Reservers => task[t].pc \in StartSteps \cup {"start"}
      /\ t \in Callbacks => task[t].pc \in StartSteps \cup {"rows"}
  BY <1>0, StartType
<1>3. CASE row[c].state \in {"provider_started", "settled"}
  <2>1. Becomes(t, Marked(t)) /\ row[c].state \notin {"none", "reserved"}
    BY <1>3 DEF MarkStarted
  <2> QED BY <1>0, <1>1, <2>1, MarkedStep
<1>4. CASE row[c].state = "needs_attention"
  <2>1. Goes(t, "reconcile")
    BY <1>4 DEF MarkStarted
  <2> QED BY <1>0, <1>1, <1>4, <2>1, ToBoundary DEF StartSteps
<1>5. CASE row[c].state \notin {"provider_started", "settled", "needs_attention", "reserved"}
  <2>1. Becomes(t, Raised(t))
    BY <1>5 DEF MarkStarted
  <2>2. t \in Reservers => task[t].pc \notin {"insert", "conflict", "giveup", "dead"}
    BY <1>2 DEF StartSteps
  <2> QED BY <1>0, <1>1, <2>1, <2>2, RaisedStep
<1>6. CASE row[c].state = "reserved"
  <2>1. Goes(t, IF row[c].hold = NULL THEN "update" ELSE "claim")
    BY <1>6 DEF MarkStarted
  <2>2. CASE row[c].hold = NULL
    <3>1. Goes(t, "update")
      BY <2>1, <2>2
    <3> QED BY <1>0, <1>1, <1>6, <2>2, <3>1, ToBoundary DEF StartSteps
  <2>3. CASE row[c].hold # NULL
    <3>1. Goes(t, "claim")
      BY <2>1, <2>3
    <3> QED BY <1>0, <1>1, <2>3, <3>1, ToBoundary DEF StartSteps
  <2> QED BY <2>2, <2>3
<1> QED BY <1>3, <1>4, <1>5, <1>6

LEMMA ReconcileStep ==
  ASSUME Solid, NEW t \in Tasks, Reconcile(t), crashes' = crashes
  PROVE  Solid'
<1> DEFINE c == task[t].next
           h == row[c].hold
<1>0. task[t].pc = "reconcile" /\ call' = call /\ hold' = hold /\ balance' = balance
      /\ recovery' = recovery /\ row \in [Tranches -> Rows] /\ call \in Calls
  BY DEF Reconcile, In, Solid, TypeOK
<1>1. task[t].pc \in StartSteps /\ c \in Tranches
  BY <1>0, StartType DEF StartSteps
<1>2. row[c].state \notin {"none", "reserved"}
  BY <1>0 DEF Solid, Known
<1>3. CASE h # NULL => hold[h].status = "active" /\ hold[h].started
  <2>1. row' = [row EXCEPT ![c].state = "provider_started", ![c].old = FALSE]
        /\ Becomes(t, Marked(t))
    BY <1>3 DEF Reconcile
  <2>2. "provider_started" \in Open \ {"reserved"}
    BY DEF Open
  <2>3. Tame
    BY <1>0, <1>1, <1>2, <1>3, <2>1, <2>2, OpenRowTame
  <2>4. row'[c].state = "provider_started"
    BY <1>0, <1>1, <2>1 DEF Rows
  <2> QED BY <1>0, <1>1, <2>1, <2>3, <2>4, MarkedStep
<1>4. CASE ~(h # NULL => hold[h].status = "active" /\ hold[h].started)
  <2>1. row' = row /\ Becomes(t, Raised(t))
    BY <1>4 DEF Reconcile
  <2>2. Tame
    BY <1>0, <2>1, Quiet DEF Solid, TypeOK
  <2> QED BY <1>0, <2>1, <2>2, RaisedStep
<1> QED BY <1>3, <1>4

LEMMA ClaimStep ==
  ASSUME Solid, NEW t \in Tasks, Claim(t), crashes' = crashes
  PROVE  Solid'
<1> DEFINE c == task[t].next
           h == row[c].hold
<1>0. task[t].pc = "claim" /\ call' = call /\ row' = row /\ balance' = balance
      /\ recovery' = recovery /\ row \in [Tranches -> Rows] /\ call \in Calls
      /\ hold \in [Holds -> HoldRows] /\ balance \in Nat
  BY DEF Claim, In, Solid, TypeOK
<1>1. task[t].pc \in StartSteps /\ c \in Tranches
  BY <1>0, StartType DEF StartSteps
<1>2. h # NULL /\ h \in Holds /\ row[c].state # "none"
  BY <1>0, <1>1, AttachedFacts DEF Solid, Known
<1>3. CASE hold[h].status = "active" /\ ~hold[h].started
  <2> DEFINE k == [hold[h] EXCEPT !.started = TRUE]
  <2>1. hold' = [hold EXCEPT ![h] = k] /\ Goes(t, "update")
    BY <1>3 DEF Claim
  <2>2. /\ k \in HoldRows /\ k.started /\ k.status = "active" /\ k.old = hold[h].old
        /\ k.captured = hold[h].captured
    BY <1>0, <1>2, <1>3 DEF HoldRows
  <2>3. hold[h].captured = 0 /\ 0 <= Cost
    BY <1>2, <1>3, BillingFacts DEF Solid, HoldOk
  <2> HIDE DEF k
  <2>4. hold' \in [Holds -> HoldRows] /\ hold'[h] = k /\ \A g \in Holds : g # h => hold'[g] = hold[g]
    BY <1>0, <1>2, <2>1, <2>2
  <2>5. row[c].state \in Open
    <3>1. row[c].state \in Open \cup {"settled", "refunded"}
      BY <1>0, <1>1, <1>2 DEF Rows, RowStates
    <3> QED BY <1>1, <1>2, <1>3, <3>1 DEF Solid, RowOk
  <2>6. Tame
    <3>1. row[c].state \notin {"settled", "refunded"}
      BY <2>5 DEF Open
    <3>2. row' \in [Tranches -> Rows] /\ call' \in Calls /\ balance' \in Nat
      BY <1>0
    <3> HIDE DEF h, c
    <3>3. /\ \A d \in Tranches : d # c => row'[d] = row[d]
          /\ row'[c] = row[c] /\ call'.duration = call.duration
      BY <1>0
    <3>4. /\ \A g \in Holds : g # row[c].hold => hold'[g] = hold[g]
          /\ hold'[row[c].hold] = k /\ hold[row[c].hold].old = k.old
          /\ hold[row[c].hold].status = "active" /\ k.captured = 0
      BY <1>3, <2>2, <2>3, <2>4 DEF h
    <3> QED BY <1>1, <1>2, <2>2, <2>3, <2>4, <3>1, <3>2, <3>3, <3>4, OneRow
  <2> QED BY <1>0, <1>1, <1>2, <2>1, <2>2, <2>4, <2>6, ToBoundary DEF StartSteps
<1>4. CASE ~(hold[h].status = "active" /\ ~hold[h].started)
  <2>1. hold' = hold /\ Goes(t, "check")
    BY <1>4 DEF Claim
  <2>2. Tame
    BY <1>0, <2>1, Quiet DEF Solid, TypeOK
  <2> QED BY <1>0, <1>1, <1>2, <2>1, <2>2, ToBoundary DEF StartSteps
<1> QED BY <1>3, <1>4

LEMMA CheckStep ==
  ASSUME Solid, NEW t \in Tasks, Check(t), crashes' = crashes
  PROVE  Solid'
<1> DEFINE c == task[t].next
           h == row[c].hold
<1>0. task[t].pc = "check" /\ row' = row /\ hold' = hold /\ recovery' = recovery
  BY DEF Check, In
<1>1. task[t].pc \in StartSteps /\ c \in Tranches
  BY <1>0, StartType DEF StartSteps
<1>2. Tame
  BY Quiet DEF Check, Solid, TypeOK
<1>3. h # NULL /\ row[c].state # "none"
  BY <1>0, <1>1, AttachedFacts DEF Solid, Known
<1>4. CASE hold[h].status = "active" /\ hold[h].started
  <2>1. Goes(t, "update")
    BY <1>4 DEF Check
  <2> QED BY <1>0, <1>1, <1>2, <1>3, <1>4, <2>1, ToBoundary DEF StartSteps
<1>5. CASE ~(hold[h].status = "active" /\ hold[h].started)
  <2>1. Becomes(t, Raised(t))
    BY <1>5 DEF Check
  <2> QED BY <1>0, <1>2, <2>1, RaisedStep
<1> QED BY <1>4, <1>5

LEMMA UpdateStep ==
  ASSUME Solid, NEW t \in Tasks, Update(t), crashes' = crashes
  PROVE  Solid'
<1> DEFINE c == task[t].next
<1>0. task[t].pc = "update" /\ call' = call /\ hold' = hold /\ balance' = balance
      /\ recovery' = recovery /\ Becomes(t, Marked(t)) /\ row \in [Tranches -> Rows] /\ call \in Calls
  BY DEF Update, In, Solid, TypeOK
<1>1. task[t].pc \in StartSteps /\ c \in Tranches
  BY <1>0, StartType DEF StartSteps
<1>2. row[c].state # "none" /\ (row[c].hold # NULL => hold[row[c].hold].started)
  BY <1>0 DEF Solid, Known
<1>3. CASE row[c].state = "reserved"
  <2>1. row' = [row EXCEPT ![c].state = "provider_started", ![c].old = FALSE]
    BY <1>3 DEF Update
  <2>2. row[c].hold # NULL => hold[row[c].hold].status = "active"
    BY <1>1, <1>3 DEF Solid, RowOk, Open
  <2>3. "provider_started" \in Open \ {"reserved"}
    BY DEF Open
  <2>4. Tame
    BY <1>0, <1>1, <1>2, <2>1, <2>2, <2>3, OpenRowTame
  <2>5. row'[c].state = "provider_started"
    BY <1>0, <1>1, <2>1 DEF Rows
  <2> QED BY <1>0, <1>1, <2>4, <2>5, MarkedStep
<1>4. CASE row[c].state # "reserved"
  <2>1. row' = row
    BY <1>4 DEF Update
  <2>2. Tame
    BY <1>0, <2>1, Quiet DEF Solid, TypeOK
  <2> QED BY <1>0, <1>1, <1>2, <1>4, <2>1, <2>2, MarkedStep
<1> QED BY <1>3, <1>4

----------------------------------------------------------------------------
(* The dispatcher around the request, and failures of a reserver *)

LEMMA CrossStep ==
  ASSUME Solid, NEW t \in Dispatchers, Cross(t), crashes' = crashes
  PROVE  Solid'
<1>0. /\ t \in Tasks /\ t \in Reservers /\ t \notin Callbacks /\ task \in [Tasks -> TaskStates]
      /\ task[t] \in TaskStates /\ task[t].pc = "ready" /\ call \in Calls
      /\ Placed(t) /\ Unfunded(t) /\ recovery' = recovery
      /\ row' = row /\ hold' = hold /\ balance' = balance
  BY BillingFacts DEF Solid, TypeOK, Cross, In
<1>1. call' \in Calls /\ call'.duration = call.duration
  BY <1>0 DEF Cross, Calls
<1>2. Tame
  BY <1>0, <1>1, Quiet
<1>3. \A c \in Tranches : Carried(<<t, c>>)'
  BY <1>0, <1>2, HandsFree
<1>4. CASE Becomes(t, [task[t] EXCEPT !.pc = "start", !.next = 1])
  <2> DEFINE s == [task[t] EXCEPT !.pc = "start", !.next = 1]
  <2>1. /\ s \in TaskStates /\ s.pc = "start" /\ s.next = 1 /\ s.goal = task[t].goal
        /\ s.got = task[t].got /\ s.made = task[t].made /\ s.seen = task[t].seen
    BY <1>0 DEF TaskStates, ReserverSteps
  <2>2. Becomes(t, s)
    BY <1>4
  <2> HIDE DEF s
  <2>3. /\ task' \in [Tasks -> TaskStates] /\ \A u \in Tasks : u = t \/ task'[u] = task[u]
        /\ task'[t] = s
    BY <1>0, <2>1, <2>2, BecomesType
  <2>4. Placed(t)'
    BY <1>0, <2>1, <2>3 DEF Placed, CallbackSteps, StartSteps
  <2>5. Unfunded(t)'
    BY <1>0, <2>1, <2>3 DEF Unfunded, StartSteps
  <2>6. Known(t)'
    BY <1>0, <1>2, <2>1, <2>3, StillKnown DEF StartSteps, Tame, Sound
  <2> QED BY <1>0, <1>2, <1>3, <2>3, <2>4, <2>5, <2>6, TaskStep DEF Tame
<1>5. CASE ~Becomes(t, [task[t] EXCEPT !.pc = "start", !.next = 1])
  <2> DEFINE pc == IF task[t].made # {} THEN "unwind" ELSE "done"
             s == [task[t] EXCEPT !.pc = pc]
  <2>1. Becomes(t, s)
    BY <1>5 DEF Cross
  <2>2. pc \in {"unwind", "done"}
    OBVIOUS
  <2> HIDE DEF pc
  <2>3. /\ s \in TaskStates /\ s.pc = pc /\ pc \in Leaving
        /\ s.got = task[t].got /\ s.made = task[t].made /\ s.seen = task[t].seen
    BY <1>0, <2>2 DEF TaskStates, ReserverSteps, Leaving
  <2> HIDE DEF s
  <2> QED BY <1>0, <1>2, <1>3, <2>1, <2>3, Leave DEF Tame
<1> QED BY <1>4, <1>5

\* A reserver that goes to another step of its failure, or to the end.
LEMMA GoesAway ==
  ASSUME Solid, Tame, NEW t \in Reservers, NEW pc \in Leaving, Goes(t, pc),
         task[t].pc \notin {"insert", "conflict", "giveup", "dead"},
         recovery' = recovery, crashes' = crashes
  PROVE  Solid'
<1> DEFINE s == [task[t] EXCEPT !.pc = pc]
<1>1. t \in Tasks /\ task[t] \in TaskStates
  BY BillingFacts DEF Solid, TypeOK
<1>2. /\ s \in TaskStates /\ s.pc = pc
      /\ s.got = task[t].got /\ s.made = task[t].made /\ s.seen = task[t].seen
  BY <1>1 DEF TaskStates, ReserverSteps, Leaving
<1>3. Becomes(t, s)
  BY DEF Goes
<1> HIDE DEF s
<1>4. \A c \in Tranches : Carried(<<t, c>>)'
  BY HandsFree
<1> QED BY <1>2, <1>3, <1>4, Leave DEF Tame

LEMMA PostStep ==
  ASSUME Solid, NEW t \in Dispatchers, Post(t), crashes' = crashes
  PROVE  Solid'
<1>1. t \in Reservers /\ call \in Calls /\ task[t].pc = "post" /\ recovery' = recovery
      /\ row' = row /\ hold' = hold /\ balance' = balance
  BY BillingFacts DEF Solid, TypeOK, Post, In
<1>2. call' \in Calls /\ call'.duration = call.duration
  BY <1>1 DEF Post, Calls
<1>3. Tame
  BY <1>1, <1>2, Quiet
<1>4. PICK pc \in Leaving : Goes(t, pc)
  BY DEF Post, Leaving
<1> QED BY <1>1, <1>3, <1>4, GoesAway

LEMMA FailCallStep ==
  ASSUME Solid, NEW t \in Dispatchers, FailCall(t), crashes' = crashes
  PROVE  Solid'
<1>1. t \in Reservers /\ call \in Calls /\ task[t].pc = "fail" /\ recovery' = recovery
      /\ row' = row /\ hold' = hold /\ balance' = balance
  BY BillingFacts DEF Solid, TypeOK, FailCall, In
<1>2. call' \in Calls /\ call'.duration = call.duration
  BY <1>1 DEF FailCall, Calls
<1>3. Tame
  BY <1>1, <1>2, Quiet
<1>4. Goes(t, "done") /\ "done" \in Leaving
  BY DEF FailCall, Leaving
<1> QED BY <1>1, <1>3, <1>4, GoesAway

\* A reserver that takes back a row after another.
LEMMA GivesBack ==
  ASSUME Solid, Tame, NEW t \in Reservers,
         task[t].pc \notin {"insert", "conflict", "giveup", "dead"},
         NEW made \in SUBSET task[t].made, NEW got \in SUBSET task[t].got, NEW pc \in Leaving,
         Becomes(t, [task[t] EXCEPT !.made = made, !.got = got, !.pc = pc]),
         recovery' = recovery, crashes' = crashes
  PROVE  Solid'
<1> DEFINE s == [task[t] EXCEPT !.made = made, !.got = got, !.pc = pc]
<1>1. t \in Tasks /\ task[t] \in TaskStates
  BY BillingFacts DEF Solid, TypeOK
<1>2. made \in SUBSET Tranches /\ got \in SUBSET Tranches
  BY <1>1 DEF TaskStates
<1>3. /\ s \in TaskStates /\ s.pc = pc /\ s.got = got /\ s.made = made /\ s.seen = task[t].seen
  BY <1>1, <1>2 DEF TaskStates, ReserverSteps, Leaving
<1>4. Becomes(t, s)
  OBVIOUS
<1> HIDE DEF s
<1>5. \A c \in Tranches : Carried(<<t, c>>)'
  BY HandsFree
<1> QED BY <1>3, <1>4, <1>5, Leave DEF Tame

LEMMA UndoStep ==
  ASSUME Solid, NEW t \in Reservers, Undo(t), crashes' = crashes
  PROVE  Solid'
<1>0. t \in Tasks /\ task[t] \in TaskStates /\ task[t].pc \in {"undo", "unwind"} /\ recovery' = recovery
  BY BillingFacts DEF Solid, TypeOK, Undo
<1> DEFINE pc(rest) == IF rest # {} THEN task[t].pc
                       ELSE IF In(t, "undo")
                       THEN (IF t \in Dispatchers THEN "fail" ELSE "done")
                       ELSE IF task[t].got # {} THEN "surface" ELSE "done"
<1>1. PICK c \in task[t].made :
        /\ RefundIfUnstarted(c)
        /\ Becomes(t, [task[t] EXCEPT !.made = task[t].made \ {c}, !.pc = pc(task[t].made \ {c})])
  BY <1>0 DEF Undo, TaskStates
<1> DEFINE made == task[t].made \ {c}
<1>2. c \in Tranches /\ made \in SUBSET task[t].made
  BY <1>0 DEF TaskStates
<1>3. Tame
  BY <1>1, <1>2, RefundIfUnstartedTame
<1>4. pc(made) \in Leaving
  BY <1>0 DEF Leaving
<1>5. [task[t] EXCEPT !.made = made, !.pc = pc(made)]
        = [task[t] EXCEPT !.made = made, !.got = task[t].got, !.pc = pc(made)]
  BY <1>0 DEF TaskStates
<1> HIDE DEF pc, made
<1>6. Becomes(t, [task[t] EXCEPT !.made = made, !.got = task[t].got, !.pc = pc(made)])
  BY <1>1, <1>5 DEF made
<1>7. task[t].got \in SUBSET task[t].got
  OBVIOUS
<1> QED BY <1>0, <1>2, <1>3, <1>4, <1>6, <1>7, GivesBack

LEMMA SurfaceStep ==
  ASSUME Solid, NEW t \in Reservers, Surface(t), crashes' = crashes
  PROVE  Solid'
<1>0. t \in Tasks /\ task[t] \in TaskStates /\ task[t].pc = "surface" /\ recovery' = recovery /\ Known(t)
  BY BillingFacts DEF Solid, TypeOK, Surface, In
<1>1. PICK c \in task[t].got :
        /\ MarkAmbiguous(c)
        /\ Becomes(t, [task[t] EXCEPT !.got = task[t].got \ {c},
                         !.pc = IF task[t].got = {c} THEN "done" ELSE "surface"])
  BY <1>0 DEF Surface, TaskStates
<1> DEFINE got == task[t].got \ {c}
           pc == IF task[t].got = {c} THEN "done" ELSE "surface"
<1>2. c \in Tranches /\ got \in SUBSET task[t].got
  BY <1>0 DEF TaskStates
<1>3. row[c].state # "reserved"
  BY <1>0, <1>1 DEF Known
<1>4. Tame
  BY <1>1, <1>2, <1>3, MarkAmbiguousTame
<1>5. pc \in Leaving
  BY DEF Leaving
<1>6. [task[t] EXCEPT !.got = got, !.pc = pc]
        = [task[t] EXCEPT !.made = task[t].made, !.got = got, !.pc = pc]
  BY <1>0 DEF TaskStates
<1> HIDE DEF pc, got
<1>7. Becomes(t, [task[t] EXCEPT !.made = task[t].made, !.got = got, !.pc = pc])
  BY <1>1, <1>6 DEF got, pc
<1>8. task[t].made \in SUBSET task[t].made
  OBVIOUS
<1> QED BY <1>0, <1>2, <1>4, <1>5, <1>7, <1>8, GivesBack

LEMMA GiveBackStep ==
  ASSUME Solid, NEW t \in Dispatchers, GiveBack(t), crashes' = crashes
  PROVE  Solid'
<1>0. /\ t \in Tasks /\ t \in Reservers /\ task[t] \in TaskStates /\ Known(t)
      /\ task[t].pc \in {"rejected", "fenced"} /\ recovery' = recovery
  BY BillingFacts DEF Solid, TypeOK, GiveBack
<1> DEFINE pc(c, rest) == IF In(t, "rejected") /\ ~Refundable(c) THEN "done"
                          ELSE IF rest # {} THEN task[t].pc
                          ELSE IF In(t, "rejected") THEN "fail" ELSE "done"
<1>1. PICK c \in task[t].got :
        /\ IF Refundable(c) THEN RefundRow(c)
           ELSE IF In(t, "fenced") THEN MarkAmbiguous(c)
           ELSE UNCHANGED Database
        /\ Becomes(t, [task[t] EXCEPT !.got = task[t].got \ {c},
                         !.pc = pc(c, task[t].got \ {c})])
  BY <1>0 DEF GiveBack, TaskStates
<1> DEFINE got == task[t].got \ {c}
<1>2. c \in Tranches /\ got \in SUBSET task[t].got
  BY <1>0 DEF TaskStates
<1>3. row[c].state \notin {"none", "reserved"}
  BY <1>0, <1>1 DEF Known
<1>4. Tame
  <2>1. CASE Refundable(c)
    BY <1>1, <1>2, <1>3, <2>1, RefundRowTame
  <2>2. CASE ~Refundable(c) /\ In(t, "fenced")
    BY <1>1, <1>2, <1>3, <2>2, MarkAmbiguousTame
  <2>3. CASE ~Refundable(c) /\ ~In(t, "fenced")
    BY <1>1, <2>3, Quiet DEF Database, Solid, TypeOK
  <2> QED BY <2>1, <2>2, <2>3
<1>5. pc(c, got) \in Leaving
  BY <1>0 DEF Leaving
<1>6. [task[t] EXCEPT !.got = got, !.pc = pc(c, got)]
        = [task[t] EXCEPT !.made = task[t].made, !.got = got, !.pc = pc(c, got)]
  BY <1>0 DEF TaskStates
<1> HIDE DEF pc, got
<1>7. Becomes(t, [task[t] EXCEPT !.made = task[t].made, !.got = got, !.pc = pc(c, got)])
  BY <1>1, <1>6 DEF got
<1>8. task[t].made \in SUBSET task[t].made
  OBVIOUS
<1> QED BY <1>0, <1>2, <1>4, <1>5, <1>7, <1>8, GivesBack

----------------------------------------------------------------------------
(* The status callback *)

\* A callback that goes on, or is over.
LEMMA CallbackMoves ==
  ASSUME Solid, Tame, NEW t \in Callbacks, NEW s \in TaskStates, Becomes(t, s),
         s.pc \in {"done", "recorded", "rows"}, call'.duration # NULL,
         s.pc = "rows" => 1 <= s.next,
         s.got = task[t].got, s.made = task[t].made,
         \A c \in Tranches : s.seen[c].state # "none" =>
           row'[c].state # "none" \/ task[t].seen[c].state # "none",
         recovery' = recovery, crashes' = crashes
  PROVE  Solid'
<1>0. t \in Tasks /\ t \notin Reservers /\ task \in [Tasks -> TaskStates] /\ Sound /\ Follows
      /\ Known(t) /\ task[t] \in TaskStates
  BY BillingFacts DEF Solid, TypeOK, Tame, Sound
<1>1. /\ task' \in [Tasks -> TaskStates] /\ \A u \in Tasks : u = t \/ task'[u] = task[u]
      /\ task'[t] = IF s.pc = "done" THEN Over ELSE s
  BY <1>0, BecomesType
<1>2. CASE s.pc = "done"
  <2>1. Placed(t)' /\ Known(t)'
    BY <1>0, <1>1, <1>2, Finished
  <2> QED BY <1>0, <1>1, <2>1, TaskStep DEF Tame
<1>3. CASE s.pc # "done"
  <2>1. task'[t] = s /\ s.pc \in {"recorded", "rows"}
    BY <1>1, <1>3
  <2>2. Placed(t)'
    BY <1>0, <2>1 DEF Placed, CallbackSteps, StartSteps
  <2>3. /\ \A c \in s.got : row'[c].state \notin {"none", "reserved"}
        /\ \A c \in s.made : row'[c].state # "none"
    BY <1>0 DEF Known, Follows, TaskStates
  <2>4. \A c \in Tranches : s.seen[c].state # "none" => row'[c].state # "none"
    BY <1>0 DEF Known, Follows
  <2>5. Known(t)'
    BY <2>1, <2>3, <2>4 DEF Known
  <2> QED BY <1>0, <1>1, <2>2, <2>5, TaskStep DEF Tame
<1> QED BY <1>2, <1>3

LEMMA DeliverStep ==
  ASSUME Solid, NEW t \in Callbacks, Deliver(t), crashes' = crashes
  PROVE  Solid'
<1>0. t \in Tasks /\ task[t] \in TaskStates /\ task[t].pc = "idle" /\ recovery' = recovery
      /\ call \in Calls /\ row' = row /\ hold' = hold /\ balance' = balance
  BY BillingFacts DEF Solid, TypeOK, Deliver, In
<1>1. call' \in Calls /\ call'.duration # NULL
  <2>1. CASE call.duration # NULL
    BY <1>0, <2>1 DEF Deliver
  <2>2. CASE call.duration = NULL
    <3>1. PICK d \in Durations : call' = [call EXCEPT !.ended = TRUE, !.duration = d]
      BY <2>2 DEF Deliver
    <3>2. d # NULL
      BY BillingFacts
    <3> QED BY <1>0, <3>1, <3>2 DEF Calls
  <2> QED BY <2>1, <2>2
<1>2. Tame
  BY <1>0, <1>1, Quiet
<1> DEFINE s == [task[t] EXCEPT !.pc = "recorded"]
<1>3. /\ s \in TaskStates /\ s.pc = "recorded" /\ s.got = task[t].got /\ s.made = task[t].made
      /\ s.seen = task[t].seen
  BY <1>0 DEF TaskStates, CallbackSteps
<1>4. Becomes(t, s)
  BY DEF Deliver, Goes
<1> HIDE DEF s
<1> QED BY <1>0, <1>1, <1>2, <1>3, <1>4, CallbackMoves

LEMMA ReadRowsStep ==
  ASSUME Solid, NEW t \in Callbacks, ReadRows(t), crashes' = crashes
  PROVE  Solid'
<1>0. t \in Tasks /\ task[t] \in TaskStates /\ task[t].pc = "recorded" /\ recovery' = recovery
      /\ call \in Calls /\ row \in [Tranches -> Rows] /\ Placed(t) /\ call' = call /\ row' = row
  BY BillingFacts DEF Solid, TypeOK, ReadRows, In
<1>1. call.duration # NULL
  BY <1>0 DEF Placed
<1>2. Tame
  BY Quiet DEF ReadRows, Solid, TypeOK
<1> DEFINE seen == [c \in Tranches |-> [state |-> row[c].state, quantity |-> row[c].quantity]]
           left == call.duration
           s == [task[t] EXCEPT !.pc = "rows", !.next = 1, !.left = left, !.seen = seen]
<1>3. left \in Nat
  BY <1>0, <1>1, BillingFacts DEF Calls
<1>4. seen \in [Tranches -> Views] /\ \A c \in Tranches : seen[c].state = row[c].state
  BY <1>0 DEF Views, Rows
<1>5. Becomes(t, s)
  BY DEF ReadRows
<1> HIDE DEF seen, left
<1>6. /\ s \in TaskStates /\ s.pc = "rows" /\ s.next = 1 /\ s.got = task[t].got /\ s.made = task[t].made
      /\ s.seen = seen
  BY <1>0, <1>3, <1>4 DEF TaskStates, CallbackSteps
<1> HIDE DEF s
<1> QED BY <1>0, <1>1, <1>2, <1>4, <1>5, <1>6, CallbackMoves

\* On to the next row.
LEMMA AllocatedStep ==
  ASSUME Solid, Tame, NEW t \in Callbacks, task[t].next \in Tranches, NEW n \in Nat,
         task[t].pc # "idle",
         Becomes(t, Allocated(t, n)), recovery' = recovery, crashes' = crashes
  PROVE  Solid'
<1>0. t \in Tasks /\ task \in [Tasks -> TaskStates] /\ Placed(t) /\ Follows
  BY BillingFacts DEF Solid, TypeOK, Tame, Sound
<1>1. call'.duration # NULL
  BY <1>0 DEF Placed, Follows
<1> DEFINE s == Allocated(t, n)
<1>2. /\ s \in TaskStates /\ s.pc = "rows" /\ s.next = task[t].next + 1
      /\ s.made = task[t].made /\ s.got = task[t].got
      /\ \A c \in Tranches : c # task[t].next => s.seen[c] = task[t].seen[c]
      /\ s.seen[task[t].next].state = "none"
  BY <1>0, AllocatedType
<1>3. Becomes(t, s)
  OBVIOUS
<1> HIDE DEF s
<1>4. 1 <= s.next
  BY <1>2, TrancheNumbers
<1>5. \A c \in Tranches : s.seen[c].state # "none" => task[t].seen[c].state # "none"
  BY <1>2
<1> QED BY <1>1, <1>2, <1>3, <1>4, <1>5, CallbackMoves

LEMMA SkipRowStep ==
  ASSUME Solid, NEW t \in Callbacks, SkipRow(t), crashes' = crashes
  PROVE  Solid'
<1>1. /\ task[t].next \in Tranches /\ task[t].pc = "rows" /\ recovery' = recovery
      /\ t \in Tasks /\ task[t] \in TaskStates
  BY BillingFacts DEF SkipRow, In, Solid, TypeOK
<1>2. Tame
  BY Quiet DEF SkipRow, Solid, TypeOK
<1>3. task[t].seen[task[t].next].quantity \in Nat
  <2>1. task[t].seen[task[t].next].quantity \in 0..TrancheUnits
    BY <1>1 DEF TaskStates, Views
  <2> QED BY <2>1, BillingFacts
<1>4. Becomes(t, Allocated(t, task[t].seen[task[t].next].quantity))
  BY DEF SkipRow
<1> QED BY <1>1, <1>2, <1>3, <1>4, AllocatedStep

\* What a settlement captures is no more than the tranche costs.
LEMMA CapturedCost ==
  ASSUME NEW n \in 0..TrancheUnits
  PROVE  Rate * n \in Nat /\ Rate * n <= Cost
<1>1. Rate \in Nat /\ TrancheUnits \in Nat /\ n \in Nat /\ TrancheUnits - n \in Nat
  BY BillingFacts
<1>2. Rate * n \in Nat /\ Rate * (TrancheUnits - n) \in Nat
  BY <1>1
<1>3. Rate * TrancheUnits = Rate * n + Rate * (TrancheUnits - n)
  BY <1>1
<1> QED BY <1>1, <1>2, <1>3 DEF Cost

LEMMA SettleRow ==
  ASSUME Solid, NEW c \in Tranches, NEW n \in 0..TrancheUnits,
         row[c].state = "provider_started",
         row[c].hold # NULL => hold[row[c].hold].status = "active",
         Write(c, "settled", n),
         IF row[c].hold = NULL THEN UNCHANGED <<hold, balance>>
         ELSE /\ hold' = [hold EXCEPT ![row[c].hold].status = "settled",
                                      ![row[c].hold].captured = Rate * n]
              /\ balance' = balance + Cost - Rate * n
  PROVE  Tame
<1> DEFINE h == row[c].hold
           k == [hold[h] EXCEPT !.status = "settled", !.captured = Rate * n]
<1>1. /\ row' \in [Tranches -> Rows] /\ call' \in Calls /\ call'.duration = call.duration
      /\ \A d \in Tranches : d # c => row'[d] = row[d]
      /\ row'[c].state = "settled" /\ row'[c].quantity = n /\ row'[c].hold = row[c].hold
  BY WriteType DEF RowStates
<1>2. hold \in [Holds -> HoldRows] /\ balance \in Nat
  BY DEF Solid, TypeOK
<1>3. Rate * n \in Nat /\ Rate * n <= Cost
  BY CapturedCost
<1>4. CASE h = NULL
  BY <1>1, <1>2, <1>4, OneRow
<1>5. CASE h # NULL
  <2>1. h \in Holds
    BY <1>5, AttachedFacts
  <2>2. /\ k \in HoldRows /\ k.status = "settled" /\ k.captured = Rate * n /\ k.old = hold[h].old
        /\ k.started = hold[h].started
    <3>1. hold[h] \in HoldRows
      BY <1>2, <2>1
    <3> DEFINE m == Rate * n
    <3>2. m \in Nat
      BY <1>3
    <3> HIDE DEF m
    <3>3. k = [hold[h] EXCEPT !.status = "settled", !.captured = m]
      BY DEF m
    <3>4. /\ k \in HoldRows /\ k.status = "settled" /\ k.captured = m /\ k.old = hold[h].old
          /\ k.started = hold[h].started
      <4> HIDE DEF k
      <4> QED BY <3>1, <3>2, <3>3 DEF HoldRows
    <3> QED BY <3>4 DEF m
  <2>3. hold' = [hold EXCEPT ![h] = k]
    BY <1>2, <1>5, <2>1 DEF HoldRows
  <2> HIDE DEF k
  <2>4. hold' \in [Holds -> HoldRows] /\ hold'[h] = k /\ \A g \in Holds : g # h => hold'[g] = hold[g]
    BY <1>2, <2>1, <2>2, <2>3
  <2>5. balance' \in Nat
    BY <1>2, <1>3, <1>5, BillingFacts
  <2>6. "settled" \notin Open
    BY DEF Open
  <2> HIDE DEF h
  <2>7. /\ \A g \in Holds : g # row[c].hold => hold'[g] = hold[g]
        /\ hold'[row[c].hold] = k /\ k.old = hold[row[c].hold].old
        /\ k.started = hold[row[c].hold].started
    BY <2>2, <2>4 DEF h
  <2> QED BY <1>1, <1>3, <2>2, <2>4, <2>5, <2>6, <2>7, OneRow
<1> QED BY <1>4, <1>5

\* How much of a tranche is used.
LEMMA UsedType ==
  ASSUME Solid, NEW t \in Tasks
  PROVE  /\ Used(t) \in 0..TrancheUnits /\ Used(t) <= task[t].left
         /\ Used(t) = 0 => task[t].left = 0
<1>1. task[t].left \in Nat
  BY DEF Solid, TypeOK, TaskStates
<1> QED BY <1>1, BillingFacts DEF Used

LEMMA SettleStep ==
  ASSUME Solid, NEW t \in Callbacks, Settle(t), crashes' = crashes
  PROVE  Solid'
<1> DEFINE c == task[t].next
           h == row[c].hold
<1>0. /\ t \in Tasks /\ t \notin Reservers /\ AtSettle(t) /\ Placed(t) /\ recovery' = recovery
  BY BillingFacts DEF Solid, Settle
<1>1. c \in Tranches /\ task[t].pc # "idle"
  BY <1>0 DEF AtSettle, In, Placed
<1>2. Used(t) \in 0..TrancheUnits /\ Used(t) \in Nat
  BY <1>0, UsedType, BillingFacts
<1>3. CASE row[c].state = "settled"
  <2>1. Becomes(t, Allocated(t, Used(t))) /\ UNCHANGED <<row, call, hold, balance>>
    BY <1>3 DEF Settle
  <2>2. Tame
    BY <2>1, Quiet DEF Solid, TypeOK
  <2> QED BY <1>0, <1>1, <1>2, <2>1, <2>2, AllocatedStep
<1>4. CASE row[c].state = "provider_started"
  <2>1. /\ h # NULL => hold[h].status = "active"
        /\ Write(c, "settled", Used(t))
        /\ IF h = NULL THEN UNCHANGED <<hold, balance>>
           ELSE /\ hold' = [hold EXCEPT ![h].status = "settled", ![h].captured = Rate * Used(t)]
                /\ balance' = balance + Cost - Rate * Used(t)
        /\ Becomes(t, Allocated(t, Used(t)))
    BY <1>4 DEF Settle
  <2>2. Tame
    BY <1>1, <1>2, <1>4, <2>1, SettleRow
  <2> QED BY <1>0, <1>1, <1>2, <2>1, <2>2, AllocatedStep
<1>5. CASE row[c].state \notin {"settled", "provider_started"}
  <2>1. Becomes(t, Raised(t)) /\ UNCHANGED <<row, call, hold, balance>>
    BY <1>5 DEF Settle
  <2>2. Tame
    BY <2>1, Quiet DEF Solid, TypeOK
  <2> QED BY <1>0, <2>1, <2>2, RaisedStep
<1> QED BY <1>3, <1>4, <1>5

LEMMA RefundUnusedStep ==
  ASSUME Solid, NEW t \in Callbacks, RefundUnused(t), crashes' = crashes
  PROVE  Solid'
<1> DEFINE c == task[t].next
<1>0. /\ t \in Tasks /\ t \notin Reservers /\ task[t].pc = "rows" /\ c \in Tranches /\ Known(t)
      /\ recovery' = recovery /\ task[t].seen[c].state \in Open
  BY BillingFacts DEF Solid, RefundUnused, In
<1>1. row[c].state # "none"
  BY <1>0 DEF Known, Open
<1>2. CASE Refundable(c)
  <2>1. RefundRow(c) /\ Becomes(t, Allocated(t, 0))
    BY <1>2 DEF RefundUnused
  <2>2. Tame
    BY <1>0, <1>1, <1>2, <2>1, RefundRowTame
  <2> QED BY <1>0, <2>1, <2>2, AllocatedStep
<1>3. CASE ~Refundable(c)
  <2>1. UNCHANGED Database /\ Becomes(t, Raised(t))
    BY <1>3 DEF RefundUnused
  <2>2. Tame
    BY <2>1, Quiet DEF Database, Solid, TypeOK
  <2> QED BY <1>0, <2>1, <2>2, RaisedStep
<1> QED BY <1>2, <1>3

LEMMA AbsorbStep ==
  ASSUME Solid, NEW t \in Callbacks, Absorb(t), crashes' = crashes
  PROVE  Solid'
<1>0. /\ t \in Tasks /\ task[t] \in TaskStates /\ task[t].pc = "rows" /\ recovery' = recovery
      /\ row' = row /\ hold' = hold /\ balance' = balance /\ call \in Calls
      /\ row \in [Tranches -> Rows] /\ Placed(t)
  BY BillingFacts DEF Solid, TypeOK, Absorb, In
<1>1. call' \in Calls /\ call'.duration = call.duration
  <2> DEFINE n == IF call.absorbed = 0 THEN task[t].left ELSE call.absorbed
             k == [call EXCEPT !.absorbed = n]
  <2>1. n \in Nat
    BY <1>0 DEF TaskStates, Calls
  <2>2. call' = IF task[t].left = 0 THEN call ELSE Totalled(k, row)
    BY <1>0 DEF Absorb, Calls
  <2> HIDE DEF n
  <2>3. k \in Calls /\ k.duration = call.duration
    BY <1>0, <2>1 DEF Calls
  <2> HIDE DEF k
  <2> QED BY <1>0, <2>2, <2>3, TotalledType
<1>2. Tame
  BY <1>0, <1>1, Quiet
<1> DEFINE s == [task[t] EXCEPT !.pc = "done"]
<1>3. /\ s \in TaskStates /\ s.pc = "done" /\ s.got = task[t].got /\ s.made = task[t].made
      /\ s.seen = task[t].seen
  BY <1>0 DEF TaskStates
<1>4. Becomes(t, s)
  BY DEF Absorb, Goes
<1>5. call'.duration # NULL
  BY <1>0, <1>1 DEF Placed
<1> HIDE DEF s
<1> QED BY <1>0, <1>2, <1>3, <1>4, <1>5, CallbackMoves

----------------------------------------------------------------------------
(* Recovery, time and crashes *)

\* A step that leaves every task alone.
LEMMA RecoveryStep ==
  ASSUME Solid, Tame, task' = task, recovery' \in RecoveryStates, crashes' \in 0..MaxCrashes, Listed'
  PROVE  Solid'
<1>1. task' \in [Tasks -> TaskStates]
  BY DEF Solid, TypeOK
<1>2. {} \in SUBSET Tasks
  OBVIOUS
<1> QED BY <1>1, <1>2, Step DEF Tame

\* A hold that grew old without a row belongs to a task that died.
LEMMA SweepStep ==
  ASSUME Solid, Sweep, crashes' = crashes
  PROVE  Solid'
<1>0. /\ call' = call /\ row' = row /\ task' = task /\ call \in Calls /\ row \in [Tranches -> Rows]
      /\ hold \in [Holds -> HoldRows] /\ balance \in Nat /\ crashes \in 0..MaxCrashes
  BY DEF Sweep, Solid, TypeOK
<1>1. Orphans \subseteq Holds
  BY DEF Orphans
<1>2. balance' \in Nat
  <2>1. Cardinality(Orphans) \in Nat
    BY <1>1, BillingFacts, FS_Subset, FS_CardinalityType
  <2>2. balance' = balance + Cost * Cardinality(Orphans)
    BY DEF Sweep
  <2>3. Cost * Cardinality(Orphans) \in Nat
    BY <2>1, BillingFacts
  <2> QED BY <1>0, <2>2, <2>3
<1>3. /\ hold' \in [Holds -> HoldRows]
      /\ \A h \in Holds : h \notin Orphans => hold'[h] = hold[h]
      /\ \A h \in Orphans : /\ hold'[h].status = "refunded" /\ hold'[h].captured = hold[h].captured
                            /\ hold'[h].started = hold[h].started /\ hold'[h].old = hold[h].old
  <2>1. \A h \in Holds : hold'[h] = IF h \in Orphans THEN [hold[h] EXCEPT !.status = "refunded"]
                                    ELSE hold[h]
    BY DEF Sweep
  <2>2. \A h \in Holds : /\ [hold[h] EXCEPT !.status = "refunded"] \in HoldRows
                         /\ [hold[h] EXCEPT !.status = "refunded"].status = "refunded"
                         /\ [hold[h] EXCEPT !.status = "refunded"].captured = hold[h].captured
                         /\ [hold[h] EXCEPT !.status = "refunded"].started = hold[h].started
                         /\ [hold[h] EXCEPT !.status = "refunded"].old = hold[h].old
    BY <1>0 DEF HoldRows
  <2>3. \A h \in Holds : hold'[h] \in HoldRows
    BY <1>0, <2>1, <2>2
  <2>4. hold' = [h \in Holds |-> hold'[h]]
    BY DEF Sweep
  <2>5. hold' \in [Holds -> HoldRows]
    BY <2>3, <2>4
  <2> QED BY <1>1, <2>1, <2>2, <2>5
<1>4. \A c \in Tranches : row[c].hold # NULL => row[c].hold \in Holds /\ row[c].hold \notin Orphans
  BY AttachedFacts DEF Orphans, Attached
<1>5. \A h \in Orphans : hold[h].status = "active" /\ ~hold[h].started /\ In(h[1], "dead")
  BY <1>1 DEF Orphans, Solid, Carried
<1>6. Follows
  BY <1>0, <1>3, <1>5 DEF Follows
<1>7. \A c \in Tranches : RowOk(c)'
  BY <1>0, <1>3, <1>4 DEF Solid, RowOk
<1>8. \A h \in Holds : HoldOk(h)'
  BY <1>0, <1>3, <1>5 DEF Solid, HoldOk, Attached
<1>9. ASSUME NEW u \in Reservers, ~In(u, "dead") PROVE Untouched(u)
  <2>1. \A c \in Tranches : <<u, c>> \in Holds /\ <<u, c>> \notin Orphans
    BY <1>5, <1>9 DEF Holds
  <2> QED BY <1>0, <1>3, <2>1 DEF Untouched, Attached
<1>10. \A u \in Reservers : Untouched(u)
  BY <1>9 DEF Untouched
<1>11. Tame
  BY <1>0, <1>2, <1>3, <1>6, <1>7, <1>8, <1>10 DEF Tame, Sound
<1>12. recovery' \in RecoveryStates /\ recovery'.refund = {} /\ recovery'.surface = {}
  BY DEF Sweep, Resting, RecoveryStates
<1>13. Listed'
  BY <1>12 DEF Listed
<1> QED BY <1>0, <1>11, <1>12, <1>13, RecoveryStep

LEMMA ReadStaleStep ==
  ASSUME Solid, ReadStale, crashes' = crashes
  PROVE  Solid'
<1>0. row' = row /\ hold' = hold /\ task' = task /\ crashes \in 0..MaxCrashes
  BY DEF ReadStale, Solid, TypeOK
<1>1. Tame
  BY Quiet DEF ReadStale, Solid, TypeOK
<1>2. recovery' \in RecoveryStates
  BY DEF ReadStale, Resting, RecoveryStates, Stale
<1>3. recovery'.refund \subseteq Stale /\ recovery'.surface \subseteq {c \in Stale : ~Unclaimed(c)}
  BY DEF ReadStale, Resting
<1>4. Listed'
  BY <1>0, <1>3 DEF Listed, Stale, Unclaimed
<1> QED BY <1>0, <1>1, <1>2, <1>4, RecoveryStep

LEMMA RecoverRowStep ==
  ASSUME Solid, RecoverRow, crashes' = crashes
  PROVE  Solid'
<1>0. /\ task' = task /\ crashes \in 0..MaxCrashes /\ recovery \in RecoveryStates
      /\ recovery.refund \subseteq Tranches /\ recovery.surface \subseteq Tranches /\ Listed
  BY DEF RecoverRow, Solid, TypeOK, RecoveryStates
<1>1. PICK c \in recovery.refund \cup recovery.surface :
        IF c \in recovery.surface
        THEN MarkAmbiguous(c) /\ Rest(recovery.refund, recovery.surface \ {c})
        ELSE IF Refundable(c)
        THEN RefundRow(c) /\ Rest(recovery.refund \ {c}, recovery.surface)
        ELSE UNCHANGED Database /\ recovery' = Resting
  BY DEF RecoverRow
<1>2. c \in Tranches /\ row[c].state # "none"
  BY <1>0 DEF Listed
<1>3. Tame
  <2>1. CASE c \in recovery.surface
    <3>1. row[c].state = "reserved" /\ row[c].hold # NULL => hold[row[c].hold].started
      BY <1>0, <2>1 DEF Listed
    <3> QED BY <1>1, <1>2, <2>1, <3>1, MarkAmbiguousTame
  <2>2. CASE c \notin recovery.surface /\ Refundable(c)
    BY <1>1, <1>2, <2>2, RefundRowTame
  <2>3. CASE c \notin recovery.surface /\ ~Refundable(c)
    BY <1>1, <2>3, Quiet DEF Database, Solid, TypeOK
  <2> QED BY <2>1, <2>2, <2>3
<1>4. /\ recovery' \in RecoveryStates /\ recovery'.refund \subseteq recovery.refund
      /\ recovery'.surface \subseteq recovery.surface
  <2>1. ASSUME NEW refund \in SUBSET recovery.refund, NEW surface \in SUBSET recovery.surface,
               Rest(refund, surface)
        PROVE  /\ recovery' \in RecoveryStates /\ recovery'.refund \subseteq refund
               /\ recovery'.surface \subseteq surface
    BY <1>0, <2>1 DEF Rest, Resting, RecoveryStates
  <2>2. Resting \in RecoveryStates /\ Resting.refund = {} /\ Resting.surface = {}
    BY DEF Resting, RecoveryStates
  <2> QED BY <1>1, <2>1, <2>2
<1>5. Listed'
  <2>1. \A d \in recovery'.refund : row'[d].state # "none"
    BY <1>0, <1>3, <1>4 DEF Listed, Tame, Sound, Follows
  <2>2. ASSUME NEW d \in recovery'.surface
        PROVE  /\ row'[d].state # "none"
               /\ row'[d].state = "reserved" => row'[d].hold # NULL /\ hold'[row'[d].hold].started
    <3>1. /\ d \in Tranches /\ row[d].state # "none"
          /\ row[d].state = "reserved" => row[d].hold # NULL /\ hold[row[d].hold].started
      BY <1>0, <1>4, <2>2 DEF Listed
    <3> QED BY <1>3, <3>1, AttachedFacts DEF Tame, Sound, Follows
  <2> QED BY <2>1, <2>2 DEF Listed
<1> QED BY <1>0, <1>3, <1>4, <1>5, RecoveryStep

LEMMA RowAgesStep ==
  ASSUME Solid, NEW c \in Tranches, RowAges(c), crashes' = crashes
  PROVE  Solid'
<1>0. /\ call' = call /\ hold' = hold /\ balance' = balance /\ task' = task /\ recovery' = recovery
      /\ row \in [Tranches -> Rows] /\ call \in Calls /\ hold \in [Holds -> HoldRows]
      /\ balance \in Nat /\ recovery \in RecoveryStates /\ crashes \in 0..MaxCrashes
      /\ row[c].state \in {"reserved", "provider_started"}
  BY DEF RowAges, Solid, TypeOK
<1> DEFINE r == [row[c] EXCEPT !.old = TRUE]
<1>1. r \in Rows /\ r.state = row[c].state /\ r.hold = row[c].hold /\ r.quantity = row[c].quantity
  BY <1>0 DEF Rows
<1>2. row' = [row EXCEPT ![c] = r]
  BY DEF RowAges
<1> HIDE DEF r
<1>3. row' \in [Tranches -> Rows] /\ row'[c] = r /\ \A d \in Tranches : d # c => row'[d] = row[d]
  BY <1>0, <1>1, <1>2
<1>4. row[c].hold # NULL =>
        /\ row[c].hold \in Holds
        /\ hold[row[c].hold].status = "active"
        /\ hold[row[c].hold].captured = 0
        /\ row[c].state \in Open \ {"reserved"} => hold[row[c].hold].started
  BY <1>0, AttachedFacts DEF Solid, RowOk, HoldOk, Open
<1>5. Tame
  BY <1>0, <1>1, <1>3, <1>4, BillingFacts, OneRow
<1>6. Listed'
  BY <1>0, <1>5, StaysListed DEF Tame, Sound
<1> QED BY <1>0, <1>5, <1>6, RecoveryStep

LEMMA HoldAgesStep ==
  ASSUME Solid, NEW h \in Holds, HoldAges(h), crashes' = crashes
  PROVE  Solid'
<1>0. /\ call' = call /\ row' = row /\ balance' = balance /\ task' = task /\ recovery' = recovery
      /\ row \in [Tranches -> Rows] /\ call \in Calls /\ hold \in [Holds -> HoldRows]
      /\ balance \in Nat /\ recovery \in RecoveryStates /\ crashes \in 0..MaxCrashes
      /\ hold[h].status = "active" /\ ~Attached(h) /\ ~At(h[1], h[2])
  BY DEF HoldAges, Solid, TypeOK
<1>1. In(h[1], "dead")
  <2>1. h[1] \in Reservers /\ h[1] \in Tasks /\ h[1] \notin Callbacks
    BY BillingFacts DEF Holds
  <2>2. Holding(h[1], h[2]) \/ In(h[1], "dead")
    BY <1>0 DEF Solid, Carried
  <2>3. ASSUME Holding(h[1], h[2]) PROVE At(h[1], h[2])
    <3>1. task[h[1]].pc \in {"insert", "conflict", "giveup"} /\ task[h[1]].next = h[2]
      BY <2>3 DEF Holding
    <3>2. task[h[1]].covered < task[h[1]].next /\ task[h[1]].next <= task[h[1]].goal
      BY <2>1, <3>1, HandType
    <3> QED BY <2>1, <3>1, <3>2 DEF At
  <2> QED BY <1>0, <2>2, <2>3
<1> DEFINE k == [hold[h] EXCEPT !.old = TRUE]
<1>2. /\ k \in HoldRows /\ k.status = hold[h].status /\ k.captured = hold[h].captured
      /\ k.started = hold[h].started
  BY <1>0 DEF HoldRows
<1>3. hold' = [hold EXCEPT ![h] = k]
  BY DEF HoldAges
<1> HIDE DEF k
<1>4. hold' \in [Holds -> HoldRows] /\ hold'[h] = k /\ \A g \in Holds : g # h => hold'[g] = hold[g]
  BY <1>0, <1>2, <1>3
<1>5. Follows
  BY <1>0, <1>2, <1>4 DEF Follows
<1>6. \A c \in Tranches : RowOk(c)'
  <2>1. \A c \in Tranches : row[c].hold # NULL => hold'[row[c].hold] = hold[row[c].hold]
    BY <1>0, <1>4, AttachedFacts DEF Attached
  <2> QED BY <1>0, <2>1 DEF Solid, RowOk
<1>7. ASSUME NEW g \in Holds PROVE HoldOk(g)'
  <2>1. HoldOk(g)
    BY DEF Solid
  <2>2. CASE g = h
    BY <1>0, <1>2, <1>4, <2>1, <2>2 DEF HoldOk, Attached
  <2>3. CASE g # h
    BY <1>0, <1>4, <2>1, <2>3 DEF HoldOk, Attached
  <2> QED BY <2>2, <2>3
<1>8. ASSUME NEW u \in Reservers, ~In(u, "dead") PROVE Untouched(u)
  <2>1. \A c \in Tranches : <<u, c>> \in Holds /\ <<u, c>> # h
    BY <1>1, <1>8 DEF Holds
  <2> QED BY <1>0, <1>4, <2>1 DEF Untouched, Attached
<1>9. \A u \in Reservers : Untouched(u)
  BY <1>8 DEF Untouched
<1>10. Tame
  BY <1>0, <1>4, <1>5, <1>6, <1>7, <1>9 DEF Tame, Sound
<1>11. Listed'
  BY <1>0, <1>5, StaysListed
<1> QED BY <1>0, <1>10, <1>11, RecoveryStep

LEMMA CrashStep ==
  ASSUME Solid, NEW t \in Tasks, Crash(t)
  PROVE  Solid'
<1>0. /\ task \in [Tasks -> TaskStates] /\ recovery' = recovery /\ recovery \in RecoveryStates
      /\ row' = row /\ hold' = hold
  BY DEF Crash, Solid, TypeOK
<1>1. Tame
  BY Quiet DEF Crash, Solid, TypeOK
<1>2. crashes' \in 0..MaxCrashes
  BY BillingFacts DEF Crash, Solid, TypeOK
<1>3. Listed'
  BY <1>0, <1>1, StaysListed DEF Tame, Sound
<1>4. {t} \in SUBSET Tasks
  OBVIOUS
<1>5. CASE t \in Callbacks
  <2>1. Becomes(t, Fresh)
    BY <1>5 DEF Crash
  <2>2. /\ task' \in [Tasks -> TaskStates] /\ \A u \in Tasks : u = t \/ task'[u] = task[u]
        /\ task'[t] = Fresh /\ t \notin Reservers
    BY <1>0, <1>5, <2>1, BecomesType, FreshType, BillingFacts
  <2>3. Placed(t)' /\ Known(t)'
    BY <1>1, <2>2, Finished DEF Tame, Sound
  <2> QED BY <1>0, <1>1, <1>2, <1>3, <1>4, <2>2, <2>3, Step DEF Tame
<1>6. CASE t \notin Callbacks
  <2> DEFINE s == [Fresh EXCEPT !.pc = "dead"]
  <2>1. Becomes(t, s)
    BY <1>6 DEF Crash
  <2>2. /\ s \in TaskStates /\ s.pc = "dead" /\ s.got = {} /\ s.made = {} /\ s.seen = NoView
    BY FreshType DEF TaskStates, ReserverSteps
  <2> HIDE DEF s
  <2>3. /\ task' \in [Tasks -> TaskStates] /\ \A u \in Tasks : u = t \/ task'[u] = task[u]
        /\ task'[t] = s /\ t \in Reservers
    BY <1>0, <1>6, <2>1, <2>2, BecomesType, BillingFacts
  <2>4. Placed(t)'
    BY <1>6, <2>2, <2>3 DEF Placed, CallbackSteps, StartSteps
  <2>5. Known(t)'
    BY <2>2, <2>3, FreshType DEF Known
  <2>6. Unfunded(t)'
    BY <2>2, <2>3 DEF Unfunded, StartSteps
  <2>7. \A c \in Tranches : Carried(<<t, c>>)'
    BY <2>2, <2>3 DEF Carried, In
  <2> QED BY <1>0, <1>1, <1>2, <1>3, <1>4, <2>3, <2>4, <2>5, <2>6, <2>7, Step DEF Tame
<1> QED BY <1>5, <1>6

LEMMA RecoveryCrashStep ==
  ASSUME Solid, RecoveryCrash
  PROVE  Solid'
<1>1. Tame
  BY Quiet DEF RecoveryCrash, Solid, TypeOK
<1>2. crashes' \in 0..MaxCrashes
  BY BillingFacts DEF RecoveryCrash, Solid, TypeOK
<1>3. recovery' \in RecoveryStates /\ recovery'.refund = {} /\ recovery'.surface = {}
  BY DEF RecoveryCrash, Resting, RecoveryStates
<1>4. Listed' /\ task' = task
  BY <1>3 DEF Listed, RecoveryCrash
<1> QED BY <1>1, <1>2, <1>3, <1>4, RecoveryStep

----------------------------------------------------------------------------
(* The invariant *)

LEMMA InitSolid == Init => Solid
<1> SUFFICES ASSUME Init PROVE Solid
  OBVIOUS
<1>1. /\ \A c \in Tranches : row[c] = [state |-> "none", hold |-> NULL, quantity |-> 0, old |-> FALSE]
      /\ \A h \in Holds : hold[h] = [status |-> "none", started |-> FALSE, captured |-> 0, old |-> FALSE]
      /\ \A t \in Tasks : task[t] = Fresh
      /\ recovery = Resting
  BY DEF Init
<1>2. TypeOK
  <2>1. call \in Calls
    BY BillingFacts DEF Init, Calls
  <2>2. row \in [Tranches -> Rows]
    BY BillingFacts DEF Init, Rows, RowStates
  <2>3. hold \in [Holds -> HoldRows]
    BY DEF Init, HoldRows
  <2>4. task \in [Tasks -> TaskStates]
    BY FreshType DEF Init
  <2>5. recovery \in RecoveryStates /\ balance \in Nat /\ crashes \in 0..MaxCrashes
    BY BillingFacts DEF Init, Resting, RecoveryStates
  <2> QED BY <2>1, <2>2, <2>3, <2>4, <2>5 DEF TypeOK
<1>3. \A c \in Tranches : RowOk(c)
  BY <1>1 DEF RowOk
<1>4. \A h \in Holds : HoldOk(h) /\ Carried(h)
  BY <1>1, BillingFacts DEF HoldOk, Carried
<1>5. ASSUME NEW t \in Tasks PROVE Placed(t) /\ Known(t) /\ (t \in Reservers => Unfunded(t))
  <2>1. /\ task[t].pc = "idle" /\ task[t].got = {} /\ task[t].made = {}
        /\ \A c \in Tranches : task[t].seen[c].state = "none"
    BY <1>1, FreshType
  <2>2. Placed(t)
    BY <2>1 DEF Placed, CallbackSteps, StartSteps
  <2>3. Known(t)
    BY <2>1 DEF Known
  <2>4. t \in Reservers => Unfunded(t)
    BY <1>1, <2>1 DEF Unfunded, StartSteps, Holds
  <2> QED BY <2>2, <2>3, <2>4
<1>6. Listed
  BY <1>1 DEF Listed, Resting
<1> QED BY <1>2, <1>3, <1>4, <1>5, <1>6, BillingFacts DEF Solid

LEMMA WorkSolid ==
  ASSUME Solid, Work, crashes' = crashes
  PROVE  Solid'
<1>1. ASSUME NEW t \in Reservers, Reserve(t) \/ Undo(t) \/ Surface(t) PROVE Solid'
  BY <1>1, LookStep, FundStep, InsertStep, DropHoldStep, UndoStep, SurfaceStep DEF Reserve
<1>2. ASSUME NEW t \in Dispatchers, Dial(t) PROVE Solid'
  BY <1>2, CrossStep, PostStep, GiveBackStep, FailCallStep DEF Dial
<1>3. ASSUME NEW t \in Callbacks, Callback(t) PROVE Solid'
  BY <1>3, DeliverStep, ReadRowsStep, SkipRowStep, SettleStep, RefundUnusedStep, AbsorbStep
     DEF Callback
<1>4. ASSUME NEW t \in Tasks, Boundary(t) PROVE Solid'
  BY <1>4, MarkStartedStep, ReconcileStep, ClaimStep, CheckStep, UpdateStep DEF Boundary
<1>5. ASSUME Recover PROVE Solid'
  BY <1>5, SweepStep, ReadStaleStep, RecoverRowStep DEF Recover
<1> QED BY <1>1, <1>2, <1>3, <1>4, <1>5 DEF Work

LEMMA NextSolid == Solid /\ [Next]_vars => Solid'
<1> SUFFICES ASSUME Solid, [Next]_vars PROVE Solid'
  OBVIOUS
<1>1. CASE Work /\ UNCHANGED crashes
  BY <1>1, WorkSolid
<1>2. CASE TimePasses /\ UNCHANGED crashes
  BY <1>2, RowAgesStep, HoldAgesStep DEF TimePasses
<1>3. CASE \E t \in Tasks : Crash(t)
  BY <1>3, CrashStep
<1>4. CASE RecoveryCrash
  BY <1>4, RecoveryCrashStep
<1>5. CASE UNCHANGED vars
  BY <1>5 DEF vars, Solid, TypeOK, RowOk, HoldOk, Carried, Holding, Placed, Known, Unfunded, Listed,
     Attached, In
<1> QED BY <1>1, <1>2, <1>3, <1>4, <1>5 DEF Next

\* Whatever task dies, is refused or comes late, the rows, the holds and what
\* every task believes of them stay in step.
THEOREM BillingInvariant == Spec => []Solid
BY InitSolid, NextSolid, PTL DEF Spec

\* Every variable keeps its type: no balance below zero, no quantity beyond a
\* tranche.
THEOREM BillingTypes == Spec => []TypeOK
<1>1. Solid => TypeOK
  BY DEF Solid
<1> QED BY <1>1, BillingInvariant, PTL

\* A row and its hold end the same way for the same amount, although other
\* transactions write them, and only a dead task leaves a hold unanswered for.
THEOREM BillingHoldsFollowRows == Spec => []HoldsFollowRows
<1>1. Solid => HoldsFollowRows
  <2> SUFFICES ASSUME Solid PROVE HoldsFollowRows
    OBVIOUS
  <2>1. ASSUME NEW c \in Tranches, row[c].hold # NULL
        PROVE  /\ row[c].state = "settled" => hold[row[c].hold].status = "settled"
                                              /\ hold[row[c].hold].captured = Charge(row[c])
               /\ row[c].state = "refunded" => hold[row[c].hold].status = "refunded"
               /\ row[c].state \in Open => hold[row[c].hold].status = "active"
               /\ row[c].state \in Open \ {"reserved"} => hold[row[c].hold].started
    BY <2>1 DEF Solid, RowOk, Charge
  <2>2. \A c, d \in Tranches : row[c].hold = row[d].hold /\ row[c].hold # NULL => c = d
    BY AttachedFacts
  <2>3. \A h \in Holds : hold[h].status = "active" /\ ~Attached(h) =>
          \/ /\ task[h[1]].next = h[2]
             /\ task[h[1]].pc \in {"insert", "conflict", "giveup"}
          \/ In(h[1], "dead")
    BY DEF Solid, Carried, Holding
  <2> QED BY <2>1, <2>2, <2>3 DEF HoldsFollowRows
<1> QED BY <1>1, BillingInvariant, PTL

----------------------------------------------------------------------------
(* The books *)

\* What hold h keeps from its owner, and what all of them do.
Held(h) ==
  IF hold[h].status = "active" THEN Cost
  ELSE IF hold[h].status = "settled" THEN hold[h].captured ELSE 0

HeldOf == [h \in Holds |-> Held(h)]
Booked == Funds = balance + SumOver(Holds, HeldOf)

HeldNumbers ==
  /\ balance \in Nat /\ \A h \in Holds : HeldOf[h] = Held(h) /\ HeldOf[h] \in Nat
  /\ SumOver(Holds, HeldOf) \in Nat

LEMMA HeldType == TypeOK => HeldNumbers
<1> SUFFICES ASSUME TypeOK PROVE HeldNumbers
  OBVIOUS
<1>1. \A h \in Holds : HeldOf[h] = Held(h) /\ Held(h) \in Nat
  BY BillingFacts DEF HeldOf, Held, TypeOK, HoldRows
<1>2. SumOver(Holds, HeldOf) \in Nat
  BY <1>1, BillingFacts, SumType
<1> QED BY <1>1, <1>2 DEF TypeOK, HeldNumbers

LEMMA HeldTypeNext == TypeOK' => HeldNumbers'
BY HeldType, PTL

\* No money moves.
LEMMA BooksStand ==
  ASSUME Booked, balance' = balance,
         \A h \in Holds : hold'[h].status = hold[h].status /\ hold'[h].captured = hold[h].captured
  PROVE  Booked'
<1>1. \A h \in Holds : HeldOf[h] = HeldOf'[h]
  BY DEF HeldOf, Held, Cost
<1>2. SumOver(Holds, HeldOf) = SumOver(Holds, HeldOf')
  BY <1>1, SumCongruence
<1> QED BY <1>2 DEF Booked

\* Money moves between the owner and one hold.
LEMMA BooksMove ==
  ASSUME TypeOK, TypeOK', Booked, NEW h \in Holds,
         \A g \in Holds : g # h => hold'[g] = hold[g],
         balance' + Held(h)' = balance + Held(h)
  PROVE  Booked'
<1>1. \A g \in Holds : HeldOf[g] \in Nat /\ HeldOf'[g] \in Nat
  BY HeldType, HeldTypeNext DEF HeldNumbers
<1>2. \A g \in Holds \ {h} : HeldOf[g] = HeldOf'[g]
  BY DEF HeldOf, Held, Cost
<1>3. SumOver(Holds, HeldOf') = SumOver(Holds, HeldOf) - HeldOf[h] + HeldOf'[h]
  BY <1>1, <1>2, BillingFacts, SumUpdate
<1>4. /\ HeldOf[h] = Held(h) /\ HeldOf'[h] = Held(h)'
      /\ balance \in Nat /\ balance' \in Nat /\ SumOver(Holds, HeldOf) \in Nat
  BY HeldType, HeldTypeNext DEF HeldNumbers
<1> QED BY <1>1, <1>3, <1>4, BillingFacts DEF Booked

LEMMA BooksRelease ==
  ASSUME Solid, Solid', Booked, NEW h \in Holds \cup {NULL}, Release(h)
  PROVE  Booked'
<1>1. CASE h # NULL /\ hold[h].status = "active"
  <2>1. h \in Holds /\ balance \in Nat /\ TypeOK /\ TypeOK' /\ balance' = balance + Cost
    BY <1>1 DEF Solid, TypeOK, Release
  <2>2. hold'[h].status = "refunded" /\ \A g \in Holds : g # h => hold'[g] = hold[g]
    BY <1>1, <2>1, ReleaseType
  <2>3. Held(h) = Cost /\ Held(h)' = 0
    BY <1>1, <2>2 DEF Held
  <2>4. balance' + Held(h)' = balance + Held(h)
    BY <2>1, <2>3, BillingFacts
  <2> QED BY <2>1, <2>2, <2>4, BooksMove
<1>2. CASE ~(h # NULL /\ hold[h].status = "active")
  BY <1>2, BooksStand DEF Release
<1> QED BY <1>1, <1>2

\* The pieces of transactions.
LEMMA BooksRefund ==
  ASSUME Solid, Solid', Booked, NEW c \in Tranches, RefundRow(c) \/ RefundIfUnstarted(c)
  PROVE  Booked'
<1>1. row[c].hold \in Holds \cup {NULL}
  BY DEF Solid, TypeOK, Rows
<1>2. Release(row[c].hold) \/ UNCHANGED <<hold, balance>>
  BY DEF RefundRow, RefundIfUnstarted
<1> QED BY <1>1, <1>2, BooksRelease, BooksStand

LEMMA BooksFund ==
  ASSUME Solid, Solid', Booked, NEW t \in Reservers, Fund(t)
  PROVE  Booked'
<1>1. CASE balance >= Cost
  <2> DEFINE h == OwnHold(t)
  <2>1. /\ h \in Holds /\ h = <<t, task[t].next>> /\ hold[h].status = "none"
    <3>1. task[t].pc = "fund" /\ t \in Tasks
      BY BillingFacts DEF Fund, In
    <3>2. task[t].next \in Tranches /\ task[t].next >= task[t].next
      BY <3>1, HandType, TrancheNumbers
    <3>3. h = <<t, task[t].next>>
      BY <3>1 DEF Solid, Placed, OwnHold
    <3> QED BY <3>1, <3>2, <3>3 DEF Solid, Unfunded, Holds
  <2>2. balance' = balance - Cost /\ hold' = [hold EXCEPT ![h].status = "active"]
    BY <1>1 DEF Fund
  <2>3. hold \in [Holds -> HoldRows] /\ balance \in Nat /\ TypeOK /\ TypeOK'
    BY DEF Solid, TypeOK
  <2> HIDE DEF h
  <2>4. hold'[h].status = "active" /\ \A g \in Holds : g # h => hold'[g] = hold[g]
    BY <2>1, <2>2, <2>3 DEF HoldRows
  <2>5. PICK k \in Holds : k = h
    BY <2>1
  <2>6. Held(k) = 0 /\ Held(k)' = Cost
    BY <2>1, <2>4, <2>5 DEF Held, Cost
  <2>7. balance' + Held(k)' = balance + Held(k)
    BY <2>2, <2>3, <2>6, BillingFacts
  <2> QED BY <2>3, <2>4, <2>5, <2>7, BooksMove
<1>2. CASE ~(balance >= Cost)
  BY <1>2, BooksStand DEF Fund
<1> QED BY <1>1, <1>2

LEMMA BooksSettle ==
  ASSUME Solid, Solid', Booked, NEW t \in Callbacks, Settle(t)
  PROVE  Booked'
<1>0. task[t].next \in Tranches /\ t \in Tasks
  BY BillingFacts DEF Settle, AtSettle, In, Solid, Placed
<1> DEFINE h == row[task[t].next].hold
<1>1. CASE row[task[t].next].state = "provider_started" /\ h # NULL
  <2>1. /\ hold[h].status = "active" /\ balance' = balance + Cost - Rate * Used(t)
        /\ hold' = [hold EXCEPT ![h].status = "settled", ![h].captured = Rate * Used(t)]
    BY <1>1 DEF Settle
  <2>2. h \in Holds /\ TypeOK /\ TypeOK' /\ hold \in [Holds -> HoldRows] /\ balance \in Nat
    BY <1>0, <1>1, AttachedFacts DEF Solid, TypeOK
  <2>3. Rate * Used(t) \in Nat
    BY <1>0, UsedType, CapturedCost
  <2> HIDE DEF h
  <2> DEFINE n == Rate * Used(t)
  <2> HIDE DEF n
  <2>4. /\ hold'[h].status = "settled" /\ hold'[h].captured = n
        /\ \A g \in Holds : g # h => hold'[g] = hold[g]
    BY <2>1, <2>2 DEF HoldRows, n
  <2>5. PICK k \in Holds : k = h
    BY <2>2
  <2>6. Held(k) = Cost /\ Held(k)' = n
    BY <2>1, <2>4, <2>5 DEF Held
  <2>7. balance' = balance + Cost - n /\ n \in Nat
    BY <2>1, <2>3 DEF n
  <2>8. balance' + Held(k)' = balance + Held(k)
    BY <2>2, <2>6, <2>7, BillingFacts
  <2> QED BY <2>2, <2>4, <2>5, <2>8, BooksMove
<1>2. CASE ~(row[task[t].next].state = "provider_started" /\ h # NULL)
  <2>1. UNCHANGED <<hold, balance>>
    BY <1>2 DEF Settle
  <2> QED BY <2>1, BooksStand
<1> QED BY <1>1, <1>2

\* The sweep gives back every orphan at once.
LEMMA BooksSweep ==
  ASSUME Solid, Solid', Booked, Sweep
  PROVE  Booked'
<1>1. Orphans \in SUBSET Holds /\ TypeOK /\ TypeOK'
  BY DEF Orphans, Solid
<1>2. /\ \A h \in Holds : h \notin Orphans => hold'[h] = hold[h]
      /\ \A h \in Orphans : hold[h].status = "active" /\ hold'[h].status = "refunded"
  <2>1. \A h \in Holds : hold[h] \in HoldRows
    BY DEF Solid, TypeOK
  <2> QED BY <2>1 DEF Sweep, Orphans, HoldRows
<1>3. \A h \in Holds : HeldOf[h] \in Nat /\ HeldOf'[h] \in Nat
  BY <1>1, HeldType, HeldTypeNext DEF HeldNumbers
<1>4. \A h \in Orphans : HeldOf[h] = Cost /\ HeldOf'[h] = 0
  BY <1>1, <1>2 DEF HeldOf, Held
<1>5. \A h \in Holds \ Orphans : HeldOf[h] = HeldOf'[h]
  BY <1>2 DEF HeldOf, Held, Cost
<1>6. SumOver(Holds, HeldOf) = SumOver(Holds, HeldOf') + Cost * Cardinality(Orphans)
  BY <1>1, <1>3, <1>4, <1>5, BillingFacts, SumCleared
<1>7. balance' = balance + Cost * Cardinality(Orphans) /\ Cost * Cardinality(Orphans) \in Nat
  <2>1. Cardinality(Orphans) \in Nat
    BY <1>1, BillingFacts, FS_Subset, FS_CardinalityType
  <2> QED BY <2>1, BillingFacts DEF Sweep
<1>8. balance \in Nat /\ SumOver(Holds, HeldOf) \in Nat /\ SumOver(Holds, HeldOf') \in Nat
  BY <1>1, HeldType, HeldTypeNext DEF HeldNumbers
<1> DEFINE n == Cost * Cardinality(Orphans)
<1> HIDE DEF n
<1>9. SumOver(Holds, HeldOf) = SumOver(Holds, HeldOf') + n /\ balance' = balance + n /\ n \in Nat
  BY <1>6, <1>7 DEF n
<1>10. Funds = balance + SumOver(Holds, HeldOf)
  BY DEF Booked
<1>11. Funds' = balance' + SumOver(Holds, HeldOf)'
  BY <1>8, <1>9, <1>10
<1> QED BY <1>11 DEF Booked

LEMMA BooksDropHold ==
  ASSUME Solid, Solid', Booked, NEW t \in Reservers, DropHold(t)
  PROVE  Booked'
<1>1. OwnHold(t) \in Holds \cup {NULL}
  <2>1. task[t].next \in Tranches
    BY HandType, BillingFacts DEF DropHold
  <2> QED BY <2>1 DEF OwnHold, Holds
<1> QED BY <1>1, BooksRelease DEF DropHold

LEMMA BooksClaim ==
  ASSUME Solid, Booked, NEW t \in Tasks, Claim(t)
  PROVE  Booked'
<1> DEFINE h == row[task[t].next].hold
<1>1. hold \in [Holds -> HoldRows] /\ balance' = balance
  BY DEF Solid, TypeOK, Claim
<1>2. hold' = hold \/ hold' = [hold EXCEPT ![h].started = TRUE]
  BY DEF Claim
<1>3. \A g \in Holds : hold'[g].status = hold[g].status /\ hold'[g].captured = hold[g].captured
  BY <1>1, <1>2 DEF HoldRows
<1> QED BY <1>1, <1>3, BooksStand

LEMMA BooksWork ==
  ASSUME Solid, Solid', Booked, Work
  PROVE  Booked'
<1>0. (\A t \in Tasks : task[t] \in TaskStates) /\ recovery \in RecoveryStates
  BY DEF Solid, TypeOK
<1>1. ASSUME NEW t \in Reservers, Reserve(t) \/ Undo(t) \/ Surface(t) PROVE Booked'
  <2>1. CASE Look(t) \/ Insert(t)
    BY <2>1, BooksStand DEF Look, Insert
  <2>2. CASE Fund(t)
    BY <2>2, BooksFund
  <2>3. CASE DropHold(t)
    BY <2>3, BooksDropHold
  <2>4. CASE Undo(t)
    <3>1. PICK c \in task[t].made : RefundIfUnstarted(c)
      BY <2>4 DEF Undo
    <3>2. c \in Tranches
      BY <1>0, BillingFacts DEF TaskStates
    <3> QED BY <3>1, <3>2, BooksRefund
  <2>5. CASE Surface(t)
    BY <2>5, BooksStand DEF Surface, MarkAmbiguous
  <2> QED BY <1>1, <2>1, <2>2, <2>3, <2>4, <2>5 DEF Reserve
<1>2. ASSUME NEW t \in Dispatchers, Dial(t) PROVE Booked'
  <2>1. CASE GiveBack(t)
    <3>1. PICK c \in task[t].got : RefundRow(c) \/ MarkAmbiguous(c) \/ UNCHANGED Database
      BY <2>1 DEF GiveBack
    <3>2. c \in Tranches
      BY <1>0, BillingFacts DEF TaskStates
    <3> QED BY <3>1, <3>2, BooksRefund, BooksStand DEF MarkAmbiguous, Database
  <2>2. CASE ~GiveBack(t)
    <3>1. UNCHANGED <<hold, balance>>
      BY <1>2, <2>2 DEF Dial, Cross, Post, FailCall
    <3> QED BY <3>1, BooksStand
  <2> QED BY <2>1, <2>2
<1>3. ASSUME NEW t \in Callbacks, Callback(t) PROVE Booked'
  <2>1. CASE Settle(t)
    BY <2>1, BooksSettle
  <2>2. CASE RefundUnused(t)
    <3>1. /\ task[t].next \in Tranches
          /\ RefundRow(task[t].next) \/ UNCHANGED Database
      BY <2>2 DEF RefundUnused
    <3> QED BY <3>1, BooksRefund, BooksStand DEF Database
  <2>3. CASE ~Settle(t) /\ ~RefundUnused(t)
    <3>1. UNCHANGED <<hold, balance>>
      BY <1>3, <2>3 DEF Callback, Deliver, ReadRows, SkipRow, Absorb
    <3> QED BY <3>1, BooksStand
  <2> QED BY <2>1, <2>2, <2>3
<1>4. ASSUME NEW t \in Tasks, Boundary(t) PROVE Booked'
  <2>1. CASE Claim(t)
    BY <2>1, BooksClaim
  <2>2. CASE ~Claim(t)
    <3>1. UNCHANGED <<hold, balance>>
      BY <1>4, <2>2 DEF Boundary, MarkStarted, Reconcile, Check, Update
    <3> QED BY <3>1, BooksStand
  <2> QED BY <2>1, <2>2
<1>5. ASSUME Recover PROVE Booked'
  <2>1. CASE Sweep
    BY <2>1, BooksSweep
  <2>2. CASE ReadStale
    BY <2>2, BooksStand DEF ReadStale
  <2>3. CASE RecoverRow
    <3>1. PICK c \in recovery.refund \cup recovery.surface :
            RefundRow(c) \/ MarkAmbiguous(c) \/ UNCHANGED Database
      BY <2>3 DEF RecoverRow
    <3>2. c \in Tranches
      BY <1>0 DEF RecoveryStates
    <3> QED BY <3>1, <3>2, BooksRefund, BooksStand DEF MarkAmbiguous, Database
  <2> QED BY <1>5, <2>1, <2>2, <2>3 DEF Recover
<1> QED BY <1>1, <1>2, <1>3, <1>4, <1>5 DEF Work

LEMMA InitBooked == Init => Booked
<1> SUFFICES ASSUME Init PROVE Booked
  OBVIOUS
<1>1. \A h \in Holds : HeldOf[h] = 0
  BY DEF Init, HeldOf, Held
<1>2. SumOver(Holds, HeldOf) = 0
  BY <1>1, SumZero
<1> QED BY <1>2, BillingFacts DEF Booked, Init

LEMMA NextBooked == Solid /\ Booked /\ Solid' /\ [Next]_vars => Booked'
<1> SUFFICES ASSUME Solid, Booked, Solid', [Next]_vars PROVE Booked'
  OBVIOUS
<1>1. CASE Work
  BY <1>1, BooksWork
<1>2. ASSUME NEW h \in Holds, HoldAges(h) PROVE Booked'
  <2>1. hold \in [Holds -> HoldRows] /\ hold' = [hold EXCEPT ![h].old = TRUE] /\ balance' = balance
    BY <1>2 DEF HoldAges, Solid, TypeOK
  <2>2. \A g \in Holds : hold'[g].status = hold[g].status /\ hold'[g].captured = hold[g].captured
    BY <2>1 DEF HoldRows
  <2> QED BY <2>1, <2>2, BooksStand
<1>3. CASE UNCHANGED <<hold, balance>>
  BY <1>3, BooksStand
<1>4. UNCHANGED vars => UNCHANGED <<hold, balance>>
  BY DEF vars
<1> QED BY <1>1, <1>2, <1>3, <1>4 DEF Next, TimePasses, RowAges, Crash, RecoveryCrash

\* The owner's money is available, held or captured for minutes, whatever
\* task died, lost a conflict or was refused.
THEOREM BillingBooksBalance == Spec => []BooksBalance
<1>1. Spec => []Booked
  <2>1. Solid /\ Booked /\ [Next]_vars /\ Solid' => Booked'
    BY NextBooked
  <2> QED BY <2>1, InitBooked, BillingInvariant, PTL DEF Spec
<1>2. TypeOK /\ Booked => BooksBalance
  <2> SUFFICES ASSUME TypeOK, Booked PROVE BooksBalance
    OBVIOUS
  <2> DEFINE taken == [h \in Holds |-> Ledger!Taken(h, "owner")]
  <2>1. \A h \in Holds : taken[h] = HeldOf[h]
    BY DEF Ledger!Taken, HeldOf, Held
  <2>2. taken = HeldOf
    BY <2>1 DEF HeldOf
  <2>3. \A S : Ledger!Cardinality(S) = Cardinality(S)
    BY Zenon DEF Ledger!Cardinality, Cardinality
  <2>4. Ledger!SumOver(Holds, taken) = SumOver(Holds, HeldOf)
    BY <2>2, <2>3 DEF Ledger!SumOver, SumOver, Ledger!Units, Units
  <2>5. Ledger!TakenFrom("owner") = SumOver(Holds, HeldOf)
    BY <2>4 DEF Ledger!TakenFrom
  <2> QED BY <2>5 DEF BooksBalance, Ledger!BooksBalance, Booked
<1>3. Solid => TypeOK
  BY DEF Solid
<1> QED BY <1>1, <1>2, <1>3, BillingInvariant, PTL

----------------------------------------------------------------------------
(* The minutes: sums over the first tranches *)

\* What a step that settles nothing leaves alone.
Frozen ==
  /\ \A c \in Tranches : row'[c].quantity = row[c].quantity
                         /\ (row'[c].state = "settled" <=> row[c].state = "settled")
  /\ call.duration # NULL =>
       \A c \in Tranches : row[c].state \in Closed => row'[c].state = row[c].state
  /\ \A h \in Holds : hold'[h].captured = hold[h].captured
  /\ call'.duration = call.duration /\ call'.absorbed = call.absorbed
  /\ call.ended => call'.ended
  /\ \/ call' = Totalled(call, row')
     \/ call'.final = call.final /\ (AllClosed(row') <=> AllClosed(row))

LEMMA MinutesType ==
  ASSUME TypeOK
  PROVE  /\ \A c \in Tranches : Minutes[c] = row[c].quantity /\ Minutes[c] \in Nat
         /\ \A n : Before(n) \in Nat
         /\ Whole \in Nat
<1>1. \A c \in Tranches : Minutes[c] = row[c].quantity /\ Minutes[c] \in Nat
  <2>1. \A c \in Tranches : row[c].quantity \in 0..TrancheUnits
    BY DEF TypeOK, Rows
  <2> QED BY <2>1, BillingFacts DEF Minutes
<1>2. ASSUME NEW S \in SUBSET Tranches PROVE SumOver(S, Minutes) \in Nat
  <2>1. IsFiniteSet(S)
    BY BillingFacts, FS_Subset
  <2> QED BY <1>1, <2>1, SumType
<1> QED BY <1>1, <1>2 DEF Before, Whole

\* Before the first tranche there is nothing.
LEMMA BeforeFirst == Before(1) = 0
<1>1. {d \in Tranches : d < 1} = {}
  BY TrancheNumbers
<1>2. SumOver({}, Minutes) = 0
  BY SumZero
<1> QED BY <1>1, <1>2 DEF Before

\* The next tranche adds its quantity.
LEMMA BeforeNext ==
  ASSUME TypeOK, NEW c \in Tranches
  PROVE  Before(c + 1) = Before(c) + row[c].quantity
<1> DEFINE S == {d \in Tranches : d < c + 1}
<1>1. c \in S /\ S \ {c} = {d \in Tranches : d < c}
  BY TrancheNumbers
<1>2. IsFiniteSet(S)
  BY BillingFacts, FS_Subset
<1>3. \A x \in S : Minutes[x] \in Nat
  BY MinutesType
<1>4. SumOver(S, Minutes) = Minutes[c] + SumOver(S \ {c}, Minutes)
  BY <1>1, <1>2, <1>3, SumSplit
<1>5. Before(c + 1) = Minutes[c] + Before(c)
  BY <1>1, <1>4 DEF Before
<1>6. Minutes[c] = row[c].quantity /\ Minutes[c] \in Nat /\ Before(c) \in Nat
  BY MinutesType
<1> QED BY <1>5, <1>6

\* Past the last tranche there is all of it.
LEMMA BeforeLast ==
  ASSUME NEW n \in Nat, 1 <= n, n \notin Tranches
  PROVE  Before(n) = Whole /\ \A c \in Tranches : c < n
<1>1. \A c \in Tranches : c \in Nat /\ (n <= c => n \in Tranches)
  BY TrancheFacts
<1>2. \A c \in Tranches : c < n
  BY <1>1
<1>3. {d \in Tranches : d < n} = Tranches
  BY <1>2
<1> QED BY <1>2, <1>3 DEF Before, Whole

\* If no tranche from c on has been charged, what is before c is all of it.
LEMMA BeforeOpen ==
  ASSUME TypeOK, NEW c \in Tranches,
         \A d \in Tranches : c <= d => row[d].quantity = 0
  PROVE  Whole = Before(c)
<1> DEFINE S == {d \in Tranches : d < c}
<1>1. \A d \in Tranches : d \notin S => Minutes[d] = 0
  BY TrancheNumbers DEF Minutes
<1>2. Units(Tranches, Minutes) = Units(S, Minutes)
  <2>1. ASSUME NEW u \in Units(Tranches, Minutes) PROVE u \in Units(S, Minutes)
    <3>1. PICK x \in Tranches : u \in {x} \X (1..Minutes[x])
      BY DEF Units
    <3>2. CASE x \in S
      BY <3>1, <3>2 DEF Units
    <3>3. CASE x \notin S
      <4>1. u[2] \in 1..0
        BY <1>1, <3>1, <3>3
      <4> QED BY <4>1
    <3> QED BY <3>2, <3>3
  <2>2. Units(S, Minutes) \subseteq Units(Tranches, Minutes)
    BY DEF Units
  <2> QED BY <2>1, <2>2
<1> QED BY <1>2 DEF Whole, Before, SumOver

\* Only settled rows are charged for.
LEMMA ChargeMinutes ==
  ASSUME Solid, \A c \in Tranches : row'[c].quantity = row[c].quantity
                                    /\ (row'[c].state = "settled" <=> row[c].state = "settled")
  PROVE  /\ Charged(row') = Charged(row)
         /\ \A n : Before(n)' = Before(n)
         /\ Whole' = Whole /\ Minutes' = Minutes
<1>1. \A c \in Tranches : Charge(row'[c]) = Charge(row[c])
  BY DEF Charge
<1>2. [c \in Tranches |-> Charge(row'[c])] = [c \in Tranches |-> Charge(row[c])]
  BY <1>1
<1>3. Minutes' = Minutes
  BY DEF Minutes
<1> QED BY <1>2, <1>3 DEF Charged, Before, Whole

----------------------------------------------------------------------------
(* A step that settles nothing *)

LEMMA CapturedSame ==
  ASSUME \A h \in Holds : hold'[h].captured = hold[h].captured
  PROVE  Captured' = Captured
<1>1. [h \in Holds |-> hold'[h].captured] = [h \in Holds |-> hold[h].captured]
  OBVIOUS
<1> QED BY <1>1 DEF Captured

LEMMA FrozenPaid ==
  ASSUME Solid, Solid', Paying, Frozen
  PROVE  (\A c \in Tranches : Paid(c)') /\ Counted' /\ Totals'
<1>0. /\ call \in Calls /\ call' \in Calls
      /\ row \in [Tranches -> Rows] /\ row' \in [Tranches -> Rows]
  BY DEF Solid, TypeOK
<1>1. /\ Charged(row') = Charged(row) /\ Whole' = Whole /\ \A n : Before(n)' = Before(n)
  BY ChargeMinutes DEF Frozen
<1>2. call.duration # NULL /\ AllClosed(row) => AllClosed(row')
  <2>1. ASSUME call.duration # NULL, AllClosed(row), NEW c \in Tranches
        PROVE  row'[c].state \notin Open
    <3>1. row[c].state \in Closed
      BY <1>0, <2>1 DEF Rows, RowStates, AllClosed, Closed
    <3> QED BY <2>1, <3>1 DEF Frozen, AllClosed
  <2> QED BY <2>1 DEF AllClosed
<1>3. ASSUME NEW c \in Tranches PROVE Paid(c)'
  <2>1. Paid(c) /\ call'.duration = call.duration /\ row'[c].quantity = row[c].quantity
        /\ (row'[c].state = "settled" <=> row[c].state = "settled")
    BY DEF Paying, Frozen
  <2>2. row[c].state = "settled" => \A d \in Tranches : d < c => row'[d].state \in Closed
    BY <2>1 DEF Paid, Frozen
  <2>3. Before(c)' = Before(c)
    BY <1>1
  <2> QED BY <2>1, <2>2, <2>3 DEF Paid
<1>4. Counted'
  BY <1>1, <1>2 DEF Paying, Counted, Frozen
<1>5. (Captured = Charged(row))'
  BY <1>1, CapturedSame DEF Paying, Totals, Frozen
<1>6. ASSUME call' = Totalled(call, row') PROVE Totals'
  <2>1. call'.final = IF call.ended /\ AllClosed(row') THEN Charged(row') ELSE NULL
    BY <1>0, <1>6, TotalledType
  <2>2. Charged(row') # NULL
    BY <1>0, ChargedType, BillingFacts
  <2>3. (\E c \in Tranches : row'[c].state = "settled") => call.ended
    BY DEF Paying, Paid, Counted, Frozen
  <2>4. call.ended => call'.ended
    BY DEF Frozen
  <2>5. (AllClosed(row) /\ (\E c \in Tranches : row[c].state = "settled") => call.final # NULL)'
    BY <2>1, <2>2, <2>3
  <2>6. (call.final # NULL => call.ended /\ AllClosed(row) /\ call.final = Charged(row))'
    BY <2>1, <2>4
  <2> QED BY <1>5, <2>5, <2>6 DEF Totals
<1>7. ASSUME call'.final = call.final, AllClosed(row') <=> AllClosed(row) PROVE Totals'
  <2>1. (\E c \in Tranches : row'[c].state = "settled") => \E c \in Tranches : row[c].state = "settled"
    BY DEF Frozen
  <2>2. call.ended => call'.ended
    BY DEF Frozen
  <2>3. (AllClosed(row) /\ (\E c \in Tranches : row[c].state = "settled") => call.final # NULL)'
    BY <1>7, <2>1 DEF Paying, Totals
  <2>4. (call.final # NULL => call.ended /\ AllClosed(row) /\ call.final = Charged(row))'
    BY <1>1, <1>7, <2>2 DEF Paying, Totals
  <2> QED BY <1>5, <2>3, <2>4 DEF Totals
<1>8. Totals'
  BY <1>6, <1>7 DEF Frozen
<1> QED BY <1>3, <1>4, <1>8

\* What a callback believes of the minutes, in the state after the step.
LEMMA FrozenPassing ==
  ASSUME Solid, Paying, Frozen, NEW t \in Callbacks, task'[t] = task[t]
  PROVE  Passing(t)'
<1>0. t \in Tasks /\ Passing(t) /\ task[t] \in TaskStates /\ row \in [Tranches -> Rows] /\ Placed(t)
  BY BillingFacts DEF Solid, TypeOK, Paying
<1>1. CASE task[t].pc = "idle"
  BY <1>1 DEF Passing, CallbackSteps, StartSteps
<1>2. CASE task[t].pc # "idle"
  <2>1. call.duration # NULL
    BY <1>0, <1>2 DEF Placed
  <2>2. \A c \in Tranches : row[c].state \in Closed =>
          row'[c].state = row[c].state /\ row'[c].quantity = row[c].quantity
    BY <2>1 DEF Frozen
  <2>3. Whole' = Whole /\ (\A n : Before(n)' = Before(n)) /\ call'.duration = call.duration
        /\ call'.absorbed = call.absorbed /\ Minutes' = Minutes
    BY ChargeMinutes DEF Frozen
  <2>4. Before(task[t].next)' = Before(task[t].next)
    BY <2>3 DEF Before
  <2>5. AllClosed(row) => AllClosed(row')
    <3>1. ASSUME AllClosed(row), NEW c \in Tranches PROVE row'[c].state \notin Open
      <4>1. row[c].state \in Closed
        BY <1>0, <3>1 DEF Rows, RowStates, AllClosed, Closed
      <4> QED BY <2>2, <3>1, <4>1 DEF AllClosed
    <3> QED BY <3>1 DEF AllClosed
  <2>6. (task[t].pc = "done" => AllClosed(row) /\ Whole + call.absorbed = call.duration)'
    BY <1>0, <2>3, <2>5 DEF Passing
  <2>7. task[t].pc \notin {"idle", "done", "recorded"} =>
          /\ \A d \in Tranches : d < task[t].next => row'[d].state \in Closed
          /\ Before(task[t].next) + task[t].left = call.duration
          /\ \A c \in Tranches : c >= task[t].next /\ task[t].seen[c].state \in Closed =>
               row'[c].state = task[t].seen[c].state /\ row'[c].quantity = task[t].seen[c].quantity
    BY <1>0, <2>2 DEF Passing
  <2>8. task[t].pc \in StartSteps \cup {"settle"} => task[t].left > 0
    BY <1>0 DEF Passing
  <2> QED BY <2>3, <2>4, <2>6, <2>7, <2>8 DEF Passing
<1> QED BY <1>1, <1>2

\* A step that settles nothing keeps the books of the minutes if the callback
\* that makes it, if any, is right again.
LEMMA FrozenStep ==
  ASSUME Solid, Solid', Paying, Frozen,
         \A t \in Callbacks : task'[t] = task[t] \/ Passing(t)'
  PROVE  Paying'
BY FrozenPaid, FrozenPassing DEF Paying

----------------------------------------------------------------------------
(* Which pieces of transactions settle nothing *)

\* A call with a duration has ended.
LEMMA CallEnds ==
  ASSUME Paying, call.duration # NULL
  PROVE  call.ended
BY DEF Paying, Counted

LEMMA FrozenSame ==
  ASSUME row' = row, \A h \in Holds : hold'[h].captured = hold[h].captured,
         call' \in {call, Totalled(call, row')},
         Solid
  PROVE  Frozen
<1>1. call'.duration = call.duration /\ call'.absorbed = call.absorbed /\ call'.ended = call.ended
  BY TotalledType DEF Solid, TypeOK
<1> QED BY <1>1 DEF Frozen

LEMMA FrozenCall ==
  ASSUME row' = row, hold' = hold, call'.duration = call.duration, call'.absorbed = call.absorbed,
         call.ended => call'.ended, call'.final = call.final
  PROVE  Frozen
BY DEF Frozen

\* One row written that is not settled, neither before nor after.
LEMMA FrozenWrite ==
  ASSUME Solid, Paying, NEW c \in Tranches, row[c].state # "settled",
         row[c].state \in Closed => call.duration = NULL,
         NEW s \in RowStates \ {"settled"}, Write(c, s, 0),
         \A h \in Holds : hold'[h].captured = hold[h].captured
  PROVE  Frozen
<1>1. /\ row' \in [Tranches -> Rows] /\ \A d \in Tranches : d # c => row'[d] = row[d]
      /\ row'[c].state = s /\ row'[c].quantity = 0
  BY WriteType, BillingFacts
<1>2. row[c].quantity = 0
  BY DEF Paying, Paid
<1>3. call' = Totalled(call, row') /\ call \in Calls
  BY DEF Write, Solid, TypeOK
<1>4. call'.duration = call.duration /\ call'.absorbed = call.absorbed /\ call'.ended = call.ended
  BY <1>1, <1>3, TotalledType
<1> QED BY <1>1, <1>2, <1>3, <1>4 DEF Frozen

\* Giving a hold back captures nothing.
LEMMA FrozenRelease ==
  ASSUME Solid, NEW h \in Holds \cup {NULL}, Release(h)
  PROVE  \A g \in Holds : hold'[g].captured = hold[g].captured
<1>1. ASSUME NEW g \in Holds PROVE hold'[g].captured = hold[g].captured
  <2>1. CASE g = h
    BY <2>1, ReleaseType, BillingFacts
  <2>2. CASE g # h
    BY <2>2, ReleaseType
  <2> QED BY <2>1, <2>2
<1> QED BY <1>1

LEMMA FrozenRefund ==
  ASSUME Solid, Paying, NEW c \in Tranches,
         \/ RefundRow(c) /\ Refundable(c) /\ row[c].state # "none"
         \/ RefundIfUnstarted(c)
  PROVE  Frozen
<1>1. CASE UNCHANGED <<row, call, hold, balance>>
  BY <1>1, FrozenSame
<1>2. CASE Write(c, "refunded", 0) /\ Release(row[c].hold) /\ row[c].state \notin {"none", "settled", "refunded"}
  <2>1. row[c].hold \in Holds \cup {NULL} /\ row[c].state \notin Closed
    BY <1>2 DEF Solid, TypeOK, Rows, Closed
  <2>2. "refunded" \in RowStates \ {"settled"}
    BY DEF RowStates
  <2> QED BY <1>2, <2>1, <2>2, FrozenRelease, FrozenWrite
<1>3. ASSUME RefundIfUnstarted(c) PROVE Frozen
  <2>1. CASE row[c].state = "reserved" /\ ~(row[c].hold # NULL /\ hold[row[c].hold].started)
    <3>1. Write(c, "refunded", 0) /\ Release(row[c].hold)
      BY <1>3, <2>1 DEF RefundIfUnstarted
    <3> QED BY <1>2, <2>1, <3>1
  <2>2. CASE ~(row[c].state = "reserved" /\ ~(row[c].hold # NULL /\ hold[row[c].hold].started))
    <3>1. UNCHANGED <<row, call, hold, balance>>
      BY <1>3, <2>2 DEF RefundIfUnstarted
    <3> QED BY <1>1, <3>1
  <2> QED BY <2>1, <2>2
<1>4. ASSUME RefundRow(c), Refundable(c), row[c].state # "none" PROVE Frozen
  <2>1. CASE row[c].state = "refunded"
    <3>1. UNCHANGED <<row, call, hold, balance>>
      BY <1>4, <2>1 DEF RefundRow
    <3> QED BY <1>1, <3>1
  <2>2. CASE row[c].state # "refunded"
    <3>1. Write(c, "refunded", 0) /\ Release(row[c].hold) /\ row[c].state # "settled"
      BY <1>4, <2>2 DEF RefundRow, Refundable
    <3> QED BY <1>2, <1>4, <2>2, <3>1
  <2> QED BY <2>1, <2>2
<1> QED BY <1>3, <1>4

\* A row that goes from an open state to an open one.
LEMMA FrozenOpen ==
  ASSUME Solid, NEW c \in Tranches, row[c].state \in Open, NEW s \in Open,
         row' = [row EXCEPT ![c].state = s, ![c].old = FALSE], hold' = hold,
         call' \in {call, Totalled(call, row')}
  PROVE  Frozen
<1>1. row \in [Tranches -> Rows] /\ call \in Calls
  BY DEF Solid, TypeOK
<1>2. /\ \A d \in Tranches : d # c => row'[d] = row[d]
      /\ row'[c].state = s /\ row'[c].quantity = row[c].quantity
  BY <1>1 DEF Rows
<1>3. row' \in [Tranches -> Rows]
  BY <1>1 DEF Rows, RowStates
<1>4. call'.duration = call.duration /\ call'.absorbed = call.absorbed /\ call'.ended = call.ended
  <2>1. CASE call' = call
    BY <2>1
  <2>2. CASE call' = Totalled(call, row')
    BY <1>1, <1>3, <2>2, TotalledType
  <2> QED BY <2>1, <2>2
<1>5. s \notin Closed /\ row[c].state \notin Closed /\ s # "settled" /\ row[c].state # "settled"
  BY DEF Open, Closed
<1>6. ~AllClosed(row') /\ ~AllClosed(row)
  BY <1>2 DEF AllClosed
<1> QED BY <1>2, <1>4, <1>5, <1>6 DEF Frozen

LEMMA FrozenMarkAmbiguous ==
  ASSUME Solid, NEW c \in Tranches, MarkAmbiguous(c)
  PROVE  Frozen
<1>1. CASE row[c].state \in {"reserved", "provider_started"}
  <2>1. /\ row' = [row EXCEPT ![c].state = "needs_attention", ![c].old = FALSE]
        /\ call' = Totalled(call, row') /\ hold' = hold
    BY <1>1 DEF MarkAmbiguous
  <2>2. row[c].state \in Open /\ "needs_attention" \in Open
    BY <1>1 DEF Open
  <2> QED BY <2>1, <2>2, FrozenOpen
<1>2. CASE row[c].state \notin {"reserved", "provider_started"}
  BY <1>2, FrozenSame DEF MarkAmbiguous
<1> QED BY <1>1, <1>2

----------------------------------------------------------------------------
(* What a callback does with its reading *)

LEMMA PassingFresh ==
  ASSUME NEW t \in Callbacks, task'[t] = Fresh
  PROVE  Passing(t)'
BY FreshType DEF Passing, StartSteps

\* A callback that goes through mark_provider_started for a row it uses.
LEMMA PassingStart ==
  ASSUME Solid, Paying, Frozen, NEW t \in Callbacks, task[t].pc \notin {"idle", "done", "recorded"},
         task[t].left > 0, task'[t].pc \in StartSteps \cup {"settle"},
         task'[t].next = task[t].next, task'[t].left = task[t].left, task'[t].seen = task[t].seen
  PROVE  Passing(t)'
<1>0. t \in Tasks /\ Passing(t) /\ Placed(t) /\ call.duration # NULL
  BY BillingFacts DEF Solid, Paying, Placed
<1>1. \A c \in Tranches : row[c].state \in Closed =>
        row'[c].state = row[c].state /\ row'[c].quantity = row[c].quantity
  BY <1>0 DEF Frozen
<1>2. call'.duration = call.duration /\ Minutes' = Minutes
  BY ChargeMinutes DEF Frozen
<1>3. Before(task[t].next)' = Before(task[t].next)
  BY <1>2 DEF Before
<1>4. /\ \A d \in Tranches : d < task[t].next => row'[d].state \in Closed
      /\ Before(task[t].next) + task[t].left = call.duration
      /\ \A c \in Tranches : c >= task[t].next /\ task[t].seen[c].state \in Closed =>
           row'[c].state = task[t].seen[c].state /\ row'[c].quantity = task[t].seen[c].quantity
  BY <1>0, <1>1 DEF Passing
<1>5. task'[t].pc # "done"
  BY DEF StartSteps
<1> QED BY <1>2, <1>3, <1>4, <1>5 DEF Passing

BeforeNumbers ==
  /\ \A c \in Tranches : Before(c + 1) = Before(c) + row[c].quantity
  /\ \A n : Before(n) \in Nat

LEMMA BeforeFacts == TypeOK => BeforeNumbers
BY BeforeNext, MinutesType DEF BeforeNumbers

LEMMA BeforeFactsNext == TypeOK' => BeforeNumbers'
BY BeforeFacts, PTL

\* A callback that is done with a row of quantity n.
LEMMA PassingNext ==
  ASSUME Solid, Solid', NEW t \in Callbacks, NEW c \in Tranches, c = task[t].next, NEW n \in Nat,
         task'[t] = Allocated(t, n), n <= task[t].left,
         call'.duration = call.duration,
         \A d \in Tranches : d <= c => row'[d].state \in Closed,
         Before(c)' + task[t].left = call.duration,
         row'[c].quantity = n,
         \A d \in Tranches : d > c /\ task[t].seen[d].state \in Closed =>
           row'[d].state = task[t].seen[d].state /\ row'[d].quantity = task[t].seen[d].quantity
  PROVE  Passing(t)'
<1>0. t \in Tasks /\ task \in [Tasks -> TaskStates] /\ c \in Nat /\ TypeOK'
  BY BillingFacts, TrancheNumbers DEF Solid, TypeOK
<1> DEFINE s == Allocated(t, n)
<1>1. /\ s.pc = "rows" /\ s.next = c + 1 /\ s.left = Less(task[t].left, n)
      /\ \A d \in Tranches : d # c => s.seen[d] = task[t].seen[d]
  BY <1>0, AllocatedType
<1> HIDE DEF s
<1>2. task'[t] = s
  BY DEF s
<1>3. s.left = task[t].left - n
  <2>1. task[t].left \in Nat
    BY <1>0 DEF TaskStates
  <2> QED BY <1>1, <2>1 DEF Less
<1>4. Before(c + 1)' = Before(c)' + n /\ Before(c)' \in Nat
  BY <1>0, BeforeFactsNext DEF BeforeNumbers
<1>5. Before(c + 1)' + s.left = call.duration
  <2>1. task[t].left \in Nat
    BY <1>0 DEF TaskStates
  <2> QED BY <1>3, <1>4, <2>1
<1>6. Before(task[t].next)' = Before(c + 1)'
  BY <1>1, <1>2 DEF Before
<1>7. \A d \in Tranches : d < c + 1 => row'[d].state \in Closed
  BY <1>0, TrancheNumbers
<1>8. \A d \in Tranches : d >= c + 1 => d > c /\ d # c
  BY <1>0, TrancheNumbers
<1>9. \A d \in Tranches : d >= c + 1 /\ s.seen[d].state \in Closed =>
        row'[d].state = s.seen[d].state /\ row'[d].quantity = s.seen[d].quantity
  BY <1>1, <1>8
<1> QED BY <1>1, <1>2, <1>5, <1>6, <1>7, <1>9 DEF Passing, StartSteps

----------------------------------------------------------------------------
(* A settlement *)

\* What the callback that settles row c knows.
LEMMA SettleFacts ==
  ASSUME Solid, Paying, NEW t \in Callbacks, AtSettle(t), NEW c \in Tranches, c = task[t].next
  PROVE  /\ task[t].left \in Nat /\ task[t].left > 0
         /\ Used(t) = Lesser(task[t].left, TrancheUnits)
         /\ Used(t) \in Nat /\ 0 < Used(t) /\ Used(t) <= task[t].left
         /\ \A d \in Tranches : d < c => row[d].state \in Closed
         /\ Before(c) + task[t].left = call.duration /\ Before(c) \in Nat
         /\ call.duration # NULL /\ call.duration \in Nat /\ call.ended
         /\ \A d \in Tranches : d >= c /\ task[t].seen[d].state \in Closed =>
              row[d].state = task[t].seen[d].state /\ row[d].quantity = task[t].seen[d].quantity
<1>1. t \in Tasks /\ Passing(t) /\ Placed(t) /\ task[t].pc \in {"settle", "rows"}
      /\ call \in Calls
  BY BillingFacts DEF Solid, TypeOK, Paying, AtSettle, In
<1>2. task[t].left \in Nat
  BY <1>1 DEF Solid, TypeOK, TaskStates
<1>3. task[t].left > 0
  <2>1. CASE task[t].pc = "settle"
    BY <1>1, <2>1 DEF Passing
  <2>2. CASE task[t].pc = "rows"
    BY <1>2, <2>2, BillingFacts DEF AtSettle, In, Used
  <2> QED BY <1>1, <2>1, <2>2
<1>4. /\ Used(t) = Lesser(task[t].left, TrancheUnits)
      /\ Used(t) \in Nat /\ 0 < Used(t) /\ Used(t) <= task[t].left
  BY <1>2, <1>3, BillingFacts DEF Used, Lesser
<1>5. call.duration # NULL
  BY <1>1 DEF Placed
<1>6. call.duration \in Nat /\ call.ended
  BY <1>1, <1>5, BillingFacts, CallEnds DEF Calls
<1>7. Before(c) \in Nat
  BY MinutesType DEF Solid
<1> QED BY <1>1, <1>2, <1>3, <1>4, <1>5, <1>6, <1>7 DEF Passing

LEMMA SettlePays ==
  ASSUME Rate > 0, Solid, Solid', Paying, NEW t \in Callbacks, Settle(t),
         NEW c \in Tranches, c = task[t].next, row[c].state = "provider_started"
  PROVE  Paying'
<1> DEFINE h == row[c].hold
           n == Used(t)
           left == task[t].left
<1>0. AtSettle(t) /\ t \in Tasks /\ task \in [Tasks -> TaskStates]
  BY BillingFacts DEF Settle, Solid, TypeOK
<1>1. /\ left \in Nat /\ left > 0 /\ n = Lesser(left, TrancheUnits)
      /\ n \in Nat /\ 0 < n /\ n <= left
      /\ \A d \in Tranches : d < c => row[d].state \in Closed
      /\ Before(c) + left = call.duration /\ Before(c) \in Nat
      /\ call.duration # NULL /\ call.duration \in Nat /\ call.ended
      /\ \A d \in Tranches : d >= c /\ task[t].seen[d].state \in Closed =>
           row[d].state = task[t].seen[d].state /\ row[d].quantity = task[t].seen[d].quantity
  BY <1>0, SettleFacts
<1>2. /\ h # NULL => hold[h].status = "active"
      /\ Write(c, "settled", n)
      /\ IF h = NULL THEN UNCHANGED <<hold, balance>>
         ELSE hold' = [hold EXCEPT ![h].status = "settled", ![h].captured = Rate * n]
      /\ Becomes(t, Allocated(t, n))
  BY DEF Settle
<1>3. n \in 0..TrancheUnits /\ Rate * n \in Nat
  BY <1>0, UsedType, CapturedCost
<1>4. h \in Holds /\ h # NULL /\ hold[h].captured = 0 /\ hold \in [Holds -> HoldRows]
  <2>1. h # NULL
    BY DEF Solid, RowOk
  <2>2. h \in Holds
    BY <2>1, AttachedFacts
  <2> QED BY <1>2, <2>1, <2>2 DEF Solid, TypeOK, HoldOk
<1> HIDE DEF n, h, left
<1>5. /\ row' \in [Tranches -> Rows] /\ call' \in Calls
      /\ \A d \in Tranches : d # c => row'[d] = row[d]
      /\ row'[c].state = "settled" /\ row'[c].quantity = n
  BY <1>2, <1>3, WriteType DEF RowStates
<1>6. /\ call'.duration = call.duration /\ call'.ended = call.ended /\ call'.absorbed = call.absorbed
      /\ call'.final = IF call.ended /\ AllClosed(row') THEN Charged(row') ELSE NULL
  <2>1. call' = Totalled(call, row') /\ call \in Calls
    BY <1>2 DEF Write, Solid, TypeOK
  <2>2. row' \in [Tranches -> Rows]
    BY <1>5
  <2>3. /\ Totalled(call, row').duration = call.duration /\ Totalled(call, row').ended = call.ended
        /\ Totalled(call, row').absorbed = call.absorbed
        /\ Totalled(call, row').final = IF call.ended /\ AllClosed(row') THEN Charged(row') ELSE NULL
    BY <2>1, <2>2, TotalledType
  <2> QED BY <2>1, <2>3
<1>7. /\ hold'[h].captured = Rate * n /\ \A g \in Holds : g # h => hold'[g] = hold[g]
  BY <1>2, <1>4 DEF HoldRows
<1>8. TypeOK /\ TypeOK' /\ c \in Nat /\ row \in [Tranches -> Rows]
  BY TrancheNumbers DEF Solid, TypeOK
<1>9. row[c].state \notin Closed
  BY DEF Closed
<1>10. \A d \in Tranches : d > c => row[d].state # "settled"
  BY <1>9 DEF Paying, Paid
<1>11. \A d \in Tranches : d >= c => row[d].quantity = 0
  <2>1. \A d \in Tranches : d >= c => row[d].state # "settled"
    BY <1>8, <1>10, TrancheNumbers
  <2> QED BY <2>1 DEF Paying, Paid
<1>12. Whole = Before(c)
  <2>1. \A d \in Tranches : c <= d => row[d].quantity = 0
    BY <1>8, <1>11, TrancheNumbers
  <2> QED BY <1>8, <2>1, BeforeOpen
<1>13. call.absorbed = 0
  <2>1. ~AllClosed(row)
    BY DEF AllClosed, Open
  <2> QED BY <2>1 DEF Paying, Counted
<1>14. Whole' = Whole + n
  <2>1. \A d \in Tranches : Minutes[d] \in Nat /\ Minutes'[d] \in Nat
    <3>1. \A d \in Tranches : row[d].quantity \in Nat /\ row'[d].quantity \in Nat
      <4>1. \A d \in Tranches : row[d].quantity \in 0..TrancheUnits /\ row'[d].quantity \in 0..TrancheUnits
        BY <1>5, <1>8 DEF Rows
      <4> QED BY <4>1, BillingFacts
    <3> QED BY <3>1 DEF Minutes
  <2>2. \A d \in Tranches \ {c} : Minutes[d] = Minutes'[d]
    BY <1>5 DEF Minutes
  <2>3. SumOver(Tranches, Minutes') = SumOver(Tranches, Minutes) - Minutes[c] + Minutes'[c]
    BY <2>1, <2>2, BillingFacts, SumUpdate
  <2>4. Minutes[c] = 0 /\ Minutes'[c] = n
    BY <1>5, <1>8, <1>11, TrancheNumbers DEF Minutes
  <2>5. SumOver(Tranches, Minutes) \in Nat
    BY <1>8, MinutesType DEF Whole
  <2> QED BY <1>1, <2>3, <2>4, <2>5 DEF Whole
<1>15. ASSUME NEW m \in Nat, m <= c PROVE Before(m)' = Before(m)
  <2>1. \A d \in {x \in Tranches : x < m} : Minutes[d] = Minutes'[d]
    <3>1. \A d \in Tranches : d < m => d # c
      BY <1>8, <1>15, TrancheNumbers
    <3> QED BY <1>5, <3>1 DEF Minutes
  <2> QED BY <2>1, SumCongruence DEF Before
<1>16. Before(c)' = Before(c)
  BY <1>8, <1>15
<1>17. ASSUME NEW d \in Tranches PROVE Paid(d)'
  <2>1. CASE d = c
    <3>1. call.duration - Before(c) = left
      BY <1>1
    <3>2. n = Lesser(call.duration - Before(c), TrancheUnits) /\ Before(c) < call.duration
      BY <1>1, <3>1
    <3>3. \A e \in Tranches : e < c => row'[e].state \in Closed
      BY <1>1, <1>5, <1>8, TrancheNumbers
    <3>4. Before(d)' = Before(c)
      BY <1>16, <2>1
    <3> QED BY <1>1, <1>5, <1>6, <2>1, <3>2, <3>3, <3>4 DEF Paid
  <2>2. CASE d # c
    <3>1. Paid(d) /\ row'[d] = row[d]
      BY <1>5, <2>2 DEF Paying
    <3>2. CASE row[d].state = "settled"
      <4>1. d \in Nat /\ d < c
        BY <1>8, <1>10, <2>2, <3>2, TrancheNumbers
      <4>2. Before(d)' = Before(d)
        BY <1>8, <1>15, <4>1
      <4>3. \A e \in Tranches : e < d => row'[e] = row[e]
        BY <1>5, <1>8, <4>1, TrancheNumbers
      <4> QED BY <1>6, <3>1, <3>2, <4>2, <4>3 DEF Paid
    <3>3. CASE row[d].state # "settled"
      BY <3>1, <3>3 DEF Paid
    <3> QED BY <3>2, <3>3
  <2> QED BY <2>1, <2>2
<1>18. Counted'
  BY <1>1, <1>6, <1>12, <1>13, <1>14 DEF Counted
<1>19. Captured' = Charged(row')
  <2> DEFINE f == [d \in Tranches |-> Charge(row[d])]
             g == [d \in Tranches |-> Charge(row'[d])]
             p == [k \in Holds |-> hold[k].captured]
             q == [k \in Holds |-> hold'[k].captured]
  <2>1. \A d \in Tranches : f[d] \in Nat /\ g[d] \in Nat
    <3>1. \A d \in Tranches : row[d].quantity \in 0..TrancheUnits /\ row'[d].quantity \in 0..TrancheUnits
      BY <1>5, <1>8 DEF Rows
    <3>2. \A d \in Tranches : Rate * row[d].quantity \in Nat /\ Rate * row'[d].quantity \in Nat
      BY <3>1, CapturedCost
    <3> QED BY <3>2 DEF Charge
  <2>2. \A d \in Tranches \ {c} : f[d] = g[d]
    BY <1>5
  <2>3. f[c] = 0 /\ g[c] = Rate * n
    BY <1>5 DEF Charge
  <2>4. \A k \in Holds : p[k] \in Nat /\ q[k] \in Nat
    <3>1. \A k \in Holds : hold[k].captured \in Nat /\ hold'[k].captured \in Nat
      BY <1>8 DEF TypeOK, HoldRows
    <3> QED BY <3>1
  <2>5. \A k \in Holds \ {h} : p[k] = q[k]
    BY <1>7
  <2>6. p[h] = 0 /\ q[h] = Rate * n
    BY <1>4, <1>7
  <2> HIDE DEF f, g, p, q
  <2>7. SumOver(Tranches, g) = SumOver(Tranches, f) - f[c] + g[c]
    BY <2>1, <2>2, BillingFacts, SumUpdate
  <2>8. SumOver(Holds, q) = SumOver(Holds, p) - p[h] + q[h]
    BY <1>4, <2>4, <2>5, BillingFacts, SumUpdate
  <2>9. SumOver(Holds, p) = SumOver(Tranches, f)
    BY DEF Paying, Totals, Captured, Charged, p, f
  <2>10. SumOver(Holds, q) = SumOver(Tranches, g)
    BY <2>3, <2>6, <2>7, <2>8, <2>9
  <2> QED BY <2>10 DEF Captured, Charged, q, g
<1>20. Totals'
  <2>1. Charged(row') # NULL
    BY <1>5, ChargedType, BillingFacts
  <2> QED BY <1>1, <1>6, <1>19, <2>1 DEF Totals
<1>21. /\ task' \in [Tasks -> TaskStates] /\ \A u \in Tasks : u = t \/ task'[u] = task[u]
       /\ task'[t] = Allocated(t, n)
  <2>1. Allocated(t, n) \in TaskStates /\ Allocated(t, n).pc = "rows"
    BY <1>0, <1>1, AllocatedType
  <2> QED BY <1>0, <1>2, <2>1, BecomesType
<1>22. Passing(t)'
  <2>1. \A d \in Tranches : d <= c => row'[d].state \in Closed
    <3>1. ASSUME NEW d \in Tranches, d <= c PROVE d = c \/ d < c
      <4>1. d \in Nat /\ c \in Nat
        BY TrancheNumbers
      <4> QED BY <3>1, <4>1
    <3>2. row'[c].state \in Closed
      BY <1>5 DEF Closed
    <3>3. \A d \in Tranches : d # c => row'[d].state = row[d].state
      BY <1>5
    <3> QED BY <1>1, <3>1, <3>2, <3>3
  <2>2. \A d \in Tranches : d > c /\ task[t].seen[d].state \in Closed =>
          row'[d].state = task[t].seen[d].state /\ row'[d].quantity = task[t].seen[d].quantity
    <3>1. ASSUME NEW d \in Tranches, d > c PROVE d >= c /\ d # c
      <4>1. d \in Nat /\ c \in Nat
        BY TrancheNumbers
      <4> QED BY <3>1, <4>1
    <3>2. \A d \in Tranches : d # c => row'[d] = row[d]
      BY <1>5
    <3> QED BY <1>1, <3>1, <3>2
  <2>3. Before(c)' + task[t].left = call.duration
    BY <1>1, <1>16 DEF left
  <2>4. n <= task[t].left
    BY <1>1 DEF left
  <2> QED BY <1>1, <1>5, <1>6, <1>21, <2>1, <2>2, <2>3, <2>4, PassingNext
<1>23. ASSUME NEW u \in Callbacks, u # t PROVE Passing(u)'
  <2>1. u \in Tasks /\ Passing(u) /\ task'[u] = task[u] /\ task[u].next \in Nat
    BY <1>21, <1>23, BillingFacts DEF Paying, Solid, TypeOK, TaskStates
  <2>2. task[u].pc # "done"
    BY <2>1 DEF Passing, AllClosed, Open
  <2>3. task[u].pc \notin {"idle", "done", "recorded"} =>
          /\ \A d \in Tranches : d < task[u].next => row'[d].state \in Closed
          /\ Before(task[u].next)' + task[u].left = call.duration
          /\ \A d \in Tranches : d >= task[u].next /\ task[u].seen[d].state \in Closed =>
               row'[d].state = task[u].seen[d].state /\ row'[d].quantity = task[u].seen[d].quantity
    <3> SUFFICES ASSUME task[u].pc \notin {"idle", "done", "recorded"}
                 PROVE  /\ \A d \in Tranches : d < task[u].next => row'[d].state \in Closed
                        /\ Before(task[u].next)' + task[u].left = call.duration
                        /\ \A d \in Tranches : d >= task[u].next /\ task[u].seen[d].state \in Closed =>
                             row'[d].state = task[u].seen[d].state
                             /\ row'[d].quantity = task[u].seen[d].quantity
      OBVIOUS
    <3>1. /\ \A d \in Tranches : d < task[u].next => row[d].state \in Closed
          /\ Before(task[u].next) + task[u].left = call.duration
          /\ \A d \in Tranches : d >= task[u].next /\ task[u].seen[d].state \in Closed =>
               row[d].state = task[u].seen[d].state /\ row[d].quantity = task[u].seen[d].quantity
      BY <2>1 DEF Passing
    <3>2. ~(c < task[u].next)
      BY <1>9, <3>1
    <3>3. PICK m \in Nat : m = task[u].next
      BY <2>1
    <3>4. m <= c
      BY <1>8, <3>2, <3>3
    <3>5. Before(m)' = Before(m)
      BY <1>15, <3>4
    <3>6. Before(task[u].next)' = Before(m)'
      BY <2>1, <3>3 DEF Before
    <3>7. \A d \in Tranches : d < m => row'[d] = row[d]
      BY <1>5, <1>8, <3>4, TrancheNumbers
    <3>8. ASSUME NEW d \in Tranches, d >= task[u].next, task[u].seen[d].state \in Closed
          PROVE  row'[d] = row[d]
      BY <1>5, <1>9, <3>1, <3>8
    <3> QED BY <3>1, <3>3, <3>5, <3>6, <3>7, <3>8
  <2> QED BY <1>6, <2>1, <2>2, <2>3 DEF Passing
<1> QED BY <1>17, <1>18, <1>20, <1>22, <1>23 DEF Paying

----------------------------------------------------------------------------
(* The first report of the duration, and the end of a callback *)

\* Before a duration is known no callback is at work and nothing was settled.
LEMMA NothingPaid ==
  ASSUME Solid, Paying, call.duration = NULL
  PROVE  /\ \A t \in Callbacks : task[t].pc = "idle"
         /\ \A c \in Tranches : row[c].state # "settled" /\ row[c].quantity = 0
         /\ Whole = 0 /\ call.absorbed = 0
<1>1. \A t \in Callbacks : Placed(t)
  BY BillingFacts DEF Solid
<1> QED BY <1>1 DEF Placed, Paying, Paid, Counted

\* A callback between its delivery and its reading of the rows.
LEMMA PassingRecorded ==
  ASSUME NEW t \in Callbacks, task'[t].pc = "recorded"
  PROVE  Passing(t)'
BY DEF Passing, StartSteps

LEMMA DeliverPays ==
  ASSUME Solid, Solid', Paying, NEW t \in Callbacks, Deliver(t)
  PROVE  Paying'
<1>0. t \in Tasks /\ task \in [Tasks -> TaskStates] /\ call \in Calls /\ Goes(t, "recorded")
      /\ row' = row /\ hold' = hold
  BY BillingFacts DEF Solid, TypeOK, Deliver
<1>1. task'[t].pc = "recorded" /\ \A u \in Tasks : u = t \/ task'[u] = task[u]
  <2>1. "recorded" \in Steps \ {"done"}
    BY DEF Steps, CallbackSteps
  <2> QED BY <1>0, <2>1, GoesType
<1>2. Passing(t)'
  BY <1>1, PassingRecorded
<1>3. CASE call.duration # NULL
  <2>1. Frozen
    BY <1>0, <1>3, FrozenSame DEF Deliver
  <2>2. \A u \in Callbacks : task'[u] = task[u] \/ Passing(u)'
    BY <1>1, <1>2, BillingFacts
  <2> QED BY <2>1, <2>2, FrozenStep
<1>4. CASE call.duration = NULL
  <2>1. PICK n \in Durations : call' = [call EXCEPT !.ended = TRUE, !.duration = n]
    BY <1>4 DEF Deliver
  <2>2. /\ call'.ended /\ call'.duration = n /\ call'.absorbed = call.absorbed
        /\ call'.final = call.final /\ n \in Nat /\ n # NULL
    BY <1>0, <2>1, BillingFacts DEF Calls
  <2>3. /\ \A u \in Callbacks : task[u].pc = "idle"
        /\ \A c \in Tranches : row[c].state # "settled" /\ row[c].quantity = 0
        /\ Whole = 0 /\ call.absorbed = 0
    BY <1>4, NothingPaid
  <2>4. \A c \in Tranches : Paid(c)'
    BY <1>0, <2>3 DEF Paid
  <2>5. Whole' = 0
    <3>1. Minutes' = Minutes
      BY <1>0 DEF Minutes
    <3> QED BY <2>3, <3>1 DEF Whole
  <2>6. Counted'
    BY <2>2, <2>3, <2>5 DEF Counted
  <2>7. Captured' = Captured
    BY <1>0, CapturedSame
  <2>8. Totals'
    BY <1>0, <2>2, <2>3, <2>7 DEF Paying, Totals
  <2>9. ASSUME NEW u \in Callbacks PROVE Passing(u)'
    <3>1. CASE u = t
      BY <1>2, <3>1
    <3>2. CASE u # t
      <4>1. task'[u].pc = "idle"
        BY <1>1, <2>3, <3>2, BillingFacts
      <4> QED BY <4>1 DEF Passing, StartSteps
    <3> QED BY <3>1, <3>2
  <2> QED BY <2>4, <2>6, <2>8, <2>9 DEF Paying
<1> QED BY <1>3, <1>4

\* A callback that passed every row: what is left of the duration was never
\* paid, or is absorbed already.
LEMMA AbsorbFacts ==
  ASSUME Solid, Paying, NEW t \in Callbacks, In(t, "rows"), task[t].next \notin Tranches
  PROVE  /\ task[t].left \in Nat /\ Whole \in Nat /\ call.absorbed \in Nat
         /\ call.duration # NULL /\ call.duration \in Nat /\ call.ended
         /\ Whole + task[t].left = call.duration /\ AllClosed(row)
         /\ call.absorbed # 0 => call.absorbed = task[t].left
<1>1. t \in Tasks /\ Passing(t) /\ Placed(t) /\ task[t].pc = "rows" /\ call \in Calls
      /\ task[t] \in TaskStates
  BY BillingFacts DEF Solid, TypeOK, Paying, In
<1>2. task[t].left \in Nat /\ task[t].next \in Nat /\ 1 <= task[t].next
  BY <1>1 DEF TaskStates, Placed
<1>3. call.duration # NULL
  BY <1>1 DEF Placed
<1>4. call.duration \in Nat /\ call.ended /\ call.absorbed \in Nat
  BY <1>1, <1>3, BillingFacts, CallEnds DEF Calls
<1>5. Before(task[t].next) = Whole /\ \A c \in Tranches : c < task[t].next
  BY <1>2, BeforeLast
<1>6. Whole + task[t].left = call.duration /\ \A c \in Tranches : row[c].state \in Closed
  BY <1>1, <1>5 DEF Passing
<1>7. AllClosed(row)
  BY <1>6 DEF AllClosed, Closed, Open
<1>8. Whole \in Nat
  BY MinutesType DEF Solid
<1>9. call.absorbed # 0 => call.absorbed = task[t].left
  BY <1>2, <1>4, <1>6, <1>8 DEF Paying, Counted
<1> QED BY <1>2, <1>3, <1>4, <1>6, <1>7, <1>8, <1>9

LEMMA AbsorbPays ==
  ASSUME Solid, Solid', Paying, NEW t \in Callbacks, Absorb(t)
  PROVE  Paying'
<1> DEFINE left == task[t].left
<1>0. t \in Tasks /\ task \in [Tasks -> TaskStates] /\ call \in Calls /\ Goes(t, "done")
      /\ row' = row /\ hold' = hold /\ row \in [Tranches -> Rows]
      /\ In(t, "rows") /\ task[t].next \notin Tranches
  BY BillingFacts DEF Solid, TypeOK, Absorb
<1>1. /\ left \in Nat /\ Whole \in Nat /\ call.absorbed \in Nat
      /\ call.duration # NULL /\ call.duration \in Nat /\ call.ended
      /\ Whole + left = call.duration /\ AllClosed(row)
      /\ call.absorbed # 0 => call.absorbed = left
  BY <1>0, AbsorbFacts
<1>2. task'[t].pc = "done" /\ \A u \in Tasks : u = t \/ task'[u] = task[u]
  <2> DEFINE r == [task[t] EXCEPT !.pc = "done"]
  <2>1. r \in TaskStates /\ r.pc = "done"
    BY <1>0 DEF TaskStates
  <2>2. Becomes(t, r)
    BY <1>0 DEF Goes
  <2> HIDE DEF r
  <2> QED BY <1>0, <2>1, <2>2, BecomesType, FreshType
<1> HIDE DEF left
<1>3. /\ call'.duration = call.duration /\ call'.ended = call.ended /\ call'.absorbed = left
      /\ call'.final = call.final \/ call'.final = Charged(row)
  <2>1. CASE left = 0
    <3>1. call' = call
      BY <2>1 DEF Absorb, left
    <3> QED BY <1>1, <2>1, <3>1
  <2>2. CASE left # 0
    <3> DEFINE k == [call EXCEPT !.absorbed = IF call.absorbed = 0 THEN left ELSE call.absorbed]
    <3>1. /\ k \in Calls /\ k.absorbed = left /\ k.ended = call.ended /\ k.duration = call.duration
      BY <1>0, <1>1 DEF Calls
    <3>2. call' = Totalled(k, row)
      BY <2>2 DEF Absorb, left
    <3> HIDE DEF k
    <3>3. /\ Totalled(k, row).duration = k.duration /\ Totalled(k, row).ended = k.ended
          /\ Totalled(k, row).absorbed = k.absorbed
          /\ Totalled(k, row).final = IF k.ended /\ AllClosed(row) THEN Charged(row) ELSE NULL
      BY <1>0, <3>1, TotalledType
    <3> QED BY <1>1, <3>1, <3>2, <3>3
  <2> QED BY <2>1, <2>2
<1>4. /\ Minutes' = Minutes /\ Whole' = Whole /\ Captured' = Captured
  BY <1>0 DEF Minutes, Whole, Captured
<1>5. ASSUME NEW c \in Tranches PROVE Paid(c)'
  <2>1. Paid(c) /\ Before(c)' = Before(c)
    BY <1>4 DEF Before, Paying
  <2> QED BY <1>0, <1>3, <2>1 DEF Paid
<1>6. Counted'
  BY <1>0, <1>1, <1>3, <1>4 DEF Counted
<1>7. Totals'
  <2>1. Charged(row) # NULL
    BY <1>0, ChargedType, BillingFacts
  <2> QED BY <1>0, <1>1, <1>3, <1>4, <2>1 DEF Paying, Totals
<1>8. Passing(t)'
  BY <1>0, <1>1, <1>2, <1>3, <1>4 DEF Passing, StartSteps
<1>9. ASSUME NEW u \in Callbacks, u # t PROVE Passing(u)'
  <2>1. u \in Tasks /\ Passing(u) /\ task'[u] = task[u]
    BY <1>2, <1>9, BillingFacts DEF Paying
  <2>2. Before(task[u].next)' = Before(task[u].next)
    BY <1>4, <2>1 DEF Before
  <2> QED BY <1>0, <1>1, <1>3, <1>4, <2>1, <2>2 DEF Passing
<1> QED BY <1>5, <1>6, <1>7, <1>8, <1>9 DEF Paying

----------------------------------------------------------------------------
(* A callback at one of its rows *)

\* What a callback knows of the row it is at, and of the minutes it has left.
LEMMA RowFacts ==
  ASSUME Solid, Paying, NEW t \in Callbacks, task[t].pc \in {"rows", "settle"},
         NEW c \in Tranches, c = task[t].next
  PROVE  /\ task[t].left \in Nat
         /\ \A d \in Tranches : d < c => row[d].state \in Closed
         /\ Before(c) + task[t].left = call.duration /\ call.duration # NULL
         /\ \A d \in Tranches : d >= c /\ task[t].seen[d].state \in Closed =>
              row[d].state = task[t].seen[d].state /\ row[d].quantity = task[t].seen[d].quantity
         /\ row[c].quantity \in Nat /\ row[c].quantity <= task[t].left
         /\ row[c].state = "settled" => row[c].quantity = Lesser(task[t].left, TrancheUnits)
         /\ row[c].state # "settled" => row[c].quantity = 0
<1>1. t \in Tasks /\ Passing(t) /\ Placed(t) /\ call \in Calls /\ task[t] \in TaskStates /\ Paid(c)
  BY BillingFacts DEF Solid, TypeOK, Paying
<1>2. task[t].left \in Nat /\ Before(c) \in Nat
  BY <1>1, MinutesType DEF TaskStates, Solid
<1>3. call.duration # NULL
  BY <1>1 DEF Placed
<1>4. call.duration \in Nat
  BY <1>1, <1>3, BillingFacts DEF Calls
<1>5. /\ \A d \in Tranches : d < c => row[d].state \in Closed
      /\ Before(c) + task[t].left = call.duration
      /\ \A d \in Tranches : d >= c /\ task[t].seen[d].state \in Closed =>
           row[d].state = task[t].seen[d].state /\ row[d].quantity = task[t].seen[d].quantity
  BY <1>1 DEF Passing
<1>6. row[c].state = "settled" => row[c].quantity = Lesser(task[t].left, TrancheUnits)
  <2>1. call.duration - Before(c) = task[t].left
    BY <1>2, <1>4, <1>5
  <2> QED BY <1>1, <2>1 DEF Paid
<1>7. row[c].state # "settled" => row[c].quantity = 0
  BY <1>1 DEF Paid
<1>8. row[c].quantity \in Nat /\ row[c].quantity <= task[t].left
  BY <1>2, <1>6, <1>7, BillingFacts DEF Lesser
<1> QED BY <1>2, <1>3, <1>5, <1>6, <1>7, <1>8

\* It goes on to the next one, with what the row took off the duration.
LEMMA FrozenNext ==
  ASSUME Solid, Solid', Paying, Frozen, NEW t \in Callbacks, task[t].pc \in {"rows", "settle"},
         NEW c \in Tranches, c = task[t].next, row'[c].state \in Closed,
         Becomes(t, Allocated(t, row[c].quantity))
  PROVE  Paying'
<1> DEFINE n == row[c].quantity
<1>0. t \in Tasks /\ task \in [Tasks -> TaskStates] /\ c \in Nat
  BY BillingFacts, TrancheNumbers DEF Solid, TypeOK
<1>1. /\ task[t].left \in Nat
      /\ \A d \in Tranches : d < c => row[d].state \in Closed
      /\ Before(c) + task[t].left = call.duration /\ call.duration # NULL
      /\ \A d \in Tranches : d >= c /\ task[t].seen[d].state \in Closed =>
           row[d].state = task[t].seen[d].state /\ row[d].quantity = task[t].seen[d].quantity
      /\ n \in Nat /\ n <= task[t].left
  BY RowFacts
<1>2. row'[c].quantity = n
  BY DEF Frozen
<1>3. /\ task'[t] = Allocated(t, n) /\ \A u \in Tasks : u = t \/ task'[u] = task[u]
  <2>1. Allocated(t, n) \in TaskStates /\ Allocated(t, n).pc = "rows"
    BY <1>0, <1>1, AllocatedType
  <2> QED BY <1>0, <2>1, BecomesType
<1> HIDE DEF n
<1>4. \A d \in Tranches : row[d].state \in Closed =>
        row'[d].state = row[d].state /\ row'[d].quantity = row[d].quantity
  BY <1>1 DEF Frozen
<1>5. Before(c)' + task[t].left = call.duration /\ call'.duration = call.duration
  <2>1. Before(c)' = Before(c)
    BY ChargeMinutes DEF Frozen
  <2> QED BY <1>1, <2>1 DEF Frozen
<1>6. \A d \in Tranches : d <= c => row'[d].state \in Closed
  <2>1. ASSUME NEW d \in Tranches, d <= c PROVE d = c \/ d < c
    <3>1. d \in Nat
      BY TrancheNumbers
    <3> QED BY <1>0, <2>1, <3>1
  <2> QED BY <1>1, <1>4, <2>1
<1>7. \A d \in Tranches : d > c /\ task[t].seen[d].state \in Closed =>
        row'[d].state = task[t].seen[d].state /\ row'[d].quantity = task[t].seen[d].quantity
  <2>1. ASSUME NEW d \in Tranches, d > c PROVE d >= c
    <3>1. d \in Nat
      BY TrancheNumbers
    <3> QED BY <1>0, <2>1, <3>1
  <2> QED BY <1>1, <1>4, <2>1
<1>8. Passing(t)'
  BY <1>1, <1>2, <1>3, <1>5, <1>6, <1>7, PassingNext
<1>9. \A u \in Callbacks : task'[u] = task[u] \/ Passing(u)'
  BY <1>3, <1>8, BillingFacts
<1> QED BY <1>9, FrozenStep

\* It is answered with an error, and delivered again.
LEMMA FrozenRaised ==
  ASSUME Solid, Solid', Paying, Frozen, NEW t \in Callbacks, Becomes(t, Raised(t))
  PROVE  Paying'
<1>0. t \in Tasks /\ task \in [Tasks -> TaskStates]
  BY BillingFacts DEF Solid, TypeOK
<1>1. task'[t] = Fresh /\ \A u \in Tasks : u = t \/ task'[u] = task[u]
  BY <1>0, RaisedType, BecomesType, FreshType
<1>2. \A u \in Callbacks : task'[u] = task[u] \/ Passing(u)'
  BY <1>1, PassingFresh, BillingFacts
<1> QED BY <1>2, FrozenStep

LEMMA ReadRowsPays ==
  ASSUME Solid, Solid', Paying, NEW t \in Callbacks, ReadRows(t)
  PROVE  Paying'
<1> DEFINE seen == [c \in Tranches |-> [state |-> row[c].state, quantity |-> row[c].quantity]]
           left == call.duration
           s == [task[t] EXCEPT !.pc = "rows", !.next = 1, !.left = left, !.seen = seen]
<1>0. /\ t \in Tasks /\ task \in [Tasks -> TaskStates] /\ task[t].pc = "recorded" /\ Placed(t)
      /\ call \in Calls /\ row \in [Tranches -> Rows] /\ call' = call /\ row' = row /\ hold' = hold
      /\ Becomes(t, s)
  BY BillingFacts DEF Solid, TypeOK, ReadRows, In
<1>1. left # NULL /\ left \in Nat
  <2>1. left # NULL
    BY <1>0 DEF Placed
  <2> QED BY <1>0, <2>1, BillingFacts DEF Calls
<1>2. seen \in [Tranches -> Views]
  BY <1>0 DEF Rows, Views
<1>3. /\ s \in TaskStates /\ s.pc = "rows" /\ s.next = 1 /\ s.left = left /\ s.seen = seen
  <2> HIDE DEF seen, left
  <2> QED BY <1>0, <1>1, <1>2 DEF TaskStates, CallbackSteps
<1> HIDE DEF s
<1>4. task'[t] = s /\ \A u \in Tasks : u = t \/ task'[u] = task[u]
  BY <1>0, <1>3, BecomesType
<1>5. Frozen
  BY <1>0, FrozenSame
<1>6. Before(1)' + s.left = call.duration
  <2>1. Minutes' = Minutes
    BY <1>0 DEF Minutes
  <2>2. Before(1)' = 0
    BY <2>1, BeforeFirst DEF Before
  <2> QED BY <1>1, <1>3, <2>2
<1>7. Before(task[t].next)' = Before(1)'
  BY <1>3, <1>4 DEF Before
<1>8. \A d \in Tranches : ~(d < 1)
  BY TrancheNumbers
<1>9. \A c \in Tranches : row'[c].state = s.seen[c].state /\ row'[c].quantity = s.seen[c].quantity
  BY <1>0, <1>3
<1>10. Passing(t)'
  BY <1>0, <1>3, <1>4, <1>6, <1>7, <1>8, <1>9 DEF Passing, StartSteps
<1>11. \A u \in Callbacks : task'[u] = task[u] \/ Passing(u)'
  BY <1>4, <1>10, BillingFacts
<1> QED BY <1>5, <1>11, FrozenStep

LEMMA SkipRowPays ==
  ASSUME Solid, Solid', Paying, NEW t \in Callbacks, SkipRow(t)
  PROVE  Paying'
<1>1. PICK c \in Tranches : c = task[t].next
  BY DEF SkipRow
<1>2. /\ task[t].pc \in {"rows", "settle"} /\ task[t].seen[c].state \in Closed
      /\ Becomes(t, Allocated(t, task[t].seen[c].quantity))
      /\ row' = row /\ hold' = hold /\ call' = call
  BY <1>1 DEF SkipRow, In, Closed
<1>3. c >= c
  BY TrancheNumbers
<1>4. row[c].state = task[t].seen[c].state /\ row[c].quantity = task[t].seen[c].quantity
  BY <1>1, <1>2, <1>3, RowFacts
<1>5. Frozen
  BY <1>2, FrozenSame
<1>6. Becomes(t, Allocated(t, row[c].quantity)) /\ row'[c].state \in Closed
  BY <1>2, <1>4
<1> QED BY <1>1, <1>2, <1>5, <1>6, FrozenNext

\* A row that another delivery settled meanwhile took the same minutes.
LEMMA SettlePaysAll ==
  ASSUME Rate > 0, Solid, Solid', Paying, NEW t \in Callbacks, Settle(t)
  PROVE  Paying'
<1>0. task[t].pc \in {"rows", "settle"} /\ AtSettle(t) /\ t \in Tasks
  BY BillingFacts DEF Settle, AtSettle, In
<1>1. PICK c \in Tranches : c = task[t].next
  BY <1>0 DEF Solid, Placed, AtSettle, In
<1>2. CASE row[c].state = "settled"
  <2>1. Becomes(t, Allocated(t, Used(t))) /\ row' = row /\ hold' = hold /\ call' = call
    BY <1>1, <1>2 DEF Settle
  <2>2. Used(t) = row[c].quantity
    BY <1>0, <1>1, <1>2, RowFacts, SettleFacts
  <2>3. Frozen
    BY <2>1, FrozenSame
  <2>4. row'[c].state \in Closed
    BY <1>2, <2>1 DEF Closed
  <2> QED BY <1>0, <1>1, <2>1, <2>2, <2>3, <2>4, FrozenNext
<1>3. CASE row[c].state = "provider_started"
  BY <1>1, <1>3, SettlePays
<1>4. CASE row[c].state \notin {"settled", "provider_started"}
  <2>1. Becomes(t, Raised(t)) /\ row' = row /\ hold' = hold /\ call' = call
    BY <1>1, <1>4 DEF Settle
  <2> QED BY <2>1, FrozenSame, FrozenRaised
<1> QED BY <1>2, <1>3, <1>4

LEMMA RefundUnusedPays ==
  ASSUME Solid, Solid', Paying, NEW t \in Callbacks, RefundUnused(t)
  PROVE  Paying'
<1>1. PICK c \in Tranches : c = task[t].next
  BY DEF RefundUnused
<1>2. /\ task[t].pc \in {"rows", "settle"} /\ t \in Tasks /\ task[t].seen[c].state # "none"
      /\ row \in [Tranches -> Rows]
      /\ IF Refundable(c) THEN RefundRow(c) /\ Becomes(t, Allocated(t, 0))
         ELSE UNCHANGED Database /\ Becomes(t, Raised(t))
  BY <1>1, BillingFacts DEF RefundUnused, In, Open, Solid, TypeOK
<1>3. row[c].state # "none"
  BY <1>2 DEF Solid, Known
<1>4. CASE Refundable(c)
  <2>1. Frozen
    BY <1>2, <1>3, <1>4, FrozenRefund
  <2>2. row[c].quantity = 0
    BY <1>4 DEF Refundable, Paying, Paid
  <2>3. row'[c].state \in Closed
    <3>1. row'[c].state = "refunded"
      BY <1>2, <1>4 DEF RefundRow, Write, Rows
    <3> QED BY <3>1 DEF Closed
  <2> QED BY <1>1, <1>2, <1>4, <2>1, <2>2, <2>3, FrozenNext
<1>5. CASE ~Refundable(c)
  <2>1. row' = row /\ hold' = hold /\ call' = call /\ Becomes(t, Raised(t))
    BY <1>2, <1>5 DEF Database
  <2> QED BY <2>1, FrozenSame, FrozenRaised
<1> QED BY <1>4, <1>5

----------------------------------------------------------------------------
(* The other steps settle nothing *)

LEMMA OthersStay ==
  ASSUME Solid, NEW t, NEW r, Becomes(t, r)
  PROVE  \A u \in Callbacks : u # t => task'[u] = task[u]
BY BillingFacts DEF Becomes, Solid, TypeOK

\* No callback is moved by a reserver.
LEMMA FrozenElsewhere ==
  ASSUME Solid, Solid', Paying, Frozen, NEW t \in Reservers, NEW r, Becomes(t, r)
  PROVE  Paying'
<1>1. \A u \in Callbacks : task'[u] = task[u]
  BY OthersStay, BillingFacts
<1> QED BY <1>1, FrozenStep

LEMMA LookPays ==
  ASSUME Solid, Solid', Paying, NEW t \in Reservers, Look(t) \/ Fund(t) \/ DropHold(t)
  PROVE  Paying'
<1>1. PICK r : Becomes(t, r)
  BY DEF Look, Fund, DropHold, Goes
<1>2. row' = row /\ call' = call
  BY DEF Look, Fund, DropHold
<1>3. \A h \in Holds : hold'[h].captured = hold[h].captured
  <2>1. CASE hold' = hold
    BY <2>1
  <2>2. CASE Fund(t) /\ hold' # hold
    <3>1. hold' = [hold EXCEPT ![OwnHold(t)].status = "active"] /\ hold \in [Holds -> HoldRows]
      BY <2>2 DEF Fund, Solid, TypeOK
    <3> QED BY <3>1 DEF HoldRows
  <2>3. CASE DropHold(t)
    <3>1. OwnHold(t) \in Holds \cup {NULL}
      <4>1. task[t].next \in Tranches
        BY <2>3, HandType, BillingFacts DEF DropHold
      <4> QED BY <4>1 DEF OwnHold, Holds
    <3> QED BY <2>3, <3>1, FrozenRelease DEF DropHold
  <2> QED BY <2>1, <2>2, <2>3 DEF Look
<1>4. Frozen
  BY <1>2, <1>3, FrozenSame
<1> QED BY <1>1, <1>4, FrozenElsewhere

\* A row is only inserted into a call that has not ended, before any duration
\* is known.
LEMMA InsertPays ==
  ASSUME Solid, Solid', Paying, NEW t \in Reservers, Insert(t)
  PROVE  Paying'
<1>1. PICK r : Becomes(t, r)
  BY DEF Insert
<1>2. CASE UNCHANGED <<call, row>>
  BY <1>1, <1>2, FrozenSame, FrozenElsewhere DEF Insert
<1>3. CASE ~UNCHANGED <<call, row>>
  <2>1. PICK c \in Tranches : c = task[t].next
    BY HandType, BillingFacts DEF Insert, In
  <2> DEFINE k == [state |-> "reserved", hold |-> OwnHold(t), quantity |-> 0, old |-> FALSE]
  <2>2. /\ ~call.ended /\ row[c].state = "none" /\ row' = [row EXCEPT ![c] = k]
        /\ call' = Totalled(call, row') /\ hold' = hold
    BY <1>3, <2>1 DEF Insert
  <2>3. call.duration = NULL
    BY <2>2, CallEnds
  <2>4. row \in [Tranches -> Rows] /\ row' \in [Tranches -> Rows] /\ call \in Calls
    BY DEF Solid, TypeOK
  <2>5. call'.duration = call.duration /\ call'.absorbed = call.absorbed /\ call'.ended = call.ended
    BY <2>2, <2>4, TotalledType
  <2>6. row[c].quantity = 0
    BY <2>2 DEF Paying, Paid
  <2>7. \A d \in Tranches : row'[d].quantity = row[d].quantity
                            /\ (row'[d].state = "settled" <=> row[d].state = "settled")
    BY <2>2, <2>4, <2>6
  <2>8. Frozen
    BY <2>2, <2>3, <2>5, <2>7 DEF Frozen
  <2> QED BY <1>1, <2>8, FrozenElsewhere
<1> QED BY <1>2, <1>3

LEMMA DialPays ==
  ASSUME Solid, Solid', Paying, NEW t \in Dispatchers, Dial(t)
  PROVE  Paying'
<1>0. t \in Reservers /\ t \in Tasks /\ call \in Calls /\ task[t].got \subseteq Tranches
      /\ \A c \in task[t].got : row[c].state # "none"
  <2>1. t \in Tasks
    BY BillingFacts
  <2>2. task[t] \in TaskStates /\ Known(t)
    BY <2>1 DEF Solid, TypeOK
  <2> QED BY <2>1, <2>2, BillingFacts DEF TaskStates, Known, Solid, TypeOK
<1>1. PICK r : Becomes(t, r)
  BY DEF Dial, Cross, Post, FailCall, GiveBack, Goes
<1>2. CASE Cross(t) \/ Post(t) \/ FailCall(t)
  <2>1. row' = row /\ hold' = hold
    BY <1>2 DEF Cross, Post, FailCall
  <2>2. /\ call'.duration = call.duration /\ call'.absorbed = call.absorbed
        /\ call'.final = call.final /\ (call.ended => call'.ended)
    <3>1. CASE Cross(t)
      BY <1>0, <3>1 DEF Cross, Calls
    <3>2. CASE Post(t)
      BY <1>0, <3>2 DEF Post, Calls
    <3>3. CASE FailCall(t)
      BY <1>0, <3>3 DEF FailCall, Calls
    <3> QED BY <1>2, <3>1, <3>2, <3>3
  <2> QED BY <1>0, <1>1, <2>1, <2>2, FrozenCall, FrozenElsewhere
<1>3. CASE GiveBack(t)
  <2>1. PICK c \in task[t].got : (RefundRow(c) /\ Refundable(c)) \/ MarkAmbiguous(c) \/ UNCHANGED Database
    BY <1>3 DEF GiveBack
  <2>2. c \in Tranches /\ row[c].state # "none"
    BY <1>0
  <2>3. Frozen
    BY <2>1, <2>2, FrozenRefund, FrozenMarkAmbiguous, FrozenSame DEF Database
  <2> QED BY <1>0, <1>1, <2>3, FrozenElsewhere
<1> QED BY <1>2, <1>3 DEF Dial

LEMMA UndoPays ==
  ASSUME Solid, Solid', Paying, NEW t \in Reservers, Undo(t) \/ Surface(t)
  PROVE  Paying'
<1>0. task[t].got \subseteq Tranches /\ task[t].made \subseteq Tranches
  BY BillingFacts DEF Solid, TypeOK, TaskStates
<1>1. PICK r : Becomes(t, r)
  BY DEF Undo, Surface
<1>2. PICK c \in Tranches : RefundIfUnstarted(c) \/ MarkAmbiguous(c)
  BY <1>0 DEF Undo, Surface
<1>3. Frozen
  BY <1>2, FrozenRefund, FrozenMarkAmbiguous
<1> QED BY <1>1, <1>3, FrozenElsewhere

----------------------------------------------------------------------------
(* mark_provider_started settles nothing *)

\* Reconcile does not look at the state the row has by now.  That the hold is
\* still open, and so the row, needs a hold: with creator-paid minutes, free
\* for the owner, a row that another delivery settled would be reopened.
LEMMA ReconcileFrozen ==
  ASSUME Rate > 0, Solid, NEW t \in Tasks, Reconcile(t)
  PROVE  Frozen
<1> DEFINE c == task[t].next
<1>0. c \in Tranches /\ row \in [Tranches -> Rows] /\ Known(t) /\ task[t].pc = "reconcile"
      /\ RowOk(c) /\ hold' = hold /\ call' = call
  BY StartType DEF Reconcile, In, StartSteps, Solid, TypeOK
<1>1. CASE row' = row
  BY <1>0, <1>1, FrozenSame
<1>2. CASE row' # row
  <2>1. /\ row[c].hold # NULL => hold[row[c].hold].status = "active"
        /\ row' = [row EXCEPT ![c].state = "provider_started", ![c].old = FALSE]
    BY <1>2 DEF Reconcile
  <2>2. row[c].state # "none"
    BY <1>0 DEF Known
  <2>3. row[c].hold # NULL
    BY <1>0, <2>2, BillingFacts DEF RowOk
  <2>4. row[c].state \notin {"settled", "refunded"}
    BY <1>0, <2>1, <2>3 DEF RowOk
  <2>5. row[c].state \in Open /\ "provider_started" \in Open
    BY <1>0, <2>2, <2>4 DEF Rows, RowStates, Open
  <2> HIDE DEF c
  <2> QED BY <1>0, <2>1, <2>5, FrozenOpen
<1> QED BY <1>1, <1>2

LEMMA BoundaryFrozen ==
  ASSUME Rate > 0, Solid, NEW t \in Tasks, Boundary(t)
  PROVE  Frozen
<1>1. CASE MarkStarted(t) \/ Check(t)
  BY <1>1, FrozenSame DEF MarkStarted, Check
<1>2. CASE Reconcile(t)
  BY <1>2, ReconcileFrozen
<1>3. CASE Claim(t)
  <2>1. hold \in [Holds -> HoldRows] /\ row' = row /\ call' = call
    BY <1>3 DEF Solid, TypeOK, Claim
  <2>2. hold' = hold \/ hold' = [hold EXCEPT ![row[task[t].next].hold].started = TRUE]
    BY <1>3 DEF Claim
  <2>3. \A h \in Holds : hold'[h].captured = hold[h].captured
    BY <2>1, <2>2 DEF HoldRows
  <2> QED BY <2>1, <2>3, FrozenSame
<1>4. CASE Update(t)
  <2>1. PICK c \in Tranches : c = task[t].next
    BY <1>4, StartType DEF Update, In, StartSteps
  <2>2. /\ row' = IF row[c].state = "reserved"
                  THEN [row EXCEPT ![c].state = "provider_started", ![c].old = FALSE] ELSE row
        /\ hold' = hold /\ call' = call
    BY <1>4, <2>1 DEF Update
  <2>3. "reserved" \in Open /\ "provider_started" \in Open
    BY DEF Open
  <2> QED BY <2>2, <2>3, FrozenOpen, FrozenSame
<1> QED BY <1>1, <1>2, <1>3, <1>4 DEF Boundary

LEMMA BoundaryPays ==
  ASSUME Rate > 0, Solid, Solid', Paying, NEW t \in Tasks, Boundary(t)
  PROVE  Paying'
<1>0. Frozen /\ task \in [Tasks -> TaskStates] /\ task[t] \in TaskStates
  BY BoundaryFrozen DEF Solid, TypeOK
<1>1. PICK r : Becomes(t, r)
  BY DEF Boundary, MarkStarted, Reconcile, Claim, Check, Update, Goes
<1>2. CASE t \in Reservers
  BY <1>0, <1>1, <1>2, FrozenElsewhere
<1>3. CASE t \in Callbacks
  <2>1. AtBoundary(t) \/ task[t].pc \in StartSteps
    BY DEF Boundary, MarkStarted, Reconcile, Claim, Check, Update, In, StartSteps
  <2>2. task[t].next \in Tranches /\ task[t].pc \in StartSteps \cup {"rows"} /\ Passing(t)
    BY <1>3, <2>1, StartType DEF Paying
  <2>3. task[t].left > 0
    <3>1. CASE task[t].pc \in StartSteps
      BY <2>2, <3>1 DEF Passing
    <3>2. CASE task[t].pc = "rows"
      <4>1. Used(t) > 0 /\ task[t].left \in Nat
        BY <1>0, <2>1, <3>2 DEF AtBoundary, In, StartSteps, TaskStates
      <4> QED BY <4>1, BillingFacts DEF Used
    <3> QED BY <2>2, <3>1, <3>2
  <2>4. \/ Becomes(t, Marked(t))
        \/ Becomes(t, Raised(t))
        \/ \E pc \in StartSteps : Goes(t, pc)
    BY DEF Boundary, MarkStarted, Reconcile, Claim, Check, Update, StartSteps
  <2>5. task[t].pc \notin {"idle", "done", "recorded"}
    BY <2>2 DEF StartSteps
  <2>6. \A u \in Callbacks : u # t => task'[u] = task[u]
    BY <1>1, OthersStay
  <2>7. CASE Becomes(t, Raised(t))
    BY <1>0, <1>3, <2>7, FrozenRaised
  <2>8. CASE Becomes(t, Marked(t))
    <3>1. /\ Marked(t) \in TaskStates /\ Marked(t).pc = "settle" /\ Marked(t).next = task[t].next
          /\ Marked(t).seen = task[t].seen /\ Marked(t).left = task[t].left
      BY <1>0, <1>3, <2>2, BillingFacts, MarkedType
    <3>2. task'[t] = Marked(t)
      BY <1>0, <2>8, <3>1, BecomesType
    <3>3. Passing(t)'
      BY <1>0, <1>3, <2>3, <2>5, <3>1, <3>2, PassingStart
    <3> QED BY <1>0, <2>6, <3>3, FrozenStep
  <2>9. ASSUME NEW pc \in StartSteps, Goes(t, pc) PROVE Paying'
    <3>1. pc \in Steps \ {"done"}
      BY DEF Steps, StartSteps
    <3>2. /\ task'[t].pc = pc /\ task'[t].next = task[t].next
          /\ task'[t].seen = task[t].seen /\ task'[t].left = task[t].left
      BY <1>0, <2>9, <3>1, GoesType
    <3>3. Passing(t)'
      BY <1>0, <1>3, <2>3, <2>5, <3>2, PassingStart
    <3> QED BY <1>0, <2>6, <3>3, FrozenStep
  <2> QED BY <2>4, <2>7, <2>8, <2>9
<1> QED BY <1>2, <1>3, BillingFacts

----------------------------------------------------------------------------
(* Recovery, time and crashes *)

\* A step of the recovery or of time moves no task.
LEMMA RecoverPays ==
  ASSUME Solid, Solid', Paying, Recover
  PROVE  Paying'
<1>1. task' = task
  BY DEF Recover, Sweep, ReadStale, RecoverRow
<1>2. CASE Sweep
  <2>1. row' = row /\ call' = call /\ hold \in [Holds -> HoldRows]
    BY <1>2 DEF Sweep, Solid, TypeOK
  <2>2. \A h \in Holds : hold'[h].captured = hold[h].captured
    BY <1>2, <2>1 DEF Sweep, HoldRows
  <2> QED BY <1>1, <2>1, <2>2, FrozenSame, FrozenStep
<1>3. CASE ReadStale
  BY <1>1, <1>3, FrozenSame, FrozenStep DEF ReadStale
<1>4. CASE RecoverRow
  <2>1. PICK c \in recovery.refund \cup recovery.surface :
          (RefundRow(c) /\ Refundable(c)) \/ MarkAmbiguous(c) \/ UNCHANGED Database
    BY <1>4 DEF RecoverRow
  <2>2. c \in Tranches /\ row[c].state # "none"
    BY DEF Solid, TypeOK, RecoveryStates, Listed
  <2>3. Frozen
    BY <2>1, <2>2, FrozenRefund, FrozenMarkAmbiguous, FrozenSame DEF Database
  <2> QED BY <1>1, <2>3, FrozenStep
<1> QED BY <1>2, <1>3, <1>4 DEF Recover

LEMMA TimePays ==
  ASSUME Solid, Solid', Paying, TimePasses
  PROVE  Paying'
<1>1. ASSUME NEW c \in Tranches, RowAges(c) PROVE Paying'
  <2>1. /\ row \in [Tranches -> Rows] /\ row' = [row EXCEPT ![c].old = TRUE]
        /\ call' = call /\ hold' = hold /\ task' = task
    BY <1>1 DEF RowAges, Solid, TypeOK
  <2>2. \A d \in Tranches : row'[d].quantity = row[d].quantity /\ row'[d].state = row[d].state
    BY <2>1 DEF Rows
  <2>3. AllClosed(row') <=> AllClosed(row)
    BY <2>2 DEF AllClosed
  <2>4. Frozen
    BY <2>1, <2>2, <2>3 DEF Frozen
  <2> QED BY <2>1, <2>4, FrozenStep
<1>2. ASSUME NEW h \in Holds, HoldAges(h) PROVE Paying'
  <2>1. hold \in [Holds -> HoldRows] /\ hold' = [hold EXCEPT ![h].old = TRUE]
        /\ row' = row /\ call' = call /\ task' = task
    BY <1>2 DEF HoldAges, Solid, TypeOK
  <2>2. \A g \in Holds : hold'[g].captured = hold[g].captured
    BY <2>1 DEF HoldRows
  <2> QED BY <2>1, <2>2, FrozenSame, FrozenStep
<1> QED BY <1>1, <1>2 DEF TimePasses

LEMMA CrashPays ==
  ASSUME Solid, Solid', Paying, NEW t \in Tasks, Crash(t)
  PROVE  Paying'
<1> DEFINE r == IF t \in Callbacks THEN Fresh ELSE [Fresh EXCEPT !.pc = "dead"]
<1>1. Becomes(t, r) /\ row' = row /\ call' = call /\ hold' = hold /\ task \in [Tasks -> TaskStates]
  BY DEF Crash, Solid, TypeOK
<1>2. Frozen
  BY <1>1, FrozenSame
<1>3. CASE t \in Reservers
  BY <1>1, <1>2, <1>3, FrozenElsewhere
<1>4. CASE t \in Callbacks
  <2>1. task'[t] = Fresh
    BY <1>1, <1>4, BecomesType, FreshType
  <2>2. \A u \in Callbacks : task'[u] = task[u] \/ Passing(u)'
    BY <1>1, <1>4, <2>1, OthersStay, PassingFresh
  <2> QED BY <1>2, <2>2, FrozenStep
<1> QED BY <1>3, <1>4, BillingFacts

----------------------------------------------------------------------------
(* The minutes *)

LEMMA InitPaying == Init => Paying
<1> SUFFICES ASSUME Init PROVE Paying
  OBVIOUS
<1>1. /\ call.ended = FALSE /\ call.duration = NULL /\ call.absorbed = 0 /\ call.final = NULL
      /\ \A c \in Tranches : row[c].state = "none" /\ row[c].quantity = 0
      /\ \A h \in Holds : hold[h].captured = 0
      /\ \A t \in Callbacks : task[t] = Fresh
  BY BillingFacts DEF Init
<1>2. Whole = 0
  <2>1. \A c \in Tranches : Minutes[c] = 0
    BY <1>1 DEF Minutes
  <2> QED BY <2>1, SumZero DEF Whole
<1>3. Captured = 0 /\ Charged(row) = 0
  <2> DEFINE f == [h \in Holds |-> hold[h].captured]
             g == [c \in Tranches |-> Charge(row[c])]
  <2>1. (\A h \in Holds : f[h] = 0) /\ (\A c \in Tranches : g[c] = 0)
    BY <1>1 DEF Charge
  <2> HIDE DEF f, g
  <2>2. SumOver(Holds, f) = 0 /\ SumOver(Tranches, g) = 0
    BY <2>1, SumZero
  <2> QED BY <2>2 DEF Captured, Charged, f, g
<1>4. \A t \in Callbacks : Passing(t)
  BY <1>1, FreshType DEF Passing, StartSteps
<1> QED BY <1>1, <1>2, <1>3, <1>4 DEF Paying, Paid, Counted, Totals

LEMMA NextPaying == Rate > 0 /\ Solid /\ Paying /\ Solid' /\ [Next]_vars => Paying'
<1> SUFFICES ASSUME Rate > 0, Solid, Paying, Solid', [Next]_vars PROVE Paying'
  OBVIOUS
<1>1. ASSUME NEW t \in Reservers, Reserve(t) PROVE Paying'
  BY <1>1, LookPays, InsertPays DEF Reserve
<1>2. ASSUME NEW t \in Reservers, Undo(t) \/ Surface(t) PROVE Paying'
  BY <1>2, UndoPays
<1>3. ASSUME NEW t \in Dispatchers, Dial(t) PROVE Paying'
  BY <1>3, DialPays
<1>4. ASSUME NEW t \in Callbacks, Callback(t) PROVE Paying'
  BY <1>4, DeliverPays, ReadRowsPays, SkipRowPays, SettlePaysAll, RefundUnusedPays, AbsorbPays
  DEF Callback
<1>5. ASSUME NEW t \in Tasks, Boundary(t) PROVE Paying'
  BY <1>5, BoundaryPays
<1>6. CASE Work
  BY <1>1, <1>2, <1>3, <1>4, <1>5, <1>6, RecoverPays DEF Work
<1>7. CASE TimePasses
  BY <1>7, TimePays
<1>8. ASSUME NEW t \in Tasks, Crash(t) PROVE Paying'
  BY <1>8, CrashPays
<1>9. CASE RecoveryCrash \/ UNCHANGED vars
  BY <1>9, FrozenSame, FrozenStep DEF RecoveryCrash, vars
<1> QED BY <1>6, <1>7, <1>8, <1>9 DEF Next

\* Every state of a metered call keeps the books of its minutes.
THEOREM BillingPaysRows ==
  ASSUME Rate > 0
  PROVE  Spec => []Paying
<1>1. Solid /\ Paying /\ [Next]_vars /\ Solid' => Paying'
  BY NextPaying
<1> QED BY <1>1, InitPaying, BillingInvariant, PTL DEF Spec

\* The provider's minutes are paid exactly once, however many deliveries of
\* the status callback overlap and whatever task dies: what is charged and
\* absorbed never exceeds the duration, and is all of it when a delivery has
\* been answered.
THEOREM BillingMinutesPaidOnce ==
  ASSUME Rate > 0
  PROVE  Spec => []MinutesPaidOnce
<1>1. Solid /\ Paying => MinutesPaidOnce
  <2> SUFFICES ASSUME Solid, Paying PROVE MinutesPaidOnce
    OBVIOUS
  <2>1. Billed = Whole
    <3>1. \A c \in Tranches :
            (IF row[c].state = "settled" THEN row[c].quantity ELSE 0) = row[c].quantity
      BY DEF Paying, Paid
    <3>2. [c \in Tranches |-> IF row[c].state = "settled" THEN row[c].quantity ELSE 0] = Minutes
      BY <3>1 DEF Minutes
    <3> QED BY <3>2 DEF Billed, Whole
  <2>2. Counted /\ \A t \in Callbacks : Passing(t)
    BY DEF Paying
  <2> QED BY <2>1, <2>2 DEF MinutesPaidOnce, Counted, Passing, In
<1> QED BY <1>1, BillingInvariant, BillingPaysRows, PTL

\* When a delivery has been answered the call is closed for good: no row is
\* open, whoever is still running, and a charged call shows its final cost.  A
\* final cost is only shown for a closed call, and is what its holds captured.
THEOREM BillingAnsweredMeansClosed ==
  ASSUME Rate > 0
  PROVE  Spec => []AnsweredMeansClosed
<1>1. Paying => AnsweredMeansClosed
  <2> SUFFICES ASSUME Paying PROVE AnsweredMeansClosed
    OBVIOUS
  <2>1. Totals /\ \A t \in Callbacks : Passing(t)
    BY DEF Paying
  <2> QED BY <2>1 DEF AnsweredMeansClosed, Totals, Passing, In, Captured
<1> QED BY <1>1, BillingPaysRows, PTL
====
