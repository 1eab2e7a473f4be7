# Aurvek: a TLA+ development

Aurvek is a FastAPI application over one SQLite database: chat with AI models,
media generation, telephone calls, messaging channels and a marketplace, paid
for from prepaid wallets.  This directory holds TLA+ models of its core logic,
the TLC runs that check them on small instances and the TLAPS proofs that hold
for every instance.  `PROJECT.json` maps every definition to the lines of code
it stands for.

Contents: 1 inventory, 2 plan, 3 modules and their correspondence to the code,
4 runs, bounds and fairness, 5 proofs, 6 findings, 7 what is not modelled.

## 1. Inventory

The program is one asyncio process per web worker plus a few long-lived worker
processes (telephone dispatchers, media workers, outboxes).  They share SQLite
tables; writers that matter open `BEGIN IMMEDIATE` transactions, so a
transaction is atomic and what interleaves is transactions.

| Component | State | Operations | Meets |
|---|---|---|---|
| Usage reservation ledger (`billing/usage_reservations.py`) | `BILLING_USAGE_RESERVATIONS`, `USER_DETAILS.balance` and the team columns | reserve, extend, accumulate, start and success marks, settle, refund, reconcile | every caller of an AI or media provider, administration, checkout, wallet |
| Account billing guard (same file) | `_account_locks`, lock entries, leases, the guarded stream | acquire, nest, release, cancel, stream | chat and channel requests, the detached producer |
| Sponsored funding (`integrations/applications/`) | grants, operations, attribution of holds | admit, check the budget | ledger |
| User billing configuration (`app.py`, `marketplace/services/acquisition.py`) | payer, limit and action per user | edit, bind, unbind | ledger |
| Wallet (`billing/wallet.py`, webhooks) | balances, payments | top-up, chargeback | ledger |
| AI turn runtime and adapters (`ai_runtime/`) | a turn in memory, its reservation, messages | reserve, call providers and tools, record usage, save now or when heard, finalize | ledger, guard, voice transports |
| Media tools and live voice (`tools/`, `integrations/live/`) | queued work, sessions | hand over a hold to a worker, extend by tranches | ledger |
| Telephone dispatch (`integrations/telephony/scheduler.py`, `repository.py`) | jobs, calls, leases, foreground | create, claim, dispatch, expire | provider, callbacks, owner |
| Telephone callbacks (`provider_repository.py`) | the same rows, a callback ledger | status, TwiML, hangup | dispatch |
| Telephone billing (`billing.py`, `provider_repository.py`) | `PHONE_CALL_COST_COMPONENTS`, one hold per tranche, totals of the call | reserve, start, extend, settle, refund, absorb, recover | ledger, dispatch, sessions, callbacks |
| Telephone memory (`memory_outbox.py`, `purge.py`, `purge_state.py`) | outbox rows, operation leases, provider links, memory state, purge jobs | claim, deliver, fence, forget, replay, erase | memory providers, conversations |
| Telephone sessions and media, AI-call outbox | sessions, epochs, audio buffers, outbox rows | take over the foreground, stream, deliver | dispatch, billing, AI turns |
| Marketplace, payouts, landing jobs | purchases, entitlements, transfers, jobs | checkout, refund, pay out, publish | wallet, configuration |
| Embedded applications, account deletion, storage, rate limits, authentication, chat routes, presentation | SQL rows, counters | request handlers | the above |

**What is hard here, and what has to hold.**

* *Ledger.*  A hold is closed by whoever comes first: the caller that settles,
  the error path that refunds, the reconciler that finds it abandoned.  Holds of
  one team member share a monthly allowance that resets when the month turns and
  refills itself; closing a hold undoes its part of both.  Required: money is
  neither created nor lost, confirmed work is charged, the allowance is never
  stranded or eroded, the sponsor's budget is kept, an abandoned hold closes.
* *Guard.*  A lock is created on demand and forgotten when unused, taken again
  by the request that has it, released by a producer that may outlive the
  response, and waited for by requests whose payer may change.  Required: one
  request per account, no entry leaked or forgotten under a waiter, provider
  work under the lock, no wait and no lease for ever.
* *Dispatch.*  A dispatcher may die, lose its lease, or be overtaken by a
  callback between any two transactions, and uses clock readings that are
  already old.  Required: one provider request per job, one live call per
  conversation, job, call and foreground that agree, no outcome unknown for ever.
* *Telephone billing.*  A tranche is a row and a hold, written by different
  transactions of tasks that do not know of each other: a dispatcher, the
  webhook that connects the stream, a live meter, two deliveries of the final
  callback, and the recovery of a starting runtime.  Required: row and hold
  agree, every minute is paid once, an answered call stays closed.
* *Telephone memory.*  A provider can forget only a whole conversation, requests
  to it time out and may still be carried out, and one provider has no identity
  to recognise a repetition by.  Required: nothing is said to it twice, a deleted
  call is forgotten for good, what is kept is still remembered after a purge.
* *Spoken turns.*  The reply is generated at once, but saved when the caller has
  heard it; confirmation, interruption and closing race with the generation,
  with each other and with three billing steps.  Required: what was heard is
  saved once, received usage is paid once, everybody's wait ends.
* *Other clients of the ledger* (text turns, media workers, live voice).  Each is
  a sequence of ledger transactions with awaits between them.  Required:
  whatever step fails, the hold ends settled or refunded as its work says.
* *Checkout, payouts and the AI-call outbox.*  Webhooks and deliveries arrive
  twice or late.  Required: each takes effect once.

`PROJECT.json` lists the hazards one by one with their lines; those without a
property carry the reason.

## 2. Plan

Order: what moves money first, then what orders it, then the protocol with the
most actors, then the clients of the ledger.

1. *Done.*  `Sums`, `UsageReservations` and its abstraction `Escrow`, with
   proofs, the refinement among them.
2. *Done.*  `BillingGuard`, with proofs.
3. *Done.*  `PhoneDispatch`, with proofs.
4. *Done.*  `PhoneBilling`: the tranches of one call, with proofs.
5. *Done.*  `PhoneMemory`: outbox, leases and purge, with proofs.
6. *Done.*  `VoiceTurn`: a deferred turn with its hold, with proofs.
7. `MediaWorker`: a queued generation (`tools/generate_images.py` 811-1012,
   `tools/generate_videos.py` 267-539, `integrations/media.py` 217-480).  Wanted: a
   job is generated by one worker, and its hold ends as the job does.
8. `PhoneSession`: media sessions that take over the foreground, hangup claims
   and answering-machine hangups, with an abstract foreground ("one owner per
   epoch") that both it and `PhoneDispatch` implement.
9. `AccountAdmin`: the balance that `app.py` reads at line 5621 and writes back
   at line 6077.
10. `Checkout` and `Payouts`: webhook replay, refund, entitlement, transfer.
11. Then landing jobs, provider circuit, storage quota, account deletion, the
    AI-call outbox and the memory synchronisation of chats.

Every safety property of the passing runs has its theorem; liveness stays with
TLC.  `PhoneBilling` does not implement `Escrow` step by step: the recovery
returns every orphan hold of a closed call in one transaction (`Sweep`), where
`Escrow` returns one hold a step.  Its books are therefore proved directly
(`BillingBooksBalance`).  The next theorems are those of the modules still to be
written.

## 3. Modules

| Module | Role |
|---|---|
| `Sums` | totals, as SQL's `SUM`; defined by counting units, so that the library's cardinality facts suffice to reason about them |
| `Escrow` | abstract: available and held money, a hold is opened, grown, and captured or returned once |
| `UsageReservations` | the ledger |
| `BillingGuard` | account locks, leases and the guarded stream |
| `PhoneDispatch` | jobs, calls, foreground, dispatchers, provider, callbacks |
| `PhoneBilling` | the metered minutes of one telephone call |
| `PhoneMemory` | memory outbox, purge and what the memory providers know |
| `VoiceTurn` | one spoken turn: generation, deferred save, voices, billing |
| `SumsProofs`, `EscrowProofs`, `UsageReservationsProofs`, `BillingGuardProofs`, `PhoneDispatchProofs`, `PhoneBillingProofs`, `PhoneMemoryProofs`, `VoiceTurnProofs` | the theorems |
| `MCUsageReservations`, `MCBillingGuard`, `MCPhoneDispatch`, `MCPhoneBilling`, `MCPhoneMemory` | small instances for TLC |

Operators named `X_Something` (in `PhoneBilling` also `X_` followed by what is
wrong, before the operator they corrupt) are plausible faults of `X`;
replacing `X` by one of them violates the property named with it in
`PROJECT.json`.  They are not part of the model.

### UsageReservations

One action is one public coroutine of `billing/usage_reservations.py`, that is
one `BEGIN IMMEDIATE` transaction.  A refused operation rolls back and is no
action.  Any caller may call any operation at any time, which covers all
interleavings of requests, workers and the reconciler.

* `balance`, `member` and `hold` are the columns of `USER_DETAILS` and
  `BILLING_USAGE_RESERVATIONS` (with the application operation it is for as
  `sponsored` and `budgetMonth`).  `edit` is what an edit of a user has read and
  not yet written.  `funded`, `configured` and `overwritten` are history.
* `Reserve`, `Extend`, `Accumulate`, `MarkAiStarted`, `ClaimProvider`,
  `MarkSucceeded`, `SettleFixed`, `SettleFixedAmount`, `Refund`, `SettleAi`,
  `SettleAccumulated` and `Reconcile` are the operations.
* Two things are read before the transaction that uses them.  `Reserve` and
  `Extend` take the month as a parameter `at`, one of `Readings`: the code reads
  the clock before `BEGIN IMMEDIATE` and keeps it over its retries (lines 863 and
  1452), so the transaction may commit with last month's.  It then resets the
  member's row to that month.  Settlements and releases read the clock in their
  transaction.
* The other one is `update_user`.  `ReadForEdit` is its read of the billing columns
  (`app.py` 5601-5640), outside any transaction.  If the form asks for another
  policy, `Configure` writes it in a transaction that requires that no hold of
  the user is open; if it asks for the policy that was read, `WriteBack` writes
  the same columns without looking for holds (6023, 6071-6077).  `Requestable` is
  what a form can ask for, `AbandonEdit` a refusal or failure of the edit.
* `overwritten` are the users on whom such a write-back undid a change that was
  committed after the read, while they had holds open.  A later configuration
  through the gate takes a user out again.
* `Bind`, `Unbind`, `TopUp` and `Chargeback` are what the rest of the program does
  to the same rows: an unbinding requires that no hold of the user is open, an
  acquisition's binding does not.
* `AfterRollover`, `LimitAllows`, `RefillCount`, `RaisedLimit`, `LimitDelta`,
  `Charged` and `Released` are the allowance arithmetic, pure operators on a
  member row.
* Amounts are natural numbers of a smallest unit: the code's floats and their
  `1e-12` tolerance are abstracted.  Time is the UTC month and, per hold, whether
  `created_at` (`old`) and `provider_started_at` (`startOld`) have left the
  purpose's window.  Earnings shares, referral pricing and usage statistics are
  derived from a charge and left out.

### BillingGuard

The program is one event loop: code between two awaits is one action.

* `registry` is `_account_locks`, `entry` the `_LockEntry` objects, `lease` the
  acquisition of a request, `stream` the producer, its bounded queue and its
  client.  A request is a logical owner; an application turn takes an outer
  lease and, inside it, the runtime's.
* `ReadPayer`, `Join`, `Wake`, `Check` and the ways they fail are
  `_acquire_user_account_lease`, which reads the payer again once it has the lock; `Preflight`,
  `Start`, `Produce`, `Put`, `Discard`, `Consume`, `CloseResponse` and `Exit` are
  `_serialize_user_billing_response` and the `_BillingGuardedStreamingResponse` it returns.
* The put timeout is not a clock: `Discard` may happen whenever the code would
  give up, that is once the consumer is gone; a timeout with a consumer that is
  still there repeats the put and is a stutter.
* `Entries` are identities of lock objects; there is always one more than
  accounts, so a fresh one exists (`GuardFinite`).

### PhoneDispatch

Every repository method is one transaction and one action; a dispatch task is a
program counter between them.

* `job`, `call` and `foreground` are the tables; a call is named by its job
  because `job_id` is unique.  `attempt` is a task running `_dispatch_claimed_job`;
  `dispatcher` a process running `run_until_stopped`; `provider` the truth at the
  provider, of which the program only learns by answers and callbacks.
* A lease is the task that has it (for the pair of owner and random token); the
  foreground's epoch is the task that acquired it.  Clocks are early, window or
  late for a job and live or expired for a lease.  `RenewForeground` stores the
  clock reading that `MarkStarted` and `FailUnstarted` use later, so both may act
  on a reading that is out of date, as they do in the code.
* `bar` is why calls are refused: owner disabled, telephony profile off, binding
  replaced or disabled, conversation incognito or locked.  `Unrouted` closes the
  jobs the code closes with it; `Allow` lifts it again.
* Merged: queued, initiated and ringing; busy, no answer and machine with
  completed.  A heartbeat registry decides in the code whether a due job of a
  dispatcher that was down is missed; here `MissScheduled` may choose either in
  the window.  The callback deduplication table is abstracted: a duplicate is a
  second callback, whose effect must be harmless by itself.
* Branches of the code that no state reaches here: `claim_job` and
  `create_call_from_job` for a job whose request has started.  `JobMatchesCall`
  shows it: a job in dispatch has no started call.

### PhoneBilling

One action is one connection block of `integrations/telephony/billing.py`; the
tasks that call it interleave between them and may die there.

* `row` is `PHONE_CALL_COST_COMPONENTS`, `hold` the fixed reservation of each row,
  `call` the duration, the absorbed units and the total of the call.  A reserver
  tries each tranche with a hold of its own, so `Holds` are pairs of reserver and
  tranche; a hold whose row was inserted by somebody else is given back by
  `DropHold`.
* `Look`, `Fund`, `Insert`, `DropHold` are `_reserve_component_owned`;
  `MarkStarted`, `Reconcile`, `Claim`, `Check`, `Update` are
  `mark_provider_started`; `Undo` and `Surface` what a caller does when that
  raises.  `Cross`, `Post`, `GiveBack`, `FailCall` are the dispatcher;
  `Deliver` to `Absorb` a status callback; `Sweep`, `ReadStale`, `RecoverRow`
  `recover_stale_phone_billing`.
* Time is whether a row or hold is older than the recovery threshold.  No task
  works for fifteen minutes on one row, so only a row nobody is at grows old.
* `Sweep` closes several holds in one transaction, which no single step of
  `Escrow` does: `BooksBalance` is stated for the mapped state, the refinement of
  steps is not claimed.
* One resource (the minutes of the line) is modelled.  Media-stream and
  transcription tranches are rows of the same table with the same functions.

### PhoneMemory

* `outbox`, `leases`, `links`, `talks`, `memory` and `job` are the tables; `worker`
  and `purger` the tasks; `held` what the providers know, `flight` the requests
  whose answer nobody awaits and that may still be carried out; `asked` counts
  the requests to mem0.
* `Claim` to `MarkFailed` are one delivery (`memory_outbox.py` and the lease
  operations of `purge_state.py`); `RequestPurge` to `Retry` the purge.
* A lease token is fresh and random in the code; the attempt number, which
  grows with every claim, stands for it.  Deadlines matter only to the
  transactions that read them, which choose which expired ones have passed.
* Assumed: the owner's preference lets the conversation be remembered; the
  delivery lease (30 s) outlives a request (10 s); the purge renews its lease; an
  operator retries later than any request in flight.
* Known and kept in the model, since the code has it: an ambiguous lease that is
  surfaced blocks the memory until an operator acts (`purge_state.py:77`), blocked
  rows use up attempts, and a purger that dies after its replay and before
  `SaveProgress` replays again.

### VoiceTurn

One event loop: what a task does between two awaits is one action.  A
cancellation is a flag that the next await of the owner delivers; at a database
transaction it may find it committed or not.

* `turn` is the `ChannelTurnHandle`; `owner` the task that consumes the response,
  with the generator; `saver` the shielded task of `defer_commit`; `voice` the
  tasks of the transport; `hold` the AI reservation with the usage received,
  recorded and charged; `saves` the rows in `MESSAGES`.
* `Reserve`, `CallEnds`, `Record`, `Extend`, `Defer`, `Heard`, `Settle`, `Refund`,
  `Close` and their `...Cancelled` twins are the generator and its finalizer;
  `SaverCommits` to `SaverReturns` the deferred save; `Confirm`, `Interrupt`,
  `FallbackCommits`, `Join`, `Abort`, `GiveUp` and their ends the voices.
* Left out: the start marker of realtime calls; a second, different draft;
  voices that report different prefixes; text turns.  The save of an interrupter
  does not touch the hold; the finalizer of the generation settles it.
* `torn` records that a cancellation cut a billing transaction.  The code has no
  remedy for that beyond the reconciliation of the ledger, so `UsageIsCharged`
  promises the full charge only without it; the hazards list it.
* A voice that gives up while the shielded save waits may lose a heard message.
  It is one of the faults, for which `SavedOnce` promises at most one save.

## 4. Runs

| Run | Instance | Question |
|---|---|---|
| `ledger_team` | 2 image holds, own or sponsored with a grant of 2, team member unbilled or refilled, 1 edit at a time, 2 months | money, allowance, limits, grant, payer and refinement under every interleaving of two fixed-cost holds, late clock readings and an edit |
| `ledger_live` | 1 hold of every purpose, among them an AI hold that grows, 2 calls, 1 month | what the reconciler promises to close, and that a growing hold leaves nothing behind in the spend |
| `ledger_rollover` | 1 AI hold, 2 months | violation of `SpendExplained` (finding 1) |
| `guard_safety` | 1 application turn and 2 requests of one user, 2 accounts, 3 entries | exclusion, registry, provider work under the lock, complete streams |
| `guard_live` | 1 turn and 1 request | every wait and every lease ends |
| `dispatch` | 2 jobs of one conversation, 2 dispatchers, 2 tasks, all bars, 1 crash | one live call, agreement of job, call and foreground |
| `dispatch_live` | 1 job, 2 dispatchers, 2 tasks, leases shorter than the window | one request, unknown outcomes settle, claimed jobs end |
| `dispatch_scan` | 1 job, 1 dispatcher | violation of `KeepsScanning` (finding 2) |
| `phone_billing` | 2 tranches, dispatcher, gate, meter, 2 callbacks, recovery, 1 crash | rows and holds agree, minutes are paid once, an answered call is closed, the books balance |
| `phone_recovery` | the same with 1 tranche | violation of `RecoveryRefundsOnlyUnstarted` (finding 3) |
| `phone_memory` | 2 calls with a sentence each, 1 deleted, 2 workers, both providers, 2 attempts, 1 crash | nothing asked twice, deleted forgotten, kept remembered |
| `voice_turn` | 3 voices, 2 provider calls, 2 faults | saved once, usage charged, the turn ends |

**Bounds.**  Two holds are what it takes for refills to be undone out of order,
for two holds that fit alone not to fit together, and for a settlement to meet a
refund.  Amounts 1 and 2 with refills of 2 and a maximum of 4 make a refill
cover, over-cover and be capped.  `MaxMonth = 2` lets a hold be closed in a later
month than it was opened in, and a reservation be dated to the month that has
ended; a third month repeats the second, and a call that waits for the database
for longer than a month does not exist.  One edit of the teammate is open at a
time, which suffices for its write-back to meet bindings, refills and holds
committed since its read; that another edit was committed since is the same as a
binding or an unbinding.  In `ledger_team` the teammate has no money of his own
and the policy that blocks at the limit is left out, to keep the run at 1.8
million states; `ledger_live` and `ledger_rollover` have both.  `ledger_live`
stays in one month because of finding 1, which `ledger_rollover` isolates.
`MaxFunds` and `MaxHold` only end deposits and extensions.  The guard needs three
requests for a newcomer to meet a waiter and an owner, and one more entry than
accounts so that an entry can be forgotten while an old one is still referenced;
a queue of one and a stream of one item and a terminator make it full.  Two
dispatchers, two tasks and two jobs of one conversation give every conflict of
leases and foregrounds; `MaxCrashes = 1` already combines with lease expiry at
any moment, which looks the same to the others.  With leases shorter than the
window and two jobs, `TypeOK`, `OnePost`, `OneLiveCall`,
`ForegroundMatchesCalls` and `JobMatchesCall` were also checked offline
(8.6 million states); the run in the list is smaller.  In the telephone billing
two tranches of two units with durations of 1 and 5 give a first tranche that is
used in part, a second that is not used, and a minute beyond all tranches;
funds for two tranches make a third hold, of a loser, be refused; two deliveries
of the callback overlap at any step.  For the memory, one deleted and one kept
call make a purge that must forget one sentence and replay the other, two
workers make a late one meet a new claim, and two attempts let the last be the
ambiguous one.  Three voices are a confirmation, an interruption and a closing
session; the second call of a turn is a tool follow-up; two faults let the save
and its fallback both fail.

**Lease and window.**  The runtime configures a dispatch window of at most 60
seconds and a job lease of 60, so a job whose lease expired is late
(`LeaseOutlivesWindow = TRUE`).  The classes alone permit a longer window;
`dispatch_live` explores it.  The last part of `JobMatchesCall`, that no job is
left behind with an unstarted call, is only claimed under the runtime's setting.

**Deadlock.**  The dispatch runs switch its check off: a system whose jobs are
all settled rests, as does a call that is billed, a memory whose sentences are
all delivered, and a turn that is over.  That nothing stops earlier is what
`DispatchingEnds`, `UnknownSettles` and `TurnEnds` show; `PhoneBilling` and
`PhoneMemory` claim no progress, since a dead reserver, a lost callback or a
surfaced lease legitimately waits for an operator.

**Fairness.**
* Ledger: the clock, and the reconciler for every stale hold.  Any use of the
  billing locks restarts the reconciler after five minutes, and it goes on to the
  next row after one that fails.  No caller has to settle anything.
* Guard: the event loop runs every runnable task; a provider answers or fails;
  the server calls a response it was given; a client reads or is disconnected.
* Dispatch: the clock, scanning, tasks, and that somebody restarts a dispatcher
  that is down (nothing in the code does).  `MissIfLate` of a task that has its
  lease is strongly fair: a lease of 60 seconds is far longer than the first
  step of a task, so a job is not claimed for ever without one.  Neither the
  provider nor its callbacks have to do anything.
* Voice turn: the event loop runs every runnable task, a provider call ends
  (its client has a timeout), and the transport sooner or later plays to the
  end, interrupts or closes.

**What liveness does not promise.**  Started but unconfirmed speech, web search
and AI holds, and telephone holds, are never stale; the recorded usage of a team
member can be refused by a new month's limit for ever; an unresolved call blocks
its conversation until an operator acts.  The properties say so by their
premises, and the hazards list it.

## 5. Proofs

Every statement below is proved for all constants that satisfy the modules'
`ASSUME`s: any set of users, any finite set of holds, any policies and amounts.

* `SumUpdate` (`SumsProofs`): if one summand changes, the total changes by the
  same amount.  `SumOver` counts the pairs `<<x, i>>` with `i` in `1..f[x]`, so the
  fact follows from the cardinality of a disjoint union, without induction.
* `EscrowBooksBalance` (`EscrowProofs`): types and books of the abstract escrow.
  The invariant is inductive with its types; each action changes one summand.
* `TypeCorrect` (`UsageReservationsProofs`): `Spec => []TypeOK`.  One lemma per
  operation types the values it writes.  The interesting parts are arithmetic:
  an allowed charge needs a natural number of refills (`RefillType`, from
  `CeilDivCovers`), a capped refill never lowers a limit, a release clamps at
  zero, recorded usage is a sum over a finite set.
* `ConfirmedWorkStaysCharged` and `PayerStaysFrozen` (same module).  Both
  rest on `OperationStep`: every operation changes one row, and keeps it open for
  the same payer, settles it, refunds it unconfirmed or opens it for the payer of
  its user, and no operation on a hold changes who pays for whom.  With
  `TypeOK` the two properties are then inductive.  The environment's part is one
  lemma (`EnvironmentStep`): it leaves holds alone, and turns the month, changes
  nothing of the rows, or changes the policy of one user (`PolicyChange`), whom
  it leaves his payer, or who has no payer or no open hold, or is then
  `overwritten`.  `PayerStaysFrozen` therefore covers every binding, configuration
  and write-back, and says of the last which ones can break the promise.
* `LedgerImplementsEscrow` (same module): the ledger implements `Escrow`
  under the mapping in `UsageReservations` (`balance` is available money, a row is
  a hold, `settled` is what was captured).  Initial states map to initial states;
  each operation maps to `Open`, `Grow`, `Capture`, `Return` or a stutter, a
  top-up to `Deposit`, a chargeback to `Withdraw`.
* `LedgerBooksBalance`: the books of the ledger, by composing the two.
* `LedgerGrantWithinBudget`, `LedgerAllowanceCoversHolds`, `LedgerLimitNotEroded`
  and `LedgerSpendStaysInLimit` (same module), for any users, policies, amounts,
  months and finite set of holds.  Every operation changes one hold and the row
  of one member, and in one of three ways (`Moves`): it marks the hold, grows it
  by an amount that the row, as of the month that was read, and the grant allowed,
  or closes it and releases its part of the row.
  `LedgerAllowanceCoversHolds` is an action property: as long as the row of a
  member has spend and refill count for all open holds of the month (`Covered`),
  every step keeps it so, but a charge that dates the row back.  The invariant for
  `LedgerLimitNotEroded` (`AllRestorable`) says that a limit no edit has overwritten
  is at least the configured one plus the raises of the open holds.  That is what
  `LimitNotEroded` lacks to be inductive: undoing a refill may take away no more
  than that refill, which the others then still find.  It does not need that the
  row covers the holds, and so survives a row that is dated back; it does need
  that only a team hold raised a limit (`Timely`) and `PayerFrozen`.
  `LedgerSpendStaysInLimit` is an action property: a row is replaced by one that
  is within the limit if it was (`Follows`), and no row is dated in the future
  (`Dated`).  TLC checked `AllRestorable`, `AllTimely`, `Budgeted` and `Dated` on the
  instance of `ledger_team` and on one with two AI holds and a grant.
* `LedgerSpendExplained` (same module).  `SpendExplained` is false of the code
  (finding 1), so the theorem has a premise, `[][InMonth]_vars`: every extension
  that is counted in a month is of a hold reserved in that month.  The runs that
  check the property satisfy it (no AI holds, or one month); the violation run is
  a behaviour that does not.  Late clock readings need no premise: what is dated
  to the last month is no spend of this one.  The invariant (`Explained`) counts an
  open hold only in its own month, since in a later one nothing of it comes back;
  each operation changes the spend by no more than what its hold counts for, or leaves it at no
  more than that (`Explains`), and a turn of the month finds every row outdated
  (`Dated`).  TLC checked `Explained` on the instances of `ledger_team` and
  `ledger_live`, and with the premise on two AI holds over two months (74,118
  states).

* `GuardMutualExclusion`, `GuardRegistryMatchesLeases`,
  `GuardProviderRunsUnderLock` (`BillingGuardProofs`), for any finite number of
  requests and accounts.  None is inductive: a lock is released by whoever
  brings its depth to zero and an entry forgotten by whoever brings its
  participants to zero, so the invariant has to say that the two numbers *are*
  the cardinalities of the leases that hold it and that use it (`EntriesCount`),
  that every holder's owner is the entry's (`HoldersOwn`), and that a waiter is
  in the queue (`WaitersQueue`).  `LockInv` is kept by four kinds of steps (join,
  wake, leave, nothing), each a lemma; `HandlerInv` says which request has a lease
  to leave with.  It needs more entries than accounts, so that a fresh one exists.
* `GuardStreamComplete` and `GuardTypes` (same module), for any length of stream
  and queue.  While somebody reads, the items received, those in the queue and
  the one that is being put are those the provider sent; only the last message
  of a queue can be a terminator, and it is `done` only when every item was sent
  (`StreamInv`, checked by TLC with two items and a queue of two, 103,176 states).
  A queue is thus a sequence of items with at most a last message that is none,
  and nothing has to be counted by recursion.
* `DispatchTypes`, `DispatchPostsOnce`, `DispatchOneLiveCall`,
  `DispatchForeground`, `DispatchJobMatchesCall` (`PhoneDispatchProofs`), for any
  numbers of jobs, conversations, dispatchers, tasks and crashes.  None is
  inductive.  What carries them is the commit before the request: it makes the
  job need attention and marks the call as started, and from then on no claim,
  expiry or owner leads a second task to the same boundary.  The invariant
  (`IInv`) says which combinations of job, call, number of requests and state at
  the provider exist (`Sound`), what a task that stands between two transactions
  can rely on although its lease may be gone (`Careful`), and that one task at most
  is past the boundary for a job.  `LeaseOutlivesWindow` is a hypothesis of the
  last theorem only; asking once does not depend on the length of a lease.  TLC
  checked `IInv` on the instance of `dispatch` and on one with one job, three
  tasks and two crashes.
* `BillingTypes`, `BillingHoldsFollowRows`, `BillingBooksBalance`,
  `BillingMinutesPaidOnce`, `BillingAnsweredMeansClosed` (`PhoneBillingProofs`),
  for any numbers of reservers, deliveries, tranches and crashes and any
  durations.  Three invariants, each inductive given those before it.  `Solid`: a
  hold is opened by the one task it is named for and ends as its row does, an
  open hold without a row is in the hands of its task or abandoned, and what a
  task has read of a row is what the row is or something less final.  `Booked`: what
  the owner had is his balance and what the holds keep (`SumUpdate` again).
  `Paying`: the duration is paid front to back, so two deliveries that reach a
  row, whatever they read of it and when, have the same amount left there, and
  pay or skip the same.  The books are those of `Escrow` again, but proved
  directly.  TLC checked `Solid` and `Paying` on the instance of `phone_billing`
  (1.39 million states) and on smaller ones, `Solid` also with `Rate = 0`.

  The two theorems about the minutes have the hypothesis `Rate > 0`, and need it.
  With a rate of zero (the creator pays the provider) a row has no hold, and
  then nothing stops `mark_provider_started` (`billing.py` 800-842) from
  moving a row that it read as `needs_attention` back to `provider_started` after another
  delivery has settled it: its `UPDATE` names the row but no state.  TLC reaches
  that in 16 states.  No money is involved, but an answered delivery is then
  not the end of the call.
* `MemoryAskedOnce` (`PhoneMemoryProofs`), for any sets of calls, messages and
  workers: a sentence is sent to mem0 at most once.  What carries it is the row:
  a started mem0 row is never due again, the attempt number is a token that one
  worker has, and the worker with the token of a started row is past the
  boundary.
* `MemoryTypeOK`, `MemoryDeletedIsForgotten`, `MemorySettledIsRemembered`
  (`PhoneMemoryProofs`), for any sets of calls, messages, workers and providers.
  Both safety properties say what holds when a purge is over, so the
  invariant (`PInv`) has to say how it gets there.  A worker has a started lease
  around its request, and a request nobody waits for has left one behind that
  only an operator takes away; so a purge that finds no lease runs while nobody
  writes (`RequestsLeased`, `FlightsLeased`, `Quiet`).  Its job names every provider
  that knows or may know anything (`JobKnows`) and it does not complete with mem0
  among them.  Between the reset of Atagia and the end of the replay a sentence
  is remembered or has yet to be replayed (`Remembered`), and none of the deleted
  call is remembered (`Forgotten`).  One lemma `Kept<Action>` per action.  TLC
  checked `PInv`, all but a few type-like conjuncts, on the instance of
  `phone_memory` before it was proved.
* `VoiceTurnTypes`, `VoiceTurnSavedOnce`, `VoiceTurnUsageIsCharged`
  (`VoiceTurnProofs`), for any set of voices and any bounds.  The claim on a turn
  names the only task that may write it; without a fault a cancellation implies
  that a result is there; and the position of the owner fixes which part of the
  received usage is recorded and charged.

Only model-checked: every liveness property.  Out of the prover's reach: liveness
under fairness and `ENABLED`, and what a recursive definition computes on every
input; the project therefore has no recursive operator and leaves liveness to
TLC.

## 6. Findings

1. **An extension after the month turned stays in the member's spend**
   (`billing/usage_reservations.py:1653`).  `extend_ai_reservation` rolls the
   member over and counts the extension in the new month, but the hold keeps its
   `billing_month`, and `_release_team_reservation_state` undoes nothing unless
   that month is the current one.  A refunded hold then leaves spend, and perhaps
   a refill, that no hold or charge explains.  Run `ledger_rollover`.
2. **One dispatch ends the loop that scans for all**
   (`integrations/telephony/scheduler.py:471`).  When the owner is disabled
   between claim and call creation, `create_call_from_job` cancels the job and
   raises; the handler asks for a conflict, which a canceled job does not admit,
   and the error leaves the task, is raised again by the loop and ends it.
   Run `dispatch_scan`.
3. **The recovery refunds a hold that was claimed meanwhile**
   (`integrations/telephony/billing.py:2123`).  It reads the old rows in one
   transaction and refunds them in others, without looking at the provider start
   again.  A late status callback that claims the hold in between has it
   refunded, and cannot settle it.  Run `phone_recovery`.

Two more observations have no run of their own, because the model contains the
behaviour and a checked property says exactly how far it reaches:

* **An edit that leaves billing alone can undo billing changes under open holds**
  (`app.py:6023`).  The comment at 6027-6031 says that the write transaction
  prevents a fresh reservation from appearing between the check and the update,
  but check and transaction are skipped when the request equals the earlier
  read.  An acquisition that binds the user, or a refill, committed after that
  read is then written over, with holds open that rely on it.  `PayerFrozen` and
  `LimitNotEroded` hold for every user this has not happened to (`overwritten`).
* **A reservation that crosses the turn of the month dates the member back**
  (`billing/usage_reservations.py:863`).  It resets the row to the month it has
  read, so what the holds of the new month have added is forgotten, although
  they stay open; the next charge resets the row once more.  The error is in the
  member's favour: `AllowanceCoversHolds` shows that nothing else loses an open
  hold, `SpendExplained` that the spend is never too high because of it.  An
  extension that crosses the turn (1452) does the same.

## 7. Not modelled

`PROJECT.json` names every component with its status.  Planned ones are in
section 2.  Of the modelled components these parts are left out:

* Ledger: earnings, referral and statistics rows written with a charge.  A
  settlement reads the clock twice in its transaction (release and charge), here
  once.
* User edits: the balance they write along with the policy (`app.py:6077`), which
  is not a step of the ledger, and is a hazard without a property.
* Sponsored funding: admission, precedence and revocation of grants.
* Dispatch: requests of embedded applications that fail for
  lack of funds, hangup claims and machine hangups, media sessions and their
  foreground take-over, inbound calls, purge, renewal of leases by tasks that
  are still running (expiry may happen at any time instead).
* Telephone billing: media-stream and transcription tranches, speech charges,
  machine detection, `live_billing.py`.
* Telephone memory: the AI-call outbox, purges of recordings and of whole
  conversations, deletion of the provider's own records, namespaces of embedded
  applications.
* AI turns: text turns, prompt assembly, the tools, realtime start markers.
* Guard: the cancellation of a task by a shutdown of the whole process, after
  which no lock exists.

Out of scope for good: provider wire formats, prompt assembly, audio codecs,
templates, translations and seed data, which have no control to check.
