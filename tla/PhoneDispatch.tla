---- MODULE PhoneDispatch ----
(***************************************************************************)
(* Outbound telephone calls: src/integrations/telephony/scheduler.py over  *)
(* the tables of src/integrations/telephony/repository.py, and the signed  *)
(* provider callbacks of provider_repository.py.                           *)
(*                                                                         *)
(* Several dispatcher processes scan one SQLite database for due jobs.  A  *)
(* dispatcher leases a job, creates its call, takes the foreground of the  *)
(* conversation, commits that the provider is about to be asked, asks it   *)
(* exactly once, and records the answer.  Every repository method is one   *)
(* BEGIN IMMEDIATE transaction and so one action; between two of them the  *)
(* other dispatchers, the owner, the callbacks and the clock may act.      *)
(*                                                                         *)
(* Clocks are abstracted to what the code asks of them: a job is early, in *)
(* its dispatch window or late, a lease is live or expired, a deadline has *)
(* passed or not.  A dispatcher reads its clock well before it uses what   *)
(* it read, so an attempt remembers the readings that may be stale.        *)
(***************************************************************************)
EXTENDS Naturals, FiniteSets

CONSTANTS
  Jobs,                \* identities of call jobs, all of one owner
  Conversations,
  ConversationOf,      \* ConversationOf[j]: the conversation job j calls about
  Dispatchers,         \* dispatcher processes
  Attempts,            \* dispatch tasks that may run at the same time
  Bars,                \* the reasons to refuse calls that may come up
  LeaseOutlivesWindow, \* a job's lease is at least as long as its window
  MaxCrashes,          \* bound: how often dispatcher processes die
  NULL

ASSUME ConversationAssumption == ConversationOf \in [Jobs -> Conversations]
ASSUME BarsAssumption == Bars \subseteq {"owner", "profile", "binding", "incognito", "locked"}
ASSUME DispatchBounds == LeaseOutlivesWindow \in BOOLEAN /\ MaxCrashes \in Nat
ASSUME DispatchNull == NULL \notin Jobs /\ NULL \notin Attempts /\ NULL \notin Dispatchers

VARIABLES
  job,         \* PHONE_CALL_JOBS
  call,        \* PHONE_CALLS: job_id is UNIQUE, a call is named by its job
  foreground,  \* PHONE_CONVERSATION_FOREGROUND
  bar,         \* bar[c]: why conversation c may have no calls, or NULL
  attempt,     \* the dispatch tasks of the dispatchers
  dispatcher,  \* the dispatcher processes
  provider,    \* the calls as the provider has them
  posts,       \* history: POST requests sent for a job
  crashes      \* how often a dispatcher process has died

vars == <<job, call, foreground, bar, attempt, dispatcher, provider, posts, crashes>>

----------------------------------------------------------------------------
(* States *)

Closed == {"canceled", "missed", "conflict"}

\* lease is the task that has the job, standing for the pair of lease_owner
\* and the random lease_token; live says that lease_until has not passed.
JobStates == [status : {"none", "scheduled", "dispatching", "needs_attention", "completed"} \cup Closed,
              time : {"early", "window", "late"},
              lease : Attempts \cup {NULL}, live : BOOLEAN]

\* busy, no_answer and machine are ended calls like "completed"; queued,
\* initiated and ringing are the ringing of a call.
Ended == {"completed", "failed", "canceled"}

CallStates == [status : {"none", "created", "dispatch_unknown", "ringing", "in_progress",
                         "unresolved"} \cup Ended,
               started : BOOLEAN, overdue : BOOLEAN, sid : BOOLEAN]

\* owner is the task that acquired or took over the foreground: it has the
\* epoch of that moment, and the epoch changes with every change of owner.
ForegroundStates == [call : Jobs \cup {NULL}, owner : Attempts \cup {NULL}, live : BOOLEAN]

AttemptStates == [pc : {"idle", "claimed", "checked", "rejected", "created", "renewed",
                        "crossed", "answered", "raised"},
                  job : Jobs \cup {NULL}, by : Dispatchers \cup {NULL},
                  leased : BOOLEAN, late : BOOLEAN,
                  answer : {"accepted", "refused", "unknown", NULL}]

NewJob == [status |-> "none", time |-> "early", lease |-> NULL, live |-> FALSE]

NoCall == [status |-> "none", started |-> FALSE, overdue |-> FALSE, sid |-> FALSE]

Free == [call |-> NULL, owner |-> NULL, live |-> FALSE]

Idle == [pc |-> "idle", job |-> NULL, by |-> NULL, leased |-> FALSE, late |-> FALSE, answer |-> NULL]

\* The calls of which a conversation may have one.
Incompatible == {"created", "dispatch_unknown", "ringing", "in_progress", "unresolved"}

Init ==
  /\ job = [j \in Jobs |-> NewJob]
  /\ call = [j \in Jobs |-> NoCall]
  /\ foreground = [c \in Conversations |-> Free]
  /\ bar = [c \in Conversations |-> NULL]
  /\ attempt = [a \in Attempts |-> Idle]
  /\ dispatcher = [d \in Dispatchers |-> "scanning"]
  /\ provider = [j \in Jobs |-> "none"]
  /\ posts = [j \in Jobs |-> 0]
  /\ crashes = 0

BarOf(j) == bar[ConversationOf[j]]

ForegroundOf(j) == foreground[ConversationOf[j]]

Others(j) == {k \in Jobs \ {j} : ConversationOf[k] = ConversationOf[j]}

\* Job j with status s and no lease.
Unleased(j, s) == [job EXCEPT ![j].status = s, ![j].lease = NULL, ![j].live = FALSE]

\* The foregrounds once the call of j has let go of its own.
Released(j) ==
  [c \in Conversations |-> IF foreground[c].call = j THEN Free ELSE foreground[c]]

\* Attempt a still has the lease of its job.
Owns(a) == LET j == attempt[a].job IN job[j].status = "dispatching" /\ job[j].lease = a

Finish_KeepsJob(a) == attempt' = [attempt EXCEPT ![a].pc = "idle"]

\* A task returns.
Finish(a) == attempt' = [attempt EXCEPT ![a] = Idle]

Goto(a, pc) == attempt' = [attempt EXCEPT ![a].pc = pc]

----------------------------------------------------------------------------
(* The owner, administration and the clock *)

\* The owner has one call in the future at most.
NoFutureCall(j) ==
  \A k \in Jobs \ {j} : ~(job[k].status = "scheduled" /\ job[k].time = "early")

\* A call is asked for, at once or for later.
CreateCallJob(j, t) ==
  /\ job[j].status = "none"
  /\ BarOf(j) = NULL
  /\ t = "early" => NoFutureCall(j)
  /\ job' = [job EXCEPT ![j].status = "scheduled", ![j].time = t]
  /\ UNCHANGED <<call, foreground, bar, attempt, dispatcher, provider, posts, crashes>>

\* The owner cancels a job that no dispatcher has claimed.
CancelScheduledJob(j) ==
  /\ job[j].status = "scheduled"
  /\ job' = Unleased(j, "canceled")
  /\ UNCHANGED <<call, foreground, bar, attempt, dispatcher, provider, posts, crashes>>

\* The owner moves a job that no dispatcher has claimed.
RescheduleScheduledJob(j) ==
  /\ job[j].status = "scheduled"
  /\ NoFutureCall(j)
  /\ job' = [job EXCEPT ![j].time = "early"]
  /\ UNCHANGED <<call, foreground, bar, attempt, dispatcher, provider, posts, crashes>>

\* A conversation without a call in progress turns incognito, or its phone
\* binding is taken away: its jobs that have no call yet are closed.
Unrouted(c, b) ==
  [j \in Jobs |->
     IF ConversationOf[j] # c THEN job[j]
     ELSE IF job[j].status = "scheduled" THEN Unleased(j, "canceled")[j]
     ELSE IF job[j].status = "dispatching" /\ call[j].status = "none"
          THEN Unleased(j, IF b = "incognito" THEN "canceled" ELSE "conflict")[j]
     ELSE job[j]]

\* Conversation c, or the owner of all, may have no more calls.  A binding that
\* is replaced closes its jobs, one whose number or contact is disabled does not.
Forbid(c, b) ==
  /\ bar[c] = NULL
  /\ b = "incognito" =>
       ~ \E j \in Jobs : ConversationOf[j] = c /\ call[j].status \in Incompatible
  /\ bar' = [x \in Conversations |->
               IF bar[x] = NULL /\ (x = c \/ b \in {"owner", "profile"}) THEN b ELSE bar[x]]
  /\ \/ b \in {"incognito", "binding"} /\ job' = Unrouted(c, b)
     \/ b # "incognito" /\ UNCHANGED job
  /\ UNCHANGED <<call, foreground, attempt, dispatcher, provider, posts, crashes>>

\* The owner is enabled again, a phone bound anew, a conversation unlocked.
Allow(c) ==
  /\ bar[c] # NULL
  /\ bar' = [x \in Conversations |->
               IF x = c \/ (bar[x] = bar[c] /\ bar[c] \in {"owner", "profile"}) THEN NULL ELSE bar[x]]
  /\ UNCHANGED <<job, call, foreground, attempt, dispatcher, provider, posts, crashes>>

\* A job becomes due, or the window in which it may be dispatched closes.
\* Nobody asks for the time of a job that is settled or with the provider.
TimePasses(j) ==
  /\ job[j].status \in {"scheduled", "dispatching"}
  /\ job[j].time # "late"
  /\ job' = [job EXCEPT ![j].time = IF @ = "early" THEN "window" ELSE "late"]
  /\ UNCHANGED <<call, foreground, bar, attempt, dispatcher, provider, posts, crashes>>

\* lease_until passes before the holder renews it.  It was set when the job
\* was due or later, so with a lease as long as the window the window closed.
JobLeaseExpires(j) ==
  /\ job[j].live
  /\ LeaseOutlivesWindow => job[j].time = "late"
  /\ job' = [job EXCEPT ![j].live = FALSE]
  /\ UNCHANGED <<call, foreground, bar, attempt, dispatcher, provider, posts, crashes>>

ForegroundLeaseExpires(c) ==
  /\ foreground[c].live
  /\ foreground' = [foreground EXCEPT ![c].live = FALSE]
  /\ UNCHANGED <<job, call, bar, attempt, dispatcher, provider, posts, crashes>>

ReconcileDeadlinePasses(j) ==
  /\ call[j].status = "dispatch_unknown" /\ ~call[j].overdue
  /\ call' = [call EXCEPT ![j].overdue = TRUE]
  /\ UNCHANGED <<job, foreground, bar, attempt, dispatcher, provider, posts, crashes>>

----------------------------------------------------------------------------
(* Scanning *)

CloseUnstarted_KeepForeground(j, s) ==
  /\ job' = Unleased(j, s)
  /\ call' = [call EXCEPT ![j].status = IF @ = "created" THEN "canceled" ELSE @]
  /\ UNCHANGED foreground

\* A job that never reached the provider is closed, with its call if it has one.
CloseUnstarted(j, s) ==
  /\ job' = Unleased(j, s)
  /\ call' = [call EXCEPT ![j].status = IF @ = "created" THEN "canceled" ELSE @]
  /\ foreground' = Released(j)

\* What becomes of a job that b forbids.
ClosedBy(b) == IF b \in {"owner", "incognito"} THEN "canceled" ELSE "conflict"

\* The job is leased to a new task of dispatcher d.
Lease(d, a, j) ==
  /\ job' = [job EXCEPT ![j].status = "dispatching", ![j].lease = a, ![j].live = TRUE]
  /\ attempt' = [attempt EXCEPT ![a] = [Idle EXCEPT !.pc = "claimed", !.job = j, !.by = d]]
  /\ UNCHANGED <<call, foreground>>

\* A job is late when it is claimed, or it became due before this dispatcher
\* was live and no other dispatcher that was live then is live still.
MissScheduled(d, j) ==
  /\ dispatcher[d] = "scanning"
  /\ job[j].status = "scheduled" /\ job[j].time # "early"
  /\ job' = [job EXCEPT ![j].status = "missed"]
  /\ UNCHANGED <<call, foreground, bar, attempt, dispatcher, provider, posts, crashes>>

Claimable_ScheduledOnly(j) == job[j].status = "scheduled" /\ job[j].time = "window"

Claimable(j) ==
  \/ job[j].status = "scheduled" /\ job[j].time = "window"
  \/ job[j].status = "dispatching" /\ ~job[j].live

\* claim_job: of all the dispatchers that see a due or abandoned job, the
\* first leases it.
ClaimJob(d, a, j) ==
  /\ dispatcher[d] = "scanning"
  /\ attempt[a].pc = "idle"
  /\ Claimable(j)
  /\ IF BarOf(j) \in {"owner", "incognito", "locked"}
     THEN CloseUnstarted(j, ClosedBy(BarOf(j))) /\ UNCHANGED attempt
     ELSE Lease(d, a, j)
  /\ UNCHANGED <<bar, dispatcher, provider, posts, crashes>>

ExpireDispatchUnknown_Leased(d, j) ==
  /\ dispatcher[d] = "scanning"
  /\ call[j].status = "dispatch_unknown" /\ call[j].overdue /\ job[j].lease # NULL
  /\ call' = [call EXCEPT ![j].status = "unresolved"]
  /\ foreground' = Released(j)
  /\ job' = Unleased(j, "needs_attention")
  /\ UNCHANGED <<bar, attempt, dispatcher, provider, posts, crashes>>

\* expire_dispatch_unknown: nobody learned in time what the provider did.
ExpireDispatchUnknown(d, j) ==
  /\ dispatcher[d] = "scanning"
  /\ call[j].status = "dispatch_unknown" /\ call[j].overdue
  /\ call' = [call EXCEPT ![j].status = "unresolved"]
  /\ foreground' = Released(j)
  /\ job' = IF job[j].status = "needs_attention" THEN Unleased(j, "needs_attention") ELSE job
  /\ UNCHANGED <<bar, attempt, dispatcher, provider, posts, crashes>>

----------------------------------------------------------------------------
(* One dispatch, up to the provider *)

MissIfLate_Forgotten(a) ==
  /\ attempt[a].pc = "claimed"
  /\ Goto(a, "checked")
  /\ UNCHANGED <<job, call, foreground, bar, dispatcher, provider, posts, crashes>>

\* miss_unstarted_dispatch_if_late, with a fresh clock.
MissIfLate(a) ==
  LET j == attempt[a].job IN
  /\ attempt[a].pc = "claimed"
  /\ \/ /\ ~(Owns(a) /\ job[j].live)
        /\ Finish(a)
        /\ UNCHANGED <<job, call, foreground>>
     \/ /\ Owns(a) /\ job[j].live /\ job[j].time = "late"
        /\ CloseUnstarted(j, "missed")
        /\ Finish(a)
     \/ /\ Owns(a) /\ job[j].live /\ job[j].time # "late"
        /\ Goto(a, "checked")
        /\ UNCHANGED <<job, call, foreground>>
  /\ UNCHANGED <<bar, dispatcher, provider, posts, crashes>>

\* Telephony was disabled, the country is not allowed any more, or neither can
\* be told: transition_job closes the job, or leaves it to an operator.
DenyByPolicy(a) ==
  LET j == attempt[a].job IN
  /\ attempt[a].pc = "checked"
  /\ IF Owns(a)
     THEN \E s \in {"canceled", "needs_attention"} : job' = Unleased(j, s)
     ELSE UNCHANGED job
  /\ Finish(a)
  /\ UNCHANGED <<call, foreground, bar, dispatcher, provider, posts, crashes>>

MayCall_IgnoresUnresolved(j) ==
  /\ \A k \in Others(j) : call[k].status \notin Incompatible \ {"unresolved"}
  /\ ForegroundOf(j).call = NULL

\* The unique index and the foreground admit one call per conversation.
MayCall(j) ==
  /\ \A k \in Others(j) : call[k].status \notin Incompatible
  /\ ForegroundOf(j).call = NULL

\* The foreground belongs to a call of j that task a answers for.
Foregrounded(a, j) ==
  foreground' = [foreground EXCEPT ![ConversationOf[j]] = [call |-> j, owner |-> a, live |-> TRUE]]

\* create_call_from_job: a call is created in the foreground of its
\* conversation, or one that an abandoned attempt created is taken over.  The
\* clock reading is the one MissIfLate used, so the lease counts as live.
CreateCallFromJob(a) ==
  LET j == attempt[a].job IN
  /\ attempt[a].pc = "checked"
  /\ \/ /\ ~Owns(a)
        /\ Finish(a)
        /\ UNCHANGED <<job, call, foreground>>
     \/ /\ Owns(a) /\ BarOf(j) # NULL
        /\ CloseUnstarted(j, ClosedBy(BarOf(j)))
        /\ Goto(a, "rejected")
     \/ /\ Owns(a) /\ BarOf(j) = NULL /\ call[j].status # "none"
        /\ IF ForegroundOf(j).call = j
           THEN Foregrounded(a, j) /\ Goto(a, "created")
           ELSE UNCHANGED foreground /\ Finish(a)
        /\ UNCHANGED <<job, call>>
     \/ /\ Owns(a) /\ BarOf(j) = NULL /\ call[j].status = "none"
        /\ IF MayCall(j)
           THEN /\ call' = [call EXCEPT ![j].status = "created"]
                /\ Foregrounded(a, j)
                /\ Goto(a, "created")
           ELSE Goto(a, "rejected") /\ UNCHANGED <<call, foreground>>
        /\ UNCHANGED job
  /\ UNCHANGED <<bar, dispatcher, provider, posts, crashes>>

\* The dispatcher records a refused call as a conflict, which transition_job
\* raises on unless the job is a conflict already or its lease is still held.
RecordConflict(a) ==
  LET j == attempt[a].job IN
  /\ attempt[a].pc = "rejected"
  /\ IF Owns(a) THEN job' = Unleased(j, "conflict") /\ Finish(a)
     ELSE /\ IF job[j].status = "conflict" THEN Finish(a) ELSE Goto(a, "raised")
          /\ UNCHANGED job
  /\ UNCHANGED <<call, foreground, bar, dispatcher, provider, posts, crashes>>

\* fail_unstarted_dispatch: the request cannot be built or paid, or, at the
\* boundary and with the clock read there, the runtime is being stopped.
FailUnstarted(a) ==
  LET j == attempt[a].job
      leased == IF attempt[a].pc = "created" THEN job[j].live ELSE attempt[a].leased IN
  /\ attempt[a].pc \in {"created", "renewed"}
  /\ IF Owns(a) /\ leased /\ call[j].status = "created"
     THEN /\ call' = [call EXCEPT ![j].status = "failed"]
          /\ foreground' = Released(j)
          /\ job' = Unleased(j, "completed")
          /\ Finish(a)
     ELSE /\ IF attempt[a].pc = "created" THEN Goto(a, "raised") ELSE Finish(a)
          /\ UNCHANGED <<job, call, foreground>>
  /\ UNCHANGED <<bar, dispatcher, provider, posts, crashes>>

\* renew_foreground_lease, with the clock reading of the provider boundary.
RenewForeground(a) ==
  LET j == attempt[a].job IN
  /\ attempt[a].pc = "created"
  /\ IF ForegroundOf(j).call = j /\ ForegroundOf(j).owner = a /\ ForegroundOf(j).live
     THEN attempt' = [attempt EXCEPT ![a].pc = "renewed", ![a].late = (job[j].time = "late"),
                                     ![a].leased = Owns(a) /\ job[j].live]
     ELSE Finish(a)
  /\ UNCHANGED <<job, call, foreground, bar, dispatcher, provider, posts, crashes>>

\* Task a may cross the boundary: it has both leases by the clock read there.
MayStart(a) ==
  LET j == attempt[a].job IN
  /\ call[j].status = "created" /\ ~call[j].started
  /\ ForegroundOf(j).call = j /\ ForegroundOf(j).owner = a
  /\ Owns(a) /\ attempt[a].leased

MarkStarted_AfterRequest(a) ==
  /\ attempt[a].pc = "renewed" /\ MayStart(a)
  /\ Goto(a, "crossed")
  /\ UNCHANGED <<job, call, foreground, bar, dispatcher, provider, posts, crashes>>

\* mark_provider_request_started: before the request is sent, the job and the
\* call say that its outcome is not known.
MarkStarted(a) ==
  LET j == attempt[a].job IN
  /\ attempt[a].pc = "renewed"
  /\ \/ /\ MayStart(a) /\ attempt[a].late
        /\ CloseUnstarted(j, "missed")
        /\ Finish(a)
     \/ /\ MayStart(a) /\ ~attempt[a].late /\ BarOf(j) \notin {"owner", "profile"}
        /\ call' = [call EXCEPT ![j].status = "dispatch_unknown", ![j].started = TRUE]
        /\ job' = [job EXCEPT ![j].status = "needs_attention"]
        /\ Goto(a, "crossed")
        /\ UNCHANGED foreground
     \/ /\ ~MayStart(a) \/ (~attempt[a].late /\ BarOf(j) \in {"owner", "profile"})
        /\ Finish(a)
        /\ UNCHANGED <<job, call, foreground>>
  /\ UNCHANGED <<bar, dispatcher, provider, posts, crashes>>

----------------------------------------------------------------------------
(* The provider *)

\* Billing, or a runtime that is being stopped, forbids the request after all.
GiveUpRequest(a) ==
  /\ attempt[a].pc = "crossed"
  /\ attempt' = [attempt EXCEPT ![a].pc = "answered", ![a].answer = "unknown"]
  /\ UNCHANGED <<job, call, foreground, bar, dispatcher, provider, posts, crashes>>

\* create_call_once: the only request.  The provider accepts or refuses it, or
\* the answer is lost and the call may still come about.
Post(a) ==
  LET j == attempt[a].job IN
  /\ attempt[a].pc = "crossed"
  /\ \E r \in {"accepted", "refused", "unknown"} :
       /\ attempt' = [attempt EXCEPT ![a].pc = "answered", ![a].answer = r]
       /\ provider' = [provider EXCEPT ![j] = CASE r = "accepted" -> "live"
                                                [] r = "unknown" -> "pending"
                                                [] OTHER -> @]
  /\ posts' = [posts EXCEPT ![j] = @ + 1]
  /\ UNCHANGED <<job, call, foreground, bar, dispatcher, crashes>>

\* Attempt a still answers for the request it sent, by a fresh clock.
OwnsDispatch(a) ==
  LET j == attempt[a].job IN
  /\ job[j].status \in {"dispatching", "needs_attention"}
  /\ job[j].lease = a /\ job[j].live
  /\ call[j].started

\* A signed callback has already settled what the request led to.
Confirmed(j) ==
  /\ job[j].status = "completed" /\ call[j].sid
  /\ call[j].status \in {"ringing", "in_progress"} \cup Ended

Accepted(j) ==
  /\ call' = [call EXCEPT ![j].sid = TRUE, ![j].overdue = FALSE,
                          ![j].status = IF @ \in {"created", "dispatch_unknown"} THEN "ringing" ELSE @]
  /\ job' = Unleased(j, "completed")
  /\ UNCHANGED foreground

Refused_KeepForeground(j) ==
  /\ call' = [call EXCEPT ![j].status = IF @ \in {"created", "dispatch_unknown"} THEN "failed" ELSE @]
  /\ job' = Unleased(j, "completed")
  /\ UNCHANGED foreground

Refused(j) ==
  /\ call' = [call EXCEPT ![j].status = IF @ \in {"created", "dispatch_unknown"} THEN "failed" ELSE @]
  /\ job' = Unleased(j, "completed")
  /\ foreground' = Released(j)

Ambiguous(j) ==
  /\ IF call[j].status \in {"created", "dispatch_unknown"}
     THEN /\ call' = [call EXCEPT ![j].status = "dispatch_unknown", ![j].overdue = FALSE]
          /\ job' = Unleased(j, "needs_attention")
     ELSE /\ UNCHANGED call
          /\ job' = Unleased(j, "completed")
  /\ UNCHANGED foreground

\* complete_, fail_provider_dispatch and mark_provider_dispatch_unknown: the
\* outcome is recorded by the task that still has the lease, or found settled
\* by a callback, or raised on.
RecordOutcome(a) ==
  LET j == attempt[a].job
      r == attempt[a].answer IN
  /\ attempt[a].pc = "answered"
  /\ IF OwnsDispatch(a)
     THEN /\ CASE r = "accepted" -> Accepted(j)
               [] r = "refused" -> Refused(j)
               [] OTHER -> Ambiguous(j)
          /\ Finish(a)
     ELSE /\ IF Confirmed(j) THEN Finish(a) ELSE Goto(a, "raised")
          /\ UNCHANGED <<job, call, foreground>>
  /\ UNCHANGED <<bar, dispatcher, provider, posts, crashes>>

\* The provider takes up or drops a request whose answer was lost.
ProviderDecides(j) ==
  /\ provider[j] = "pending"
  /\ \E s \in {"live", "none"} : provider' = [provider EXCEPT ![j] = s]
  /\ UNCHANGED <<job, call, foreground, bar, attempt, dispatcher, posts, crashes>>

\* The call is over: nobody answered, or somebody hung up.
ProviderEnds(j) ==
  /\ provider[j] = "live"
  /\ provider' = [provider EXCEPT ![j] = "ended"]
  /\ UNCHANGED <<job, call, foreground, bar, attempt, dispatcher, posts, crashes>>

\* call_transition_result for what callbacks say.
Transition(s, t) ==
  IF s = t THEN "noop"
  ELSE IF s \in Ended \cup {"unresolved"} THEN "invalid"
  ELSE IF s = "in_progress" /\ t = "ringing" THEN "noop"
  ELSE "apply"

\* The job of a call that turns out to exist is done.
CompleteReconciledJob(j) ==
  job' = IF job[j].status = "needs_attention" THEN Unleased(j, "completed") ELSE job

\* record_call_status: callbacks arrive late, twice, and in any order, but no
\* call is reported over before it is.
CallStatusCallback(j, t) ==
  LET decision == Transition(call[j].status, t) IN
  /\ provider[j] \in {"live", "ended"}
  /\ t \in Ended => provider[j] = "ended"
  /\ decision # "invalid"
  /\ call' = [call EXCEPT ![j].sid = TRUE, ![j].status = IF decision = "apply" THEN t ELSE @]
  /\ foreground' = IF decision = "apply" /\ t \in Ended THEN Released(j) ELSE foreground
  /\ CompleteReconciledJob(j)
  /\ UNCHANGED <<bar, attempt, dispatcher, provider, posts, crashes>>

\* reconcile_outbound_twiml: the answered call asks what to play.
OutboundTwiml(j) ==
  /\ provider[j] \in {"live", "ended"}
  /\ call' = IF call[j].sid THEN call
             ELSE [call EXCEPT ![j].sid = TRUE, ![j].overdue = FALSE,
                               ![j].status = IF @ \in {"created", "dispatch_unknown"} THEN "ringing" ELSE @]
  /\ CompleteReconciledJob(j)
  /\ UNCHANGED <<foreground, bar, attempt, dispatcher, provider, posts, crashes>>

----------------------------------------------------------------------------
(* Dispatcher processes *)

\* The tasks of dispatcher d are cancelled.
Stop(d, s) ==
  /\ dispatcher' = [dispatcher EXCEPT ![d] = s]
  /\ attempt' = [a \in Attempts |-> IF attempt[a].by = d THEN Idle ELSE attempt[a]]

\* run_until_stopped: the error of one task ends the loop and every other task.
DispatcherFails(d) ==
  /\ dispatcher[d] = "scanning"
  /\ \E a \in Attempts : attempt[a].by = d /\ attempt[a].pc = "raised"
  /\ Stop(d, "failed")
  /\ UNCHANGED <<job, call, foreground, bar, provider, posts, crashes>>

\* The process dies or is shut down.
Crash(d) ==
  /\ crashes < MaxCrashes
  /\ dispatcher[d] = "scanning"
  /\ crashes' = crashes + 1
  /\ Stop(d, "down")
  /\ UNCHANGED <<job, call, foreground, bar, provider, posts>>

Restart(d) ==
  /\ dispatcher[d] # "scanning"
  /\ dispatcher' = [dispatcher EXCEPT ![d] = "scanning"]
  /\ UNCHANGED <<job, call, foreground, bar, attempt, provider, posts, crashes>>

----------------------------------------------------------------------------

Owner(j) ==
  \/ \E t \in {"early", "window"} : CreateCallJob(j, t)
  \/ CancelScheduledJob(j)
  \/ RescheduleScheduledJob(j)

Clock ==
  \/ \E j \in Jobs : TimePasses(j) \/ JobLeaseExpires(j) \/ ReconcileDeadlinePasses(j)
  \/ \E c \in Conversations : ForegroundLeaseExpires(c)

Scan(d) ==
  \E j \in Jobs : \/ MissScheduled(d, j)
                  \/ ExpireDispatchUnknown(d, j)
                  \/ \E a \in Attempts : ClaimJob(d, a, j)

Dispatch(a) ==
  \/ MissIfLate(a) \/ DenyByPolicy(a) \/ CreateCallFromJob(a) \/ RecordConflict(a)
  \/ FailUnstarted(a) \/ RenewForeground(a) \/ MarkStarted(a)
  \/ GiveUpRequest(a) \/ Post(a) \/ RecordOutcome(a)

Provider(j) ==
  \/ ProviderDecides(j) \/ ProviderEnds(j) \/ OutboundTwiml(j)
  \/ \E t \in {"ringing", "in_progress", "completed"} : CallStatusCallback(j, t)

Next ==
  \/ \E j \in Jobs : Owner(j) \/ Provider(j)
  \/ \E c \in Conversations : Allow(c) \/ \E b \in Bars : Forbid(c, b)
  \/ Clock
  \/ \E d \in Dispatchers : Scan(d) \/ DispatcherFails(d) \/ Crash(d) \/ Restart(d)
  \/ \E a \in Attempts : Dispatch(a)

Spec == Init /\ [][Next]_vars

\* Time passes, dispatchers keep scanning, tasks run, and somebody restarts a
\* dispatcher that is down.  A scan settles unknown calls and then claims jobs.
\* A lease is far longer than the first step of a task, so of the tasks that
\* claim a job again and again one takes that step before its lease expires.
Fairness ==
  /\ \A j \in Jobs : /\ WF_vars(TimePasses(j))
                     /\ WF_vars(JobLeaseExpires(j))
                     /\ WF_vars(ReconcileDeadlinePasses(j))
  /\ \A d \in Dispatchers :
       /\ WF_vars(DispatcherFails(d)) /\ WF_vars(Restart(d))
       /\ \A j \in Jobs : /\ WF_vars(ExpireDispatchUnknown(d, j))
                          /\ WF_vars(\E a \in Attempts : ClaimJob(d, a, j))
  /\ \A a \in Attempts : /\ WF_vars(Dispatch(a))
                         /\ SF_vars(MissIfLate(a) /\ Owns(a) /\ job[attempt[a].job].live)

LiveSpec == Spec /\ Fairness

----------------------------------------------------------------------------
(* Properties *)

\* Every variable has its type, and a task slot that is idle holds nothing.
TypeOK ==
  /\ job \in [Jobs -> JobStates]
  /\ call \in [Jobs -> CallStates]
  /\ foreground \in [Conversations -> ForegroundStates]
  /\ bar \in [Conversations -> Bars \cup {NULL}]
  /\ attempt \in [Attempts -> AttemptStates]
  /\ dispatcher \in [Dispatchers -> {"scanning", "down", "failed"}]
  /\ provider \in [Jobs -> {"none", "pending", "live", "ended"}]
  /\ posts \in [Jobs -> Nat]
  /\ crashes \in 0 .. MaxCrashes
  /\ \A a \in Attempts : attempt[a].pc = "idle" <=> attempt[a].job = NULL

\* The provider is asked to call at most once for a job, however many tasks of
\* however many dispatchers took it up, died or lost their lease on the way
\* ("issue exactly one provider POST per claim", scheduler.py).
OnePost == \A j \in Jobs : posts[j] <= 1

\* A conversation never has two calls at the provider, one whose request was
\* never answered included: nobody is called twice at the same time.
OneLiveCall ==
  \A j \in Jobs, k \in Jobs :
    /\ ConversationOf[j] = ConversationOf[k]
    /\ provider[j] \in {"pending", "live"} /\ provider[k] \in {"pending", "live"}
    => j = k

\* The foreground of a conversation is held by exactly the call that is in
\* progress there: none is lost to a call that ended, none is missing from one
\* that has not, whichever of dispatch, expiry and callbacks settled the call.
ForegroundMatchesCalls ==
  \A j \in Jobs :
    call[j].status \in Incompatible \ {"unresolved"} <=> ForegroundOf(j).call = j

\* A job and its call agree: a job that was canceled, missed or in conflict
\* never reached the provider nor is about to, nor leaves a created call that
\* would keep the conversation's foreground for ever, and one that awaits
\* dispatch can still be dispatched.  The part about created calls depends on
\* the runtime's lease, which outlives the window: a job whose lease expired is
\* late when it is claimed.
JobMatchesCall ==
  \A j \in Jobs :
    LET js == job[j].status
        cs == call[j].status IN
    /\ js \in {"none", "scheduled"} => cs = "none"
    /\ js = "dispatching" => cs \in {"none", "created"} /\ ~call[j].started
    /\ js = "needs_attention" => cs \in {"none", "created", "dispatch_unknown", "unresolved"}
    /\ js = "completed" => cs \in {"ringing", "in_progress", "unresolved"} \cup Ended
    /\ js \in Closed =>
         /\ posts[j] = 0 /\ ~call[j].started /\ cs # "created"
         /\ \A a \in Attempts : attempt[a].pc = "crossed" => attempt[a].job # j

\* A call whose outcome is unknown does not stay so: a callback settles it, or
\* a scan after its deadline.
UnknownSettles ==
  \A j \in Jobs : call[j].status = "dispatch_unknown" ~> call[j].status # "dispatch_unknown"

\* A job that a dispatcher has claimed is not stuck, whoever dies.
DispatchingEnds ==
  \A j \in Jobs : job[j].status = "dispatching" ~> job[j].status # "dispatching"

\* "Keep scanning/heartbeating while bounded dispatches run separately"
\* (run_until_stopped, scheduler.py): no dispatch ends the loop that ran it.
KeepsScanning == \A d \in Dispatchers : dispatcher[d] # "failed"

====
