---- MODULE VoiceTurn ----
(***************************************************************************)
(* One spoken turn of the AI runtime: the coordinator of                   *)
(* src/ai_runtime/channel_turns.py between the task that generates the     *)
(* reply, the task that saves it, and the voices of the transport that     *)
(* report what the caller heard or interrupt the reply.                    *)
(*                                                                         *)
(* The reply is generated at once but saved only when the transport has    *)
(* confirmed the part that was heard.  An interruption may come before the *)
(* provider has finished: it then saves the heard part itself and cancels  *)
(* the generation.  Three billing steps surround that: the hold taken      *)
(* before the provider is called, the usage recorded after every call, and *)
(* its settlement, by the transaction that saves the reply or else by the  *)
(* finalizer of the generation.                                            *)
(*                                                                         *)
(* All tasks run on one event loop: what a task does between two awaits is *)
(* one action.  A cancellation is a flag on the owner that its next await  *)
(* delivers; at a database transaction it may find it committed or not.    *)
(***************************************************************************)
EXTENDS Naturals

CONSTANTS
  Voices,    \* tasks of the transport: playback, barge-in, closing session
  MaxCalls,  \* provider calls of one turn: the first and its tool follow-ups
  MaxFaults  \* bound: refusals of the database and waits given up, together

ASSUME TurnNumbers == MaxCalls \in Nat \ {0} /\ MaxFaults \in Nat

VARIABLES
  turn,    \* the ChannelTurnHandle
  owner,   \* the task that consumes the response, with the generator under it
  saver,   \* the shielded persistence task that defer_commit creates
  voice,   \* voice[v]: where a task of the transport is
  hold,    \* the AI usage reservation of the turn
  saves,   \* how often the turn was written to MESSAGES
  faults,  \* how often the database refused or a voice gave up
  torn     \* whether a cancellation has cut a billing transaction short

vars == <<turn, owner, saver, voice, hold, saves, faults, torn>>

----------------------------------------------------------------------------
(* States *)

TurnStates == [claim : {"open", "deferred", "interruption", "closed"},
               confirmed : BOOLEAN, interrupted : BOOLEAN,
               result : {"none", "saved", "failed"}]

OwnerSteps == {"preparing", "calling", "recording", "extending", "deferring", "joining",
               "listening", "saving", "settling", "refunding", "closing", "done"}

\* next is what follows the recording of the call in hand.
OwnerStates == [pc : OwnerSteps, cancelled : BOOLEAN, calls : 0..MaxCalls,
                next : {"extending", "deferring", "settling"}]

SaverSteps == {"none", "saving", "after", "returned", "failed"}

VoiceSteps == {"idle", "confirming", "fallback", "after", "waiting", "joining",
               "aborting", "reaping", "done"}

\* Each provider call yields one unit of usage, or none if it was cancelled
\* or refused before the first token.
HoldStates == [status : {"none", "active", "settled", "refunded"},
               received : 0..MaxCalls, recorded : 0..MaxCalls, charged : 0..MaxCalls]

Init ==
  /\ turn = [claim |-> "open", confirmed |-> FALSE, interrupted |-> FALSE, result |-> "none"]
  /\ owner = [pc |-> "preparing", cancelled |-> FALSE, calls |-> 0, next |-> "settling"]
  /\ saver = "none"
  /\ voice = [v \in Voices |-> "idle"]
  /\ hold = [status |-> "none", received |-> 0, recorded |-> 0, charged |-> 0]
  /\ saves = 0
  /\ faults = 0
  /\ torn = FALSE

----------------------------------------------------------------------------
(* Helpers *)

\* The owner is at step p and no cancellation waits for its next await.
At(p) == owner.pc = p /\ ~owner.cancelled
CancelledAt(p) == owner.pc = p /\ owner.cancelled

\* A delivered cancellation is spent.
Goto(p) == owner' = [owner EXCEPT !.pc = p, !.cancelled = FALSE]

\* owner.cancel(): of a task that is done it does nothing.
Cancel == [owner EXCEPT !.cancelled = owner.pc # "done"]

\* The result future is set once.
Resolved(t, r) == [t EXCEPT !.result = IF t.result = "none" THEN r ELSE t.result]

\* close_unfinished: a claimed turn is left to the task that claimed it.
Closed == IF turn.result = "none" /\ turn.claim = "open"
            THEN [turn EXCEPT !.claim = "closed", !.result = "failed"]
            ELSE turn

Settled == [hold EXCEPT !.status = "settled", !.charged = hold.recorded]

Fault == faults < MaxFaults /\ faults' = faults + 1

----------------------------------------------------------------------------
(* The owner: generation *)

\* The hold of the first call is reserved, or refused for want of balance.
Reserve ==
  /\ At("preparing")
  /\ \/ hold' = [hold EXCEPT !.status = "active"] /\ Goto("calling")
     \/ Goto("closing") /\ UNCHANGED hold
  /\ UNCHANGED <<turn, saver, voice, saves, faults, torn>>

\* A cancelled reservation may have committed, but its id is lost.
ReserveCancelled ==
  /\ CancelledAt("preparing")
  /\ Goto("closing")
  /\ \/ UNCHANGED <<hold, torn>>
     \/ hold' = [hold EXCEPT !.status = "active"] /\ torn' = TRUE
  /\ UNCHANGED <<turn, saver, voice, saves, faults>>

\* The provider answers, asks for a tool, or fails, the last perhaps after
\* the first tokens.  Usage goes to the recording step before anything else.
CallEnds ==
  /\ At("calling")
  /\ \/ \E n \in {"extending", "deferring", "settling"} :
          /\ owner' = [owner EXCEPT !.pc = "recording", !.next = n, !.calls = @ + 1]
          /\ hold' = [hold EXCEPT !.received = @ + 1]
     \/ Goto("settling") /\ UNCHANGED hold
  /\ UNCHANGED <<turn, saver, voice, saves, faults, torn>>

\* A cancelled stream keeps what it has received.
CallCancelled ==
  /\ CancelledAt("calling")
  /\ \/ /\ owner' = [owner EXCEPT !.pc = "recording", !.next = "settling", !.calls = @ + 1,
                                  !.cancelled = FALSE]
        /\ hold' = [hold EXCEPT !.received = @ + 1]
     \/ Goto("settling") /\ UNCHANGED hold
  /\ UNCHANGED <<turn, saver, voice, saves, faults, torn>>

\* accumulate_ai_provider_call_usage: only an active hold takes usage.
Record ==
  /\ At("recording")
  /\ \/ /\ hold.status = "active"
        /\ hold' = [hold EXCEPT !.recorded = @ + 1]
        /\ Goto(owner.next)
        /\ UNCHANGED faults
     \/ hold.status # "active" /\ Goto("settling") /\ UNCHANGED <<hold, faults>>
     \/ Fault /\ Goto("settling") /\ UNCHANGED hold
  /\ UNCHANGED <<turn, saver, voice, saves, torn>>

RecordCancelled ==
  /\ CancelledAt("recording")
  /\ Goto("settling")
  /\ \/ hold.status = "active" /\ hold' = [hold EXCEPT !.recorded = @ + 1] /\ UNCHANGED torn
     \/ torn' = TRUE /\ UNCHANGED hold
  /\ UNCHANGED <<turn, saver, voice, saves, faults>>

\* Mutant: the follow-up is offered tools without end.
Extend_EndlessTools ==
  /\ At("extending")
  /\ Goto("calling") \/ Goto("settling")
  /\ UNCHANGED <<turn, saver, voice, hold, saves, faults, torn>>

\* The follow-up of a tool call extends the hold first; the last call of the
\* turn is offered no tools.
Extend ==
  /\ At("extending")
  /\ \/ owner.calls < MaxCalls /\ Goto("calling")
     \/ Goto("settling")
  /\ UNCHANGED <<turn, saver, voice, hold, saves, faults, torn>>

ExtendCancelled ==
  /\ CancelledAt("extending")
  /\ Goto("settling")
  /\ UNCHANGED <<turn, saver, voice, hold, saves, faults, torn>>

----------------------------------------------------------------------------
(* The owner: the deferred commit *)

\* Mutant: the draft is published over an interruption.
Defer_OverInterruption ==
  /\ At("deferring")
  /\ IF turn.claim # "closed"
       THEN Goto("listening") /\ turn' = [turn EXCEPT !.claim = "deferred"]
       ELSE Goto("settling") /\ UNCHANGED turn
  /\ UNCHANGED <<saver, voice, hold, saves, faults, torn>>

\* defer_commit: an interruption that came first keeps the turn.
Defer ==
  /\ At("deferring")
  /\ CASE turn.claim = "interruption" -> Goto("joining") /\ UNCHANGED turn
       [] turn.claim = "open" -> Goto("listening") /\ turn' = [turn EXCEPT !.claim = "deferred"]
       [] OTHER -> Goto("settling") /\ UNCHANGED turn
  /\ UNCHANGED <<saver, voice, hold, saves, faults, torn>>

DeferCancelled ==
  /\ CancelledAt("deferring")
  /\ Goto("settling")
  /\ UNCHANGED <<turn, saver, voice, hold, saves, faults, torn>>

\* The owner waits for the interruption's result.
JoinInterruption ==
  /\ owner.pc = "joining" /\ (owner.cancelled \/ turn.result # "none")
  /\ Goto("settling")
  /\ UNCHANGED <<turn, saver, voice, hold, saves, faults, torn>>

\* The audible prefix is confirmed: the persistence task is created.
Heard ==
  /\ At("listening") /\ turn.confirmed
  /\ saver' = "saving"
  /\ Goto("saving")
  /\ UNCHANGED <<turn, voice, hold, saves, faults, torn>>

\* Mutant: an owner that fails leaves the result future pending.
CommitEnds_LeavesWaiters ==
  /\ \/ owner.pc \in {"listening", "saving"} /\ owner.cancelled /\ UNCHANGED turn
     \/ At("saving") /\ saver = "returned" /\ turn' = Resolved(turn, "saved")
     \/ At("saving") /\ saver = "failed" /\ UNCHANGED turn
  /\ Goto("settling")
  /\ UNCHANGED <<saver, voice, hold, saves, faults, torn>>

\* The persistence task has ended, or the owner has a cancellation: the task
\* is shielded from it and goes on.  Either way the result future is done.
CommitEnds ==
  /\ \/ owner.pc \in {"listening", "saving"} /\ owner.cancelled
        /\ turn' = Resolved(turn, "failed")
     \/ At("saving") /\ saver = "returned" /\ turn' = Resolved(turn, "saved")
     \/ At("saving") /\ saver = "failed" /\ turn' = Resolved(turn, "failed")
  /\ Goto("settling")
  /\ UNCHANGED <<saver, voice, hold, saves, faults, torn>>

----------------------------------------------------------------------------
(* The owner: the finalizer *)

\* Mutant: a failed settlement goes on to the refund.
Settle_RefundsFailed ==
  /\ At("settling")
  /\ \/ /\ hold.status = "active" /\ hold.recorded > 0
        /\ hold' = Settled /\ Goto("closing") /\ UNCHANGED faults
     \/ /\ ~(hold.status = "active" /\ hold.recorded > 0)
        /\ Goto("refunding") /\ UNCHANGED <<hold, faults>>
     \/ Fault /\ Goto("refunding") /\ UNCHANGED hold
  /\ UNCHANGED <<turn, saver, voice, saves, torn>>

\* settle_accumulated_ai_reservation_usage: captures what was recorded; an
\* inactive or an unused hold is left to the refund.  A failed settlement
\* stays active for the reconciliation of the ledger.
Settle ==
  /\ At("settling")
  /\ \/ /\ hold.status = "active" /\ hold.recorded > 0
        /\ hold' = Settled /\ Goto("closing") /\ UNCHANGED faults
     \/ /\ ~(hold.status = "active" /\ hold.recorded > 0)
        /\ Goto("refunding") /\ UNCHANGED <<hold, faults>>
     \/ Fault /\ Goto("closing") /\ UNCHANGED hold
  /\ UNCHANGED <<turn, saver, voice, saves, torn>>

SettleCancelled ==
  /\ CancelledAt("settling")
  /\ Goto("closing")
  /\ \/ /\ hold.status = "active" /\ hold.recorded > 0
        /\ hold' = Settled /\ UNCHANGED torn
     \/ torn' = TRUE /\ UNCHANGED hold
  /\ UNCHANGED <<turn, saver, voice, saves, faults>>

\* refund_fixed_usage, which looks again at the status.
Refund ==
  /\ At("refunding")
  /\ \/ /\ hold' = [hold EXCEPT !.status = IF @ = "active" THEN "refunded" ELSE @]
        /\ UNCHANGED faults
     \/ Fault /\ UNCHANGED hold
  /\ Goto("closing")
  /\ UNCHANGED <<turn, saver, voice, saves, torn>>

RefundCancelled ==
  /\ CancelledAt("refunding")
  /\ Goto("closing")
  /\ \/ /\ hold' = [hold EXCEPT !.status = IF @ = "active" THEN "refunded" ELSE @]
        /\ UNCHANGED torn
     \/ torn' = TRUE /\ UNCHANGED hold
  /\ UNCHANGED <<turn, saver, voice, saves, faults>>

\* stream_response closes what nobody claimed and unregisters the turn.
Close ==
  /\ owner.pc = "closing"
  /\ turn' = Closed
  /\ Goto("done")
  /\ UNCHANGED <<saver, voice, hold, saves, faults, torn>>

OwnerStep ==
  \/ Reserve \/ ReserveCancelled \/ CallEnds \/ CallCancelled \/ Record \/ RecordCancelled
  \/ Extend \/ ExtendCancelled \/ Defer \/ DeferCancelled \/ JoinInterruption \/ Heard
  \/ CommitEnds \/ Settle \/ SettleCancelled \/ Refund \/ RefundCancelled \/ Close

----------------------------------------------------------------------------
(* The persistence task *)

\* One transaction settles the hold and writes the messages; as soon as it is
\* durable, an interrupted owner is released and cancelled.
SaverCommits ==
  /\ saver = "saving" /\ hold.status = "active"
  /\ saver' = "after"
  /\ hold' = Settled
  /\ saves' = saves + 1
  /\ IF turn.interrupted
       THEN turn' = Resolved(turn, "saved") /\ owner' = Cancel
       ELSE UNCHANGED <<turn, owner>>
  /\ UNCHANGED <<voice, faults, torn>>

\* A hold that is no longer active, a guard that finds the turn stale, or the
\* database refuses the transaction: nothing is written.
SaverFails ==
  /\ saver = "saving"
  /\ saver' = "failed"
  /\ (hold.status # "active" /\ UNCHANGED faults) \/ Fault
  /\ UNCHANGED <<turn, owner, voice, hold, saves, torn>>

\* Memory, watchdog and observer work after the commit is best effort.
SaverReturns ==
  /\ saver = "after"
  /\ saver' = "returned"
  /\ UNCHANGED <<turn, owner, voice, hold, saves, faults, torn>>

SaverStep == SaverCommits \/ SaverFails \/ SaverReturns

----------------------------------------------------------------------------
(* The voices of the transport *)

Says(v, p) == voice' = [voice EXCEPT ![v] = p]

\* Playback has drained: the whole draft was heard.  The playback lock keeps
\* a confirmation and an interruption apart.
Confirm(v) ==
  /\ voice[v] = "idle" /\ turn.claim = "deferred" /\ ~turn.confirmed
  /\ \A w \in Voices : voice[w] \in {"idle", "done"}
  /\ turn' = [turn EXCEPT !.confirmed = TRUE]
  /\ Says(v, "confirming")
  /\ UNCHANGED <<owner, saver, hold, saves, faults, torn>>

\* confirm_audible waits for the owner and then asks whether it committed.
ConfirmEnds(v) ==
  /\ voice[v] = "confirming" /\ owner.pc = "done"
  /\ Says(v, IF turn.result = "saved" THEN "done" ELSE "aborting")
  /\ UNCHANGED <<turn, owner, saver, hold, saves, faults, torn>>

\* interrupt_and_commit: whoever finds the turn open claims it and saves what
\* was heard; on a deferred turn the heard prefix is the confirmation the
\* owner waits for; else the voice waits for the result there is or will be.
Interrupt(v) ==
  /\ voice[v] = "idle"
  /\ \A w \in Voices : voice[w] # "confirming"
  /\ \/ turn.result # "none" /\ Says(v, "waiting") /\ UNCHANGED turn
     \/ /\ turn.result = "none" /\ turn.claim = "deferred"
        /\ turn' = [turn EXCEPT !.interrupted = TRUE, !.confirmed = TRUE]
        /\ Says(v, "waiting")
     \/ /\ turn.result = "none" /\ turn.claim = "open"
        /\ turn' = [turn EXCEPT !.interrupted = TRUE, !.claim = "interruption"]
        /\ Says(v, "fallback")
     \/ turn.result = "none" /\ turn.claim = "interruption" /\ Says(v, "waiting") /\ UNCHANGED turn
  /\ UNCHANGED <<owner, saver, hold, saves, faults, torn>>

\* save_interrupted_channel_turn writes what was heard without billing it.
FallbackCommits(v) ==
  /\ voice[v] = "fallback"
  /\ Says(v, "after")
  /\ saves' = saves + 1
  /\ turn' = Resolved(turn, "saved")
  /\ owner' = Cancel
  /\ UNCHANGED <<saver, hold, faults, torn>>

\* A playback that fails aborts the turn; the other interruptions just end.
Leaves(v) == Says(v, "aborting") \/ (voice[v] # "confirming" /\ Says(v, "done"))

\* The database refuses, or the voice is cancelled in the transaction, which
\* may then have committed; the owner is cancelled and the turn lost.
FallbackFails(v) ==
  /\ voice[v] = "fallback"
  /\ Leaves(v)
  /\ saves' \in {saves, saves + 1}
  /\ turn' = Resolved(turn, "failed")
  /\ owner' = Cancel
  /\ Fault
  /\ UNCHANGED <<saver, hold, torn>>

FallbackReturns(v) ==
  /\ voice[v] = "after"
  /\ Says(v, "waiting")
  /\ UNCHANGED <<turn, owner, saver, hold, saves, faults, torn>>

\* The result is there: the owner is cancelled, again if the commit has done
\* so already, and joined.
ResultArrives(v) ==
  /\ voice[v] = "waiting" /\ turn.result # "none"
  /\ IF turn.result = "saved" THEN owner' = Cancel /\ Says(v, "joining")
                              ELSE Says(v, "aborting") /\ UNCHANGED owner
  /\ UNCHANGED <<turn, saver, hold, saves, faults, torn>>

\* _await_consumer and abort both end with the owner.
Join(v) ==
  /\ voice[v] \in {"joining", "reaping"} /\ owner.pc = "done"
  /\ Says(v, "done")
  /\ UNCHANGED <<turn, owner, saver, hold, saves, faults, torn>>

\* abort: what failed to be saved is closed and its generation cancelled.
Abort(v) ==
  /\ voice[v] = "aborting"
  /\ turn' = Closed
  /\ owner' = Cancel
  /\ Says(v, "reaping")
  /\ UNCHANGED <<saver, hold, saves, faults, torn>>

\* A closing session waits only so long for the step it then cancels.
\* After the commit of the fallback the owner is cancelled as well.
GiveUp(v) ==
  /\ voice[v] \in {"confirming", "after", "waiting", "joining"}
  /\ Leaves(v)
  /\ owner' = IF voice[v] = "after" THEN Cancel ELSE owner
  /\ Fault
  /\ UNCHANGED <<turn, saver, hold, saves, torn>>

VoiceStarts == \E v \in Voices : Confirm(v) \/ Interrupt(v)

VoiceStep(v) == \/ ConfirmEnds(v) \/ FallbackCommits(v) \/ FallbackFails(v) \/ FallbackReturns(v)
                \/ ResultArrives(v) \/ Join(v) \/ Abort(v)

----------------------------------------------------------------------------
Next == \/ OwnerStep \/ SaverStep \/ VoiceStarts
        \/ \E v \in Voices : VoiceStep(v) \/ GiveUp(v)

Spec == Init /\ [][Next]_vars

\* The event loop runs what is ready, provider requests have timeouts, and a
\* transport plays the reply to its end or is interrupted or closed.
Fairness == /\ WF_vars(OwnerStep) /\ WF_vars(SaverStep) /\ WF_vars(VoiceStarts)
            /\ \A v \in Voices : WF_vars(VoiceStep(v))

LiveSpec == Spec /\ Fairness

----------------------------------------------------------------------------
(* Properties *)

TypeOK ==
  /\ turn \in TurnStates
  /\ owner \in OwnerStates
  /\ saver \in SaverSteps
  /\ voice \in [Voices -> VoiceSteps]
  /\ hold \in HoldStates
  /\ saves \in Nat
  /\ faults \in 0..MaxFaults
  /\ torn \in BOOLEAN

\* The transport has said what was heard.
Reported == turn.confirmed \/ turn.claim = "interruption"

\* What the caller heard is saved exactly once: at most once however the
\* confirmation, the interruptions and the end of the generation interleave,
\* never unless it is reported so, and once if it was reported and nothing
\* failed.
SavedOnce ==
  /\ saves <= 1
  /\ turn.result = "saved" => saves = 1
  /\ saves = 1 => Reported
  /\ (owner.pc = "done" /\ turn.result # "none" /\ Reported /\ faults = 0) => saves = 1

\* Usage the provider reported is paid once, by the save or by the finalizer:
\* recorded usage is never refunded and a settlement covers all of it; when
\* the generation is over and no failure and no cancellation has hit a
\* billing transaction, the charge is what was received and the hold closed.
UsageIsCharged ==
  /\ hold.status = "refunded" => hold.recorded = 0
  /\ hold.status = "settled" => hold.charged = hold.recorded
  /\ (owner.pc = "done" /\ faults = 0 /\ ~torn) =>
       hold.charged = hold.received /\ hold.status # "active"

\* The turn always ends: no voice waits for ever for a result or an owner.
TurnEnds == <>(owner.pc = "done" /\ \A v \in Voices : voice[v] = "done")

====
