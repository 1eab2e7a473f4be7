---- MODULE VoiceTurnProofs ----
(***************************************************************************)
(* A spoken turn is saved exactly once and paid exactly once: VoiceTurn    *)
(* for any number of voices, provider calls and faults.                    *)
(*                                                                         *)
(* Neither property is inductive.  What carries the first is that a claim  *)
(* names the one task that may write, and that without a fault a           *)
(* cancellation only reaches the owner when the result is there; the       *)
(* second needs where in the generation the hold is still active and the   *)
(* usage all recorded.                                                     *)
(***************************************************************************)
EXTENDS VoiceTurn, TLAPS

\* The owner before it publishes its draft, and after it has a hold.
Generating == {"calling", "recording", "extending", "deferring"}
Unpublished == {"preparing"} \cup Generating

Numbers ==
  /\ turn \in TurnStates
  /\ owner \in OwnerStates
  /\ saver \in SaverSteps
  /\ voice \in [Voices -> VoiceSteps]
  /\ hold \in HoldStates
  /\ saves \in Nat /\ faults \in 0..MaxFaults /\ torn \in BOOLEAN

\* Who has claimed the turn is who may write it, and has written it at most
\* once.
ClaimOk ==
  /\ owner.pc \in Unpublished => turn.claim # "deferred"
  /\ owner.pc = "joining" => turn.claim = "interruption"
  /\ owner.pc \in {"listening", "saving"} => turn.claim = "deferred"
  /\ owner.pc = "listening" => saver = "none"
  /\ owner.pc = "saving" => saver # "none"
  /\ saver # "none" => turn.confirmed
  /\ turn.confirmed => turn.claim = "deferred"
  /\ turn.claim = "deferred" =>
       /\ saves = (IF saver \in {"after", "returned"} THEN 1 ELSE 0)
       /\ owner.pc \in {"listening", "saving"} \/ turn.result # "none"
  /\ turn.claim \in {"open", "closed"} => saves = 0
  /\ turn.claim = "open" => turn.result = "none"
  /\ saves \in {0, 1}
  /\ turn.result = "saved" => saves = 1

VoiceOk(v) ==
  /\ voice[v] = "fallback" => turn.claim = "interruption" /\ saves = 0 /\ turn.result = "none"
  /\ voice[v] = "after" => turn.result # "none"
  /\ voice[v] = "confirming" => turn.claim = "deferred"
  /\ voice[v] = "aborting" /\ faults = 0 => turn.result = "failed"

\* One voice writes for an interruption.
OneWriter == \A v, w \in Voices : voice[v] = "fallback" /\ voice[w] = "fallback" => v = w

\* Without a fault a result only fails when nothing was claimed, and a
\* cancellation means that there is a result.
Smooth ==
  faults = 0 =>
    /\ turn.result = "failed" => turn.claim = "closed"
    /\ owner.cancelled => turn.result # "none"
    /\ saver # "failed"
    /\ saver = "saving" => owner.pc = "saving"

HoldOk ==
  /\ hold.received = owner.calls
  /\ hold.recorded <= hold.received
  /\ owner.pc = "recording" => hold.recorded < hold.received
  /\ owner.pc = "calling" => owner.calls < MaxCalls
  /\ owner.pc = "preparing" => hold.status = "none" /\ owner.calls = 0
  /\ owner.pc \in Generating \cup {"joining", "listening"} => hold.status = "active"
  /\ owner.pc = "saving" /\ saver \in {"saving", "failed"} => hold.status = "active"
  /\ hold.status \in {"none", "refunded"} => hold.recorded = 0
  /\ owner.pc = "refunding" /\ hold.status = "active" => hold.recorded = 0
  /\ hold.charged = (IF hold.status = "settled" THEN hold.recorded ELSE 0)

\* Without a fault or a torn transaction nothing received is missing, and a
\* generation that ends closes its hold.
Whole ==
  faults = 0 /\ ~torn =>
    /\ hold.received = hold.recorded + (IF owner.pc = "recording" THEN 1 ELSE 0)
    /\ owner.pc \in {"closing", "done"} => hold.status # "active"

IInv == /\ Numbers /\ ClaimOk /\ (\A v \in Voices : VoiceOk(v)) /\ OneWriter
        /\ Smooth /\ HoldOk /\ Whole

USE DEF Numbers, ClaimOk, VoiceOk, OneWriter, Smooth, HoldOk, Whole, TurnStates, OwnerStates,
        OwnerSteps, SaverSteps, VoiceSteps, HoldStates, Generating, Unpublished

LEMMA TurnInit == Init => IInv
<1> SUFFICES ASSUME Init PROVE IInv
  OBVIOUS
<1>1. /\ 0 \in 0..MaxCalls /\ 0 \in 0..MaxFaults /\ 0 \in Nat /\ 0 \in {0, 1} /\ 0 <= 0
      /\ 0 = 0 + 0
  BY TurnNumbers
<1>2. Numbers
  BY <1>1 DEF Init
<1> QED BY <1>1, <1>2 DEF Init, IInv

\* What the assignments to the records do, field by field.
LEMMA GotoFields ==
  ASSUME owner \in OwnerStates, NEW p \in OwnerSteps, Goto(p)
  PROVE  /\ owner' \in OwnerStates
         /\ owner'.pc = p /\ ~owner'.cancelled
         /\ owner'.calls = owner.calls /\ owner'.next = owner.next
BY DEF Goto

LEMMA SettledFields ==
  ASSUME hold \in HoldStates, hold' = Settled
  PROVE  /\ hold' \in HoldStates
         /\ hold'.status = "settled" /\ hold'.charged = hold.recorded
         /\ hold'.received = hold.received /\ hold'.recorded = hold.recorded
BY DEF Settled

LEMMA RefundFields ==
  ASSUME hold \in HoldStates,
         hold' = [hold EXCEPT !.status = IF @ = "active" THEN "refunded" ELSE @]
  PROVE  /\ hold' \in HoldStates
         /\ hold'.status = (IF hold.status = "active" THEN "refunded" ELSE hold.status)
         /\ hold'.charged = hold.charged
         /\ hold'.received = hold.received /\ hold'.recorded = hold.recorded
OBVIOUS

LEMMA ActiveFields ==
  ASSUME hold \in HoldStates, hold' = [hold EXCEPT !.status = "active"]
  PROVE  /\ hold' \in HoldStates /\ hold'.status = "active" /\ hold'.charged = hold.charged
         /\ hold'.received = hold.received /\ hold'.recorded = hold.recorded
OBVIOUS

LEMMA RecordedFields ==
  ASSUME hold \in HoldStates, hold.recorded < hold.received,
         hold' = [hold EXCEPT !.recorded = @ + 1]
  PROVE  /\ hold' \in HoldStates /\ hold'.status = hold.status /\ hold'.charged = hold.charged
         /\ hold'.received = hold.received /\ hold'.recorded = hold.recorded + 1
<1>1. hold.recorded + 1 \in 0..MaxCalls
  BY TurnNumbers
<1> QED BY <1>1

LEMMA ReceivedFields ==
  ASSUME hold \in HoldStates, hold.received < MaxCalls,
         hold' = [hold EXCEPT !.received = @ + 1]
  PROVE  /\ hold' \in HoldStates /\ hold'.status = hold.status /\ hold'.charged = hold.charged
         /\ hold'.received = hold.received + 1 /\ hold'.recorded = hold.recorded
<1>1. hold.received + 1 \in 0..MaxCalls
  BY TurnNumbers
<1> QED BY <1>1

LEMMA ResolvedFields ==
  ASSUME turn \in TurnStates, NEW r \in {"saved", "failed"}, turn' = Resolved(turn, r)
  PROVE  /\ turn' \in TurnStates
         /\ turn'.result = (IF turn.result = "none" THEN r ELSE turn.result)
         /\ turn'.claim = turn.claim /\ turn'.confirmed = turn.confirmed
         /\ turn'.interrupted = turn.interrupted
BY DEF Resolved

LEMMA ClosedFields ==
  ASSUME turn \in TurnStates, turn' = Closed
  PROVE  /\ turn' \in TurnStates
         /\ turn.claim = "open" /\ turn.result = "none" =>
              turn'.claim = "closed" /\ turn'.result = "failed"
         /\ ~(turn.claim = "open" /\ turn.result = "none") =>
              turn'.claim = turn.claim /\ turn'.result = turn.result
         /\ turn'.confirmed = turn.confirmed /\ turn'.interrupted = turn.interrupted
BY DEF Closed

LEMMA CancelFields ==
  ASSUME owner \in OwnerStates, owner' = Cancel
  PROVE  /\ owner' \in OwnerStates /\ owner'.pc = owner.pc
         /\ owner'.calls = owner.calls /\ owner'.next = owner.next
BY DEF Cancel

LEMMA FaultRaises == ASSUME IInv, Fault PROVE faults' \in 0..MaxFaults /\ faults' # 0
BY TurnNumbers DEF Fault, IInv

LEMMA GenerationKeeps ==
  ASSUME IInv,
         \/ Reserve \/ ReserveCancelled \/ CallEnds \/ CallCancelled \/ Record
         \/ RecordCancelled \/ Extend \/ ExtendCancelled
  PROVE  IInv'
<1> USE TurnNumbers DEF IInv, At, CancelledAt
<1>0. Numbers
  OBVIOUS
<1>1. CASE Reserve
  <2>1. CASE hold' = [hold EXCEPT !.status = "active"] /\ Goto("calling")
    <3>1. /\ owner' \in OwnerStates /\ owner'.pc = "calling" /\ ~owner'.cancelled
          /\ owner'.calls = owner.calls
      BY <2>1, GotoFields
    <3>2. /\ hold' \in HoldStates /\ hold'.status = "active" /\ hold'.charged = hold.charged
          /\ hold'.received = hold.received /\ hold'.recorded = hold.recorded
      BY <2>1, ActiveFields
    <3> QED BY <1>1, <3>1, <3>2 DEF Reserve
  <2>2. CASE Goto("closing") /\ UNCHANGED hold
    <3>1. /\ owner' \in OwnerStates /\ owner'.pc = "closing" /\ ~owner'.cancelled
          /\ owner'.calls = owner.calls
      BY <2>2, GotoFields
    <3> QED BY <1>1, <2>2, <3>1 DEF Reserve
  <2> QED BY <1>1, <2>1, <2>2 DEF Reserve
<1>2. CASE ReserveCancelled
  <2>1. /\ owner' \in OwnerStates /\ owner'.pc = "closing" /\ ~owner'.cancelled
        /\ owner'.calls = owner.calls
    BY <1>2, GotoFields DEF ReserveCancelled
  <2>2. CASE UNCHANGED <<hold, torn>>
    BY <1>2, <2>1, <2>2 DEF ReserveCancelled
  <2>3. CASE hold' = [hold EXCEPT !.status = "active"] /\ torn' = TRUE
    <3>1. /\ hold' \in HoldStates /\ hold'.status = "active" /\ hold'.charged = hold.charged
          /\ hold'.received = hold.received /\ hold'.recorded = hold.recorded
      BY <2>3, ActiveFields
    <3> QED BY <1>2, <2>1, <2>3, <3>1 DEF ReserveCancelled
  <2> QED BY <1>2, <2>2, <2>3 DEF ReserveCancelled
<1>3. CASE CallEnds
  <2>1. CASE Goto("settling") /\ UNCHANGED hold
    <3>1. /\ owner' \in OwnerStates /\ owner'.pc = "settling" /\ ~owner'.cancelled
          /\ owner'.calls = owner.calls
      BY <2>1, GotoFields
    <3> QED BY <1>3, <2>1, <3>1 DEF CallEnds
  <2>2. ASSUME NEW n \in {"extending", "deferring", "settling"},
               owner' = [owner EXCEPT !.pc = "recording", !.next = n, !.calls = @ + 1],
               hold' = [hold EXCEPT !.received = @ + 1]
        PROVE  IInv'
    <3>1. owner.calls < MaxCalls /\ owner.calls + 1 \in 0..MaxCalls
      BY <1>3 DEF CallEnds
    <3>2. /\ owner' \in OwnerStates /\ owner'.pc = "recording"
          /\ owner'.cancelled = owner.cancelled /\ owner'.calls = owner.calls + 1
      BY <2>2, <3>1
    <3>3. /\ hold' \in HoldStates /\ hold'.status = hold.status /\ hold'.charged = hold.charged
          /\ hold'.received = hold.received + 1 /\ hold'.recorded = hold.recorded
      BY <2>2, <3>1, ReceivedFields
    <3>4. hold.recorded \in Nat /\ hold.received \in Nat /\ hold.recorded < hold.received + 1
      OBVIOUS
    <3> QED BY <1>3, <3>2, <3>3, <3>4 DEF CallEnds
  <2> QED BY <1>3, <2>1, <2>2 DEF CallEnds
<1>4. CASE CallCancelled
  <2>1. CASE Goto("settling") /\ UNCHANGED hold
    <3>1. /\ owner' \in OwnerStates /\ owner'.pc = "settling" /\ ~owner'.cancelled
          /\ owner'.calls = owner.calls
      BY <2>1, GotoFields
    <3> QED BY <1>4, <2>1, <3>1 DEF CallCancelled
  <2>2. CASE /\ owner' = [owner EXCEPT !.pc = "recording", !.next = "settling",
                                       !.calls = @ + 1, !.cancelled = FALSE]
             /\ hold' = [hold EXCEPT !.received = @ + 1]
    <3>1. owner.calls < MaxCalls /\ owner.calls + 1 \in 0..MaxCalls
      BY <1>4 DEF CallCancelled
    <3>2. /\ owner' \in OwnerStates /\ owner'.pc = "recording" /\ ~owner'.cancelled
          /\ owner'.calls = owner.calls + 1
      BY <2>2, <3>1
    <3>3. /\ hold' \in HoldStates /\ hold'.status = hold.status /\ hold'.charged = hold.charged
          /\ hold'.received = hold.received + 1 /\ hold'.recorded = hold.recorded
      BY <2>2, <3>1, ReceivedFields
    <3>4. hold.recorded \in Nat /\ hold.received \in Nat /\ hold.recorded < hold.received + 1
      OBVIOUS
    <3> QED BY <1>4, <3>2, <3>3, <3>4 DEF CallCancelled
  <2> QED BY <1>4, <2>1, <2>2 DEF CallCancelled
<1>5. CASE Record
  <2>0. hold.status = "active"
    BY <1>5 DEF Record
  <2>1. CASE hold' = [hold EXCEPT !.recorded = @ + 1] /\ Goto(owner.next) /\ UNCHANGED faults
    <3>1. /\ owner' \in OwnerStates /\ owner'.pc \in {"extending", "deferring", "settling"}
          /\ ~owner'.cancelled /\ owner'.calls = owner.calls
      <4>1. owner.next \in OwnerSteps /\ owner.next \in {"extending", "deferring", "settling"}
        OBVIOUS
      <4> QED BY <2>1, <4>1, GotoFields
    <3>2. /\ hold' \in HoldStates /\ hold'.status = hold.status /\ hold'.charged = hold.charged
          /\ hold'.received = hold.received /\ hold'.recorded = hold.recorded + 1
      BY <1>5, <2>1, RecordedFields DEF Record
    <3>3. /\ hold.recorded \in Nat /\ hold.received \in Nat
          /\ hold.recorded < hold.received /\ hold.recorded + 1 <= hold.received
      BY <1>5 DEF Record
    <3> QED BY <1>5, <2>0, <2>1, <3>1, <3>2, <3>3 DEF Record
  <2>2. CASE Fault /\ Goto("settling") /\ UNCHANGED hold
    <3>1. /\ owner' \in OwnerStates /\ owner'.pc = "settling" /\ ~owner'.cancelled
          /\ owner'.calls = owner.calls
      BY <2>2, GotoFields
    <3>2. faults' \in 0..MaxFaults /\ faults' # 0
      BY <2>2, FaultRaises
    <3> QED BY <1>5, <2>2, <3>1, <3>2 DEF Record
  <2> QED BY <1>5, <2>0, <2>1, <2>2 DEF Record
<1>6. CASE RecordCancelled
  <2>1. /\ owner' \in OwnerStates /\ owner'.pc = "settling" /\ ~owner'.cancelled
        /\ owner'.calls = owner.calls
    BY <1>6, GotoFields DEF RecordCancelled
  <2>2. CASE torn' = TRUE /\ UNCHANGED hold
    BY <1>6, <2>1, <2>2 DEF RecordCancelled
  <2>3. CASE hold' = [hold EXCEPT !.recorded = @ + 1] /\ UNCHANGED torn
    <3>1. hold.status = "active" /\ hold.recorded < hold.received
      BY <1>6 DEF RecordCancelled
    <3>2. /\ hold' \in HoldStates /\ hold'.status = hold.status /\ hold'.charged = hold.charged
          /\ hold'.received = hold.received /\ hold'.recorded = hold.recorded + 1
      BY <2>3, <3>1, RecordedFields
    <3>3. hold.recorded \in Nat /\ hold.received \in Nat /\ hold.recorded + 1 <= hold.received
      BY <3>1
    <3> QED BY <1>6, <2>1, <2>3, <3>1, <3>2, <3>3 DEF RecordCancelled
  <2> QED BY <1>6, <2>2, <2>3 DEF RecordCancelled
<1>7. CASE Extend
  <2>1. /\ owner' \in OwnerStates /\ ~owner'.cancelled /\ owner'.calls = owner.calls
        /\ owner'.pc \in {"calling", "settling"}
        /\ owner'.pc = "calling" => owner.calls < MaxCalls
    <3>1. Goto("calling") => owner' \in OwnerStates /\ ~owner'.cancelled
                             /\ owner'.calls = owner.calls /\ owner'.pc = "calling"
      BY GotoFields
    <3>2. Goto("settling") => owner' \in OwnerStates /\ ~owner'.cancelled
                              /\ owner'.calls = owner.calls /\ owner'.pc = "settling"
      BY GotoFields
    <3> QED BY <1>7, <3>1, <3>2 DEF Extend
  <2> QED BY <1>7, <2>1 DEF Extend
<1>8. CASE ExtendCancelled
  <2>1. /\ owner' \in OwnerStates /\ owner'.pc = "settling" /\ ~owner'.cancelled
        /\ owner'.calls = owner.calls
    BY <1>8, GotoFields DEF ExtendCancelled
  <2> QED BY <1>8, <2>1 DEF ExtendCancelled
<1> QED BY <1>1, <1>2, <1>3, <1>4, <1>5, <1>6, <1>7, <1>8

LEMMA DeferKeeps ==
  ASSUME IInv, \/ Defer \/ DeferCancelled \/ JoinInterruption \/ Heard \/ CommitEnds
  PROVE  IInv'
<1> USE TurnNumbers DEF IInv, At, CancelledAt
<1>1. CASE Defer
  <2>1. CASE turn.claim = "interruption"
    <3>1. Goto("joining") /\ UNCHANGED turn
      BY <1>1, <2>1 DEF Defer
    <3>2. /\ owner' \in OwnerStates /\ owner'.pc = "joining" /\ ~owner'.cancelled
          /\ owner'.calls = owner.calls
      BY <3>1, GotoFields
    <3> QED BY <1>1, <2>1, <3>1, <3>2 DEF Defer
  <2>2. CASE turn.claim = "open"
    <3>1. Goto("listening") /\ turn' = [turn EXCEPT !.claim = "deferred"]
      BY <1>1, <2>2 DEF Defer
    <3>2. /\ owner' \in OwnerStates /\ owner'.pc = "listening" /\ ~owner'.cancelled
          /\ owner'.calls = owner.calls
      BY <3>1, GotoFields
    <3>3. /\ turn' \in TurnStates /\ turn'.claim = "deferred" /\ turn'.result = turn.result
          /\ turn'.confirmed = turn.confirmed
      BY <3>1
    <3>4. ~turn.confirmed /\ saver = "none" /\ saves = 0 /\ turn.result = "none"
      BY <2>2
    <3> QED BY <1>1, <2>2, <3>2, <3>3, <3>4 DEF Defer
  <2>3. CASE turn.claim \notin {"open", "interruption"}
    <3>1. Goto("settling") /\ UNCHANGED turn
      BY <1>1, <2>3 DEF Defer
    <3>2. /\ owner' \in OwnerStates /\ owner'.pc = "settling" /\ ~owner'.cancelled
          /\ owner'.calls = owner.calls
      BY <3>1, GotoFields
    <3> QED BY <1>1, <2>3, <3>1, <3>2 DEF Defer
  <2> QED BY <2>1, <2>2, <2>3
<1>2. CASE DeferCancelled
  <2>1. /\ owner' \in OwnerStates /\ owner'.pc = "settling" /\ ~owner'.cancelled
        /\ owner'.calls = owner.calls
    BY <1>2, GotoFields DEF DeferCancelled
  <2> QED BY <1>2, <2>1 DEF DeferCancelled
<1>3. CASE JoinInterruption
  <2>1. /\ owner' \in OwnerStates /\ owner'.pc = "settling" /\ ~owner'.cancelled
        /\ owner'.calls = owner.calls
    BY <1>3, GotoFields DEF JoinInterruption
  <2> QED BY <1>3, <2>1 DEF JoinInterruption
<1>4. CASE Heard
  <2>1. /\ owner' \in OwnerStates /\ owner'.pc = "saving" /\ ~owner'.cancelled
        /\ owner'.calls = owner.calls
    BY <1>4, GotoFields DEF Heard
  <2> QED BY <1>4, <2>1 DEF Heard
<1>5. CASE CommitEnds
  <2>1. /\ owner' \in OwnerStates /\ owner'.pc = "settling" /\ ~owner'.cancelled
        /\ owner'.calls = owner.calls
    BY <1>5, GotoFields DEF CommitEnds
  <2>2. /\ turn.claim = "deferred" /\ hold.recorded \in Nat /\ hold.received \in Nat
        /\ owner.pc \in {"listening", "saving"}
    BY <1>5 DEF CommitEnds
  <2>3. PICK r \in {"saved", "failed"} :
          /\ turn' = Resolved(turn, r)
          /\ r = "saved" => owner.pc = "saving" /\ ~owner.cancelled /\ saver = "returned"
          /\ r = "failed" => owner.cancelled \/ saver = "failed"
    BY <1>5 DEF CommitEnds
  <2>4. /\ turn' \in TurnStates /\ turn'.claim = turn.claim /\ turn'.confirmed = turn.confirmed
        /\ turn'.result = (IF turn.result = "none" THEN r ELSE turn.result)
    BY <2>3, ResolvedFields
  <2>5. turn'.result = "saved" => saves = 1
    BY <2>2, <2>3, <2>4
  <2>6. faults = 0 => turn'.result = "saved" /\ saver # "saving"
    BY <2>2, <2>3, <2>4
  <2> QED BY <1>5, <2>1, <2>2, <2>4, <2>5, <2>6 DEF CommitEnds
<1> QED BY <1>1, <1>2, <1>3, <1>4, <1>5

LEMMA FinalizerKeeps ==
  ASSUME IInv, \/ Settle \/ SettleCancelled \/ Refund \/ RefundCancelled \/ Close
  PROVE  IInv'
<1> USE TurnNumbers DEF IInv, At, CancelledAt
<1>1. CASE Settle
  <2>1. CASE hold' = Settled /\ Goto("closing") /\ UNCHANGED faults
    <3>1. /\ owner' \in OwnerStates /\ owner'.pc = "closing" /\ ~owner'.cancelled
          /\ owner'.calls = owner.calls
      BY <2>1, GotoFields
    <3>2. /\ hold' \in HoldStates /\ hold'.status = "settled" /\ hold'.charged = hold.recorded
          /\ hold'.received = hold.received /\ hold'.recorded = hold.recorded
      BY <2>1, SettledFields
    <3> QED BY <1>1, <2>1, <3>1, <3>2 DEF Settle
  <2>2. CASE /\ ~(hold.status = "active" /\ hold.recorded > 0)
             /\ Goto("refunding") /\ UNCHANGED <<hold, faults>>
    <3>1. /\ owner' \in OwnerStates /\ owner'.pc = "refunding" /\ ~owner'.cancelled
          /\ owner'.calls = owner.calls
      BY <2>2, GotoFields
    <3> QED BY <1>1, <2>2, <3>1 DEF Settle
  <2>3. CASE Fault /\ Goto("closing") /\ UNCHANGED hold
    <3>1. /\ owner' \in OwnerStates /\ owner'.pc = "closing" /\ ~owner'.cancelled
          /\ owner'.calls = owner.calls
      BY <2>3, GotoFields
    <3>2. faults' \in 0..MaxFaults /\ faults' # 0
      BY <2>3, FaultRaises
    <3> QED BY <1>1, <2>3, <3>1, <3>2 DEF Settle
  <2> QED BY <1>1, <2>1, <2>2, <2>3 DEF Settle
<1>2. CASE SettleCancelled
  <2>1. /\ owner' \in OwnerStates /\ owner'.pc = "closing" /\ ~owner'.cancelled
        /\ owner'.calls = owner.calls
    BY <1>2, GotoFields DEF SettleCancelled
  <2>2. CASE hold' = Settled /\ UNCHANGED torn
    <3>1. /\ hold' \in HoldStates /\ hold'.status = "settled" /\ hold'.charged = hold.recorded
          /\ hold'.received = hold.received /\ hold'.recorded = hold.recorded
      BY <2>2, SettledFields
    <3> QED BY <1>2, <2>1, <2>2, <3>1 DEF SettleCancelled
  <2>3. CASE torn' = TRUE /\ UNCHANGED hold
    BY <1>2, <2>1, <2>3 DEF SettleCancelled
  <2> QED BY <1>2, <2>2, <2>3 DEF SettleCancelled
<1>3. CASE Refund
  <2>1. /\ owner' \in OwnerStates /\ owner'.pc = "closing" /\ ~owner'.cancelled
        /\ owner'.calls = owner.calls
    BY <1>3, GotoFields DEF Refund
  <2>2. CASE /\ hold' = [hold EXCEPT !.status = IF @ = "active" THEN "refunded" ELSE @]
             /\ UNCHANGED faults
    <3>1. /\ hold' \in HoldStates /\ hold'.charged = hold.charged
          /\ hold'.status = (IF hold.status = "active" THEN "refunded" ELSE hold.status)
          /\ hold'.received = hold.received /\ hold'.recorded = hold.recorded
      BY <2>2, RefundFields
    <3> QED BY <1>3, <2>1, <2>2, <3>1 DEF Refund
  <2>3. CASE Fault /\ UNCHANGED hold
    <3>1. faults' \in 0..MaxFaults /\ faults' # 0
      BY <2>3, FaultRaises
    <3> QED BY <1>3, <2>1, <2>3, <3>1 DEF Refund
  <2> QED BY <1>3, <2>2, <2>3 DEF Refund
<1>5. CASE RefundCancelled
  <2>1. /\ owner' \in OwnerStates /\ owner'.pc = "closing" /\ ~owner'.cancelled
        /\ owner'.calls = owner.calls
    BY <1>5, GotoFields DEF RefundCancelled
  <2>2. CASE /\ hold' = [hold EXCEPT !.status = IF @ = "active" THEN "refunded" ELSE @]
             /\ UNCHANGED torn
    <3>1. /\ hold' \in HoldStates /\ hold'.charged = hold.charged
          /\ hold'.status = (IF hold.status = "active" THEN "refunded" ELSE hold.status)
          /\ hold'.received = hold.received /\ hold'.recorded = hold.recorded
      BY <2>2, RefundFields
    <3> QED BY <1>5, <2>1, <2>2, <3>1 DEF RefundCancelled
  <2>3. CASE torn' = TRUE /\ UNCHANGED hold
    BY <1>5, <2>1, <2>3 DEF RefundCancelled
  <2> QED BY <1>5, <2>2, <2>3 DEF RefundCancelled
<1>4. CASE Close
  <2>1. /\ owner' \in OwnerStates /\ owner'.pc = "done" /\ ~owner'.cancelled
        /\ owner'.calls = owner.calls
    BY <1>4, GotoFields DEF Close
  <2>2. /\ turn' \in TurnStates /\ turn'.confirmed = turn.confirmed
        /\ turn.claim = "open" /\ turn.result = "none" =>
             turn'.claim = "closed" /\ turn'.result = "failed"
        /\ ~(turn.claim = "open" /\ turn.result = "none") =>
             turn'.claim = turn.claim /\ turn'.result = turn.result
    BY <1>4, ClosedFields DEF Close
  <2> QED BY <1>4, <2>1, <2>2 DEF Close
<1> QED BY <1>1, <1>2, <1>3, <1>4, <1>5

LEMMA SaverKeeps ==
  ASSUME IInv, SaverStep
  PROVE  IInv'
<1> USE TurnNumbers DEF IInv
<1>1. CASE SaverCommits
  <2>1. /\ hold' \in HoldStates /\ hold'.status = "settled" /\ hold'.charged = hold.recorded
        /\ hold'.received = hold.received /\ hold'.recorded = hold.recorded
    BY <1>1, SettledFields DEF SaverCommits
  <2>2. /\ turn.claim = "deferred" /\ turn.confirmed /\ saves = 0 /\ saves' = 1
        /\ owner.pc \in {"saving", "settling", "refunding", "closing", "done"}
        /\ \A v \in Voices : voice[v] # "fallback"
    BY <1>1 DEF SaverCommits
  <2>3. CASE turn.interrupted
    <3>1. turn' = Resolved(turn, "saved") /\ owner' = Cancel
      BY <1>1, <2>3 DEF SaverCommits
    <3>2. /\ turn' \in TurnStates /\ turn'.claim = turn.claim /\ turn'.confirmed = turn.confirmed
          /\ turn'.result = (IF turn.result = "none" THEN "saved" ELSE turn.result)
      BY <3>1, ResolvedFields
    <3>3. /\ owner' \in OwnerStates /\ owner'.pc = owner.pc /\ owner'.calls = owner.calls
      BY <3>1, CancelFields
    <3> QED BY <1>1, <2>1, <2>2, <3>2, <3>3 DEF SaverCommits
  <2>4. CASE ~turn.interrupted
    BY <1>1, <2>1, <2>2, <2>4 DEF SaverCommits
  <2> QED BY <2>3, <2>4
<1>2. CASE SaverFails
  <2>1. faults' \in 0..MaxFaults /\ faults' # 0
    BY <1>2, FaultRaises DEF SaverFails
  <2> QED BY <1>2, <2>1 DEF SaverFails
<1>3. CASE SaverReturns
  BY <1>3 DEF SaverReturns
<1> QED BY <1>1, <1>2, <1>3 DEF SaverStep

\* A voice that moves on.
LEMMA SaysFields ==
  ASSUME voice \in [Voices -> VoiceSteps], NEW v \in Voices, NEW p \in VoiceSteps, Says(v, p)
  PROVE  /\ voice' \in [Voices -> VoiceSteps] /\ voice'[v] = p
         /\ \A w \in Voices \ {v} : voice'[w] = voice[w]
BY DEF Says

LEMMA VoiceStartKeeps ==
  ASSUME IInv, NEW v \in Voices, Confirm(v) \/ Interrupt(v)
  PROVE  IInv'
<1> USE TurnNumbers DEF IInv
<1>1. CASE Confirm(v)
  <2>1. /\ voice' \in [Voices -> VoiceSteps] /\ voice'[v] = "confirming"
        /\ \A w \in Voices \ {v} : voice'[w] = voice[w]
    BY <1>1, SaysFields DEF Confirm
  <2>2. /\ turn' \in TurnStates /\ turn'.claim = "deferred" /\ turn'.confirmed
        /\ turn'.result = turn.result
    BY <1>1 DEF Confirm
  <2> QED BY <1>1, <2>1, <2>2 DEF Confirm
<1>2. CASE Interrupt(v)
  <2>1. CASE Says(v, "waiting") /\ UNCHANGED turn
    <3>1. /\ voice' \in [Voices -> VoiceSteps] /\ voice'[v] = "waiting"
          /\ \A w \in Voices \ {v} : voice'[w] = voice[w]
      BY <2>1, SaysFields
    <3> QED BY <1>2, <2>1, <3>1 DEF Interrupt
  <2>2. CASE /\ turn.claim = "deferred" /\ Says(v, "waiting")
             /\ turn' = [turn EXCEPT !.interrupted = TRUE, !.confirmed = TRUE]
    <3>1. /\ voice' \in [Voices -> VoiceSteps] /\ voice'[v] = "waiting"
          /\ \A w \in Voices \ {v} : voice'[w] = voice[w]
      BY <2>2, SaysFields
    <3>2. /\ turn' \in TurnStates /\ turn'.claim = "deferred" /\ turn'.confirmed
          /\ turn'.result = turn.result
      BY <2>2
    <3> QED BY <1>2, <2>2, <3>1, <3>2 DEF Interrupt
  <2>3. CASE /\ turn.claim = "open" /\ turn.result = "none" /\ Says(v, "fallback")
             /\ turn' = [turn EXCEPT !.interrupted = TRUE, !.claim = "interruption"]
    <3>1. /\ voice' \in [Voices -> VoiceSteps] /\ voice'[v] = "fallback"
          /\ \A w \in Voices \ {v} : voice'[w] = voice[w]
      BY <2>3, SaysFields
    <3>2. /\ turn' \in TurnStates /\ turn'.claim = "interruption" /\ turn'.result = "none"
          /\ turn'.confirmed = turn.confirmed /\ ~turn.confirmed /\ saves = 0 /\ saver = "none"
          /\ \A w \in Voices : voice[w] \notin {"fallback", "confirming"}
      BY <2>3
    <3> QED BY <1>2, <2>3, <3>1, <3>2 DEF Interrupt
  <2> QED BY <1>2, <2>1, <2>2, <2>3 DEF Interrupt
<1> QED BY <1>1, <1>2

LEMMA VoiceStepKeeps ==
  ASSUME IInv, NEW v \in Voices, VoiceStep(v) \/ GiveUp(v)
  PROVE  IInv'
<1> USE TurnNumbers DEF IInv
<1>1. CASE ConfirmEnds(v)
  <2>1. turn.claim = "deferred" /\ turn.result # "none"
    BY <1>1 DEF ConfirmEnds
  <2>2. PICK p \in {"done", "aborting"} :
          Says(v, p) /\ (p = "aborting" => turn.result = "failed")
    BY <1>1, <2>1 DEF ConfirmEnds
  <2>3. /\ voice' \in [Voices -> VoiceSteps] /\ voice'[v] = p
        /\ \A w \in Voices \ {v} : voice'[w] = voice[w]
    BY <2>2, SaysFields
  <2> QED BY <1>1, <2>2, <2>3 DEF ConfirmEnds
<1>2. CASE FallbackCommits(v)
  <2>1. /\ voice' \in [Voices -> VoiceSteps] /\ voice'[v] = "after"
        /\ \A w \in Voices \ {v} : voice'[w] = voice[w]
    BY <1>2, SaysFields DEF FallbackCommits
  <2>2. /\ turn' \in TurnStates /\ turn'.claim = "interruption" /\ turn'.result = "saved"
        /\ turn'.confirmed = turn.confirmed
    BY <1>2, ResolvedFields DEF FallbackCommits
  <2>3. owner' \in OwnerStates /\ owner'.pc = owner.pc /\ owner'.calls = owner.calls
    BY <1>2, CancelFields DEF FallbackCommits
  <2>4. saves' = 1 /\ \A w \in Voices : voice'[w] # "fallback"
    BY <1>2, <2>1 DEF FallbackCommits
  <2>5. saver = "none" /\ turn.claim = "interruption" /\ turn.result = "none"
    BY <1>2 DEF FallbackCommits
  <2> QED BY <1>2, <2>1, <2>2, <2>3, <2>4, <2>5 DEF FallbackCommits
<1>3. CASE FallbackFails(v)
  <2>1. PICK p \in {"aborting", "done"} : Says(v, p)
    BY <1>3 DEF FallbackFails, Leaves
  <2>2. /\ voice' \in [Voices -> VoiceSteps] /\ voice'[v] = p
        /\ \A w \in Voices \ {v} : voice'[w] = voice[w]
    BY <2>1, SaysFields
  <2>3. /\ turn' \in TurnStates /\ turn'.claim = "interruption" /\ turn'.result = "failed"
        /\ turn'.confirmed = turn.confirmed
    BY <1>3, ResolvedFields DEF FallbackFails
  <2>4. owner' \in OwnerStates /\ owner'.pc = owner.pc /\ owner'.calls = owner.calls
    BY <1>3, CancelFields DEF FallbackFails
  <2>5. saves' \in {0, 1} /\ \A w \in Voices : voice'[w] # "fallback"
    BY <1>3, <2>2 DEF FallbackFails
  <2>6. saver = "none" /\ turn.claim = "interruption" /\ turn.result = "none"
    BY <1>3 DEF FallbackFails
  <2>7. faults' \in 0..MaxFaults /\ faults' # 0
    BY <1>3, FaultRaises DEF FallbackFails
  <2> QED BY <1>3, <2>2, <2>3, <2>4, <2>5, <2>6, <2>7 DEF FallbackFails
<1>4. CASE FallbackReturns(v)
  <2>1. /\ voice' \in [Voices -> VoiceSteps] /\ voice'[v] = "waiting"
        /\ \A w \in Voices \ {v} : voice'[w] = voice[w]
    BY <1>4, SaysFields DEF FallbackReturns
  <2> QED BY <1>4, <2>1 DEF FallbackReturns
<1>5. CASE ResultArrives(v)
  <2>1. CASE turn.result = "saved"
    <3>1. Says(v, "joining") /\ owner' = Cancel
      BY <1>5, <2>1 DEF ResultArrives
    <3>2. /\ voice' \in [Voices -> VoiceSteps] /\ voice'[v] = "joining"
          /\ \A w \in Voices \ {v} : voice'[w] = voice[w]
      BY <3>1, SaysFields
    <3>3. owner' \in OwnerStates /\ owner'.pc = owner.pc /\ owner'.calls = owner.calls
      BY <3>1, CancelFields
    <3> QED BY <1>5, <2>1, <3>2, <3>3 DEF ResultArrives
  <2>2. CASE turn.result # "saved"
    <3>1. Says(v, "aborting") /\ UNCHANGED owner /\ turn.result = "failed"
      BY <1>5, <2>2 DEF ResultArrives
    <3>2. /\ voice' \in [Voices -> VoiceSteps] /\ voice'[v] = "aborting"
          /\ \A w \in Voices \ {v} : voice'[w] = voice[w]
      BY <3>1, SaysFields
    <3> QED BY <1>5, <3>1, <3>2 DEF ResultArrives
  <2> QED BY <2>1, <2>2
<1>6. CASE Join(v)
  <2>1. /\ voice' \in [Voices -> VoiceSteps] /\ voice'[v] = "done"
        /\ \A w \in Voices \ {v} : voice'[w] = voice[w]
    BY <1>6, SaysFields DEF Join
  <2> QED BY <1>6, <2>1 DEF Join
<1>7. CASE Abort(v)
  <2>1. /\ voice' \in [Voices -> VoiceSteps] /\ voice'[v] = "reaping"
        /\ \A w \in Voices \ {v} : voice'[w] = voice[w]
    BY <1>7, SaysFields DEF Abort
  <2>2. /\ turn' \in TurnStates /\ turn'.confirmed = turn.confirmed
        /\ turn.claim = "open" /\ turn.result = "none" =>
             turn'.claim = "closed" /\ turn'.result = "failed"
        /\ ~(turn.claim = "open" /\ turn.result = "none") =>
             turn'.claim = turn.claim /\ turn'.result = turn.result
    BY <1>7, ClosedFields DEF Abort
  <2>3. owner' \in OwnerStates /\ owner'.pc = owner.pc /\ owner'.calls = owner.calls
    BY <1>7, CancelFields DEF Abort
  <2> QED BY <1>7, <2>1, <2>2, <2>3 DEF Abort
<1>8. CASE GiveUp(v)
  <2>1. PICK p \in {"aborting", "done"} : Says(v, p)
    BY <1>8 DEF GiveUp, Leaves
  <2>2. /\ voice' \in [Voices -> VoiceSteps] /\ voice'[v] = p
        /\ \A w \in Voices \ {v} : voice'[w] = voice[w]
    BY <2>1, SaysFields
  <2>3. owner' \in OwnerStates /\ owner'.pc = owner.pc /\ owner'.calls = owner.calls
    BY <1>8, CancelFields DEF GiveUp
  <2>4. faults' \in 0..MaxFaults /\ faults' # 0
    BY <1>8, FaultRaises DEF GiveUp
  <2> QED BY <1>8, <2>2, <2>3, <2>4 DEF GiveUp
<1> QED
  BY <1>1, <1>2, <1>3, <1>4, <1>5, <1>6, <1>7, <1>8 DEF VoiceStep

LEMMA TurnInvariant == Spec => []IInv
<1>1. IInv /\ [Next]_vars => IInv'
  <2> SUFFICES ASSUME IInv, [Next]_vars PROVE IInv'
    OBVIOUS
  <2>1. CASE OwnerStep
    BY <2>1, GenerationKeeps, DeferKeeps, FinalizerKeeps DEF OwnerStep
  <2>2. CASE SaverStep
    BY <2>2, SaverKeeps
  <2>3. CASE VoiceStarts
    BY <2>3, VoiceStartKeeps DEF VoiceStarts
  <2>4. CASE \E v \in Voices : VoiceStep(v) \/ GiveUp(v)
    BY <2>4, VoiceStepKeeps
  <2>5. CASE UNCHANGED vars
    BY <2>5 DEF vars, IInv
  <2> QED BY <2>1, <2>2, <2>3, <2>4, <2>5 DEF Next
<1> QED BY TurnInit, <1>1, PTL DEF Spec

\* The handle, the tasks and the hold keep their types: in particular a turn
\* never makes more provider calls than it may, nor records more than it made.
THEOREM VoiceTurnTypes == Spec => []TypeOK
<1>1. IInv => TypeOK
  BY DEF IInv, TypeOK
<1> QED BY TurnInvariant, <1>1, PTL

\* What the caller heard is written to MESSAGES exactly once
\* (channel_turns.py: "commit exactly once"), for any number of voices that
\* confirm and interrupt the turn.
THEOREM VoiceTurnSavedOnce == Spec => []SavedOnce
<1>1. IInv => SavedOnce
  BY DEF IInv, SavedOnce, Reported
<1> QED BY TurnInvariant, <1>1, PTL

\* Recorded usage is never refunded and settled in full, and without a fault
\* or a torn transaction everything received is charged (messages.py:
\* _settle_or_refund_ai_reservation; persistence/messages.py).
THEOREM VoiceTurnUsageIsCharged == Spec => []UsageIsCharged
<1>1. IInv => UsageIsCharged
  BY DEF IInv, UsageIsCharged
<1> QED BY TurnInvariant, <1>1, PTL

====
