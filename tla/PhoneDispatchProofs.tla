---- MODULE PhoneDispatchProofs ----
(***************************************************************************)
(* Outbound calls, for any number of jobs, conversations, dispatchers,     *)
(* tasks and crashes: the provider is asked once for a job, a conversation *)
(* has one call at the provider, and its foreground is held by exactly the *)
(* call in progress.                                                       *)
(*                                                                         *)
(* None of these is inductive.  What carries them is what the commit       *)
(* before the request does to the rows: from then on the job needs         *)
(* attention and the call is marked started, so that no claim, expiry or   *)
(* owner can lead a second task to the same boundary.  The invariant says  *)
(* what the four rows of a job (job, call, requests, provider) have to do  *)
(* with each other, what a task between two of its transactions can rely   *)
(* on, and that at most one task is past the boundary for a job.           *)
(***************************************************************************)
EXTENDS PhoneDispatch, TLAPS

\* The steps of a task between the commit before its request and the record of
\* the answer.
Sending == {"crossed", "answered"}

\* Calls that were asked for and may come to something.
Underway == Incompatible \ {"unresolved"}

\* What job row x, call row c, the number n of requests and the provider's
\* state p of one job have to do with each other.
Sound(x, c, n, p) ==
  /\ x.status \in {"none", "scheduled"} => c.status = "none"
  /\ x.status = "dispatching" => c.status \in {"none", "created"}
  /\ x.status = "needs_attention" =>
       c.status \in {"none", "created", "dispatch_unknown", "unresolved"}
  /\ x.status = "completed" => c.status \in {"ringing", "in_progress", "unresolved"} \cup Ended
  /\ x.status \in Closed => c.status \in {"none", "created", "canceled"} /\ ~c.started
  /\ c.started => c.status \notin {"none", "created"}
  /\ c.sid => c.status \notin {"none", "created", "dispatch_unknown"}
  /\ n \in {0, 1}
  /\ n = 1 => c.started
  /\ p # "none" => n = 1
  /\ p \in {"pending", "live"} => c.status \in Incompatible

\* With a lease as long as the window, a job whose lease ran out is late, and a
\* closed one has no call that waits for its dispatch.
Punctual(x, c) ==
  /\ x.status = "dispatching" /\ ~x.live => x.time = "late"
  /\ x.status \in Closed => c.status # "created"

\* Task a has not sent its request, or has sent the only one.
Careful(a) ==
  LET j == attempt[a].job IN
  /\ attempt[a].pc \in Sending => call[j].started
  /\ attempt[a].pc = "crossed" =>
       posts[j] = 0 /\ call[j].status \in {"dispatch_unknown", "unresolved"}
  /\ attempt[a].pc = "answered" /\ attempt[a].answer = "refused" => provider[j] = "none"
  /\ attempt[a].pc = "rejected" /\ Owns(a) => call[j].status = "none"

\* A job that is taken over, with the call another task created, is late.
Prompt(a) ==
  LET j == attempt[a].job IN
  /\ attempt[a].pc = "checked" /\ Owns(a) => call[j].status = "none"
  /\ attempt[a].pc = "claimed" /\ Owns(a) /\ call[j].status = "created" => job[j].time = "late"

\* One task at a time is between the commit and the record.
Alone(a, b) ==
  attempt[a].pc \in Sending /\ attempt[b].pc \in Sending /\ attempt[a].job = attempt[b].job
  => a = b

\* One call of a conversation is open.
Single(j, k) ==
  /\ ConversationOf[j] = ConversationOf[k]
  /\ call[j].status \in Incompatible /\ call[k].status \in Incompatible
  => j = k

IInv ==
  /\ TypeOK
  /\ \A j \in Jobs : Sound(job[j], call[j], posts[j], provider[j])
  /\ \A j \in Jobs : call[j].status \in Underway <=> ForegroundOf(j).call = j
  /\ \A a \in Attempts : Careful(a)
  /\ \A a, b \in Attempts : Alone(a, b)
  /\ \A j, k \in Jobs : Single(j, k)
  /\ LeaseOutlivesWindow =>
       /\ \A j \in Jobs : Punctual(job[j], call[j])
       /\ \A a \in Attempts : Prompt(a)

----------------------------------------------------------------------------
JobStatus == {"none", "scheduled", "dispatching", "needs_attention", "completed"} \cup Closed

CallStatus == {"none", "created", "dispatch_unknown", "ringing", "in_progress", "unresolved"}
                \cup Ended

\* The assumptions on the constants, as the steps use them.
LEMMA DispatchFacts ==
  /\ ConversationOf \in [Jobs -> Conversations]
  /\ NULL \notin Jobs /\ NULL \notin Attempts /\ NULL \notin Dispatchers
  /\ MaxCrashes \in Nat /\ LeaseOutlivesWindow \in BOOLEAN
BY ConversationAssumption, DispatchNull, DispatchBounds

\* Nobody else's job is touched.
Only(j) ==
  \A k \in Jobs : k = j \/
    /\ job'[k] = job[k] /\ call'[k] = call[k]
    /\ posts'[k] = posts[k] /\ provider'[k] = provider[k]
    /\ ForegroundOf(k).call' = k <=> ForegroundOf(k).call = k

\* What most steps have in common: job j is not claimed, called or asked for.
Calm(j) ==
  /\ job'[j].status = "dispatching" =>
       /\ job[j].status = "dispatching" /\ job'[j].lease = job[j].lease
       /\ job[j].time = "late" => job'[j].time = "late"
  /\ call[j].started => call'[j].started
  /\ call'[j].status \in Incompatible => call[j].status \in Incompatible
  /\ call'[j].status = "created" => call[j].status = "created"
  /\ call[j].status = "none" => call'[j].status = "none"
  /\ call[j].status \in {"dispatch_unknown", "unresolved"} =>
       \/ call'[j].status \in {"dispatch_unknown", "unresolved"} \/ posts[j] = 1
       \/ \A a \in Attempts : attempt[a].pc = "crossed" => attempt[a].job # j
  /\ posts'[j] = posts[j]
  /\ provider[j] = "none" => provider'[j] = "none"

\* What the invariant says of the rows of job j.
Fits(j) ==
  /\ Sound(job[j], call[j], posts[j], provider[j])
  /\ call[j].status \in Underway <=> ForegroundOf(j).call = j
  /\ LeaseOutlivesWindow => Punctual(job[j], call[j])

\* A task that does not go on, or goes where nothing is asked of it.
Rests(a) ==
  attempt'[a] = attempt[a] \/ attempt'[a].pc \in {"idle", "raised", "created", "renewed"}

\* A step that leaves every job calm keeps the invariant if the rows still fit.
LEMMA CalmStep ==
  ASSUME IInv, TypeOK', \A j \in Jobs : Calm(j) /\ Fits(j)', \A a \in Attempts : Rests(a)
  PROVE  IInv'
<1>1. \A j \in Jobs : /\ Sound(job[j], call[j], posts[j], provider[j])'
                      /\ (call[j].status \in Underway <=> ForegroundOf(j).call = j)'
                      /\ LeaseOutlivesWindow => Punctual(job[j], call[j])'
  BY DEF Fits
<1>2. \A a \in Attempts : attempt'[a].pc \in Sending \cup {"rejected", "checked", "claimed"} =>
                            attempt'[a] = attempt[a] /\ attempt[a].job \in Jobs
  <2>1. \A a \in Attempts : attempt[a].pc # "idle" => attempt[a].job \in Jobs
    BY DispatchFacts DEF IInv, TypeOK, AttemptStates
  <2> QED BY <2>1 DEF Rests, Sending
<1>3. \A a \in Attempts : Owns(a)' /\ attempt'[a] = attempt[a] /\ attempt[a].job \in Jobs => Owns(a)
  BY DEF Owns, Calm
<1>4. \A a \in Attempts : Careful(a)'
  <2> SUFFICES ASSUME NEW a \in Attempts PROVE Careful(a)'
    OBVIOUS
  <2>1. Careful(a) 
    BY DEF IInv
  <2> QED BY <1>2, <1>3, <2>1 DEF Careful, Calm, Sending
<1>5. LeaseOutlivesWindow => \A a \in Attempts : Prompt(a)'
  <2> SUFFICES ASSUME LeaseOutlivesWindow, NEW a \in Attempts PROVE Prompt(a)'
    OBVIOUS
  <2>1. Prompt(a)
    BY DEF IInv
  <2> QED BY <1>2, <1>3, <2>1 DEF Prompt, Calm, Owns
<1>6. \A a, b \in Attempts : Alone(a, b)'
  BY <1>2 DEF IInv, Alone
<1>7. \A j, k \in Jobs : Single(j, k)'
  BY DEF IInv, Single, Calm
<1> QED BY <1>1, <1>4, <1>5, <1>6, <1>7 DEF IInv

\* And so does one that touches one job.
LEMMA CalmJob ==
  ASSUME IInv, TypeOK', NEW j \in Jobs, Only(j), Calm(j), Fits(j)', \A a \in Attempts : Rests(a)
  PROVE  IInv'
<1>1. \A k \in Jobs : k = j \/ (Calm(k) /\ Fits(k)')
  BY DEF Only, Calm, Fits, IInv, ForegroundOf
<1> QED BY <1>1, CalmStep

----------------------------------------------------------------------------
(* What the pieces of the actions write *)

Typed ==
  /\ job \in [Jobs -> JobStates] /\ call \in [Jobs -> CallStates]
  /\ foreground \in [Conversations -> ForegroundStates]
  /\ bar \in [Conversations -> Bars \cup {NULL}]
  /\ attempt \in [Attempts -> AttemptStates]
  /\ dispatcher \in [Dispatchers -> {"scanning", "down", "failed"}]
  /\ provider \in [Jobs -> {"none", "pending", "live", "ended"}]
  /\ posts \in [Jobs -> Nat] /\ crashes \in 0 .. MaxCrashes
  /\ \A a \in Attempts : attempt[a].pc = "idle" <=> attempt[a].job = NULL

\* The type invariant, with the sets it is made of.
LEMMA DispatchTyped == TypeOK <=> Typed
BY DEF TypeOK, Typed

\* What taking the lease off a job writes.
LEMMA UnleasedRow ==
  ASSUME Typed, NEW j \in Jobs, NEW s \in JobStatus
  PROVE  /\ Unleased(j, s) \in [Jobs -> JobStates]
         /\ \A k \in Jobs : k = j \/ Unleased(j, s)[k] = job[k]
         /\ Unleased(j, s)[j].status = s /\ Unleased(j, s)[j].time = job[j].time
         /\ Unleased(j, s)[j].lease = NULL /\ Unleased(j, s)[j].live = FALSE
<1>1. \A k \in Jobs : k = j \/ Unleased(j, s)[k] = job[k]
  BY DEF Unleased, Typed
<1>2. Unleased(j, s) \in [Jobs -> JobStates]
  <2>1. job \in [Jobs -> JobStates]
    BY DEF Typed
  <2> QED BY <2>1 DEF Unleased, JobStates, JobStatus
<1>3. Unleased(j, s)[j].status = s /\ Unleased(j, s)[j].time = job[j].time
  BY DEF Unleased, JobStates, JobStatus, Typed
<1>4. Unleased(j, s)[j].lease = NULL /\ Unleased(j, s)[j].live = FALSE
  BY DEF Unleased, JobStates, JobStatus, Typed
<1> QED BY <1>1, <1>2, <1>3, <1>4

LEMMA UnleasedJob ==
  ASSUME Typed, NEW j \in Jobs, NEW s \in JobStatus, job' = Unleased(j, s)
  PROVE  /\ job' \in [Jobs -> JobStates] /\ \A k \in Jobs : k = j \/ job'[k] = job[k]
         /\ job'[j].status = s
<1>1. /\ Unleased(j, s) \in [Jobs -> JobStates]
      /\ \A k \in Jobs : k = j \/ Unleased(j, s)[k] = job[k]
      /\ Unleased(j, s)[j].status = s
  BY UnleasedRow
<1> QED BY <1>1

\* What releasing the foreground of a call writes.
LEMMA ReleasedFront ==
  ASSUME Typed, NEW j \in Jobs
  PROVE  /\ Released(j) \in [Conversations -> ForegroundStates]
         /\ \A k \in Jobs : k = j \/ (Released(j)[ConversationOf[k]].call = k
                                        <=> ForegroundOf(k).call = k)
         /\ Released(j)[ConversationOf[j]].call # j
<1>1. Free \in ForegroundStates /\ Free.call = NULL
  BY DEF Free, ForegroundStates
<1>2. Released(j) \in [Conversations -> ForegroundStates]
  BY <1>1 DEF Released, Typed
<1>3. \A k \in Jobs : ConversationOf[k] \in Conversations
  BY DispatchFacts
<1> QED BY <1>1, <1>2, <1>3, DispatchFacts DEF Released, ForegroundOf

\* What taking a foreground that is free, or one's own already, writes.
LEMMA FrontTaken ==
  ASSUME Typed, NEW j \in Jobs, NEW a \in Attempts, Foregrounded(a, j),
         ForegroundOf(j).call \in {j, NULL}
  PROVE  /\ foreground' \in [Conversations -> ForegroundStates]
         /\ \A k \in Jobs : k = j \/ (ForegroundOf(k).call' = k <=> ForegroundOf(k).call = k)
         /\ ForegroundOf(j).call' = j
<1>1. \A k \in Jobs : ConversationOf[k] \in Conversations
  BY DispatchFacts
<1>2. foreground' \in [Conversations -> ForegroundStates]
  BY <1>1 DEF Foregrounded, ForegroundStates, Typed
<1> QED BY <1>1, <1>2, DispatchFacts DEF Foregrounded, ForegroundOf, Typed

Steps == {"claimed", "checked", "rejected", "created", "renewed", "crossed", "answered", "raised"}

Slots(new) ==
  /\ new \in [Attempts -> AttemptStates]
  /\ \A a \in Attempts : new[a].pc = "idle" <=> new[a].job = NULL

\* What going on to another step writes.
LEMMA Gone ==
  ASSUME Typed, NEW a \in Attempts, NEW pc \in Steps, attempt[a].pc # "idle", Goto(a, pc)
  PROVE  /\ Slots(attempt')
         /\ \A b \in Attempts : b = a \/ attempt'[b] = attempt[b]
         /\ attempt'[a].pc = pc /\ attempt'[a].job = attempt[a].job
         /\ attempt'[a].answer = attempt[a].answer
<1>1. \A b \in Attempts : b = a \/ attempt'[b] = attempt[b]
  BY DEF Goto, Typed
<1>2. attempt' \in [Attempts -> AttemptStates]
  BY DEF Goto, Typed, AttemptStates, Steps
<1>3. /\ attempt'[a].pc = pc /\ attempt'[a].job = attempt[a].job
      /\ attempt'[a].answer = attempt[a].answer
  BY DEF Goto, Typed, AttemptStates
<1> QED BY <1>1, <1>2, <1>3 DEF Slots, Typed, Steps

\* What finishing a task writes.
LEMMA Finished ==
  ASSUME Typed, NEW a \in Attempts, Finish(a)
  PROVE  /\ Slots(attempt') /\ attempt'[a].pc = "idle"
         /\ \A b \in Attempts : b = a \/ attempt'[b] = attempt[b]
<1>1. Idle \in AttemptStates /\ Idle.pc = "idle" /\ Idle.job = NULL
  BY DEF Idle, AttemptStates
<1> QED BY <1>1 DEF Finish, Typed, Slots

\* What cancelling the tasks of a dispatcher writes.
LEMMA Stopped ==
  ASSUME Typed, NEW d \in Dispatchers, NEW s \in {"failed", "down"}, Stop(d, s)
  PROVE  /\ Slots(attempt') /\ \A a \in Attempts : Rests(a)
         /\ dispatcher' \in [Dispatchers -> {"scanning", "down", "failed"}]
<1>1. Idle \in AttemptStates /\ Idle.pc = "idle" /\ Idle.job = NULL
  BY DEF Idle, AttemptStates
<1> QED BY <1>1 DEF Stop, Typed, Slots, Rests

\* The job of a running task, and what is known of it.
LEMMA Running ==
  ASSUME IInv, NEW a \in Attempts, attempt[a].pc # "idle"
  PROVE  /\ Typed /\ attempt[a].job \in Jobs /\ Fits(attempt[a].job)
         /\ ConversationOf[attempt[a].job] \in Conversations
BY DispatchFacts, DispatchTyped DEF IInv, Typed, AttemptStates, Fits

\* A task has finished, or goes where nothing is asked of it.
LEMMA Resting ==
  ASSUME Typed, NEW a \in Attempts, attempt[a].pc # "idle",
         Finish(a) \/ Goto(a, "raised") \/ Goto(a, "created")
  PROVE  Slots(attempt') /\ \A b \in Attempts : Rests(b)
BY Finished, Gone DEF Rests, Steps

----------------------------------------------------------------------------
(* The steps *)

\* The invariant, of one job.
LEMMA MayOwn ==
  ASSUME IInv, NEW j \in Jobs
  PROVE  Typed /\ Fits(j) /\ ConversationOf[j] \in Conversations
BY DispatchFacts, DispatchTyped DEF IInv, Fits

\* A job that has not reached the provider is closed.
LEMMA ClosedStep ==
  ASSUME IInv, NEW j \in Jobs, NEW s \in Closed, CloseUnstarted(j, s),
         call[j].status \in {"none", "created"},
         Slots(attempt'), \A a \in Attempts : Rests(a),
         UNCHANGED <<bar, dispatcher, provider, posts, crashes>>
  PROVE  IInv'
<1>1. Typed /\ Fits(j) /\ call[j] \in CallStates
  BY MayOwn DEF Typed
<1>2. /\ job' \in [Jobs -> JobStates] /\ \A k \in Jobs : k = j \/ job'[k] = job[k]
      /\ job'[j].status = s
  <2>1. s \in JobStatus /\ job' = Unleased(j, s)
    BY DEF CloseUnstarted, JobStatus
  <2> QED BY <1>1, <2>1, UnleasedRow
<1>3. /\ call' \in [Jobs -> CallStates] /\ \A k \in Jobs : k = j \/ call'[k] = call[k]
      /\ call'[j].status = IF call[j].status = "created" THEN "canceled" ELSE call[j].status
      /\ call'[j].started = call[j].started /\ call'[j].sid = call[j].sid
  <2>1. call \in [Jobs -> CallStates]
    BY <1>1 DEF Typed
  <2> QED BY <2>1 DEF CloseUnstarted, CallStates, Ended
<1>4. /\ foreground' \in [Conversations -> ForegroundStates]
      /\ \A k \in Jobs : k = j \/ (ForegroundOf(k).call' = k <=> ForegroundOf(k).call = k)
      /\ ForegroundOf(j).call' # j
  BY <1>1, ReleasedFront DEF CloseUnstarted, ForegroundOf
<1>5. TypeOK'
  BY <1>1, <1>2, <1>3, <1>4 DEF TypeOK, Typed, Slots
<1>6. Only(j)
  BY <1>2, <1>3, <1>4 DEF Only
<1>7. Calm(j)
  BY <1>2, <1>3 DEF Calm, Closed, Incompatible
<1>8. Fits(j)'
  BY <1>1, <1>2, <1>3, <1>4
     DEF Fits, Sound, Punctual, Closed, Incompatible, Underway, Ended
<1> QED BY <1>5, <1>6, <1>7, <1>8, CalmJob

\* Job j changes and no call does.
LEMMA JobStep ==
  ASSUME IInv, NEW j \in Jobs,
         job' \in [Jobs -> JobStates], \A k \in Jobs : k = j \/ job'[k] = job[k],
         job'[j].status = "dispatching" =>
           /\ job[j].status = "dispatching" /\ job'[j].lease = job[j].lease
           /\ job[j].time = "late" => job'[j].time = "late",
         Sound(job'[j], call[j], posts[j], provider[j]),
         LeaseOutlivesWindow => Punctual(job'[j], call[j]),
         Slots(attempt'), \A a \in Attempts : Rests(a),
         UNCHANGED <<call, foreground, bar, dispatcher, provider, posts, crashes>>
  PROVE  IInv'
<1>1. Typed /\ Fits(j)
  BY MayOwn
<1>2. TypeOK'
  BY <1>1 DEF TypeOK, Typed, Slots
<1>3. Only(j)
  BY DEF Only, ForegroundOf
<1>4. Calm(j)
  BY DEF Calm
<1>5. Fits(j)'
  BY <1>1 DEF Fits, ForegroundOf
<1> QED BY <1>2, <1>3, <1>4, <1>5, CalmJob

\* A job is unleased in state s and no call changes.
LEMMA UnleasedStep ==
  ASSUME IInv, NEW j \in Jobs, NEW s \in JobStatus \ {"dispatching"}, job' = Unleased(j, s),
         Sound([job[j] EXCEPT !.status = s], call[j], posts[j], provider[j]),
         s \in Closed => call[j].status # "created",
         Slots(attempt'), \A a \in Attempts : Rests(a),
         UNCHANGED <<call, foreground, bar, dispatcher, provider, posts, crashes>>
  PROVE  IInv'
<1>1. Typed /\ job[j] \in JobStates
  BY MayOwn DEF Typed
<1>2. /\ job' \in [Jobs -> JobStates] /\ \A k \in Jobs : k = j \/ job'[k] = job[k]
      /\ job'[j].status = s
  BY <1>1, UnleasedJob
<1>3. [job[j] EXCEPT !.status = s].status = s
  BY <1>1 DEF JobStates
<1>4. Sound(job'[j], call[j], posts[j], provider[j])
  BY <1>2, <1>3 DEF Sound
<1>5. Punctual(job'[j], call[j])
  BY <1>2 DEF Punctual
<1> QED BY <1>2, <1>4, <1>5, JobStep

\* The owner asks for a call, cancels one or moves one.
LEMMA OwnerStep ==
  ASSUME IInv, NEW j \in Jobs, Owner(j)
  PROVE  IInv'
<1>1. Typed /\ Fits(j) /\ job \in [Jobs -> JobStates]
  BY MayOwn DEF Typed
<1>2. UNCHANGED attempt => Slots(attempt') /\ \A a \in Attempts : Rests(a)
  BY <1>1 DEF Typed, Slots, Rests
<1>3. ASSUME NEW t \in {"early", "window"}, CreateCallJob(j, t) PROVE IInv'
  <2>1. /\ job' \in [Jobs -> JobStates] /\ \A k \in Jobs : k = j \/ job'[k] = job[k]
    <3>1. /\ [job[j] EXCEPT !.status = "scheduled", !.time = t] \in JobStates
          /\ job' = [job EXCEPT ![j] = [job[j] EXCEPT !.status = "scheduled", !.time = t]]
      BY <1>1, <1>3 DEF CreateCallJob, JobStates, JobStatus
    <3> QED BY <1>1, <3>1
  <2>2. job'[j].status = "scheduled"
    BY <1>1, <1>3 DEF CreateCallJob, JobStates
  <2>3. Sound(job'[j], call[j], posts[j], provider[j]) /\ Punctual(job'[j], call[j])
    BY <1>1, <1>3, <2>2 DEF CreateCallJob, Fits, Sound, Punctual, Closed
  <2> QED BY <1>2, <1>3, <2>1, <2>2, <2>3, JobStep DEF CreateCallJob
<1>4. CASE CancelScheduledJob(j)
  <2>1. Sound([job[j] EXCEPT !.status = "canceled"], call[j], posts[j], provider[j])
    BY <1>1, <1>4 DEF CancelScheduledJob, Fits, Sound, JobStates, Closed
  <2>2. call[j].status # "created"
    BY <1>1, <1>4 DEF CancelScheduledJob, Fits, Sound
  <2> QED BY <1>2, <1>4, <2>1, <2>2, UnleasedStep DEF CancelScheduledJob, JobStatus, Closed
<1>5. CASE RescheduleScheduledJob(j)
  <2>1. /\ job' \in [Jobs -> JobStates] /\ \A k \in Jobs : k = j \/ job'[k] = job[k]
        /\ job'[j].status = "scheduled"
    BY <1>1, <1>5 DEF RescheduleScheduledJob, JobStates
  <2>2. Sound(job'[j], call[j], posts[j], provider[j]) /\ Punctual(job'[j], call[j])
    BY <1>1, <1>5, <2>1 DEF RescheduleScheduledJob, Fits, Sound, Punctual, Closed
  <2> QED BY <1>2, <1>5, <2>1, <2>2, JobStep DEF RescheduleScheduledJob
<1> QED BY <1>3, <1>4, <1>5 DEF Owner

\* A job becomes due or late, or its lease runs out.
LEMMA TimeStep ==
  ASSUME IInv, NEW j \in Jobs, TimePasses(j) \/ JobLeaseExpires(j)
  PROVE  IInv'
<1>1. Typed /\ Fits(j) /\ job \in [Jobs -> JobStates] /\ UNCHANGED attempt
  BY MayOwn DEF Typed, TimePasses, JobLeaseExpires
<1>2. Slots(attempt') /\ \A a \in Attempts : Rests(a)
  BY <1>1 DEF Typed, Slots, Rests
<1>3. CASE TimePasses(j)
  <2>1. /\ job' \in [Jobs -> JobStates] /\ \A k \in Jobs : k = j \/ job'[k] = job[k]
        /\ job'[j].status = job[j].status /\ job'[j].lease = job[j].lease
        /\ job'[j].live = job[j].live
    BY <1>1, <1>3 DEF TimePasses, JobStates
  <2>2. job[j].time # "late"
    BY <1>3 DEF TimePasses
  <2>3. Sound(job'[j], call[j], posts[j], provider[j])
    BY <1>1, <2>1 DEF Fits, Sound
  <2>4. LeaseOutlivesWindow => Punctual(job'[j], call[j])
    BY <1>1, <2>1, <2>2 DEF Fits, Punctual
  <2> QED BY <1>2, <1>3, <2>1, <2>2, <2>3, <2>4, JobStep DEF TimePasses
<1>4. CASE JobLeaseExpires(j)
  <2>1. /\ job' \in [Jobs -> JobStates] /\ \A k \in Jobs : k = j \/ job'[k] = job[k]
        /\ job'[j].status = job[j].status /\ job'[j].lease = job[j].lease
        /\ job'[j].time = job[j].time
    BY <1>1, <1>4 DEF JobLeaseExpires, JobStates
  <2>2. Sound(job'[j], call[j], posts[j], provider[j])
    BY <1>1, <2>1 DEF Fits, Sound
  <2>3. LeaseOutlivesWindow => Punctual(job'[j], call[j])
    BY <1>1, <1>4, <2>1 DEF Fits, Punctual, JobLeaseExpires
  <2> QED BY <1>2, <1>4, <2>1, <2>2, <2>3, JobStep DEF JobLeaseExpires
<1> QED BY <1>3, <1>4

\* The deadline of an unknown call passes.
LEMMA DeadlineStep ==
  ASSUME IInv, NEW j \in Jobs, ReconcileDeadlinePasses(j)
  PROVE  IInv'
<1>1. Typed /\ Fits(j) /\ call \in [Jobs -> CallStates]
  BY MayOwn DEF Typed
<1>2. /\ call' \in [Jobs -> CallStates] /\ \A k \in Jobs : k = j \/ call'[k] = call[k]
      /\ call'[j].status = call[j].status /\ call'[j].started = call[j].started
      /\ call'[j].sid = call[j].sid
  BY <1>1 DEF ReconcileDeadlinePasses, CallStates
<1>3. TypeOK'
  BY <1>1, <1>2 DEF ReconcileDeadlinePasses, TypeOK, Typed
<1>4. Only(j) /\ Calm(j)
  BY <1>2 DEF ReconcileDeadlinePasses, Only, Calm, ForegroundOf
<1>5. Fits(j)'
  BY <1>1, <1>2 DEF ReconcileDeadlinePasses, Fits, Sound, Punctual, ForegroundOf
<1> QED BY <1>3, <1>4, <1>5, CalmJob DEF Rests, ReconcileDeadlinePasses

\* The lease of a foreground runs out.
LEMMA LeaseLostStep ==
  ASSUME IInv, NEW c \in Conversations, ForegroundLeaseExpires(c)
  PROVE  IInv'
<1>1. Typed /\ foreground \in [Conversations -> ForegroundStates]
  BY DispatchTyped DEF IInv, Typed
<1>2. /\ foreground' \in [Conversations -> ForegroundStates]
      /\ \A d \in Conversations : foreground'[d].call = foreground[d].call
  BY <1>1 DEF ForegroundLeaseExpires, ForegroundStates
<1>3. TypeOK'
  BY <1>1, <1>2 DEF ForegroundLeaseExpires, TypeOK, Typed
<1>4. \A j \in Jobs : Calm(j) /\ Fits(j)'
  <2> SUFFICES ASSUME NEW j \in Jobs PROVE Calm(j) /\ Fits(j)'
    OBVIOUS
  <2>1. Fits(j) /\ ConversationOf[j] \in Conversations
    BY MayOwn
  <2> QED BY <1>2, <2>1 DEF ForegroundLeaseExpires, Calm, Fits, ForegroundOf
<1> QED BY <1>3, <1>4, CalmStep DEF Rests, ForegroundLeaseExpires

\* Calls are forbidden, and jobs without a call closed.
LEMMA ForbidStep ==
  ASSUME IInv, NEW c \in Conversations, NEW b \in Bars, Forbid(c, b)
  PROVE  IInv'
<1>1. Typed
  BY DispatchTyped DEF IInv
<1>2. \A j \in Jobs : job'[j] = job[j] \/
        /\ call[j].status = "none" /\ job'[j].status \in Closed
  <2> SUFFICES ASSUME NEW j \in Jobs, job'[j] # job[j]
               PROVE  call[j].status = "none" /\ job'[j].status \in Closed
    OBVIOUS
  <2>1. job' = Unrouted(c, b)
    BY DEF Forbid
  <2>2. Fits(j) /\ Typed
    BY MayOwn
  <2>3. \A s \in Closed : Unleased(j, s)[j].status = s
    BY <2>2, UnleasedRow DEF JobStatus
  <2>4. CASE job[j].status = "scheduled"
    <3>1. job'[j] = Unleased(j, "canceled")[j]
      BY <2>1, <2>4 DEF Unrouted
    <3> QED BY <2>2, <2>3, <2>4, <3>1 DEF Fits, Sound, Closed
  <2>5. CASE job[j].status = "dispatching" /\ call[j].status = "none"
    <3>1. job'[j] \in {Unleased(j, s)[j] : s \in {"canceled", "conflict"}}
      BY <2>1, <2>5 DEF Unrouted
    <3> QED BY <2>3, <2>5, <3>1 DEF Closed
  <2> QED BY <2>1, <2>4, <2>5 DEF Unrouted
<1>3. job' \in [Jobs -> JobStates]
  <2>1. CASE UNCHANGED job
    BY <1>1, <2>1 DEF Typed
  <2>2. CASE job' = Unrouted(c, b)
    <3>1. \A j \in Jobs : Unrouted(c, b)[j] \in JobStates
      <4> SUFFICES ASSUME NEW j \in Jobs PROVE Unrouted(c, b)[j] \in JobStates
        OBVIOUS
      <4>1. /\ job[j] \in JobStates
            /\ \A s \in {"canceled", "conflict"} : Unleased(j, s)[j] \in JobStates
        <5>1. {"canceled", "conflict"} \subseteq JobStatus
          BY DEF JobStatus, Closed
        <5>2. ASSUME NEW s \in JobStatus PROVE Unleased(j, s) \in [Jobs -> JobStates]
          BY <1>1, UnleasedRow
        <5> QED BY <1>1, <5>1, <5>2 DEF Typed
      <4> QED BY <4>1 DEF Unrouted
    <3> QED BY <2>2, <3>1 DEF Unrouted
  <2> QED BY <2>1, <2>2 DEF Forbid
<1>4. bar' \in [Conversations -> Bars \cup {NULL}]
  BY <1>1 DEF Forbid, Typed
<1>5. TypeOK'
  BY <1>1, <1>3, <1>4 DEF Forbid, TypeOK, Typed
<1>6. \A j \in Jobs : Calm(j) /\ Fits(j)'
  <2> SUFFICES ASSUME NEW j \in Jobs PROVE Calm(j) /\ Fits(j)'
    OBVIOUS
  <2>1. Fits(j)
    BY MayOwn
  <2>2. Calm(j)
    BY <1>2 DEF Forbid, Calm, Closed
  <2>3. Fits(j)'
    BY <1>2, <2>1 DEF Forbid, Fits, ForegroundOf, Sound, Punctual, Closed
  <2> QED BY <2>2, <2>3
<1> QED BY <1>5, <1>6, CalmStep DEF Rests, Forbid

\* Calls are allowed again.
LEMMA AllowStep ==
  ASSUME IInv, NEW c \in Conversations, Allow(c)
  PROVE  IInv'
<1>1. Typed
  BY DispatchTyped DEF IInv
<1>2. TypeOK'
  BY <1>1 DEF Allow, TypeOK, Typed
<1>3. \A j \in Jobs : Calm(j) /\ Fits(j)'
  BY MayOwn DEF Allow, Calm, Fits, ForegroundOf
<1> QED BY <1>2, <1>3, CalmStep DEF Rests, Allow

\* A dispatcher fails, dies or comes back.
LEMMA StoppedStep ==
  ASSUME IInv, NEW d \in Dispatchers, DispatcherFails(d) \/ Crash(d) \/ Restart(d)
  PROVE  IInv'
<1>1. Typed
  BY DispatchTyped DEF IInv
<1>2. /\ Slots(attempt') /\ \A a \in Attempts : Rests(a)
      /\ dispatcher' \in [Dispatchers -> {"scanning", "down", "failed"}]
  <2>1. CASE Restart(d)
    BY <1>1, <2>1 DEF Restart, Typed, Slots, Rests
  <2>2. CASE DispatcherFails(d) \/ Crash(d)
    BY <1>1, <2>2, Stopped DEF DispatcherFails, Crash
  <2> QED BY <2>1, <2>2
<1>3. crashes' \in 0 .. MaxCrashes
  BY <1>1, DispatchFacts DEF DispatcherFails, Crash, Restart, Typed
<1>4. UNCHANGED <<job, call, foreground, bar, provider, posts>>
  BY DEF DispatcherFails, Crash, Restart
<1>5. TypeOK'
  BY <1>1, <1>2, <1>3, <1>4 DEF TypeOK, Typed, Slots
<1>6. \A j \in Jobs : Calm(j) /\ Fits(j)'
  BY <1>4, MayOwn DEF Calm, Fits, ForegroundOf
<1> QED BY <1>2, <1>5, <1>6, CalmStep

\* A scan misses a late job or expires an unknown call.
LEMMA ScanStep ==
  ASSUME IInv, NEW d \in Dispatchers, NEW j \in Jobs,
         MissScheduled(d, j) \/ ExpireDispatchUnknown(d, j)
  PROVE  IInv'
<1>1. Typed /\ Fits(j) /\ job \in [Jobs -> JobStates] /\ call \in [Jobs -> CallStates]
  BY MayOwn DEF Typed
<1>2. Slots(attempt') /\ \A a \in Attempts : Rests(a)
  BY <1>1 DEF MissScheduled, ExpireDispatchUnknown, Typed, Slots, Rests
<1>3. CASE MissScheduled(d, j)
  <2>1. /\ job' \in [Jobs -> JobStates] /\ \A k \in Jobs : k = j \/ job'[k] = job[k]
        /\ job'[j].status = "missed"
    BY <1>1, <1>3 DEF MissScheduled, JobStates, Closed
  <2>2. call[j].status = "none" /\ Sound(job'[j], call[j], posts[j], provider[j])
    BY <1>1, <1>3, <2>1 DEF MissScheduled, Fits, Sound, Closed
  <2>3. Punctual(job'[j], call[j])
    BY <2>1, <2>2 DEF Punctual
  <2> QED BY <1>2, <1>3, <2>1, <2>2, <2>3, JobStep DEF MissScheduled
<1>4. CASE ExpireDispatchUnknown(d, j)
  <2>1. /\ job' \in [Jobs -> JobStates] /\ \A k \in Jobs : k = j \/ job'[k] = job[k]
        /\ job'[j].status = job[j].status
        /\ job'[j] = job[j] \/ job[j].status = "needs_attention"
    <3>1. "needs_attention" \in JobStatus
      BY DEF JobStatus
    <3>2. CASE job[j].status = "needs_attention"
      <4>1. job' = Unleased(j, "needs_attention")
        BY <1>4, <3>2 DEF ExpireDispatchUnknown
      <4> QED BY <1>1, <3>1, <3>2, <4>1, UnleasedRow
    <3>3. CASE job[j].status # "needs_attention"
      BY <1>1, <1>4, <3>3 DEF ExpireDispatchUnknown
    <3> QED BY <3>2, <3>3
  <2>2. /\ call' \in [Jobs -> CallStates] /\ \A k \in Jobs : k = j \/ call'[k] = call[k]
        /\ call'[j].status = "unresolved" /\ call'[j].started = call[j].started
        /\ call'[j].sid = call[j].sid /\ call[j].status = "dispatch_unknown"
    BY <1>1, <1>4 DEF ExpireDispatchUnknown, CallStates
  <2>3. /\ foreground' \in [Conversations -> ForegroundStates]
        /\ \A k \in Jobs : k = j \/ (ForegroundOf(k).call' = k <=> ForegroundOf(k).call = k)
        /\ ForegroundOf(j).call' # j
    BY <1>1, <1>4, ReleasedFront DEF ExpireDispatchUnknown, ForegroundOf
  <2>4. TypeOK'
    BY <1>1, <1>2, <1>4, <2>1, <2>2, <2>3 DEF ExpireDispatchUnknown, TypeOK, Typed, Slots
  <2>5. Only(j)
    BY <1>4, <2>1, <2>2, <2>3 DEF ExpireDispatchUnknown, Only
  <2>6. Calm(j)
    BY <1>4, <2>1, <2>2 DEF ExpireDispatchUnknown, Calm, Incompatible
  <2>7. Fits(j)'
    BY <1>1, <1>4, <2>1, <2>2, <2>3
       DEF ExpireDispatchUnknown, Fits, Sound, Punctual, Incompatible, Underway, Closed
  <2> QED BY <1>2, <2>4, <2>5, <2>6, <2>7, CalmJob
<1> QED BY <1>3, <1>4

\* Task a goes on with job j.
LEMMA TaskStep ==
  ASSUME IInv, TypeOK', NEW a \in Attempts, NEW j \in Jobs, Only(j), Fits(j)',
         \A b \in Attempts : b = a \/ attempt'[b] = attempt[b], attempt'[a].job = j,
         Careful(a)', LeaseOutlivesWindow => Prompt(a)',
         \A b \in Attempts : b # a /\ attempt[b].job = j /\ attempt[b].pc # "idle" =>
           /\ Careful(b)' /\ (LeaseOutlivesWindow => Prompt(b)')
           /\ attempt'[a].pc \in Sending => attempt[b].pc \notin Sending,
         call'[j].status \in Incompatible =>
           call[j].status \in Incompatible \/ \A k \in Others(j) : call[k].status \notin Incompatible
  PROVE  IInv'
<1>1. \A k \in Jobs : Fits(k)'
  <2>1. \A k \in Jobs : k = j \/ Fits(k)'
    BY DEF Only, Fits, IInv, ForegroundOf
  <2> QED BY <2>1
<1>2. \A b \in Attempts : attempt[b].pc # "idle" => attempt[b].job \in Jobs
  BY DispatchTyped, DispatchFacts DEF IInv, Typed, AttemptStates
<1>3. \A b \in Attempts : Careful(b)'
  <2> SUFFICES ASSUME NEW b \in Attempts, b # a, attempt[b].job # j \/ attempt[b].pc = "idle"
               PROVE  Careful(b)'
    OBVIOUS
  <2>1. Careful(b) /\ attempt'[b] = attempt[b]
    BY DEF IInv
  <2> QED BY <1>2, <2>1 DEF Careful, Only, Owns, Sending
<1>4. LeaseOutlivesWindow => \A b \in Attempts : Prompt(b)'
  <2> SUFFICES ASSUME LeaseOutlivesWindow, NEW b \in Attempts, b # a,
                      attempt[b].job # j \/ attempt[b].pc = "idle"
               PROVE  Prompt(b)'
    OBVIOUS
  <2>1. Prompt(b) /\ attempt'[b] = attempt[b]
    BY DEF IInv
  <2> QED BY <1>2, <2>1 DEF Prompt, Only, Owns
<1>5. \A b, c \in Attempts : Alone(b, c)'
  <2>1. \A b, c \in Attempts : Alone(b, c)
    BY DEF IInv
  <2> QED BY <2>1 DEF Alone, Sending
<1>6. \A k, l \in Jobs : Single(k, l)'
  <2>1. \A k, l \in Jobs : Single(k, l)
    BY DEF IInv
  <2> QED BY <2>1 DEF Single, Only, Others
<1> QED BY <1>1, <1>3, <1>4, <1>5, <1>6 DEF IInv, Fits

\* A job is leased to a new task.
LEMMA LeaseStep ==
  ASSUME IInv, NEW d \in Dispatchers, NEW a \in Attempts, NEW j \in Jobs,
         attempt[a].pc = "idle", Claimable(j), Lease(d, a, j),
         UNCHANGED <<bar, dispatcher, provider, posts, crashes>>
  PROVE  IInv'
<1>1. Typed /\ Fits(j) /\ job \in [Jobs -> JobStates] /\ call \in [Jobs -> CallStates]
  BY MayOwn DEF Typed
<1>2. /\ job' \in [Jobs -> JobStates] /\ \A k \in Jobs : k = j \/ job'[k] = job[k]
      /\ job'[j].status = "dispatching" /\ job'[j].lease = a
  BY <1>1 DEF Lease, JobStates
<1>3. job'[j].live = TRUE /\ job'[j].time = job[j].time
  BY <1>1 DEF Lease, JobStates
<1>4. /\ attempt' \in [Attempts -> AttemptStates]
      /\ \A b \in Attempts : b = a \/ attempt'[b] = attempt[b]
      /\ attempt'[a].pc = "claimed" /\ attempt'[a].job = j
  <2>1. attempt \in [Attempts -> AttemptStates]
    BY <1>1 DEF Typed
  <2> QED BY <2>1 DEF Lease, AttemptStates, Idle
<1>5. Slots(attempt')
  BY <1>1, <1>4, DispatchFacts DEF Slots, Typed
<1>6. TypeOK'
  BY <1>1, <1>2, <1>5 DEF Lease, TypeOK, Typed, Slots
<1>7. Only(j)
  BY <1>2 DEF Lease, Only, ForegroundOf
<1>8. Fits(j)'
  BY <1>1, <1>2, <1>3
     DEF Lease, Fits, ForegroundOf, Sound, Punctual, Claimable, Closed
<1>9. Careful(a)'
  BY <1>4 DEF Careful, Sending
<1>10. LeaseOutlivesWindow => Prompt(a)'
  BY <1>1, <1>3, <1>4 DEF Lease, Prompt, Fits, Sound, Punctual, Claimable
<1>11. ASSUME NEW b \in Attempts, b # a, attempt[b].job = j, attempt[b].pc # "idle"
       PROVE  Careful(b)' /\ Prompt(b)'
  <2>1. Careful(b) /\ attempt'[b] = attempt[b]
    BY <1>4, <1>11 DEF IInv
  <2> QED BY <1>2, <1>11, <2>1 DEF Lease, Careful, Prompt, Owns
<1>12. attempt'[a].pc \notin Sending
  BY <1>4 DEF Sending
<1>13. call'[j] = call[j]
  BY DEF Lease
<1> QED BY <1>4, <1>6, <1>7, <1>8, <1>9, <1>10, <1>11, <1>12, <1>13, TaskStep

\* claim_job leases the job or closes it.
LEMMA ClaimStep ==
  ASSUME IInv, NEW d \in Dispatchers, NEW a \in Attempts, NEW j \in Jobs, ClaimJob(d, a, j)
  PROVE  IInv'
<1>1. CASE Lease(d, a, j)
  BY <1>1, LeaseStep DEF ClaimJob
<1>2. CASE CloseUnstarted(j, ClosedBy(BarOf(j))) /\ UNCHANGED attempt
  <2>1. Typed /\ Fits(j)
    BY MayOwn
  <2>2. ClosedBy(BarOf(j)) \in Closed /\ call[j].status \in {"none", "created"}
    BY <2>1 DEF ClosedBy, Closed, ClaimJob, Claimable, Fits, Sound
  <2>3. Slots(attempt') /\ \A b \in Attempts : Rests(b)
    BY <1>2, <2>1 DEF Typed, Slots, Rests
  <2> QED BY <1>2, <2>2, <2>3, ClosedStep DEF ClaimJob
<1> QED BY <1>1, <1>2 DEF ClaimJob

\* miss_unstarted_dispatch_if_late.
LEMMA MissStep ==
  ASSUME IInv, NEW a \in Attempts, MissIfLate(a)
  PROVE  IInv'
<1>1. PICK j \in Jobs : j = attempt[a].job
  BY Running DEF MissIfLate
<1>2. /\ Typed /\ Fits(j) /\ attempt[a].pc = "claimed"
      /\ UNCHANGED <<bar, dispatcher, provider, posts, crashes>>
  BY <1>1, Running DEF MissIfLate
<1>6. Owns(a) => call[j].status \in {"none", "created"}
  BY <1>1, <1>2 DEF Owns, Fits, Sound
<1>3. CASE Finish(a) /\ UNCHANGED <<job, call, foreground>>
  <2>1. Slots(attempt') /\ \A b \in Attempts : Rests(b)
    BY <1>1, <1>2, <1>3, Resting
  <2>2. TypeOK'
    BY <1>1, <1>2, <1>3, <2>1 DEF TypeOK, Typed, Slots
  <2>3. \A k \in Jobs : Calm(k) /\ Fits(k)'
    BY <1>1, <1>2, <1>3, MayOwn DEF Calm, Fits, ForegroundOf
  <2> QED BY <2>1, <2>2, <2>3, CalmStep
<1>4. CASE Owns(a) /\ CloseUnstarted(j, "missed") /\ Finish(a)
  <2>1. Slots(attempt') /\ \A b \in Attempts : Rests(b)
    BY <1>1, <1>2, <1>4, Resting
  <2> QED BY <1>1, <1>2, <1>6, <1>4, <2>1, ClosedStep DEF Closed
<1>5. CASE /\ Owns(a) /\ job[j].time # "late" /\ Goto(a, "checked")
           /\ UNCHANGED <<job, call, foreground>>
  <2>1. /\ Slots(attempt') /\ \A b \in Attempts : b = a \/ attempt'[b] = attempt[b]
        /\ attempt'[a].pc = "checked" /\ attempt'[a].job = j
    BY <1>1, <1>2, <1>5, Gone DEF Steps
  <2>2. TypeOK'
    BY <1>1, <1>2, <1>5, <2>1 DEF TypeOK, Typed, Slots
  <2>3. Only(j) /\ Fits(j)'
    <3>1. Only(j)
      BY <1>1, <1>2, <1>5 DEF Only, ForegroundOf
    <3>2. Fits(j)'
      BY <1>1, <1>2, <1>5 DEF Fits, ForegroundOf
    <3> QED BY <3>1, <3>2
  <2>4. Careful(a)'
    BY <2>1 DEF Careful, Sending
  <2>5. LeaseOutlivesWindow => Prompt(a)'
    <3>1. LeaseOutlivesWindow => Prompt(a)
      BY DEF IInv
    <3> QED BY <1>1, <1>2, <1>6, <1>5, <2>1, <3>1 DEF Prompt, Owns
  <2>6. \A b \in Attempts : b # a => Careful(b)' /\ (LeaseOutlivesWindow => Prompt(b)')
    BY <1>1, <1>2, <1>5, <2>1 DEF IInv, Careful, Prompt, Owns
  <2>7. attempt'[a].pc \notin Sending
    BY <2>1 DEF Sending
  <2> QED BY <1>1, <1>2, <1>5, <2>1, <2>2, <2>3, <2>4, <2>5, <2>6, <2>7, TaskStep
<1> QED BY <1>1, <1>3, <1>4, <1>5 DEF MissIfLate

\* A task that finishes or raises, and changes nothing else.
LEMMA QuietStep ==
  ASSUME IInv, UNCHANGED <<job, call, foreground, bar, dispatcher, provider, posts, crashes>>,
         Slots(attempt'), \A b \in Attempts : Rests(b)
  PROVE  IInv'
<1>1. Typed
  BY DispatchTyped DEF IInv
<1>2. TypeOK'
  BY <1>1 DEF TypeOK, Typed, Slots
<1>3. \A j \in Jobs : Calm(j) /\ Fits(j)'
  BY MayOwn DEF Calm, Fits, ForegroundOf
<1> QED BY <1>2, <1>3, CalmStep

\* The policy check closes the job or lets it pass.
LEMMA DenyStep ==
  ASSUME IInv, NEW a \in Attempts, DenyByPolicy(a)
  PROVE  IInv'
<1>0. PICK j \in Jobs : j = attempt[a].job
  BY Running DEF DenyByPolicy
<1>1. /\ Typed /\ Fits(j) /\ attempt[a].pc = "checked" /\ job[j] \in JobStates
      /\ UNCHANGED <<call, foreground, bar, dispatcher, provider, posts, crashes>>
  BY <1>0, Running DEF DenyByPolicy, Typed
<1>2. Slots(attempt') /\ \A b \in Attempts : Rests(b)
  BY <1>1, Resting DEF DenyByPolicy
<1>3. CASE UNCHANGED job
  BY <1>0, <1>1, <1>2, <1>3, QuietStep
<1>4. ASSUME Owns(a), NEW s \in {"canceled", "needs_attention"}, job' = Unleased(j, s) PROVE IInv'
  <2>1. Sound([job[j] EXCEPT !.status = s], call[j], posts[j], provider[j])
    BY <1>0, <1>1, <1>4 DEF Owns, Fits, Sound, JobStates, Closed
  <2>2. s \in JobStatus \ {"dispatching"}
    BY DEF JobStatus, Closed
  <2>3. LeaseOutlivesWindow => call[j].status = "none"
    BY <1>0, <1>1, <1>4 DEF IInv, Prompt
  <2>4. /\ job' \in [Jobs -> JobStates] /\ \A k \in Jobs : k = j \/ job'[k] = job[k]
        /\ job'[j].status = s
    BY <1>0, <1>1, <1>4, <2>2, UnleasedJob
  <2>5. [job[j] EXCEPT !.status = s].status = s
    BY <1>0, <1>1 DEF JobStates
  <2>6. Sound(job'[j], call[j], posts[j], provider[j])
    BY <2>1, <2>4, <2>5 DEF Sound
  <2>7. LeaseOutlivesWindow => Punctual(job'[j], call[j])
    BY <2>3, <2>4 DEF Punctual
  <2> QED BY <1>0, <1>1, <1>2, <2>4, <2>6, <2>7, JobStep
<1> QED BY <1>0, <1>3, <1>4 DEF DenyByPolicy

\* A refused call is recorded as a conflict.
LEMMA ConflictStep ==
  ASSUME IInv, NEW a \in Attempts, RecordConflict(a)
  PROVE  IInv'
<1>0. PICK j \in Jobs : j = attempt[a].job
  BY Running DEF RecordConflict
<1>1. /\ Typed /\ Fits(j) /\ attempt[a].pc = "rejected" /\ job[j] \in JobStates
      /\ UNCHANGED <<call, foreground, bar, dispatcher, provider, posts, crashes>>
  BY <1>0, Running DEF RecordConflict, Typed
<1>2. Slots(attempt') /\ \A b \in Attempts : Rests(b)
  BY <1>1, Resting DEF RecordConflict
<1>3. CASE UNCHANGED job
  BY <1>0, <1>1, <1>2, <1>3, QuietStep
<1>4. CASE Owns(a) /\ job' = Unleased(j, "conflict")
  <2>1. call[j].status = "none"
    BY <1>0, <1>1, <1>4 DEF IInv, Careful
  <2>2. Sound([job[j] EXCEPT !.status = "conflict"], call[j], posts[j], provider[j])
    BY <1>0, <1>1, <1>4, <2>1 DEF Fits, Sound, JobStates, Closed
  <2>3. "conflict" \in JobStatus \ {"dispatching"}
    BY DEF JobStatus, Closed
  <2> QED BY <1>0, <1>1, <1>2, <1>4, <2>1, <2>2, <2>3, UnleasedStep
<1> QED BY <1>0, <1>3, <1>4 DEF RecordConflict

\* fail_unstarted_dispatch.
LEMMA FailStep ==
  ASSUME IInv, NEW a \in Attempts, FailUnstarted(a)
  PROVE  IInv'
<1>0. PICK j \in Jobs : j = attempt[a].job
  BY Running DEF FailUnstarted
<1>1. /\ Typed /\ Fits(j) /\ attempt[a].pc \in {"created", "renewed"}
      /\ call \in [Jobs -> CallStates]
      /\ UNCHANGED <<bar, dispatcher, provider, posts, crashes>>
  BY <1>0, Running DEF FailUnstarted, Typed
<1>2. Slots(attempt') /\ \A b \in Attempts : Rests(b)
  BY <1>1, Resting DEF FailUnstarted
<1>3. CASE UNCHANGED <<job, call, foreground>>
  BY <1>0, <1>1, <1>2, <1>3, QuietStep
<1>4. CASE /\ Owns(a) /\ call[j].status = "created"
           /\ call' = [call EXCEPT ![j].status = "failed"]
           /\ foreground' = Released(j) /\ job' = Unleased(j, "completed")
  <2>1. /\ job' \in [Jobs -> JobStates] /\ \A k \in Jobs : k = j \/ job'[k] = job[k]
        /\ job'[j].status = "completed"
    <3>1. "completed" \in JobStatus
      BY DEF JobStatus
    <3> QED BY <1>0, <1>1, <1>4, <3>1, UnleasedRow
  <2>2. /\ call' \in [Jobs -> CallStates] /\ \A k \in Jobs : k = j \/ call'[k] = call[k]
        /\ call'[j].status = "failed" /\ call'[j].started = call[j].started
        /\ call'[j].sid = call[j].sid
    BY <1>0, <1>1, <1>4 DEF CallStates, Ended
  <2>3. /\ foreground' \in [Conversations -> ForegroundStates]
        /\ \A k \in Jobs : k = j \/ (ForegroundOf(k).call' = k <=> ForegroundOf(k).call = k)
        /\ ForegroundOf(j).call' # j
    BY <1>0, <1>1, <1>4, ReleasedFront DEF ForegroundOf
  <2>4. TypeOK'
    BY <1>0, <1>1, <1>2, <2>1, <2>2, <2>3 DEF TypeOK, Typed, Slots
  <2>5. Only(j)
    BY <1>0, <1>1, <2>1, <2>2, <2>3 DEF Only
  <2>6. Calm(j)
    BY <1>0, <1>1, <1>4, <2>1, <2>2 DEF Calm, Incompatible
  <2>7. Fits(j)'
    BY <1>0, <1>1, <1>4, <2>1, <2>2, <2>3
       DEF Fits, Sound, Punctual, Incompatible, Underway, Closed, Ended
  <2> QED BY <1>0, <1>1, <1>2, <2>4, <2>5, <2>6, <2>7, CalmJob
<1> QED BY <1>0, <1>3, <1>4 DEF FailUnstarted

\* renew_foreground_lease.
LEMMA RenewStep ==
  ASSUME IInv, NEW a \in Attempts, RenewForeground(a)
  PROVE  IInv'
<1>1. /\ Typed /\ attempt[a].pc = "created" /\ attempt \in [Attempts -> AttemptStates]
      /\ UNCHANGED <<job, call, foreground, bar, dispatcher, provider, posts, crashes>>
  BY Running DEF RenewForeground, Typed
<1>2. Slots(attempt') /\ \A b \in Attempts : Rests(b)
  <2>1. CASE Finish(a)
    BY <1>1, <2>1, Resting
  <2>2. CASE ~Finish(a)
    <3> DEFINE j == attempt[a].job
               late == job[j].time = "late"
               leased == Owns(a) /\ job[j].live
    <3>1. attempt' = [attempt EXCEPT ![a].pc = "renewed", ![a].late = late, ![a].leased = leased]
      BY <2>2 DEF RenewForeground
    <3>2. late \in BOOLEAN /\ leased \in BOOLEAN
      OBVIOUS
    <3> HIDE DEF late, leased
    <3>3. attempt' \in [Attempts -> AttemptStates]
      <4>1. attempt[a] \in AttemptStates
        BY <1>1
      <4>2. [attempt[a] EXCEPT !.pc = "renewed", !.late = late, !.leased = leased] \in AttemptStates
        BY <3>2, <4>1 DEF AttemptStates
      <4>3. attempt'[a] = [attempt[a] EXCEPT !.pc = "renewed", !.late = late, !.leased = leased]
        BY <1>1, <3>1
      <4> QED BY <1>1, <3>1, <4>2, <4>3
    <3>4. /\ \A b \in Attempts : b = a \/ attempt'[b] = attempt[b]
          /\ attempt'[a].pc = "renewed" /\ attempt'[a].job = attempt[a].job
      BY <1>1, <3>1 DEF AttemptStates
    <3> QED BY <1>1, <3>3, <3>4 DEF Slots, Rests, Typed
  <2> QED BY <2>1, <2>2
<1> QED BY <1>1, <1>2, QuietStep

\* A call is created in the foreground that nobody has.
LEMMA CreatedStep ==
  ASSUME IInv, NEW a \in Attempts, NEW j \in Jobs, j = attempt[a].job, attempt[a].pc = "checked",
         Owns(a), call[j].status = "none", MayCall(j),
         call' = [call EXCEPT ![j].status = "created"], Foregrounded(a, j), Goto(a, "created"),
         UNCHANGED <<job, bar, dispatcher, provider, posts, crashes>>
  PROVE  IInv'
<1>1. Typed /\ Fits(j) /\ call \in [Jobs -> CallStates]
  BY MayOwn DEF Typed
<1>2. /\ Slots(attempt') /\ \A b \in Attempts : b = a \/ attempt'[b] = attempt[b]
      /\ attempt'[a].pc = "created" /\ attempt'[a].job = j
  BY <1>1, Gone DEF Steps
<1>3. /\ call' \in [Jobs -> CallStates] /\ \A k \in Jobs : k = j \/ call'[k] = call[k]
      /\ call'[j].status = "created" /\ call'[j].started = call[j].started
      /\ call'[j].sid = call[j].sid
  BY <1>1 DEF CallStates
<1>4. /\ foreground' \in [Conversations -> ForegroundStates]
      /\ \A k \in Jobs : k = j \/ (ForegroundOf(k).call' = k <=> ForegroundOf(k).call = k)
      /\ ForegroundOf(j).call' = j
  BY <1>1, FrontTaken DEF MayCall
<1>5. TypeOK'
  BY <1>1, <1>2, <1>3, <1>4 DEF TypeOK, Typed, Slots
<1>6. Only(j)
  BY <1>3, <1>4 DEF Only
<1>7. Fits(j)'
  BY <1>1, <1>3, <1>4
     DEF Fits, Sound, Punctual, Incompatible, Underway, Owns, Closed, Ended
<1>8. Careful(a)' /\ Prompt(a)'
  BY <1>2 DEF Careful, Prompt, Sending
<1>9. ASSUME NEW b \in Attempts, b # a, attempt[b].job = j, attempt[b].pc # "idle"
      PROVE  Careful(b)' /\ Prompt(b)'
  <2>1. Careful(b) /\ attempt'[b] = attempt[b] /\ job[j].lease = a
    BY <1>2, <1>9 DEF IInv, Owns
  <2>2. ~call[j].started
    BY <1>1 DEF Fits, Sound
  <2> QED BY <1>9, <2>1, <2>2 DEF Careful, Prompt, Owns, Sending
<1>10. attempt'[a].pc \notin Sending
  BY <1>2 DEF Sending
<1>11. \A k \in Others(j) : call[k].status \notin Incompatible
  BY DEF MayCall
<1> QED BY <1>2, <1>5, <1>6, <1>7, <1>8, <1>9, <1>10, <1>11, TaskStep

\* A task goes to "rejected" where its job has no call, or is not its own.
LEMMA RejectedStep ==
  ASSUME IInv, NEW a \in Attempts, NEW j \in Jobs, j = attempt[a].job, attempt[a].pc = "checked",
         call[j].status = "none", Goto(a, "rejected"),
         UNCHANGED <<job, call, foreground, bar, dispatcher, provider, posts, crashes>>
  PROVE  IInv'
<1>1. Typed /\ Fits(j)
  BY MayOwn
<1>2. /\ Slots(attempt') /\ \A b \in Attempts : b = a \/ attempt'[b] = attempt[b]
      /\ attempt'[a].pc = "rejected" /\ attempt'[a].job = j
  BY <1>1, Gone DEF Steps
<1>3. TypeOK'
  BY <1>1, <1>2 DEF TypeOK, Typed, Slots
<1>4. Only(j) /\ Fits(j)'
  <2>1. Only(j)
    BY DEF Only, ForegroundOf
  <2>2. Fits(j)'
    BY <1>1 DEF Fits, ForegroundOf
  <2> QED BY <2>1, <2>2
<1>5. Careful(a)' /\ Prompt(a)'
  BY <1>2 DEF Careful, Prompt, Sending
<1>6. \A b \in Attempts : b # a => Careful(b)' /\ (LeaseOutlivesWindow => Prompt(b)')
  BY <1>2 DEF IInv, Careful, Prompt, Owns
<1>7. attempt'[a].pc \notin Sending
  BY <1>2 DEF Sending
<1> QED BY <1>2, <1>3, <1>4, <1>5, <1>6, <1>7, TaskStep

\* The job of a task that is refused is closed.
LEMMA RefusedStep ==
  ASSUME IInv, NEW a \in Attempts, NEW j \in Jobs, j = attempt[a].job, attempt[a].pc = "checked",
         NEW s \in Closed, CloseUnstarted(j, s), call[j].status \in {"none", "created"},
         Goto(a, "rejected"), UNCHANGED <<bar, dispatcher, provider, posts, crashes>>
  PROVE  IInv'
<1>1. Typed /\ Fits(j) /\ call \in [Jobs -> CallStates]
  BY MayOwn DEF Typed
<1>2. /\ Slots(attempt') /\ \A b \in Attempts : b = a \/ attempt'[b] = attempt[b]
      /\ attempt'[a].pc = "rejected" /\ attempt'[a].job = j
  BY <1>1, Gone DEF Steps
<1>3. /\ job' \in [Jobs -> JobStates] /\ \A k \in Jobs : k = j \/ job'[k] = job[k]
      /\ job'[j].status = s
  <2>1. s \in JobStatus /\ job' = Unleased(j, s)
    BY DEF CloseUnstarted, JobStatus
  <2> QED BY <1>1, <2>1, UnleasedRow
<1>4. /\ call' \in [Jobs -> CallStates] /\ \A k \in Jobs : k = j \/ call'[k] = call[k]
      /\ call'[j].status = IF call[j].status = "created" THEN "canceled" ELSE call[j].status
      /\ call'[j].started = call[j].started /\ call'[j].sid = call[j].sid
  BY <1>1 DEF CloseUnstarted, CallStates, Ended
<1>5. /\ foreground' \in [Conversations -> ForegroundStates]
      /\ \A k \in Jobs : k = j \/ (ForegroundOf(k).call' = k <=> ForegroundOf(k).call = k)
      /\ ForegroundOf(j).call' # j
  BY <1>1, ReleasedFront DEF CloseUnstarted, ForegroundOf
<1>6. TypeOK'
  BY <1>1, <1>2, <1>3, <1>4, <1>5 DEF TypeOK, Typed, Slots
<1>7. Only(j)
  BY <1>3, <1>4, <1>5 DEF Only
<1>8. Fits(j)'
  BY <1>1, <1>3, <1>4, <1>5
     DEF Fits, Sound, Punctual, Closed, Incompatible, Underway, Ended
<1>9. job'[j].status # "dispatching"
  BY <1>3 DEF Closed
<1>10. Careful(a)' /\ Prompt(a)'
  BY <1>2, <1>9 DEF Careful, Prompt, Sending, Owns
<1>11. ASSUME NEW b \in Attempts, b # a, attempt[b].job = j, attempt[b].pc # "idle"
       PROVE  Careful(b)' /\ Prompt(b)'
  <2>1. Careful(b) /\ attempt'[b] = attempt[b] /\ ~call[j].started
    BY <1>1, <1>2, <1>11 DEF IInv, Fits, Sound
  <2> QED BY <1>9, <1>11, <2>1 DEF Careful, Prompt, Owns, Sending
<1>12. attempt'[a].pc \notin Sending
  BY <1>2 DEF Sending
<1>13. call'[j].status \in Incompatible => call[j].status \in Incompatible
  BY <1>4 DEF Incompatible
<1> QED BY <1>2, <1>6, <1>7, <1>8, <1>10, <1>11, <1>12, <1>13, TaskStep

\* A call that another task created is taken over.
LEMMA TakenOverStep ==
  ASSUME IInv, NEW a \in Attempts, NEW j \in Jobs, j = attempt[a].job, attempt[a].pc = "checked",
         ForegroundOf(j).call = j, Foregrounded(a, j), Goto(a, "created"),
         UNCHANGED <<job, call, bar, dispatcher, provider, posts, crashes>>
  PROVE  IInv'
<1>1. Typed /\ Fits(j)
  BY MayOwn
<1>2. Slots(attempt') /\ \A b \in Attempts : Rests(b)
  BY <1>1, Resting
<1>3. /\ foreground' \in [Conversations -> ForegroundStates]
      /\ \A k \in Jobs : k = j \/ (ForegroundOf(k).call' = k <=> ForegroundOf(k).call = k)
      /\ ForegroundOf(j).call' = j
  BY <1>1, FrontTaken
<1>4. TypeOK'
  BY <1>1, <1>2, <1>3 DEF TypeOK, Typed, Slots
<1>5. Only(j)
  BY <1>3 DEF Only
<1>6. Calm(j)
  BY DEF Calm
<1>7. Fits(j)'
  BY <1>1, <1>3 DEF Fits
<1> QED BY <1>2, <1>4, <1>5, <1>6, <1>7, CalmJob

\* create_call_from_job.
LEMMA CreateStep ==
  ASSUME IInv, NEW a \in Attempts, CreateCallFromJob(a)
  PROVE  IInv'
<1>0. PICK j \in Jobs : j = attempt[a].job
  BY Running DEF CreateCallFromJob
<1>1. /\ Typed /\ Fits(j) /\ attempt[a].pc = "checked"
      /\ UNCHANGED <<bar, dispatcher, provider, posts, crashes>>
  BY <1>0, Running DEF CreateCallFromJob
<1>2. Owns(a) => call[j].status \in {"none", "created"}
  BY <1>0, <1>1 DEF Owns, Fits, Sound
<1>3. CASE Finish(a) /\ UNCHANGED <<job, call, foreground>>
  BY <1>1, <1>3, Resting, QuietStep
<1>4. CASE /\ Owns(a) /\ CloseUnstarted(j, ClosedBy(BarOf(j))) /\ Goto(a, "rejected")
  <2>1. ClosedBy(BarOf(j)) \in Closed
    BY DEF ClosedBy, Closed
  <2> QED BY <1>0, <1>1, <1>2, <1>4, <2>1, RefusedStep
<1>5. CASE /\ ForegroundOf(j).call = j /\ Foregrounded(a, j) /\ Goto(a, "created")
           /\ UNCHANGED <<job, call>>
  BY <1>0, <1>1, <1>5, TakenOverStep
<1>6. CASE /\ Owns(a) /\ call[j].status = "none" /\ MayCall(j)
           /\ call' = [call EXCEPT ![j].status = "created"] /\ Foregrounded(a, j)
           /\ Goto(a, "created") /\ UNCHANGED job
  BY <1>0, <1>1, <1>6, CreatedStep
<1>7. CASE /\ call[j].status = "none" /\ Goto(a, "rejected")
           /\ UNCHANGED <<job, call, foreground>>
  BY <1>0, <1>1, <1>7, RejectedStep
<1> QED BY <1>0, <1>3, <1>4, <1>5, <1>6, <1>7 DEF CreateCallFromJob

\* The commit before the request.
LEMMA CrossedStep ==
  ASSUME IInv, NEW a \in Attempts, NEW j \in Jobs, j = attempt[a].job, attempt[a].pc = "renewed",
         MayStart(a),
         call' = [call EXCEPT ![j].status = "dispatch_unknown", ![j].started = TRUE],
         job' = [job EXCEPT ![j].status = "needs_attention"], Goto(a, "crossed"),
         UNCHANGED <<foreground, bar, dispatcher, provider, posts, crashes>>
  PROVE  IInv'
<1>1. /\ Typed /\ Fits(j) /\ job \in [Jobs -> JobStates] /\ call \in [Jobs -> CallStates]
      /\ call[j].status = "created" /\ ~call[j].started
  BY MayOwn DEF Typed, MayStart
<1>2. /\ Slots(attempt') /\ \A b \in Attempts : b = a \/ attempt'[b] = attempt[b]
      /\ attempt'[a].pc = "crossed" /\ attempt'[a].job = j
  BY <1>1, Gone DEF Steps
<1>3. /\ call' \in [Jobs -> CallStates] /\ \A k \in Jobs : k = j \/ call'[k] = call[k]
      /\ call'[j].status = "dispatch_unknown" /\ call'[j].started = TRUE
      /\ call'[j].sid = call[j].sid
  BY <1>1 DEF CallStates
<1>4. /\ job' \in [Jobs -> JobStates] /\ \A k \in Jobs : k = j \/ job'[k] = job[k]
      /\ job'[j].status = "needs_attention"
  BY <1>1 DEF JobStates
<1>5. TypeOK'
  BY <1>1, <1>2, <1>3, <1>4 DEF TypeOK, Typed, Slots
<1>6. Only(j)
  BY <1>3, <1>4 DEF Only, ForegroundOf
<1>7. Fits(j)'
  BY <1>1, <1>3, <1>4
     DEF Fits, Sound, Punctual, Incompatible, Underway, Closed, Ended, ForegroundOf
<1>8. posts[j] = 0
  BY <1>1 DEF Fits, Sound
<1>9. Careful(a)' /\ Prompt(a)'
  BY <1>2, <1>3, <1>8 DEF Careful, Prompt, Sending
<1>10. ASSUME NEW b \in Attempts, b # a, attempt[b].job = j, attempt[b].pc # "idle"
       PROVE  Careful(b)' /\ Prompt(b)' /\ attempt[b].pc \notin Sending
  <2>1. Careful(b) /\ attempt'[b] = attempt[b]
    BY <1>2, <1>10 DEF IInv
  <2> QED BY <1>1, <1>4, <1>10, <2>1 DEF Careful, Prompt, Owns, Sending
<1>11. call[j].status \in Incompatible
  BY <1>1 DEF Incompatible
<1> QED BY <1>2, <1>5, <1>6, <1>7, <1>9, <1>10, <1>11, TaskStep

\* mark_provider_request_started.
LEMMA StartStep ==
  ASSUME IInv, NEW a \in Attempts, MarkStarted(a)
  PROVE  IInv'
<1>0. PICK j \in Jobs : j = attempt[a].job
  BY Running DEF MarkStarted
<1>1. /\ Typed /\ Fits(j) /\ attempt[a].pc = "renewed"
      /\ UNCHANGED <<bar, dispatcher, provider, posts, crashes>>
  BY <1>0, Running DEF MarkStarted
<1>2. CASE Finish(a) /\ UNCHANGED <<job, call, foreground>>
  BY <1>1, <1>2, Resting, QuietStep
<1>3. CASE MayStart(a) /\ CloseUnstarted(j, "missed") /\ Finish(a)
  <2>1. call[j].status = "created"
    BY <1>0, <1>3 DEF MayStart
  <2> QED BY <1>1, <1>3, <2>1, Resting, ClosedStep DEF Closed
<1>4. CASE /\ MayStart(a)
           /\ call' = [call EXCEPT ![j].status = "dispatch_unknown", ![j].started = TRUE]
           /\ job' = [job EXCEPT ![j].status = "needs_attention"]
           /\ Goto(a, "crossed") /\ UNCHANGED foreground
  BY <1>0, <1>1, <1>4, CrossedStep
<1> QED BY <1>0, <1>2, <1>3, <1>4 DEF MarkStarted

\* The answer of the only request, or the decision not to send it.
LEMMA AnsweredStep ==
  ASSUME IInv, NEW a \in Attempts, NEW j \in Jobs, j = attempt[a].job, attempt[a].pc = "crossed",
         NEW r \in {"accepted", "refused", "unknown"}, NEW n \in {0, 1},
         NEW p \in {"none", "pending", "live"}, p # "none" => n = 1, r = "refused" => p = "none",
         attempt' = [attempt EXCEPT ![a].pc = "answered", ![a].answer = r],
         posts' = [posts EXCEPT ![j] = n], provider' = [provider EXCEPT ![j] = p],
         UNCHANGED <<job, call, foreground, bar, dispatcher, crashes>>
  PROVE  IInv'
<1>1. /\ Typed /\ Fits(j) /\ attempt \in [Attempts -> AttemptStates]
      /\ posts \in [Jobs -> Nat] /\ provider \in [Jobs -> {"none", "pending", "live", "ended"}]
  BY MayOwn DEF Typed
<1>2. attempt' \in [Attempts -> AttemptStates]
  <2>1. attempt[a] \in AttemptStates
    BY <1>1
  <2>2. [attempt[a] EXCEPT !.pc = "answered", !.answer = r] \in AttemptStates
    BY <2>1 DEF AttemptStates
  <2>3. attempt'[a] = [attempt[a] EXCEPT !.pc = "answered", !.answer = r]
    BY <1>1
  <2> QED BY <1>1, <2>2, <2>3
<1>3. /\ \A b \in Attempts : b = a \/ attempt'[b] = attempt[b]
      /\ attempt'[a].pc = "answered" /\ attempt'[a].job = j /\ attempt'[a].answer = r
  BY <1>1 DEF AttemptStates
<1>4. Slots(attempt')
  BY <1>1, <1>2, <1>3 DEF Slots, Typed
<1>5. TypeOK'
  BY <1>1, <1>4 DEF TypeOK, Typed, Slots
<1>6. Only(j) /\ posts'[j] = n /\ provider'[j] = p
  BY <1>1 DEF Only, ForegroundOf
<1>7. /\ call[j].started /\ call[j].status \in {"dispatch_unknown", "unresolved"}
      /\ \A b \in Attempts : attempt[b].pc \in Sending /\ attempt[b].job = j => b = a
  BY DEF IInv, Careful, Alone, Sending
<1>8. Fits(j)'
  BY <1>1, <1>6, <1>7 DEF Fits, Sound, Incompatible, Underway, ForegroundOf
<1>9. Careful(a)' /\ Prompt(a)'
  BY <1>3, <1>6, <1>7 DEF Careful, Prompt, Sending
<1>10. ASSUME NEW b \in Attempts, b # a, attempt[b].job = j, attempt[b].pc # "idle"
       PROVE  Careful(b)' /\ (LeaseOutlivesWindow => Prompt(b)') /\ attempt[b].pc \notin Sending
  <2>1. Careful(b) /\ attempt'[b] = attempt[b] /\ (LeaseOutlivesWindow => Prompt(b))
    BY <1>3, <1>10 DEF IInv
  <2> QED BY <1>7, <1>10, <2>1 DEF Careful, Prompt, Owns, Sending
<1>11. call[j].status \in Incompatible
  BY <1>7 DEF Incompatible
<1> QED BY <1>3, <1>5, <1>6, <1>8, <1>9, <1>10, <1>11, TaskStep

\* The request is sent, or given up.
LEMMA PostStep ==
  ASSUME IInv, NEW a \in Attempts, Post(a) \/ GiveUpRequest(a)
  PROVE  IInv'
<1>0. PICK j \in Jobs : j = attempt[a].job
  BY Running DEF Post, GiveUpRequest
<1>1. /\ Typed /\ Fits(j) /\ attempt[a].pc = "crossed"
      /\ UNCHANGED <<job, call, foreground, bar, dispatcher, crashes>>
      /\ posts \in [Jobs -> Nat] /\ provider \in [Jobs -> {"none", "pending", "live", "ended"}]
  BY <1>0, Running DEF Post, GiveUpRequest, Typed
<1>2. posts[j] = 0 /\ provider[j] = "none"
  BY <1>0, <1>1 DEF IInv, Careful, Fits, Sound
<1>3. CASE GiveUpRequest(a)
  <2>1. posts' = [posts EXCEPT ![j] = 0] /\ provider' = [provider EXCEPT ![j] = "none"]
    BY <1>1, <1>2, <1>3 DEF GiveUpRequest
  <2> QED BY <1>0, <1>1, <1>3, <2>1, AnsweredStep DEF GiveUpRequest
<1>4. CASE Post(a)
  <2>1. PICK r \in {"accepted", "refused", "unknown"} :
          /\ attempt' = [attempt EXCEPT ![a].pc = "answered", ![a].answer = r]
          /\ provider' = [provider EXCEPT ![j] = CASE r = "accepted" -> "live"
                                                   [] r = "unknown" -> "pending"
                                                   [] OTHER -> provider[j]]
    BY <1>0, <1>4 DEF Post
  <2>2. PICK p \in {"none", "pending", "live"} :
          (r = "refused" => p = "none") /\ provider' = [provider EXCEPT ![j] = p]
    BY <1>2, <2>1
  <2>3. posts' = [posts EXCEPT ![j] = 1]
    <3>1. posts' = [posts EXCEPT ![j] = posts[j] + 1]
      BY <1>0, <1>4 DEF Post
    <3>2. posts[j] + 1 = 1
      BY <1>2
    <3> QED BY <3>1, <3>2
  <2>4. p # "none" => 1 = 1
    OBVIOUS
  <2>5. 1 \in {0, 1}
    OBVIOUS
  <2>6. attempt' = [attempt EXCEPT ![a].pc = "answered", ![a].answer = r]
    BY <2>1
  <2> QED BY <1>0, <1>1, <2>2, <2>3, <2>4, <2>5, <2>6, AnsweredStep
<1> QED BY <1>3, <1>4

\* The answer is recorded by the task that still has the lease.
LEMMA RecordedStep ==
  ASSUME IInv, NEW a \in Attempts, NEW j \in Jobs, j = attempt[a].job, attempt[a].pc = "answered",
         OwnsDispatch(a), Finish(a),
         CASE attempt[a].answer = "accepted" -> Accepted(j)
           [] attempt[a].answer = "refused" -> Refused(j)
           [] OTHER -> Ambiguous(j),
         UNCHANGED <<bar, dispatcher, provider, posts, crashes>>
  PROVE  IInv'
<1>1. Typed /\ Fits(j) /\ call \in [Jobs -> CallStates]
  BY MayOwn DEF Typed
<1>2. Slots(attempt') /\ \A b \in Attempts : Rests(b)
  BY <1>1, Resting
<1>3. /\ call[j].started /\ job[j].status = "needs_attention"
      /\ call[j].status \in {"dispatch_unknown", "unresolved"}
  BY <1>1 DEF OwnsDispatch, Fits, Sound
<1>4. \A b \in Attempts : attempt[b].pc = "crossed" => attempt[b].job # j
  BY DEF IInv, Alone, Sending
<1>5. attempt[a].answer = "refused" => provider[j] = "none"
  BY DEF IInv, Careful
<1>6. PICK s \in {"completed", "needs_attention"} : job' = Unleased(j, s)
  BY DEF Accepted, Refused, Ambiguous
<1>7. /\ job' \in [Jobs -> JobStates] /\ \A k \in Jobs : k = j \/ job'[k] = job[k]
      /\ job'[j].status = s
  <2>1. s \in JobStatus
    BY DEF JobStatus
  <2> QED BY <1>1, <1>6, <2>1, UnleasedJob
<1>8. s = "needs_attention" =>
        attempt[a].answer \notin {"accepted", "refused"} /\ call[j].status = "dispatch_unknown"
  <2>1. job'[j].status = "completed" => s = "completed"
    BY <1>7
  <2>2. "completed" \in JobStatus
    BY DEF JobStatus
  <2>3. job' = Unleased(j, "completed") => job'[j].status = "completed"
    <3>1. Unleased(j, "completed")[j].status = "completed"
      BY <1>1, <2>2, UnleasedRow
    <3> QED BY <3>1
  <2> QED BY <1>3, <2>1, <2>3 DEF Accepted, Refused, Ambiguous
<1>9. CASE Accepted(j)
  <2>1. /\ call' \in [Jobs -> CallStates] /\ \A k \in Jobs : k = j \/ call'[k] = call[k]
        /\ call'[j].status = IF call[j].status = "dispatch_unknown" THEN "ringing" ELSE "unresolved"
        /\ call'[j].started = call[j].started
    <3>1. call' \in [Jobs -> CallStates] /\ \A k \in Jobs : k = j \/ call'[k] = call[k]
      <4>1. call[j] \in CallStates
        BY <1>1
      <4>2. call'[j] \in CallStates
        BY <1>1, <1>9, <4>1 DEF Accepted, CallStates
      <4> QED BY <1>1, <1>9, <4>2 DEF Accepted
    <3>2. call'[j].status = IF call[j].status = "dispatch_unknown" THEN "ringing" ELSE "unresolved"
      BY <1>1, <1>3, <1>9 DEF Accepted, CallStates
    <3>3. call'[j].started = call[j].started
      BY <1>1, <1>9 DEF Accepted, CallStates
    <3> QED BY <3>1, <3>2, <3>3
  <2>2. TypeOK' /\ Only(j)
    BY <1>1, <1>2, <1>7, <1>9, <2>1 DEF Accepted, TypeOK, Typed, Slots, Only, ForegroundOf
  <2>3. Calm(j)
    BY <1>3, <1>4, <1>6, <1>7, <2>1 DEF Calm, Incompatible
  <2>5. s = "completed"
    <3>1. job' = Unleased(j, "completed") /\ "completed" \in JobStatus
      BY <1>9 DEF Accepted, JobStatus
    <3> QED BY <1>1, <1>7, <3>1, UnleasedRow
  <2>4. Fits(j)'
    <3>1. call'[j].status \in {"ringing", "unresolved"} /\ job'[j].status = "completed"
          /\ posts' = posts /\ provider' = provider /\ foreground' = foreground
      BY <1>1, <1>7, <1>9, <2>1, <2>5 DEF Accepted
    <3>2. Sound(job'[j], call'[j], posts[j], provider[j])
      BY <1>1, <1>3, <2>1, <3>1 DEF Fits, Sound, Incompatible, Closed
    <3>3. call'[j].status \in Underway <=> ForegroundOf(j)'.call = j
      BY <1>1, <1>3, <2>1, <3>1 DEF Fits, Underway, Incompatible, ForegroundOf
    <3> QED BY <3>1, <3>2, <3>3 DEF Fits, Punctual, Closed
  <2> QED BY <1>2, <2>2, <2>3, <2>4, CalmJob
<1>10. CASE Refused(j) /\ provider[j] = "none"
  <2>1. /\ call' \in [Jobs -> CallStates] /\ \A k \in Jobs : k = j \/ call'[k] = call[k]
        /\ call'[j].status = IF call[j].status = "dispatch_unknown" THEN "failed" ELSE "unresolved"
        /\ call'[j].started = call[j].started /\ call'[j].sid = call[j].sid
    <3>1. call' \in [Jobs -> CallStates] /\ \A k \in Jobs : k = j \/ call'[k] = call[k]
      BY <1>1, <1>10 DEF Refused, CallStates, Ended
    <3>2. call'[j].status = IF call[j].status = "dispatch_unknown" THEN "failed" ELSE "unresolved"
      BY <1>1, <1>3, <1>10 DEF Refused, CallStates
    <3>3. call'[j].started = call[j].started /\ call'[j].sid = call[j].sid
      BY <1>1, <1>10 DEF Refused, CallStates
    <3> QED BY <3>1, <3>2, <3>3
  <2>2. /\ foreground' \in [Conversations -> ForegroundStates]
        /\ \A k \in Jobs : k = j \/ (ForegroundOf(k).call' = k <=> ForegroundOf(k).call = k)
        /\ ForegroundOf(j).call' # j
    BY <1>1, <1>10, ReleasedFront DEF Refused, ForegroundOf
  <2>3. TypeOK' /\ Only(j)
    BY <1>1, <1>2, <1>7, <2>1, <2>2 DEF TypeOK, Typed, Slots, Only
  <2>4. Calm(j)
    BY <1>3, <1>4, <1>6, <1>7, <2>1 DEF Calm, Incompatible
  <2>5. s = "completed"
    <3>1. job' = Unleased(j, "completed") /\ "completed" \in JobStatus
      BY <1>10 DEF Refused, JobStatus
    <3> QED BY <1>1, <1>7, <3>1, UnleasedRow
  <2>6. Fits(j)'
    BY <1>1, <1>3, <1>7, <1>10, <2>1, <2>2, <2>5
       DEF Fits, Sound, Punctual, Incompatible, Underway, Closed, Ended
  <2> QED BY <1>2, <2>3, <2>4, <2>6, CalmJob
<1>11. CASE Ambiguous(j)
  <2>1. /\ call' \in [Jobs -> CallStates] /\ \A k \in Jobs : k = j \/ call'[k] = call[k]
        /\ call'[j].status = call[j].status
        /\ call'[j].started = call[j].started /\ call'[j].sid = call[j].sid
    <3>1. CASE UNCHANGED call
      BY <1>1, <3>1
    <3>2. CASE call' = [call EXCEPT ![j].status = "dispatch_unknown", ![j].overdue = FALSE]
               /\ call[j].status = "dispatch_unknown"
      <4>1. call' \in [Jobs -> CallStates] /\ \A k \in Jobs : k = j \/ call'[k] = call[k]
        BY <1>1, <3>2 DEF CallStates
      <4>2. call'[j].status = "dispatch_unknown"
        BY <1>1, <3>2 DEF CallStates
      <4>3. call'[j].started = call[j].started /\ call'[j].sid = call[j].sid
        BY <1>1, <3>2 DEF CallStates
      <4> QED BY <3>2, <4>1, <4>2, <4>3
    <3> QED BY <1>3, <1>11, <3>1, <3>2 DEF Ambiguous
  <2>2. TypeOK' /\ Only(j)
    BY <1>1, <1>2, <1>7, <1>11, <2>1 DEF Ambiguous, TypeOK, Typed, Slots, Only, ForegroundOf
  <2>3. Calm(j)
    BY <1>3, <1>4, <1>6, <1>7, <2>1 DEF Calm, Incompatible
  <2>5. s = IF call[j].status = "dispatch_unknown" THEN "needs_attention" ELSE "completed"
    <3>1. "completed" \in JobStatus /\ "needs_attention" \in JobStatus
      BY DEF JobStatus
    <3> QED BY <1>1, <1>3, <1>7, <1>11, <3>1, UnleasedRow DEF Ambiguous
  <2>4. Fits(j)'
    BY <1>1, <1>3, <1>7, <1>11, <2>1, <2>5
       DEF Ambiguous, Fits, Sound, Punctual, Incompatible, Underway, Closed, Ended, ForegroundOf
  <2> QED BY <1>2, <2>2, <2>3, <2>4, CalmJob
<1> QED BY <1>5, <1>9, <1>10, <1>11

\* The outcome is recorded, found settled or raised on.
LEMMA OutcomeStep ==
  ASSUME IInv, NEW a \in Attempts, RecordOutcome(a)
  PROVE  IInv'
<1>0. PICK j \in Jobs : j = attempt[a].job
  BY Running DEF RecordOutcome
<1>1. Typed /\ attempt[a].pc = "answered"
  BY Running DEF RecordOutcome
<1>2. CASE OwnsDispatch(a)
  BY <1>0, <1>1, <1>2, RecordedStep DEF RecordOutcome
<1>3. CASE ~OwnsDispatch(a)
  BY <1>0, <1>1, <1>3, Resting, QuietStep DEF RecordOutcome
<1> QED BY <1>2, <1>3

\* The provider decides about a request, or a call ends.
LEMMA ProviderStep ==
  ASSUME IInv, NEW j \in Jobs, ProviderDecides(j) \/ ProviderEnds(j)
  PROVE  IInv'
<1>1. /\ Typed /\ Fits(j)
      /\ UNCHANGED <<job, call, foreground, bar, attempt, dispatcher, posts, crashes>>
  BY MayOwn DEF ProviderDecides, ProviderEnds
<1>2. PICK p \in {"none", "live", "ended"} :
        /\ provider' = [provider EXCEPT ![j] = p] /\ provider[j] # "none"
        /\ p = "live" => provider[j] \in {"pending", "live"}
  BY DEF ProviderDecides, ProviderEnds
<1>3. provider \in [Jobs -> {"none", "pending", "live", "ended"}]
  BY <1>1 DEF Typed
<1>4. TypeOK' /\ provider'[j] = p /\ \A k \in Jobs : k = j \/ provider'[k] = provider[k]
  BY <1>1, <1>2, <1>3 DEF TypeOK, Typed
<1>5. Only(j) /\ Calm(j) /\ \A a \in Attempts : Rests(a)
  BY <1>1, <1>2, <1>4 DEF Only, Calm, Rests, ForegroundOf
<1>6. Fits(j)'
  BY <1>1, <1>2, <1>4 DEF Fits, Sound, ForegroundOf
<1> QED BY <1>4, <1>5, <1>6, CalmJob

\* The job of a call that exists at the provider.
LEMMA ReconciledRow ==
  ASSUME IInv, NEW j \in Jobs, provider[j] \in {"live", "ended"}, CompleteReconciledJob(j)
  PROVE  /\ job' \in [Jobs -> JobStates] /\ \A k \in Jobs : k = j \/ job'[k] = job[k]
         /\ job[j].status \in {"needs_attention", "completed"} /\ job'[j].status = "completed"
         /\ posts[j] = 1 /\ call[j].started /\ call[j].status \notin {"none", "created"}
<1>1. Typed /\ Fits(j) /\ job \in [Jobs -> JobStates] /\ "completed" \in JobStatus
  BY MayOwn DEF Typed, JobStatus
<1>2. posts[j] = 1 /\ call[j].started /\ call[j].status \notin {"none", "created"}
  BY <1>1 DEF Fits, Sound
<1>3. job[j].status \in {"needs_attention", "completed"}
  BY <1>1, <1>2 DEF Fits, Sound, JobStates
<1>4. CASE job[j].status = "needs_attention"
  <2>1. job' = Unleased(j, "completed")
    BY <1>4 DEF CompleteReconciledJob
  <2> QED BY <1>1, <1>2, <1>3, <2>1, UnleasedJob
<1>5. CASE job[j].status = "completed"
  BY <1>1, <1>2, <1>5 DEF CompleteReconciledJob
<1> QED BY <1>3, <1>4, <1>5

\* record_call_status.
LEMMA CallbackStep ==
  ASSUME IInv, NEW j \in Jobs, NEW t \in {"ringing", "in_progress", "completed"},
         CallStatusCallback(j, t)
  PROVE  IInv'
<1>1. /\ Typed /\ Fits(j) /\ call \in [Jobs -> CallStates] /\ provider[j] \in {"live", "ended"}
      /\ t = "completed" => provider[j] = "ended"
      /\ CompleteReconciledJob(j)
      /\ UNCHANGED <<bar, attempt, dispatcher, provider, posts, crashes>>
  BY MayOwn DEF CallStatusCallback, Typed, Ended
<1>2. /\ job' \in [Jobs -> JobStates] /\ \A k \in Jobs : k = j \/ job'[k] = job[k]
      /\ job[j].status \in {"needs_attention", "completed"} /\ job'[j].status = "completed"
      /\ posts[j] = 1 /\ call[j].started /\ call[j].status \notin {"none", "created"}
  BY <1>1, ReconciledRow
<1>3. Slots(attempt') /\ \A b \in Attempts : Rests(b)
  BY <1>1 DEF Slots, Rests, Typed
<1>4. PICK s \in {t, call[j].status} :
        /\ call' = [call EXCEPT ![j].sid = TRUE, ![j].status = s]
        /\ s # t => t = "ringing" /\ s = "in_progress"
        /\ s = t => call[j].status \in Underway \/ call[j].status = t
        /\ foreground' = IF s = t /\ call[j].status # t /\ t = "completed" THEN Released(j)
                         ELSE foreground
  <2>1. call[j].status \in CallStatus
    BY <1>1 DEF CallStates, CallStatus
  <2>2. CASE Transition(call[j].status, t) = "apply"
    <3>1. call[j].status # t /\ call[j].status \notin Ended \cup {"unresolved"}
      BY <2>2 DEF Transition
    <3>2. call[j].status \in Underway
      BY <1>2, <2>1, <3>1 DEF CallStatus, Underway, Incompatible
    <3>3. t \in Ended <=> t = "completed"
      BY DEF Ended
    <3> QED BY <2>2, <3>1, <3>2, <3>3 DEF CallStatusCallback
  <2>3. CASE Transition(call[j].status, t) = "noop"
    <3>1. call[j].status = t \/ (call[j].status = "in_progress" /\ t = "ringing")
      BY <2>3 DEF Transition
    <3>2. /\ call' = [call EXCEPT ![j].sid = TRUE, ![j].status = call[j].status]
          /\ foreground' = foreground
      BY <2>3 DEF CallStatusCallback
    <3> QED BY <3>1, <3>2
  <2> QED BY <2>2, <2>3 DEF CallStatusCallback, Transition
<1>5. /\ call' \in [Jobs -> CallStates] /\ \A k \in Jobs : k = j \/ call'[k] = call[k]
      /\ call'[j].status = s /\ call'[j].started = call[j].started
      /\ s \in {"ringing", "in_progress", "completed"}
  BY <1>1, <1>4 DEF CallStates, Ended
<1>6. /\ foreground' \in [Conversations -> ForegroundStates]
      /\ \A k \in Jobs : k = j \/ (ForegroundOf(k).call' = k <=> ForegroundOf(k).call = k)
      /\ foreground' = Released(j) => ForegroundOf(j).call' # j
  <2>1. foreground \in [Conversations -> ForegroundStates]
    BY <1>1 DEF Typed
  <2> QED BY <1>1, <1>4, <2>1, ReleasedFront DEF ForegroundOf
<1>7. s \in Underway <=> ForegroundOf(j).call' = j
  <2>1. CASE s # t \/ call[j].status = t
    BY <1>1, <1>4, <2>1 DEF Fits, ForegroundOf
  <2>2. CASE s = t /\ call[j].status # t /\ t = "completed"
    BY <1>4, <1>6, <2>2 DEF Underway, Incompatible
  <2>3. CASE s = t /\ call[j].status # t /\ t # "completed"
    <3>1. ForegroundOf(j).call = j
      BY <1>1, <1>4, <2>3 DEF Fits
    <3> QED BY <1>4, <2>3, <3>1 DEF Underway, Incompatible, ForegroundOf
  <2> QED BY <2>1, <2>2, <2>3
<1>8. TypeOK' /\ Only(j)
  BY <1>1, <1>2, <1>3, <1>5, <1>6 DEF TypeOK, Typed, Slots, Only
<1>9. Calm(j)
  BY <1>1, <1>2, <1>4, <1>5 DEF Calm, Incompatible, Underway
<1>10. Fits(j)'
  <2>1. provider[j] \in {"pending", "live"} => call[j].status \in Incompatible
    BY <1>1 DEF Fits, Sound
  <2>2. provider[j] \in {"pending", "live"} => s \in Incompatible
    BY <1>1, <1>4, <1>5, <2>1 DEF Incompatible
  <2>3. Sound(job[j], call[j], posts[j], provider[j])'
    BY <1>1, <1>2, <1>5, <2>2 DEF Sound, Closed, Ended
  <2>4. Punctual(job[j], call[j])'
    BY <1>2 DEF Punctual, Closed
  <2> QED BY <1>5, <1>7, <2>3, <2>4 DEF Fits
<1> QED BY <1>3, <1>8, <1>9, <1>10, CalmJob

\* reconcile_outbound_twiml.
LEMMA TwimlStep ==
  ASSUME IInv, NEW j \in Jobs, OutboundTwiml(j)
  PROVE  IInv'
<1>1. /\ Typed /\ Fits(j) /\ call \in [Jobs -> CallStates] /\ provider[j] \in {"live", "ended"}
      /\ CompleteReconciledJob(j)
      /\ UNCHANGED <<foreground, bar, attempt, dispatcher, provider, posts, crashes>>
  BY MayOwn DEF OutboundTwiml, Typed
<1>2. /\ job' \in [Jobs -> JobStates] /\ \A k \in Jobs : k = j \/ job'[k] = job[k]
      /\ job[j].status \in {"needs_attention", "completed"} /\ job'[j].status = "completed"
      /\ posts[j] = 1 /\ call[j].started /\ call[j].status \notin {"none", "created"}
  BY <1>1, ReconciledRow
<1>3. Slots(attempt') /\ \A b \in Attempts : Rests(b)
  BY <1>1 DEF Slots, Rests, Typed
<1>4. /\ call' \in [Jobs -> CallStates] /\ \A k \in Jobs : k = j \/ call'[k] = call[k]
      /\ call'[j].status = IF call[j].status = "dispatch_unknown" THEN "ringing" ELSE call[j].status
      /\ call'[j].started = call[j].started
  <2>1. CASE call[j].sid
    <3>1. call[j].status # "dispatch_unknown"
      BY <1>1, <2>1 DEF Fits, Sound
    <3> QED BY <1>1, <2>1, <3>1 DEF OutboundTwiml
  <2>2. CASE ~call[j].sid
    <3>1. call'[j] \in CallStates
      <4>1. call[j] \in CallStates
        BY <1>1
      <4> QED BY <1>1, <2>2, <4>1 DEF OutboundTwiml, CallStates
    <3>2. call' \in [Jobs -> CallStates] /\ \A k \in Jobs : k = j \/ call'[k] = call[k]
      BY <1>1, <2>2, <3>1 DEF OutboundTwiml
    <3>3. call'[j].status = IF call[j].status = "dispatch_unknown" THEN "ringing" ELSE call[j].status
      BY <1>1, <1>2, <2>2 DEF OutboundTwiml, CallStates
    <3>4. call'[j].started = call[j].started
      BY <1>1, <2>2 DEF OutboundTwiml, CallStates
    <3> QED BY <3>2, <3>3, <3>4
  <2> QED BY <2>1, <2>2
<1>5. TypeOK' /\ Only(j)
  BY <1>1, <1>2, <1>3, <1>4 DEF TypeOK, Typed, Slots, Only, ForegroundOf
<1>6. Calm(j)
  BY <1>1, <1>2, <1>4 DEF Calm, Incompatible
<1>7. Fits(j)'
  <2>1. call'[j].status \in Underway <=> call[j].status \in Underway
    BY <1>4 DEF Underway, Incompatible
  <2>2. Sound(job[j], call[j], posts[j], provider[j])'
    BY <1>1, <1>2, <1>4 DEF Fits, Sound, Closed, Ended, Incompatible, CallStates
  <2>3. Punctual(job[j], call[j])'
    BY <1>2 DEF Punctual, Closed
  <2> QED BY <1>1, <2>1, <2>2, <2>3 DEF Fits, ForegroundOf
<1> QED BY <1>3, <1>5, <1>6, <1>7, CalmJob

----------------------------------------------------------------------------
(* The theorems *)

\* Nothing has been asked for: no job, call, foreground or task is in use.
LEMMA DispatchInit == Init => IInv
<1> SUFFICES ASSUME Init PROVE IInv
  OBVIOUS
<1>1. /\ NewJob \in JobStates /\ NoCall \in CallStates /\ Free \in ForegroundStates
      /\ Idle \in AttemptStates
  BY DEF NewJob, NoCall, Free, Idle, JobStates, CallStates, ForegroundStates, AttemptStates
<1>2. \A a \in Attempts : attempt[a] = Idle
  BY DEF Init
<1>3. Idle.pc = "idle" /\ Idle.job = NULL
  BY DEF Idle
<1>4. TypeOK
  BY <1>1, <1>2, <1>3, DispatchFacts DEF Init, TypeOK
<1>5. \A j \in Jobs :
        /\ job[j].status = "none" /\ call[j].status = "none" /\ ~call[j].started /\ ~call[j].sid
        /\ posts[j] = 0 /\ provider[j] = "none"
  BY DEF Init, NewJob, NoCall
<1>6. \A j \in Jobs : Sound(job[j], call[j], posts[j], provider[j]) /\ Punctual(job[j], call[j])
  BY <1>5 DEF Sound, Punctual, Closed
<1>7. \A j \in Jobs : call[j].status \in Underway <=> ForegroundOf(j).call = j
  <2>1. \A j \in Jobs : ForegroundOf(j).call = NULL
    BY DispatchFacts DEF Init, ForegroundOf, Free
  <2> QED BY <1>5, <2>1, DispatchFacts DEF Underway, Incompatible
<1>8. \A a \in Attempts : Careful(a) /\ Prompt(a)
  BY <1>2, <1>3 DEF Careful, Prompt, Sending
<1>9. \A a, b \in Attempts : Alone(a, b)
  BY <1>2, <1>3 DEF Alone, Sending
<1>10. \A j, k \in Jobs : Single(j, k)
  BY <1>5 DEF Single, Incompatible
<1> QED BY <1>4, <1>6, <1>7, <1>8, <1>9, <1>10 DEF IInv

\* Every step keeps what the rows, the tasks and the provider have to do with
\* each other.
LEMMA DispatchNext ==
  ASSUME IInv, [Next]_vars
  PROVE  IInv'
<1>1. CASE UNCHANGED vars
  <2>1. Slots(attempt') /\ \A a \in Attempts : Rests(a)
    BY <1>1, DispatchTyped DEF vars, IInv, Typed, Slots, Rests
  <2> QED BY <1>1, <2>1, QuietStep DEF vars
<1>2. ASSUME NEW j \in Jobs, Owner(j) \/ Provider(j) PROVE IInv'
  BY <1>2, OwnerStep, ProviderStep, TwimlStep, CallbackStep DEF Provider
<1>3. ASSUME NEW c \in Conversations, Allow(c) \/ \E b \in Bars : Forbid(c, b) PROVE IInv'
  BY <1>3, AllowStep, ForbidStep
<1>4. CASE Clock
  BY <1>4, TimeStep, DeadlineStep, LeaseLostStep DEF Clock
<1>5. ASSUME NEW d \in Dispatchers, Scan(d) PROVE IInv'
  BY <1>5, ScanStep, ClaimStep DEF Scan
<1>6. ASSUME NEW d \in Dispatchers, DispatcherFails(d) \/ Crash(d) \/ Restart(d) PROVE IInv'
  BY <1>6, StoppedStep
<1>7. ASSUME NEW a \in Attempts, Dispatch(a) PROVE IInv'
  BY <1>7, MissStep, DenyStep, CreateStep, ConflictStep, FailStep, RenewStep, StartStep, PostStep,
     OutcomeStep DEF Dispatch
<1> QED BY <1>1, <1>2, <1>3, <1>4, <1>5, <1>6, <1>7 DEF Next

\* Whatever dispatchers, tasks, the owner, administration, the provider's
\* callbacks and the clock do, and whichever process dies between two
\* transactions, the rows of a job agree with each other, with the task that
\* works on it and with what the provider was asked.
THEOREM DispatchInvariant == Spec => []IInv
<1>1. IInv /\ [Next]_vars => IInv'
  BY DispatchNext
<1> QED BY <1>1, DispatchInit, PTL DEF Spec

\* Every column of the job, call and foreground tables, every task and every
\* process keeps its type, and an idle task has no job.
THEOREM DispatchTypes == Spec => []TypeOK
<1>1. IInv => TypeOK
  BY DEF IInv
<1> QED BY <1>1, DispatchInvariant, PTL

\* The provider is asked at most once for a job: mark_provider_request_started
\* commits before the request, and nothing leads another task, of the same or
\* another dispatcher, to that commit again.
THEOREM DispatchPostsOnce == Spec => []OnePost
<1>1. IInv => OnePost
  BY DEF IInv, Sound, OnePost
<1> QED BY <1>1, DispatchInvariant, PTL

\* A conversation has at most one call at the provider, an unanswered request
\* included: the unique index on open calls (create_call_from_job) keeps a
\* second call from being created until the first is settled.
THEOREM DispatchOneLiveCall == Spec => []OneLiveCall
<1>1. IInv => OneLiveCall
  BY DEF IInv, Sound, Single, OneLiveCall
<1> QED BY <1>1, DispatchInvariant, PTL

\* The foreground row of a conversation names exactly the call in progress
\* there: every transaction that ends a call, from fail_unstarted_dispatch to
\* the signed callbacks, releases its foreground, and none releases another's.
THEOREM DispatchForeground == Spec => []ForegroundMatchesCalls
<1>1. IInv => ForegroundMatchesCalls
  BY DEF IInv, Underway, ForegroundMatchesCalls
<1> QED BY <1>1, DispatchInvariant, PTL

\* A job's status and its call's agree, and a job that was canceled, missed or
\* in conflict never reached the provider nor leaves a created call behind.
\* The hypothesis is the runtime's: its lease outlives the dispatch window.
\* Without that a task that takes over an abandoned job in its
\* window can be denied by policy after its call was created.
THEOREM DispatchJobMatchesCall ==
  ASSUME LeaseOutlivesWindow
  PROVE  Spec => []JobMatchesCall
<1>1. IInv => JobMatchesCall
  <2> SUFFICES ASSUME IInv, NEW j \in Jobs
               PROVE  LET js == job[j].status
                          cs == call[j].status IN
                      /\ js \in {"none", "scheduled"} => cs = "none"
                      /\ js = "dispatching" => cs \in {"none", "created"} /\ ~call[j].started
                      /\ js = "needs_attention" =>
                           cs \in {"none", "created", "dispatch_unknown", "unresolved"}
                      /\ js = "completed" => cs \in {"ringing", "in_progress", "unresolved"} \cup Ended
                      /\ js \in Closed =>
                           /\ posts[j] = 0 /\ ~call[j].started /\ cs # "created"
                           /\ \A a \in Attempts : attempt[a].pc = "crossed" => attempt[a].job # j
    BY DEF JobMatchesCall
  <2>1. Sound(job[j], call[j], posts[j], provider[j]) /\ Punctual(job[j], call[j])
    BY DEF IInv
  <2>2. \A a \in Attempts : attempt[a].pc = "crossed" => call[attempt[a].job].started
    BY DEF IInv, Careful, Sending
  <2> QED BY <2>1, <2>2 DEF Sound, Punctual
<1> QED BY <1>1, DispatchInvariant, PTL
====
