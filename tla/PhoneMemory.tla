---- MODULE PhoneMemory ----
(***************************************************************************)
(* What a conversation's memory provider knows of its telephone calls:     *)
(* src/integrations/telephony/memory_outbox.py hands every sentence of a   *)
(* caller to the provider, src/integrations/telephony/purge.py takes the   *)
(* sentences of a deleted call out again, and the operation leases of      *)
(* src/integrations/telephony/purge_state.py keep the two apart.           *)
(*                                                                         *)
(* The provider can only forget a whole conversation, so a purge fences    *)
(* the conversation's memory, waits until nobody is writing to it, has the *)
(* provider forget everything and replays the messages that survive.       *)
(* Outbox workers and the purge worker are different tasks, on different   *)
(* machines perhaps, and share nothing but the database: every action is   *)
(* one transaction or one request to the provider.                         *)
(*                                                                         *)
(* One conversation, whose owner lets it be remembered.  Deadlines are     *)
(* read only in transactions that act on them: there it is left open which *)
(* of the leases that may have expired have.  A request that was sent and  *)
(* not answered may still reach the provider; an operator's retry is taken *)
(* to come later than that.                                                *)
(***************************************************************************)
EXTENDS Naturals

CONSTANTS
  Calls,        \* telephone calls of the conversation
  Messages,     \* sentences callers say
  CallOf,       \* CallOf[m]: the call in which m is said
  Ending,       \* bound: the calls that end and may be deleted
  Workers,      \* outbox workers, one per process
  Providers,    \* the memory providers an administrator may select
  MaxAttempts,  \* attempts to deliver a message; 5 in the code
  MaxCrashes,   \* bound: how often processes die
  NULL

ASSUME MemoryCalls == CallOf \in [Messages -> Calls] /\ Ending \subseteq Calls
ASSUME MemoryProviders == Providers \subseteq {"atagia", "mem0"}
ASSUME MemoryBounds == MaxAttempts \in Nat \ {0} /\ MaxCrashes \in Nat
ASSUME MemoryNull == NULL \notin Calls \cup Messages \cup Providers

VARIABLES
  call,     \* PHONE_CALLS.status: is the call still live
  message,  \* MESSAGES: not yet said, kept, or deleted again
  outbox,   \* PHONE_MEMORY_OUTBOX
  leases,   \* PHONE_MEMORY_OPERATION_LEASES
  links,    \* MEMORY_PROVIDER_MESSAGE_LINKS: <<message, provider>>
  talks,    \* MEMORY_PROVIDER_CONVERSATION_LINKS: providers
  memory,   \* PHONE_CONVERSATION_DATA_REVISIONS
  job,      \* PHONE_DATA_PURGE_JOBS
  worker,   \* the outbox workers
  purger,   \* the purge worker that has the runtime lease
  held,     \* what the providers remember: <<message, provider>>
  flight,   \* requests nobody waits for that may still be carried out
  asked,    \* history: how often mem0 was asked to remember a message
  crashes   \* how often a process has died

rows == <<call, message, outbox, leases, links, talks, memory, job>>
vars == <<rows, worker, purger, held, flight, asked, crashes>>

----------------------------------------------------------------------------
(* States *)

Pairs == Messages \X Providers

\* lease_token is a fresh random value per claim; the attempt number, which
\* grows with every claim, stands for it.
RowStates == [status : {"none", "pending", "processing", "retry", "completed", "needs_attention"},
              attempt : 0..MaxAttempts, provider : Providers \cup {NULL},
              started : BOOLEAN]

\* A lease is named by the delivery that took it.
LeaseStates == [message : Messages, attempt : 1..MaxAttempts, provider : Providers,
                status : {"active", "needs_attention"}, started : BOOLEAN]

\* memory_blocked is set exactly when the state is not "ready".
MemoryStates == [state : {"ready", "rebuilding", "needs_attention"}, job : Calls \cup {NULL}]

\* dirty: content_revision is no longer the one the worker took with its
\* claim; replayed: progress_json says the replay is done.
JobStates == [status : {"none", "scheduled", "running", "needs_attention", "completed"},
              providers : SUBSET Providers, replayed : BOOLEAN, dirty : BOOLEAN]

WorkerStates == [pc : {"idle", "claimed", "bound", "leased", "unlinked", "fenced", "asking",
                       "accepted", "recorded", "finished", "failing", "failed"},
                 message : Messages \cup {NULL}, attempt : 0..MaxAttempts,
                 provider : Providers \cup {NULL}, started : BOOLEAN]

PurgerStates == [pc : {"idle", "started", "forgetting", "resetting", "replaying", "completing"},
                 job : Calls \cup {NULL}, todo : SUBSET Messages]

Idle == [pc |-> "idle", message |-> NULL, attempt |-> 0, provider |-> NULL, started |-> FALSE]

Resting == [pc |-> "idle", job |-> NULL, todo |-> {}]

NoRow == [status |-> "none", attempt |-> 0, provider |-> NULL, started |-> FALSE]

Init ==
  /\ call = [c \in Calls |-> "live"]
  /\ message = [m \in Messages |-> "unsaid"]
  /\ outbox = [m \in Messages |-> NoRow]
  /\ leases = {} /\ links = {} /\ talks = {}
  /\ memory = [state |-> "ready", job |-> NULL]
  /\ job = [c \in Calls |-> [status |-> "none", providers |-> {}, replayed |-> FALSE,
                              dirty |-> FALSE]]
  /\ worker = [w \in Workers |-> Idle]
  /\ purger = Resting
  /\ held = {} /\ flight = {}
  /\ asked = [m \in Messages |-> 0]
  /\ crashes = 0

----------------------------------------------------------------------------
(* The call *)

Kept == {m \in Messages : message[m] = "kept"}

SaidIn(c) == {m \in Kept : CallOf[m] = c}

\* The caller says m: the message and its outbox row are one transaction, and
\* a trigger moves the content revision under a purge that is running.
Say(m) ==
  /\ call[CallOf[m]] = "live" /\ message[m] = "unsaid"
  /\ message' = [message EXCEPT ![m] = "kept"]
  /\ outbox' = [outbox EXCEPT ![m].status = "pending"]
  /\ job' = [c \in Calls |-> IF memory.job = c THEN [job[c] EXCEPT !.dirty = TRUE] ELSE job[c]]
  /\ UNCHANGED <<call, leases, links, talks, memory, worker, purger, held, flight, asked, crashes>>

HangUp(c) ==
  /\ c \in Ending /\ call[c] = "live"
  /\ call' = [call EXCEPT ![c] = "ended"]
  /\ UNCHANGED <<message, outbox, leases, links, talks, memory, job,
                 worker, purger, held, flight, asked, crashes>>

----------------------------------------------------------------------------
(* The outbox worker *)

\* w still has the row it claimed.
HasRow(w) ==
  LET row == outbox[worker[w].message] IN
  row.status = "processing" /\ row.attempt = worker[w].attempt

\* A change to the row that the token guards: nothing happens without it.
WriteRow(w, row) ==
  outbox' = IF HasRow(w) THEN [outbox EXCEPT ![worker[w].message] = row] ELSE outbox

\* The worker goes to pc.
Goto(w, pc) == worker' = [worker EXCEPT ![w].pc = pc]

MayNotRepeat(row) == row.provider = "mem0" /\ row.started

Reclaimed_AnyTime(row) == [row EXCEPT !.status = "retry"]

\* A row whose worker did not finish in time.
Reclaimed(row) ==
  [row EXCEPT !.status = IF MayNotRepeat(row) \/ row.attempt >= MaxAttempts
                         THEN "needs_attention" ELSE "retry"]

\* claim_one takes back every row whose lease expired and claims one that is
\* due; which is due first is left open.  A worker may be slow before it asks,
\* and the lease of a row is not renewed: any row that is being processed may
\* have expired.
Claim(w, expired) ==
  LET swept == [m \in Messages |-> IF m \in expired THEN Reclaimed(outbox[m]) ELSE outbox[m]]
      due == {m \in Messages : swept[m].status \in {"pending", "retry"}}
  IN /\ worker[w].pc = "idle"
     /\ \/ /\ due = {} /\ outbox' = swept
           /\ UNCHANGED worker
        \/ \E m \in due :
             LET row == [swept[m] EXCEPT !.status = "processing",
                                         !.attempt = swept[m].attempt + 1]
             IN /\ outbox' = [swept EXCEPT ![m] = row]
                /\ worker' = [worker EXCEPT ![w] =
                     [pc |-> "claimed", message |-> m, attempt |-> row.attempt,
                      provider |-> row.provider, started |-> FALSE]]
     /\ UNCHANGED <<call, message, leases, links, talks, memory, job,
                    purger, held, flight, asked, crashes>>

\* The row keeps the provider it is first bound to, whatever is selected now.
Bind(w, p) ==
  LET row == outbox[worker[w].message] IN
  /\ worker[w].pc = "claimed" /\ worker[w].provider \in {NULL, p}
  /\ IF HasRow(w) /\ row.provider \in {NULL, p}
     THEN /\ worker' = [worker EXCEPT ![w].pc = "bound", ![w].provider = p]
          /\ WriteRow(w, [row EXCEPT !.provider = p])
     ELSE Goto(w, "failed") /\ UNCHANGED outbox
  /\ UNCHANGED <<call, message, leases, links, talks, memory, job,
                 purger, held, flight, asked, crashes>>

MayWrite == memory.state = "ready"

\* The lease is refused while the memory is being rebuilt.
TakeLease(w) ==
  /\ worker[w].pc = "bound"
  /\ IF MayWrite
     THEN /\ leases' = leases \cup
               {[message |-> worker[w].message, attempt |-> worker[w].attempt,
                 provider |-> worker[w].provider, status |-> "active",
                 started |-> FALSE]}
          /\ Goto(w, "leased")
     ELSE Goto(w, "failed") /\ UNCHANGED leases
  /\ UNCHANGED <<call, message, outbox, links, talks, memory, job,
                 purger, held, flight, asked, crashes>>

\* The lease of w, while nobody has surfaced or dropped it.
Lease(w) ==
  {l \in leases : /\ l.message = worker[w].message /\ l.attempt = worker[w].attempt
                  /\ l.status = "active"}

\* A message that is linked has been delivered before.  Otherwise the
\* conversation is linked, which only a purge looks at.
CheckLink(w) ==
  /\ worker[w].pc = "leased"
  /\ IF <<worker[w].message, worker[w].provider>> \in links
     THEN Goto(w, "recorded") /\ UNCHANGED talks
     ELSE Goto(w, "unlinked") /\ talks' = talks \cup {worker[w].provider}
  /\ UNCHANGED <<call, message, outbox, leases, links, memory, job,
                 purger, held, flight, asked, crashes>>

\* mark_provider_started, first half: the operation lease, unless it expired.
StartLease(w) ==
  /\ worker[w].pc = "unlinked"
  /\ \/ /\ Lease(w) # {}
        /\ leases' = (leases \ Lease(w)) \cup {[l EXCEPT !.started = TRUE] : l \in Lease(w)}
        /\ Goto(w, "fenced")
     \/ UNCHANGED leases /\ Goto(w, "failing")
  /\ UNCHANGED <<call, message, outbox, links, talks, memory, job,
                 purger, held, flight, asked, crashes>>

MayAsk_Unchecked(w) == TRUE

MayAsk(w) == HasRow(w)

\* mark_provider_started, second half: the outbox row.
StartRow(w) ==
  /\ worker[w].pc = "fenced"
  /\ worker' = [worker EXCEPT ![w].pc = IF MayAsk(w) THEN "asking" ELSE "failing",
                              ![w].started = MayAsk(w)]
  /\ WriteRow(w, [outbox[worker[w].message] EXCEPT !.started = TRUE])
  /\ UNCHANGED <<call, message, leases, links, talks, memory, job,
                 purger, held, flight, asked, crashes>>

\* The request to the provider: accepted, refused, or not answered in time and
\* then carried out or not.
Ask(w) ==
  LET p == <<worker[w].message, worker[w].provider>> IN
  /\ worker[w].pc = "asking"
  /\ asked' = IF p[2] = "mem0" THEN [asked EXCEPT ![p[1]] = asked[p[1]] + 1] ELSE asked
  /\ \/ Goto(w, "accepted") /\ held' = held \cup {p} /\ UNCHANGED flight
     \/ Goto(w, "failing") /\ flight' = flight \cup {p} /\ UNCHANGED held
     \/ Goto(w, "failing") /\ UNCHANGED <<held, flight>>
  /\ UNCHANGED <<rows, purger, crashes>>

RecordLink(w) ==
  /\ worker[w].pc = "accepted"
  /\ links' = links \cup {<<worker[w].message, worker[w].provider>>}
  /\ Goto(w, "recorded")
  /\ UNCHANGED <<call, message, outbox, leases, talks, memory, job,
                 purger, held, flight, asked, crashes>>

\* _finish(error=None)
FinishWell(w) ==
  /\ worker[w].pc = "recorded"
  /\ leases' = leases \ Lease(w)
  /\ Goto(w, "finished")
  /\ UNCHANGED <<call, message, outbox, links, talks, memory, job,
                 purger, held, flight, asked, crashes>>

Surfaced(l) == [l EXCEPT !.status = "needs_attention"]

\* _finish(error=...): a failure after the boundary blocks the memory of the
\* conversation, whether or not a purge is under way.
FinishBadly(w) ==
  LET ambiguous == {l \in Lease(w) : l.started} IN
  /\ worker[w].pc = "failing"
  /\ leases' = (leases \ Lease(w)) \cup {Surfaced(l) : l \in ambiguous}
  /\ memory' = IF ambiguous = {} THEN memory ELSE [memory EXCEPT !.state = "needs_attention"]
  /\ Goto(w, "failed")
  /\ UNCHANGED <<call, message, outbox, links, talks, job,
                 purger, held, flight, asked, crashes>>

MarkCompleted(w) ==
  /\ worker[w].pc = "finished"
  /\ WriteRow(w, [outbox[worker[w].message] EXCEPT !.status = "completed"])
  /\ worker' = [worker EXCEPT ![w] = Idle]
  /\ UNCHANGED <<call, message, leases, links, talks, memory, job,
                 purger, held, flight, asked, crashes>>

MarkFailed(w) ==
  LET row == outbox[worker[w].message]
      final == worker[w].started \/ MayNotRepeat(row) \/ worker[w].attempt >= MaxAttempts
  IN /\ worker[w].pc = "failed"
     /\ WriteRow(w, [row EXCEPT !.status = IF final THEN "needs_attention" ELSE "retry"])
     /\ worker' = [worker EXCEPT ![w] = Idle]
     /\ UNCHANGED <<call, message, leases, links, talks, memory, job,
                    purger, held, flight, asked, crashes>>

Deliver(w) ==
  \/ \E expired \in SUBSET {m \in Messages : outbox[m].status = "processing"} : Claim(w, expired)
  \/ \E p \in Providers : Bind(w, p)
  \/ TakeLease(w) \/ CheckLink(w) \/ StartLease(w) \/ StartRow(w) \/ Ask(w)
  \/ RecordLink(w) \/ FinishWell(w) \/ FinishBadly(w) \/ MarkCompleted(w) \/ MarkFailed(w)

----------------------------------------------------------------------------
(* Deleting a call *)

InUse_Forgotten == {}

InUse == {l.provider : l \in leases}

\* The owner deletes a call that ended.  The job remembers which providers may
\* know of it: those of a link, and those of a lease.  A conversation whose
\* memory is blocked refuses, and nothing changes.
RequestPurge(c) ==
  /\ call[c] = "ended" /\ job[c].status = "none" /\ memory.state = "ready"
  /\ job' = [job EXCEPT ![c].status = "scheduled",
                        ![c].providers = {p[2] : p \in links} \cup talks \cup InUse]
  /\ memory' = [state |-> "rebuilding", job |-> c]
  /\ UNCHANGED <<call, message, outbox, leases, links, talks,
                 worker, purger, held, flight, asked, crashes>>

\* A delivery is given up after 10 seconds and its lease holds for 30: once a
\* provider was asked, the lease expires only when its worker is gone.
Abandoned(l) ==
  \A w \in Workers : worker[w].message # l.message \/ worker[w].attempt # l.attempt

MayExpire(l) == l.status = "active" /\ (l.started => Abandoned(l))

\* An expired lease is dropped without a question when nothing was sent.
Harmless(l) == ~l.started

\* claim_next: the job waits for live leases, is surfaced because of one whose
\* outcome is not known, or is taken.  The oldest lease decides; age is left
\* open.  A running job is taken when the worker that ran it is gone.
ClaimJob(c, expired) ==
  LET pending == leases \ {l \in expired : Harmless(l)}
      ambiguous == {l \in pending : l \in expired \/ l.status = "needs_attention"}
  IN /\ purger.pc = "idle" /\ memory.job = c
     /\ job[c].status \in {"scheduled", "running"}
     /\ \/ /\ pending # {} /\ ambiguous = {}
           /\ leases' = pending
           /\ UNCHANGED <<job, memory, purger>>
        \/ /\ \E l \in ambiguous : leases' = (pending \ {l}) \cup {Surfaced(l)}
           /\ job' = [job EXCEPT ![c].status = "needs_attention"]
           /\ memory' = [memory EXCEPT !.state = "needs_attention"]
           /\ UNCHANGED purger
        \/ /\ pending = {} /\ leases' = {}
           /\ job' = [job EXCEPT ![c].status = "running", ![c].dirty = FALSE]
           /\ memory' = [memory EXCEPT !.state = "rebuilding"]
           /\ purger' = [pc |-> "started", job |-> c, todo |-> {}]
     /\ UNCHANGED <<call, message, outbox, links, talks, worker, held, flight, asked, crashes>>

\* The purge worker goes to pc with its job.
Continue(pc) == purger' = [purger EXCEPT !.pc = pc]

Surface_Unblocked ==
  /\ job' = [job EXCEPT ![purger.job].status = "needs_attention"]
  /\ memory' = [state |-> "ready", job |-> NULL]
  /\ purger' = Resting

\* fail: every error of process or complete, the timeout of 120 seconds too.
Surface ==
  /\ job' = [job EXCEPT ![purger.job].status = "needs_attention"]
  /\ memory' = [memory EXCEPT !.state = "needs_attention"]
  /\ purger' = Resting

Fail ==
  /\ purger.pc # "idle" /\ Surface
  /\ UNCHANGED <<call, message, outbox, leases, links, talks, worker, held, flight, asked, crashes>>

\* process: mem0 cannot forget a call, and one replay is enough.
Decide ==
  LET j == job[purger.job] IN
  /\ purger.pc = "started"
  /\ IF "mem0" \in j.providers THEN Surface
     ELSE /\ Continue(IF "atagia" \in j.providers /\ ~j.replayed THEN "forgetting" ELSE "completing")
          /\ UNCHANGED <<job, memory>>
  /\ UNCHANGED <<call, message, outbox, leases, links, talks, worker, held, flight, asked, crashes>>

\* The provider forgets the conversation; a request it does not confirm may
\* have been carried out.
Forget ==
  /\ purger.pc = "forgetting"
  /\ \/ Continue("resetting") /\ held' = {p \in held : p[2] # "atagia"} /\ UNCHANGED <<job, memory>>
     \/ Surface /\ held' = {p \in held : p[2] # "atagia"}
  /\ UNCHANGED <<call, message, outbox, leases, links, talks, worker, flight, asked, crashes>>

\* reset_memory_links, then surviving_messages.
ResetLinks ==
  /\ purger.pc = "resetting"
  /\ links' = {p \in links : p[2] # "atagia"} /\ talks' = talks \ {"atagia"}
  /\ purger' = [purger EXCEPT !.pc = "replaying", !.todo = Kept \ SaidIn(purger.job)]
  /\ UNCHANGED <<call, message, outbox, leases, memory, job,
                 worker, held, flight, asked, crashes>>

\* ingest_message, then record_replay_link; nobody reads links meanwhile.
Replay(m) ==
  /\ purger.pc = "replaying" /\ m \in purger.todo
  /\ held' = held \cup {<<m, "atagia">>}
  /\ links' = links \cup {<<m, "atagia">>} /\ talks' = talks \cup {"atagia"}
  /\ purger' = [purger EXCEPT !.todo = purger.todo \ {m}]
  /\ UNCHANGED <<call, message, outbox, leases, memory, job, worker, flight, asked, crashes>>

SaveProgress ==
  /\ purger.pc = "replaying" /\ purger.todo = {}
  /\ job' = [job EXCEPT ![purger.job].replayed = TRUE]
  /\ Continue("completing")
  /\ UNCHANGED <<call, message, outbox, leases, links, talks, memory,
                 worker, held, flight, asked, crashes>>

\* The rows that go with call c when it is deleted.
Erase(c) ==
  /\ message' = [m \in Messages |-> IF m \in SaidIn(c) THEN "deleted" ELSE message[m]]
  /\ outbox' = [m \in Messages |-> IF CallOf[m] = c THEN NoRow ELSE outbox[m]]
  /\ links' = {p \in links : p[1] \notin SaidIn(c)}

\* complete.  Content that changed since the claim sends the worker back to
\* its start, with a new snapshot and the replay still to do.
Complete ==
  LET c == purger.job IN
  /\ purger.pc = "completing"
  /\ IF job[c].dirty
     THEN /\ job' = [job EXCEPT ![c].dirty = FALSE, ![c].replayed = FALSE]
          /\ Continue("started")
          /\ UNCHANGED <<message, outbox, links, memory>>
     ELSE /\ Erase(c)
          /\ job' = [job EXCEPT ![c].status = "completed"]
          /\ memory' = [state |-> "ready", job |-> NULL]
          /\ purger' = Resting
  /\ UNCHANGED <<call, leases, talks, worker, held, flight, asked, crashes>>

\* An operator looks into a surfaced job and has it run again.  What was sent
\* and not answered has been carried out by then or never will be.
Retry(c) ==
  LET surfaced == {l \in leases : l.status = "needs_attention"} IN
  /\ job[c].status = "needs_attention"
  /\ {l.provider : l \in surfaced} \subseteq {"atagia"}
  /\ leases' = leases \ surfaced
  /\ job' = [job EXCEPT ![c].status = "scheduled"]
  /\ memory' = [memory EXCEPT !.state = "rebuilding"]
  /\ flight' = {}
  /\ UNCHANGED <<call, message, outbox, links, talks, worker, purger, held, asked, crashes>>

Purge ==
  \/ \E c \in Calls, expired \in SUBSET {l \in leases : MayExpire(l)} : ClaimJob(c, expired)
  \/ Decide \/ Forget \/ ResetLinks \/ SaveProgress \/ Complete
  \/ \E m \in Messages : Replay(m)

----------------------------------------------------------------------------
(* Failures and the provider *)

\* The provider carries out a request nobody waits for any more.
Land(p) ==
  /\ p \in flight
  /\ held' = held \cup {p} /\ flight' = flight \ {p}
  /\ UNCHANGED <<rows, worker, purger, asked, crashes>>

WorkerDies(w) ==
  /\ worker[w].pc # "idle" /\ crashes < MaxCrashes
  /\ crashes' = crashes + 1
  /\ worker' = [worker EXCEPT ![w] = Idle]
  /\ flight' = IF worker[w].pc = "asking"
               THEN flight \cup {<<worker[w].message, worker[w].provider>>} ELSE flight
  /\ UNCHANGED <<rows, purger, held, asked>>

PurgerDies ==
  /\ purger.pc # "idle" /\ crashes < MaxCrashes
  /\ crashes' = crashes + 1
  /\ purger' = Resting
  /\ UNCHANGED <<rows, worker, held, flight, asked>>

Next ==
  \/ \E m \in Messages : Say(m)
  \/ \E c \in Calls : HangUp(c) \/ RequestPurge(c) \/ Retry(c)
  \/ \E w \in Workers : Deliver(w) \/ WorkerDies(w)
  \/ \E p \in flight : Land(p)
  \/ Purge \/ Fail \/ PurgerDies

Spec == Init /\ [][Next]_vars

----------------------------------------------------------------------------
(* Properties *)

TypeOK ==
  /\ call \in [Calls -> {"live", "ended"}]
  /\ message \in [Messages -> {"unsaid", "kept", "deleted"}]
  /\ outbox \in [Messages -> RowStates]
  /\ leases \subseteq LeaseStates
  /\ links \subseteq Pairs /\ talks \subseteq Providers
  /\ memory \in MemoryStates
  /\ job \in [Calls -> JobStates]
  /\ worker \in [Workers -> WorkerStates] /\ purger \in PurgerStates
  /\ held \subseteq Pairs /\ flight \subseteq Pairs
  /\ asked \in [Messages -> Nat] /\ crashes \in 0..MaxCrashes

\* Mem0 has no stable identity for what it is told, so a sentence it may have
\* heard is never sent to it again, by any worker after any crash.
AskedOnce == \A m \in Messages : asked[m] <= 1

\* No provider remembers a sentence of a call whose deletion was completed,
\* and no request is left that could make it.
DeletedIsForgotten ==
  \A m \in Messages, p \in Providers :
    job[CallOf[m]].status = "completed" =>
      /\ <<m, p>> \notin held \cup flight
      /\ \A w \in Workers : worker[w].message = m => worker[w].pc # "asking"

\* A message whose delivery is settled is remembered as long as it is kept.
SettledIsRemembered ==
  memory.state = "ready" =>
    \A m \in Kept : /\ \A p \in Providers : <<m, p>> \in links => <<m, p>> \in held
                    /\ outbox[m].status = "completed" => <<m, outbox[m].provider>> \in held

====
