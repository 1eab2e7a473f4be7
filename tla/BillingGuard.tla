---- MODULE BillingGuard ----
(***************************************************************************)
(* The process-local ordering lock of src/billing/usage_reservations.py:   *)
(* one reentrant lock per paying account, created on demand and forgotten  *)
(* when nobody uses it, and the streamed response that keeps it until the  *)
(* provider's work is billed, whatever its client does.                    *)
(*                                                                         *)
(* The program is one asyncio event loop, so code between two awaits is    *)
(* one action.  A request is one logical owner.  It takes an "inner" lease *)
(* for its response and, in an application messaging turn, an "outer" one  *)
(* around it.  An application turn is pinned to the payer it was admitted  *)
(* with; any other request reads its user's payer, waits, and reads again. *)
(***************************************************************************)
EXTENDS Integers, FiniteSets, Sequences

CONSTANTS
  Requests,   \* logical owners of billing leases
  Turns,      \* requests that are application messaging turns
  Accounts,   \* paying accounts
  Users,
  UserOf,     \* UserOf[r]: the user of request r
  Pinned,     \* Pinned[r]: the account application turn r is admitted with
  Entries,    \* identities of lock entries
  Items,      \* how many items a provider stream yields
  QueueSize,  \* capacity of the queue between producer and consumer
  Tries,      \* how often a request looks for its payer
  NULL

ASSUME RequestsAssumption == Turns \subseteq Requests /\ UserOf \in [Requests -> Users]
ASSUME PinnedAssumption == Pinned \in [Turns -> Accounts]
ASSUME GuardBounds == Items \in Nat /\ QueueSize \in Nat \ {0} /\ Tries \in Nat \ {0}
\* Entries stand for Python objects, of which there is always a fresh one.
ASSUME GuardFinite == /\ IsFiniteSet(Requests) /\ IsFiniteSet(Accounts) /\ IsFiniteSet(Entries)
                      /\ Cardinality(Accounts) < Cardinality(Entries)
ASSUME GuardNull == NULL \notin Requests /\ NULL \notin Entries /\ NULL \notin Accounts

VARIABLES
  payer,     \* payer[u]: the account that pays for user u in the database
  registry,  \* _account_locks: the entry of every account in use
  entry,     \* the _LockEntry objects with their locks
  lease,     \* the lease of every acquisition
  phase,     \* where the handler of a request is
  stream     \* the streamed response of a request, its producer and its queue

vars == <<payer, registry, entry, lease, phase, stream>>

Leases == {<<r, "inner">> : r \in Requests} \cup {<<r, "outer">> : r \in Turns}

Owner(l) == l[1]

LeasesOf(r) == {l \in Leases : Owner(l) = r}

Inner(r) == <<r, "inner">>

LeaseStates == [pc : {"idle", "reading", "waiting", "checking", "held"},
                account : Accounts \cup {NULL}, ref : Entries \cup {NULL}, tries : 0..Tries]

EntryStates == [participants : 0..Cardinality(Leases), owner : Requests \cup {NULL},
                depth : 0..Cardinality(Leases), queue : Seq(Leases)]

Messages == {"item", "done", "error"}

StreamStates == [producer : {"none", "returned", "running", "putting"},
                 consumer : {"none", "reading", "finished", "failed", "gone"},
                 sent : 0..Items, next : Messages \cup {NULL},
                 queue : Seq(Messages), got : 0..Items]

NewEntry == [participants |-> 0, owner |-> NULL, depth |-> 0, queue |-> <<>>]

NoLease == [pc |-> "idle", account |-> NULL, ref |-> NULL, tries |-> 0]

NoStream == [producer |-> "none", consumer |-> "none", sent |-> 0, next |-> NULL,
             queue |-> <<>>, got |-> 0]

\* The lease counts in its entry: it waits for the lock or has it.
Uses(l) == lease[l].pc \in {"waiting", "checking", "held"}

Holds(l) == lease[l].pc \in {"checking", "held"}

Init ==
  /\ payer \in [Users -> Accounts]
  /\ registry = [a \in Accounts |-> NULL]
  /\ entry = [e \in Entries |-> NewEntry]
  /\ lease = [l \in Leases |-> NoLease]
  /\ phase = [r \in Requests |-> "idle"]
  /\ stream = [r \in Requests |-> NoStream]

----------------------------------------------------------------------------
(* The lock of one account *)

Fresh == CHOOSE e \in Entries : /\ \A a \in Accounts : registry[a] # e
                                /\ \A l \in Leases : lease[l].ref # e

EntryOf(a) == IF registry[a] = NULL THEN Fresh ELSE registry[a]

Joined_NotReentrant(x, l) ==
  IF x.owner = NULL /\ x.queue = <<>>
  THEN [x EXCEPT !.participants = @ + 1, !.owner = Owner(l), !.depth = 1]
  ELSE [x EXCEPT !.participants = @ + 1, !.queue = Append(@, l)]

\* Entry x once lease l asked for its lock: the owner enters again, and an
\* asyncio.Lock is taken at once only when nobody waits for it.
Joined(x, l) ==
  IF x.owner = Owner(l) THEN [x EXCEPT !.participants = @ + 1, !.depth = @ + 1]
  ELSE IF x.owner = NULL /\ x.queue = <<>>
       THEN [x EXCEPT !.participants = @ + 1, !.owner = Owner(l), !.depth = 1]
  ELSE [x EXCEPT !.participants = @ + 1, !.queue = Append(@, l)]

\* Entry x once a lease that has the lock is released.
Released(x) ==
  [x EXCEPT !.participants = @ - 1, !.depth = @ - 1,
            !.owner = IF x.depth = 1 THEN NULL ELSE @]

\* asyncio.Lock takes a cancelled waiter out of its queue.
Without(q, l) ==
  LET i == CHOOSE i \in DOMAIN q : q[i] = l
  IN SubSeq(q, 1, i - 1) \o SubSeq(q, i + 1, Len(q))

Withdrawn_StillCounted(x, l) == [x EXCEPT !.queue = Without(@, l)]

\* Entry x once a waiting lease was cancelled.
Withdrawn(x, l) == [x EXCEPT !.participants = @ - 1, !.queue = Without(@, l)]

Unused_WhenFree(x) == x.owner = NULL

Unused(x) == x.participants = 0

\* Lease l leaves its entry as x, which is forgotten if it is unused.
Leave(l, x) ==
  /\ entry' = [entry EXCEPT ![lease[l].ref] = x]
  /\ registry' = IF Unused(x) THEN [registry EXCEPT ![lease[l].account] = NULL] ELSE registry

ReleaseLease(l) == Leave(l, Released(entry[lease[l].ref]))

----------------------------------------------------------------------------
(* Acquiring *)

\* A request starts with its outermost lease.
Begin(r) ==
  LET l == IF r \in Turns THEN <<r, "outer">> ELSE Inner(r)
  IN /\ phase[r] = "idle"
     /\ phase' = [phase EXCEPT ![r] = "acquiring"]
     /\ lease' = [lease EXCEPT ![l].pc = "reading"]
     /\ UNCHANGED <<payer, registry, entry, stream>>

\* The account to lock is known: read from the database or pinned.
ReadPayer(l) ==
  LET r == Owner(l)
  IN /\ lease[l].pc = "reading" /\ lease[l].account = NULL
     /\ lease' = [lease EXCEPT ![l].account = IF r \in Turns THEN Pinned[r]
                                              ELSE payer[UserOf[r]]]
     /\ UNCHANGED <<payer, registry, entry, phase, stream>>

Join(l) ==
  LET a == lease[l].account
      e == EntryOf(a)
      x == Joined(IF registry[a] = NULL THEN NewEntry ELSE entry[e], l)
  IN /\ lease[l].pc = "reading" /\ a # NULL
     /\ registry' = [registry EXCEPT ![a] = e]
     /\ entry' = [entry EXCEPT ![e] = x]
     /\ lease' = [lease EXCEPT ![l].ref = e,
                               ![l].pc = IF x.owner = Owner(l) THEN "checking" ELSE "waiting"]
     /\ UNCHANGED <<payer, phase, stream>>

\* The first waiter takes a lock that was released.
Wake(l) ==
  LET e == lease[l].ref
  IN /\ lease[l].pc = "waiting"
     /\ entry[e].owner = NULL
     /\ Head(entry[e].queue) = l
     /\ entry' = [entry EXCEPT ![e].owner = Owner(l), ![e].depth = 1, ![e].queue = Tail(@)]
     /\ lease' = [lease EXCEPT ![l].pc = "checking"]
     /\ UNCHANGED <<payer, registry, phase, stream>>

\* What the request does when lease l could not be had, or is of no use.
GiveUpLease(l) ==
  /\ lease' = [lease EXCEPT ![l] = NoLease]
  /\ phase' = [phase EXCEPT ![Owner(l)] = "leaving"]
  /\ UNCHANGED <<payer, stream>>

\* The first read of the payer raises.
ReadFails(l) ==
  /\ lease[l].pc = "reading" /\ lease[l].account = NULL /\ Owner(l) \notin Turns
  /\ GiveUpLease(l)
  /\ UNCHANGED <<registry, entry>>

CancelWait(l) ==
  /\ lease[l].pc = "waiting"
  /\ Leave(l, Withdrawn(entry[lease[l].ref], l))
  /\ GiveUpLease(l)

\* With the lock, the payer is read again: keep the lease, or look again for
\* another payer; an application turn is not redirected.
Check(l) ==
  LET r == Owner(l)
  IN /\ lease[l].pc = "checking"
     /\ \/ /\ payer[UserOf[r]] = lease[l].account
           /\ lease' = [lease EXCEPT ![l].pc = "held"]
           /\ UNCHANGED <<payer, registry, entry, phase, stream>>
        \/ /\ payer[UserOf[r]] # lease[l].account
           /\ r \notin Turns /\ lease[l].tries + 1 < Tries
           /\ ReleaseLease(l)
           /\ lease' = [lease EXCEPT ![l] = [NoLease EXCEPT !.pc = "reading",
                                                            !.tries = lease[l].tries + 1]]
           /\ UNCHANGED <<payer, phase, stream>>
        \/ /\ payer[UserOf[r]] # lease[l].account
           /\ r \in Turns \/ lease[l].tries + 1 = Tries
           /\ ReleaseLease(l)
           /\ GiveUpLease(l)

\* The read or the revalidation raises.
CheckFails(l) ==
  /\ lease[l].pc = "checking"
  /\ ReleaseLease(l)
  /\ GiveUpLease(l)

\* Inside its outer guard, the turn calls the runtime, which locks again.
Enter(r) ==
  /\ r \in Turns /\ phase[r] = "acquiring"
  /\ lease[<<r, "outer">>].pc = "held" /\ lease[Inner(r)].pc = "idle"
  /\ lease' = [lease EXCEPT ![Inner(r)].pc = "reading"]
  /\ UNCHANGED <<payer, registry, entry, phase, stream>>

\* The turn is refused, or ends without calling the runtime.
LeaveEarly(r) ==
  /\ r \in Turns /\ phase[r] = "acquiring"
  /\ lease[<<r, "outer">>].pc = "held" /\ lease[Inner(r)].pc = "idle"
  /\ phase' = [phase EXCEPT ![r] = "leaving"]
  /\ UNCHANGED <<payer, registry, entry, lease, stream>>

----------------------------------------------------------------------------
(* The response *)

\* The preflight returns a stream, which keeps the lease ...
Preflight(r) ==
  /\ phase[r] = "acquiring" /\ lease[Inner(r)].pc = "held"
  /\ phase' = [phase EXCEPT ![r] = "responding"]
  /\ stream' = [stream EXCEPT ![r].producer = "returned"]
  /\ UNCHANGED <<payer, registry, entry, lease>>

\* ... or returns a plain response or raises, which ends it.
PreflightEnds(r) ==
  /\ phase[r] = "acquiring" /\ lease[Inner(r)].pc = "held"
  /\ ReleaseLease(Inner(r))
  /\ GiveUpLease(Inner(r))

\* The body is first asked for an item: the producer task starts.
Start(r) ==
  /\ phase[r] = "responding" /\ stream[r].producer = "returned"
  /\ stream' = [stream EXCEPT ![r].producer = "running", ![r].consumer = "reading"]
  /\ UNCHANGED <<payer, registry, entry, lease, phase>>

Departed(c) == IF c = "reading" THEN "gone" ELSE c

Unstarted_Ignored(r) == stream[r].producer # "none"

Unstarted(r) == stream[r].producer = "returned"

\* The response call ends: its client left, at any time, or all was sent.
\* Only a stream that never started gives the lease back here.
CloseResponse(r) ==
  /\ phase[r] = "responding"
  /\ IF Unstarted(r)
     THEN ReleaseLease(Inner(r)) /\ lease' = [lease EXCEPT ![Inner(r)] = NoLease]
     ELSE UNCHANGED <<registry, entry, lease>>
  /\ stream' = [stream EXCEPT ![r] =
                   IF @.producer = "returned" THEN NoStream
                   ELSE [@ EXCEPT !.consumer = Departed(stream[r].consumer)]]
  /\ phase' = [phase EXCEPT ![r] = "leaving"]
  /\ UNCHANGED payer

Active(r) == stream[r].consumer = "reading"

\* The provider yields an item, finishes or fails; what it says is published
\* while somebody listens.
Produce(r) ==
  /\ stream[r].producer = "running"
  /\ \E x \in Messages :
       /\ x = "item" => stream[r].sent < Items
       /\ x = "done" => stream[r].sent = Items
       /\ LET skip == x = "item" /\ ~Active(r)
          IN stream' = [stream EXCEPT ![r].sent = IF x = "item" THEN @ + 1 ELSE @,
                                      ![r].next = IF skip THEN NULL ELSE x,
                                      ![r].producer = IF skip THEN @ ELSE "putting"]
  /\ UNCHANGED <<payer, registry, entry, lease, phase>>

\* The producer is done with the message it publishes: it goes on, or, after
\* the last one, releases the lease.
Published(r, q) ==
  IF stream[r].next = "item"
  THEN /\ stream' = [stream EXCEPT ![r].queue = q, ![r].next = NULL, ![r].producer = "running"]
       /\ UNCHANGED <<payer, registry, entry, lease, phase>>
  ELSE /\ stream' = [stream EXCEPT ![r].queue = q, ![r].next = NULL, ![r].producer = "none"]
       /\ ReleaseLease(Inner(r))
       /\ lease' = [lease EXCEPT ![Inner(r)] = NoLease]
       /\ UNCHANGED <<payer, phase>>

Put(r) ==
  /\ stream[r].producer = "putting"
  /\ Len(stream[r].queue) < QueueSize
  /\ Published(r, Append(stream[r].queue, stream[r].next))

GivesUp_Impatient(r) == TRUE

GivesUp_Never(r) == FALSE

GivesUp(r) == ~Active(r)

\* A put that timed out is repeated only while the consumer is there.
Discard(r) ==
  /\ stream[r].producer = "putting"
  /\ GivesUp(r)
  /\ Published(r, stream[r].queue)

Consume(r) ==
  /\ Active(r) /\ stream[r].queue # <<>>
  /\ LET x == Head(stream[r].queue)
     IN stream' = [stream EXCEPT ![r].queue = Tail(@),
                                 ![r].got = IF x = "item" THEN @ + 1 ELSE @,
                                 ![r].consumer = IF x = "done" THEN "finished"
                                                 ELSE IF x = "error" THEN "failed" ELSE @]
  /\ UNCHANGED <<payer, registry, entry, lease, phase>>

\* The handler leaves: its outer guard is released, and the request is over
\* once its detached producer is.
Exit(r) ==
  LET out == <<r, "outer">>
  IN /\ phase[r] = "leaving"
     /\ IF r \in Turns /\ lease[out].pc = "held"
        THEN /\ ReleaseLease(out)
             /\ lease' = [lease EXCEPT ![out] = NoLease]
             /\ UNCHANGED <<phase, stream>>
        ELSE /\ stream[r].producer = "none" /\ \A l \in LeasesOf(r) : lease[l].pc = "idle"
             /\ phase' = [phase EXCEPT ![r] = "idle"]
             /\ stream' = [stream EXCEPT ![r] = NoStream]
             /\ UNCHANGED <<registry, entry, lease>>
     /\ UNCHANGED payer

\* Somebody changes who pays for u.
ChangePayer(u, a) ==
  /\ payer' = [payer EXCEPT ![u] = a]
  /\ UNCHANGED <<registry, entry, lease, phase, stream>>

----------------------------------------------------------------------------

LeaseStep(l) == ReadPayer(l) \/ Join(l) \/ Wake(l) \/ Check(l)

LeaseFails(l) == ReadFails(l) \/ CancelWait(l) \/ CheckFails(l)

ProducerStep(r) == Produce(r) \/ Put(r) \/ Discard(r)

\* The client reads on, or leaves.
ConsumerStep(r) == Start(r) \/ Consume(r) \/ CloseResponse(r)

Next ==
  \/ \E l \in Leases : LeaseStep(l) \/ LeaseFails(l)
  \/ \E r \in Requests : \/ Begin(r) \/ Enter(r) \/ LeaveEarly(r)
                         \/ Preflight(r) \/ PreflightEnds(r)
                         \/ ProducerStep(r) \/ ConsumerStep(r) \/ Exit(r)
  \/ \E u \in Users, a \in Accounts : ChangePayer(u, a)

Spec == Init /\ [][Next]_vars

\* The event loop runs every task that can run; providers answer or fail; the
\* server sooner or later calls a response it was given, and a client that is
\* being sent data reads it or is disconnected.  Nobody has to send requests.
Fairness ==
  /\ \A l \in Leases : WF_vars(LeaseStep(l))
  /\ \A r \in Requests : /\ WF_vars(Enter(r) \/ LeaveEarly(r))
                         /\ WF_vars(Preflight(r) \/ PreflightEnds(r))
                         /\ WF_vars(ProducerStep(r))
                         /\ WF_vars(ConsumerStep(r))
                         /\ WF_vars(Exit(r))

LiveSpec == Spec /\ Fairness

----------------------------------------------------------------------------
(* Properties *)

\* Every variable has its type: the registry names entries, an entry counts
\* its participants, and a lease names the entry and the account it was for.
TypeOK ==
  /\ payer \in [Users -> Accounts]
  /\ registry \in [Accounts -> Entries \cup {NULL}]
  /\ entry \in [Entries -> EntryStates]
  /\ lease \in [Leases -> LeaseStates]
  /\ phase \in [Requests -> {"idle", "acquiring", "responding", "leaving"}]
  /\ stream \in [Requests -> StreamStates]

\* Two requests never have the lock of one account at the same time, although
\* the lock is forgotten and created again between them.
MutualExclusion ==
  \A k, l \in Leases :
    Holds(k) /\ Holds(l) /\ lease[k].account = lease[l].account => Owner(k) = Owner(l)

\* An account has an entry in the registry exactly while a lease waits for its
\* lock or has it, and all its leases share that entry: none is leaked, and
\* none is forgotten under a waiter.
RegistryMatchesLeases ==
  \A a \in Accounts :
    /\ (registry[a] # NULL) <=> (\E l \in Leases : Uses(l) /\ lease[l].account = a)
    /\ \A l \in Leases : Uses(l) /\ lease[l].account = a => lease[l].ref = registry[a]

\* Provider work, and the billing that ends it, run under the request's lock,
\* also after the client has gone and the outer guard was released.
ProviderRunsUnderLock ==
  \A r \in Requests : stream[r].producer \in {"running", "putting"} =>
    /\ lease[Inner(r)].pc = "held"
    /\ entry[lease[Inner(r)].ref].owner = r

\* A client that is told the stream is done has received every item of it.
StreamComplete == \A r \in Requests : stream[r].consumer = "finished" => stream[r].got = Items

\* Nobody waits for a lock forever.
WaiterServed == \A l \in Leases : lease[l].pc = "waiting" ~> lease[l].pc # "waiting"

\* A lease that was taken is given back, whatever becomes of its client.
LeaseEnds == \A l \in Leases : lease[l].pc = "held" ~> lease[l].pc = "idle"

====
