---- MODULE PhoneMemoryProofs ----
(***************************************************************************)
(* The memory of a conversation, for any number of messages, calls,        *)
(* workers, attempts and crashes: mem0 is never told a sentence twice, a   *)
(* deleted call is forgotten, and a settled delivery is remembered.        *)
(*                                                                         *)
(* AskedOnce, which comes first, is not inductive.  What carries it is the *)
(* row: a started mem0 row is never due again, the attempt number is a     *)
(* token that one worker has, and the worker that has the token of a       *)
(* started row is past the boundary.                                       *)
(***************************************************************************)
EXTENDS PhoneMemory, TLAPS

\* The steps of a delivery before the provider may be asked.
Bound == {"bound", "leased", "unlinked", "fenced"}

Early == {"claimed"} \cup Bound

Types ==
  /\ message \in [Messages -> {"unsaid", "kept", "deleted"}]
  /\ outbox \in [Messages -> RowStates]
  /\ worker \in [Workers -> WorkerStates]
  /\ asked \in [Messages -> Nat]

\* A message that is not in the outbox has no row at all, one that is due has
\* an attempt left and was not started for mem0, and one that mem0 was asked
\* about is marked so for good.
RowOk(m) ==
  /\ outbox[m].status = "none" => outbox[m] = NoRow
  /\ message[m] \in {"unsaid", "deleted"} => outbox[m].status = "none"
  /\ message[m] = "unsaid" => asked[m] = 0
  /\ outbox[m].status \in {"pending", "retry"} =>
       outbox[m].attempt < MaxAttempts /\ ~MayNotRepeat(outbox[m])
  /\ outbox[m].started => outbox[m].provider # NULL
  /\ asked[m] > 0 => message[m] = "deleted" \/ MayNotRepeat(outbox[m])
  /\ asked[m] <= 1

Asking(w) == worker[w].pc = "asking" /\ worker[w].provider = "mem0"

\* A worker has a message that was said, no later attempt than the row, and,
\* while it has the row, the row's provider and a row not yet started.
WorkerOk(w) ==
  LET m == worker[w].message IN
  worker[w].pc # "idle" =>
    /\ m \in Messages /\ message[m] # "unsaid"
    /\ message[m] = "deleted" \/ worker[w].attempt <= outbox[m].attempt
    /\ worker[w].pc \in Early /\ HasRow(w) => ~MayNotRepeat(outbox[m])
    /\ worker[w].pc \in Bound =>
         /\ worker[w].provider \in Providers
         /\ HasRow(w) => outbox[m].provider = worker[w].provider
    /\ Asking(w) =>
         /\ asked[m] = 0
         /\ message[m] = "deleted" \/ MayNotRepeat(outbox[m])

\* The attempt is a token, and two workers never ask mem0 about one message.
Distinct(v, w) ==
  /\ worker[v].pc # "idle" /\ worker[w].pc # "idle"
  /\ worker[v].message = worker[w].message
  /\ worker[v].attempt = worker[w].attempt \/ (Asking(v) /\ Asking(w))
  => v = w

IInv ==
  /\ Types
  /\ \A m \in Messages : RowOk(m)
  /\ \A w \in Workers : WorkerOk(w)
  /\ \A v, w \in Workers : Distinct(v, w)

USE DEF Types, RowOk, Asking, WorkerOk, Distinct, HasRow, MayNotRepeat, Early, Bound

LEMMA MemoryInit == Init => IInv
BY MemoryBounds DEF Init, IInv, NoRow, Idle, RowStates, WorkerStates

\* A step that leaves the workers, the rows and the messages alone.
LEMMA MemorySilent ==
  ASSUME IInv, UNCHANGED <<message, outbox, worker, asked>>
  PROVE  IInv'
BY DEF IInv

\* A worker that puts its delivery down.
LEMMA MemoryRelease ==
  ASSUME IInv, NEW w \in Workers, worker' = [worker EXCEPT ![w] = Idle],
         UNCHANGED <<message, outbox, asked>>
  PROVE  IInv'
<1>1. Idle \in WorkerStates
  BY MemoryBounds DEF Idle, WorkerStates
<1>2. Types' /\ worker'[w].pc = "idle" /\ \A v \in Workers \ {w} : worker'[v] = worker[v]
  BY <1>1 DEF IInv, Idle
<1> QED BY <1>2 DEF IInv

\* A worker that goes on without a look at its row.
LEMMA MemoryAdvance ==
  ASSUME IInv, NEW w \in Workers, worker[w].pc # "idle",
         NEW pc \in {"leased", "unlinked", "fenced", "accepted", "recorded", "finished",
                     "failing", "failed"},
         Goto(w, pc), pc \in Bound => worker[w].pc \in Bound,
         UNCHANGED <<message, outbox, asked>>
  PROVE  IInv'
<1>1. worker' = [worker EXCEPT ![w].pc = pc] /\ worker[w] \in WorkerStates
  BY DEF Goto, IInv
<1>2. /\ worker'[w].pc = pc /\ worker'[w].message = worker[w].message
      /\ worker'[w].attempt = worker[w].attempt /\ worker'[w].provider = worker[w].provider
      /\ \A v \in Workers \ {w} : worker'[v] = worker[v]
  BY <1>1 DEF IInv, WorkerStates
<1>3. Types'
  BY <1>1 DEF IInv, WorkerStates
<1> QED BY <1>2, <1>3 DEF IInv

\* A change of one row by the worker that has it, which keeps the attempt and
\* is no step back: a started mem0 row stays so and is not due again.
LEMMA MemoryWrite ==
  ASSUME IInv, NEW w \in Workers, worker[w].pc # "idle", HasRow(w),
         NEW row \in RowStates, outbox' = [outbox EXCEPT ![worker[w].message] = row],
         row.attempt = worker[w].attempt, row.status # "none",
         row.status \in {"pending", "retry"} => row.attempt < MaxAttempts /\ ~MayNotRepeat(row),
         row.started => row.provider # NULL,
         MayNotRepeat(outbox[worker[w].message]) => MayNotRepeat(row),
         UNCHANGED <<message, asked>>
  PROVE  /\ outbox' \in [Messages -> RowStates]
         /\ \A m \in Messages : RowOk(m)'
         /\ \A v \in Workers \ {w} : worker'[v] = worker[v] => WorkerOk(v)'
<1> DEFINE m == worker[w].message
<1>1. /\ m \in Messages /\ WorkerOk(w) /\ message[m] = "kept"
      /\ outbox[m].status = "processing" /\ outbox[m].attempt = worker[w].attempt
  BY DEF IInv
<1>2. outbox'[m] = row /\ \A n \in Messages \ {m} : outbox'[n] = outbox[n]
  BY <1>1 DEF IInv
<1>3. outbox' \in [Messages -> RowStates]
  BY <1>1 DEF IInv
<1>4. ASSUME NEW n \in Messages PROVE RowOk(n)'
  BY <1>1, <1>2 DEF IInv
<1>5. ASSUME NEW v \in Workers \ {w}, worker'[v] = worker[v] PROVE WorkerOk(v)'
  <2>1. CASE worker[v].message # m
    BY <1>2, <1>5, <2>1 DEF IInv
  <2>2. CASE worker[v].message = m /\ worker[v].pc # "idle"
    <3>1. worker[v].attempt # worker[w].attempt
      BY <2>2, <1>5 DEF IInv
    <3>2. ~HasRow(v) /\ ~HasRow(v)'
      BY <1>1, <1>2, <1>5, <2>2, <3>1
    <3> QED BY <1>1, <1>2, <1>5, <2>2, <3>2 DEF IInv
  <2> QED BY <1>5, <2>1, <2>2 DEF IInv
<1> QED BY <1>3, <1>4, <1>5

LEMMA MemorySay ==
  ASSUME IInv, NEW m \in Messages, Say(m)
  PROVE  IInv'
<1>1. /\ message' = [message EXCEPT ![m] = "kept"] /\ message[m] = "unsaid"
      /\ outbox' = [outbox EXCEPT ![m].status = "pending"] /\ outbox[m] = NoRow
      /\ outbox \in [Messages -> RowStates] /\ UNCHANGED <<worker, asked>>
  BY DEF Say, IInv
<1>2. /\ message'[m] = "kept" /\ \A n \in Messages \ {m} : message'[n] = message[n]
      /\ outbox'[m] = [outbox[m] EXCEPT !.status = "pending"]
      /\ \A n \in Messages \ {m} : outbox'[n] = outbox[n]
  BY <1>1 DEF IInv
<1>3. /\ outbox'[m] \in RowStates /\ outbox'[m].status = "pending"
      /\ outbox'[m].attempt = 0 /\ outbox'[m].provider = NULL /\ ~outbox'[m].started
  <2>1. outbox[m] \in RowStates /\ outbox[m] = NoRow
    BY <1>1
  <2>2. NoRow.attempt = 0 /\ NoRow.provider = NULL /\ NoRow.started = FALSE
    BY DEF NoRow
  <2> QED BY <1>2, <2>1, <2>2 DEF RowStates
<1>4. Types'
  BY <1>1, <1>2, <1>3 DEF IInv
<1>5. ASSUME NEW n \in Messages PROVE RowOk(n)'
  BY <1>1, <1>2, <1>3, MemoryBounds DEF IInv
<1>6. ASSUME NEW v \in Workers PROVE WorkerOk(v)'
  <2>1. worker[v].pc # "idle" => worker[v].message # m
    BY <1>1 DEF IInv
  <2> QED BY <1>1, <1>2, <2>1 DEF IInv
<1> QED BY <1>1, <1>4, <1>5, <1>6 DEF IInv

LEMMA MemoryBind ==
  ASSUME IInv, NEW w \in Workers, NEW p \in Providers, Bind(w, p)
  PROVE  IInv'
<1> DEFINE m == worker[w].message
           row == [outbox[m] EXCEPT !.provider = p]
<1>1. worker[w].pc = "claimed" /\ UNCHANGED <<message, asked>> /\ WorkerOk(w)
  BY DEF Bind, IInv
<1>2. CASE ~(HasRow(w) /\ outbox[m].provider \in {NULL, p})
  <2>1. Goto(w, "failed") /\ UNCHANGED outbox
    BY <1>2 DEF Bind
  <2> QED BY <1>1, <2>1, MemoryAdvance
<1>3. CASE HasRow(w) /\ outbox[m].provider \in {NULL, p}
  <2>1. /\ worker' = [worker EXCEPT ![w].pc = "bound", ![w].provider = p]
        /\ outbox' = [outbox EXCEPT ![m] = row]
    BY <1>3 DEF Bind, WriteRow
  <2>2. m \in Messages /\ outbox[m] \in RowStates /\ ~MayNotRepeat(outbox[m])
    BY <1>1, <1>3 DEF IInv
  <2>3. /\ row \in RowStates /\ row.attempt = worker[w].attempt /\ row.status = "processing"
        /\ row.provider = p /\ row.started = outbox[m].started
    BY <1>3, <2>2 DEF RowStates
  <2>4. p # NULL
    BY MemoryNull
  <2>5. ~MayNotRepeat(row)
    BY <1>3, <2>2, <2>3, <2>4 DEF IInv
  <2>6. /\ outbox' \in [Messages -> RowStates] /\ \A n \in Messages : RowOk(n)'
        /\ \A v \in Workers \ {w} : worker'[v] = worker[v] => WorkerOk(v)'
    <3> HIDE DEF row
    <3> QED BY <1>1, <1>3, <2>1, <2>2, <2>3, <2>4, <2>5, MemoryWrite
  <2>7. /\ worker'[w].pc = "bound" /\ worker'[w].message = m
        /\ worker'[w].attempt = worker[w].attempt /\ worker'[w].provider = p
        /\ worker'[w] \in WorkerStates
        /\ \A v \in Workers \ {w} : worker'[v] = worker[v]
    BY <2>1 DEF IInv, WorkerStates
  <2>8. worker' \in [Workers -> WorkerStates]
    BY <2>1, <2>7 DEF IInv
  <2>9. outbox'[m] = row
    BY <2>1, <2>2 DEF IInv
  <2>10. WorkerOk(w)'
    <3> HIDE DEF row
    <3> QED BY <1>1, <1>3, <2>2, <2>3, <2>5, <2>7, <2>9 DEF IInv
  <2>11. \A v, u \in Workers : Distinct(v, u)'
    BY <1>1, <2>7 DEF IInv
  <2> QED BY <1>1, <2>6, <2>7, <2>8, <2>10, <2>11 DEF IInv
<1> QED BY <1>2, <1>3

LEMMA MemoryStartRow ==
  ASSUME IInv, NEW w \in Workers, StartRow(w)
  PROVE  IInv'
<1> DEFINE m == worker[w].message
           row == [outbox[m] EXCEPT !.started = TRUE]
<1>1. /\ worker[w].pc = "fenced" /\ UNCHANGED <<message, asked>>
      /\ WorkerOk(w) /\ worker[w] \in WorkerStates
  BY DEF StartRow, IInv
<1>2. /\ worker'[w].pc = IF HasRow(w) THEN "asking" ELSE "failing"
      /\ worker'[w].message = m /\ worker'[w].attempt = worker[w].attempt
      /\ worker'[w].provider = worker[w].provider
      /\ \A v \in Workers \ {w} : worker'[v] = worker[v]
  BY <1>1 DEF StartRow, MayAsk, IInv, WorkerStates
<1>3. worker' \in [Workers -> WorkerStates]
  BY <1>1 DEF StartRow, MayAsk, IInv, WorkerStates
<1>4. CASE ~HasRow(w)
  <2>1. UNCHANGED outbox /\ worker'[w].pc = "failing"
    BY <1>2, <1>4 DEF StartRow, WriteRow, MayAsk
  <2> QED BY <1>1, <1>2, <1>3, <2>1 DEF IInv
<1>5. CASE HasRow(w)
  <2>1. /\ outbox' = [outbox EXCEPT ![m] = row] /\ worker'[w].pc = "asking"
        /\ m \in Messages /\ outbox[m] \in RowStates /\ ~MayNotRepeat(outbox[m])
        /\ outbox[m].provider = worker[w].provider /\ worker[w].provider # NULL
        /\ message[m] = "kept"
    BY <1>1, <1>2, <1>5, MemoryNull DEF StartRow, WriteRow, MayAsk, IInv
  <2>2. /\ row \in RowStates /\ row.attempt = worker[w].attempt /\ row.status = "processing"
        /\ row.provider = worker[w].provider /\ row.started
    BY <1>5, <2>1 DEF RowStates
  <2>3. /\ outbox' \in [Messages -> RowStates] /\ \A n \in Messages : RowOk(n)'
        /\ \A v \in Workers \ {w} : worker'[v] = worker[v] => WorkerOk(v)'
    <3> HIDE DEF row
    <3> QED BY <1>1, <1>5, <2>1, <2>2, MemoryWrite
  <2>4. outbox'[m] = row
    BY <2>1 DEF IInv
  <2>5. asked[m] = 0
    BY <2>1 DEF IInv
  <2> HIDE DEF row
  <2>6. WorkerOk(w)'
    BY <1>1, <1>2, <2>1, <2>2, <2>4, <2>5
  <2>7. \A v \in Workers : Asking(v) => worker[v].message # m
    BY <2>1 DEF IInv
  <2>8. \A v, u \in Workers : Distinct(v, u)'
    BY <1>1, <1>2, <2>7 DEF IInv
  <2> QED BY <1>1, <1>2, <1>3, <2>3, <2>6, <2>8 DEF IInv
<1> QED BY <1>4, <1>5

LEMMA MemoryAsk ==
  ASSUME IInv, NEW w \in Workers, Ask(w)
  PROVE  IInv'
<1> DEFINE m == worker[w].message
<1>1. PICK pc \in {"accepted", "failing"} : worker' = [worker EXCEPT ![w].pc = pc]
  BY DEF Ask, Goto
<1>2. /\ worker[w].pc = "asking" /\ WorkerOk(w) /\ worker[w] \in WorkerStates
      /\ m \in Messages /\ UNCHANGED <<message, outbox>>
      /\ asked' = IF Asking(w) THEN [asked EXCEPT ![m] = asked[m] + 1] ELSE asked
  BY DEF Ask, IInv, rows
<1>3. /\ worker'[w].pc = pc /\ worker'[w].message = m
      /\ worker'[w].attempt = worker[w].attempt /\ worker'[w].provider = worker[w].provider
      /\ \A v \in Workers \ {w} : worker'[v] = worker[v]
      /\ worker' \in [Workers -> WorkerStates]
  BY <1>1, <1>2 DEF IInv, WorkerStates
<1>4. CASE ~Asking(w)
  BY <1>2, <1>3, <1>4 DEF IInv
<1>5. CASE Asking(w)
  <2>1. /\ asked' \in [Messages -> Nat] /\ asked[m] = 0 /\ asked'[m] = 1
        /\ \A n \in Messages \ {m} : asked'[n] = asked[n]
    BY <1>2, <1>5 DEF IInv
  <2>2. \A v \in Workers \ {w} : Asking(v) => worker[v].message # m
    BY <1>2, <1>5 DEF IInv
  <2>3. \A n \in Messages : RowOk(n)'
    BY <1>2, <1>5, <2>1 DEF IInv
  <2>4. ASSUME NEW v \in Workers PROVE WorkerOk(v)'
    BY <1>2, <1>3, <2>1, <2>2 DEF IInv
  <2>5. \A v, u \in Workers : Distinct(v, u)'
    BY <1>2, <1>3 DEF IInv
  <2> QED BY <1>2, <1>3, <2>1, <2>3, <2>4, <2>5 DEF IInv
<1> QED BY <1>4, <1>5

\* The last word on a row: the worker writes it if it still has it, and puts
\* the delivery down.
LEMMA MemorySettle ==
  ASSUME IInv, NEW w \in Workers, worker[w].pc # "idle",
         worker' = [worker EXCEPT ![w] = Idle], UNCHANGED <<message, asked>>,
         NEW status \in {"completed", "needs_attention", "retry"},
         WriteRow(w, [outbox[worker[w].message] EXCEPT !.status = status]),
         status = "retry" => /\ ~MayNotRepeat(outbox[worker[w].message])
                             /\ worker[w].attempt < MaxAttempts
  PROVE  IInv'
<1> DEFINE m == worker[w].message
           row == [outbox[m] EXCEPT !.status = status]
<1>1. CASE ~HasRow(w)
  BY <1>1, MemoryRelease DEF WriteRow
<1>2. CASE HasRow(w)
  <2>1. outbox' = [outbox EXCEPT ![m] = row] /\ m \in Messages /\ outbox[m] \in RowStates
    BY <1>2 DEF WriteRow, IInv
  <2>2. /\ row \in RowStates /\ row.attempt = worker[w].attempt /\ row.status = status
        /\ row.provider = outbox[m].provider /\ row.started = outbox[m].started
    BY <1>2, <2>1 DEF RowStates
  <2>3. /\ row.started => row.provider # NULL
        /\ MayNotRepeat(outbox[m]) => MayNotRepeat(row)
        /\ status = "retry" => ~MayNotRepeat(row)
    BY <2>1, <2>2 DEF IInv
  <2>4. /\ outbox' \in [Messages -> RowStates] /\ \A n \in Messages : RowOk(n)'
        /\ \A v \in Workers \ {w} : worker'[v] = worker[v] => WorkerOk(v)'
    <3> HIDE DEF row
    <3> QED BY <1>2, <2>1, <2>2, <2>3, MemoryWrite
  <2>5. Idle \in WorkerStates
    BY MemoryBounds DEF Idle, WorkerStates
  <2>6. /\ worker' \in [Workers -> WorkerStates] /\ worker'[w].pc = "idle"
        /\ \A v \in Workers \ {w} : worker'[v] = worker[v]
    BY <2>5 DEF IInv, Idle
  <2>7. WorkerOk(w)' /\ \A v, u \in Workers : Distinct(v, u)'
    BY <2>6 DEF IInv
  <2> QED BY <2>4, <2>6, <2>7 DEF IInv
<1> QED BY <1>1, <1>2

LEMMA MemoryMarkCompleted ==
  ASSUME IInv, NEW w \in Workers, MarkCompleted(w)
  PROVE  IInv'
BY MemorySettle DEF MarkCompleted

LEMMA MemoryMarkFailed ==
  ASSUME IInv, NEW w \in Workers, MarkFailed(w)
  PROVE  IInv'
<1> DEFINE row == outbox[worker[w].message]
           final == worker[w].started \/ MayNotRepeat(row) \/ worker[w].attempt >= MaxAttempts
<1>1. /\ worker[w].pc # "idle" /\ worker' = [worker EXCEPT ![w] = Idle]
      /\ UNCHANGED <<message, asked>>
      /\ WriteRow(w, [row EXCEPT !.status = IF final THEN "needs_attention" ELSE "retry"])
  BY DEF MarkFailed
<1>2. worker[w].attempt \in Nat /\ MaxAttempts \in Nat
  BY MemoryBounds DEF IInv, WorkerStates
<1>3. CASE final
  <2>1. WriteRow(w, [row EXCEPT !.status = "needs_attention"])
    BY <1>1, <1>3
  <2> QED BY <1>1, <2>1, MemorySettle
<1>4. CASE ~final
  <2>1. WriteRow(w, [row EXCEPT !.status = "retry"])
    BY <1>1, <1>4
  <2>2. ~MayNotRepeat(row) /\ worker[w].attempt < MaxAttempts
    BY <1>2, <1>4
  <2> QED BY <1>1, <2>1, <2>2, MemorySettle
<1> QED BY <1>3, <1>4

\* What claim_one takes back is no longer processing, and keeps its attempt,
\* its provider and its mark.
LEMMA MemorySwept ==
  ASSUME NEW row \in RowStates, row.status = "processing"
  PROVE  /\ Reclaimed(row) \in RowStates /\ Reclaimed(row).attempt = row.attempt
         /\ Reclaimed(row).provider = row.provider /\ Reclaimed(row).started = row.started
         /\ Reclaimed(row).status \in {"needs_attention", "retry"}
         /\ Reclaimed(row).status = "retry" => row.attempt < MaxAttempts /\ ~MayNotRepeat(row)
<1>1. row.attempt \in Nat /\ MaxAttempts \in Nat
  BY MemoryBounds DEF RowStates
<1> QED BY <1>1 DEF Reclaimed, RowStates

LEMMA MemoryTaken ==
  ASSUME NEW r \in RowStates, NEW a \in 1..MaxAttempts
  PROVE  LET row == [r EXCEPT !.status = "processing", !.attempt = a] IN
         /\ row \in RowStates /\ row.status = "processing" /\ row.attempt = a
         /\ row.provider = r.provider /\ row.started = r.started
<1> DEFINE kept == [r EXCEPT !.status = "processing"]
           row == [kept EXCEPT !.attempt = a]
<1>1. a \in 0..MaxAttempts
  OBVIOUS
<1>2. /\ kept \in RowStates /\ kept.status = "processing"
      /\ kept.provider = r.provider /\ kept.started = r.started
  BY DEF RowStates
<1> HIDE DEF kept
<1>3. /\ row \in RowStates /\ row.status = "processing" /\ row.attempt = a
      /\ row.provider = r.provider /\ row.started = r.started
  BY <1>1, <1>2 DEF RowStates
<1>4. row = [r EXCEPT !.status = "processing", !.attempt = a]
  BY DEF kept
<1> HIDE DEF row
<1> QED BY <1>3, <1>4

LEMMA MemoryClaim ==
  ASSUME IInv, NEW w \in Workers, NEW expired \in SUBSET Messages,
         \A m \in expired : outbox[m].status = "processing", Claim(w, expired)
  PROVE  IInv'
<1> DEFINE swept == [m \in Messages |-> IF m \in expired THEN Reclaimed(outbox[m]) ELSE outbox[m]]
           due == {m \in Messages : swept[m].status \in {"pending", "retry"}}
           Taken(m) == [swept[m] EXCEPT !.status = "processing",
                                        !.attempt = swept[m].attempt + 1]
<1>1. worker[w].pc = "idle" /\ UNCHANGED <<message, asked>>
  BY DEF Claim
<1>2. \A m \in Messages :
        /\ swept[m] \in RowStates /\ swept[m].attempt = outbox[m].attempt
        /\ swept[m].provider = outbox[m].provider /\ swept[m].started = outbox[m].started
        /\ swept[m].status = "none" <=> outbox[m].status = "none"
        /\ outbox[m].status = "none" => swept[m] = outbox[m]
        /\ swept[m].status = "processing" => outbox[m].status = "processing"
        /\ swept[m].status \in {"pending", "retry"} =>
             swept[m].attempt < MaxAttempts /\ ~MayNotRepeat(swept[m])
  BY MemorySwept DEF IInv
<1>3. swept \in [Messages -> RowStates]
  BY <1>2
<1> HIDE DEF swept
<1>4. CASE outbox' = swept /\ UNCHANGED worker
  BY <1>1, <1>2, <1>3, <1>4 DEF IInv
<1>5. ASSUME NEW m \in due, outbox' = [swept EXCEPT ![m] = Taken(m)],
             worker' = [worker EXCEPT ![w] =
               [pc |-> "claimed", message |-> m, attempt |-> Taken(m).attempt,
                provider |-> Taken(m).provider, started |-> FALSE]]
      PROVE  IInv'
  <2> DEFINE row == Taken(m)
  <2>1. /\ m \in Messages /\ swept[m] \in RowStates /\ swept[m].attempt < MaxAttempts
        /\ ~MayNotRepeat(swept[m]) /\ message[m] = "kept"
    BY <1>2 DEF IInv
  <2>2. swept[m].attempt + 1 \in 1..MaxAttempts
    BY <2>1, MemoryBounds DEF RowStates
  <2>3. /\ row \in RowStates /\ row.status = "processing" /\ row.attempt = swept[m].attempt + 1
        /\ row.provider = swept[m].provider /\ row.started = swept[m].started
    BY <2>1, <2>2, MemoryTaken
  <2>4. outbox' = [swept EXCEPT ![m] = row]
    BY <1>5
  <2>5. worker' = [worker EXCEPT ![w] =
          [pc |-> "claimed", message |-> m, attempt |-> row.attempt,
           provider |-> row.provider, started |-> FALSE]]
    BY <1>5
  <2> HIDE DEF row
  <2>6. /\ outbox' \in [Messages -> RowStates] /\ outbox'[m] = row
        /\ \A n \in Messages \ {m} : outbox'[n] = swept[n]
    BY <1>3, <2>1, <2>3, <2>4
  <2>7. /\ worker' \in [Workers -> WorkerStates] /\ worker'[w].pc = "claimed"
        /\ worker'[w].message = m /\ worker'[w].attempt = swept[m].attempt + 1
        /\ \A v \in Workers \ {w} : worker'[v] = worker[v]
    BY <2>1, <2>2, <2>3, <2>5 DEF IInv, RowStates, WorkerStates
  <2>8. \A n \in Messages : RowOk(n)'
    BY <1>1, <1>2, <2>1, <2>3, <2>6 DEF IInv
  <2>9. \A v \in Workers : worker[v].pc # "idle" /\ worker[v].message = m =>
          worker[v].attempt \in Nat /\ worker[v].attempt <= swept[m].attempt
    BY <1>2, <2>1 DEF IInv, WorkerStates
  <2>10. ASSUME NEW v \in Workers PROVE WorkerOk(v)'
    <3>1. CASE v = w
      BY <1>1, <2>1, <2>3, <2>6, <2>7, <3>1 DEF RowStates
    <3>2. CASE v # w /\ worker[v].pc # "idle" /\ worker[v].message = m
      <4>1. /\ worker'[v] = worker[v] /\ worker[v].attempt \in Nat
            /\ worker[v].attempt < outbox'[m].attempt /\ outbox'[m].attempt \in Nat
        BY <2>1, <2>3, <2>6, <2>7, <2>9, <3>2 DEF RowStates
      <4>2. ~HasRow(v)' /\ WorkerOk(v) /\ message'[m] = "kept"
        BY <1>1, <2>1, <3>2, <4>1 DEF IInv
      <4>3. ~Asking(v)
        BY <1>2, <2>1, <3>2, <4>2
      <4>4. worker[v].attempt <= outbox'[m].attempt
        BY <4>1
      <4>5. worker'[v].pc \in Bound => worker'[v].provider \in Providers
        BY <3>2, <4>1, <4>2
      <4> QED BY <3>2, <4>1, <4>2, <4>3, <4>4, <4>5, <2>1
    <3>3. CASE v # w /\ ~(worker[v].pc # "idle" /\ worker[v].message = m)
      BY <1>1, <1>2, <2>6, <2>7, <3>3 DEF IInv
    <3> QED BY <3>1, <3>2, <3>3
  <2>11. \A v, u \in Workers : Distinct(v, u)'
    BY <2>2, <2>7, <2>9, <2>1 DEF IInv, RowStates
  <2> QED BY <1>1, <2>6, <2>7, <2>8, <2>10, <2>11 DEF IInv
<1>6. \/ outbox' = swept /\ UNCHANGED worker
      \/ \E m \in due :
           /\ outbox' = [swept EXCEPT ![m] = Taken(m)]
           /\ worker' = [worker EXCEPT ![w] =
                [pc |-> "claimed", message |-> m, attempt |-> Taken(m).attempt,
                 provider |-> Taken(m).provider, started |-> FALSE]]
  BY Zenon DEF Claim, swept
<1> QED BY <1>4, <1>5, <1>6

\* The rows of a call go with it, and its workers lose them.
LEMMA MemoryErase ==
  ASSUME IInv, NEW c, Erase(c), UNCHANGED <<worker, asked>>
  PROVE  IInv'
<1>1. \A m \in Messages : message'[m] = IF m \in SaidIn(c) THEN "deleted" ELSE message[m]
  BY DEF Erase
<1>2. \A m \in Messages : outbox'[m] = IF CallOf[m] = c THEN NoRow ELSE outbox[m]
  BY DEF Erase
<1>3. \A m \in Messages : m \in SaidIn(c) <=> message[m] = "kept" /\ CallOf[m] = c
  BY DEF SaidIn, Kept
<1>4. NoRow \in RowStates /\ NoRow.status = "none" /\ ~NoRow.started
  BY MemoryBounds DEF NoRow, RowStates
<1>5. Types'
  BY <1>4 DEF IInv, Erase
<1>6. ASSUME NEW m \in Messages PROVE RowOk(m)'
  BY <1>1, <1>2, <1>3, <1>4 DEF IInv
<1>7. ASSUME NEW w \in Workers PROVE WorkerOk(w)'
  <2>1. CASE worker[w].pc # "idle" /\ worker[w].message \in SaidIn(c)
    BY <1>1, <1>2, <1>3, <1>4, <2>1 DEF IInv
  <2>2. CASE worker[w].pc # "idle" /\ worker[w].message \notin SaidIn(c)
    BY <1>1, <1>2, <1>3, <1>4, <2>2 DEF IInv
  <2> QED BY <2>1, <2>2
<1> QED BY <1>5, <1>6, <1>7 DEF IInv

LEMMA MemoryStep == IInv /\ [Next]_vars => IInv'
<1> SUFFICES ASSUME IInv, [Next]_vars PROVE IInv'
  OBVIOUS
<1>1. ASSUME NEW m \in Messages, Say(m) PROVE IInv'
  BY <1>1, MemorySay
<1>2. ASSUME NEW c \in Calls, HangUp(c) \/ RequestPurge(c) \/ Retry(c) PROVE IInv'
  BY <1>2, MemorySilent DEF HangUp, RequestPurge, Retry
<1>3. ASSUME NEW w \in Workers, Deliver(w) PROVE IInv'
  <2>1. ASSUME NEW expired \in SUBSET {m \in Messages : outbox[m].status = "processing"},
               Claim(w, expired)
        PROVE  IInv'
    BY <2>1, MemoryClaim
  <2>2. ASSUME NEW p \in Providers, Bind(w, p) PROVE IInv'
    BY <2>2, MemoryBind
  <2>3. CASE TakeLease(w)
    BY <2>3, MemoryAdvance DEF TakeLease
  <2>4. CASE CheckLink(w)
    BY <2>4, MemoryAdvance DEF CheckLink
  <2>5. CASE StartLease(w)
    BY <2>5, MemoryAdvance DEF StartLease
  <2>6. CASE StartRow(w) \/ Ask(w)
    BY <2>6, MemoryStartRow, MemoryAsk
  <2>7. CASE RecordLink(w)
    BY <2>7, MemoryAdvance DEF RecordLink
  <2>8. CASE FinishWell(w)
    BY <2>8, MemoryAdvance DEF FinishWell
  <2>9. CASE FinishBadly(w)
    BY <2>9, MemoryAdvance DEF FinishBadly
  <2>10. CASE MarkCompleted(w) \/ MarkFailed(w)
    BY <2>10, MemoryMarkCompleted, MemoryMarkFailed
  <2> QED BY <1>3, <2>1, <2>2, <2>3, <2>4, <2>5, <2>6, <2>7, <2>8, <2>9, <2>10 DEF Deliver
<1>4. ASSUME NEW w \in Workers, WorkerDies(w) PROVE IInv'
  BY <1>4, MemoryRelease DEF WorkerDies, rows
<1>5. ASSUME NEW p \in flight, Land(p) PROVE IInv'
  BY <1>5, MemorySilent DEF Land, rows
<1>6. ASSUME NEW c \in Calls, NEW expired \in SUBSET leases, ClaimJob(c, expired) PROVE IInv'
  BY <1>6, MemorySilent DEF ClaimJob
<1>7. CASE Decide \/ Forget \/ ResetLinks \/ SaveProgress \/ Fail
  BY <1>7, MemorySilent DEF Decide, Forget, ResetLinks, SaveProgress, Fail
<1>8. ASSUME NEW m \in Messages, Replay(m) PROVE IInv'
  BY <1>8, MemorySilent DEF Replay
<1>9. CASE Complete
  <2>1. CASE job[purger.job].dirty
    BY <1>9, <2>1, MemorySilent DEF Complete
  <2>2. CASE ~job[purger.job].dirty
    BY <1>9, <2>2, MemoryErase DEF Complete
  <2> QED BY <2>1, <2>2
<1>10. CASE PurgerDies \/ UNCHANGED vars
  BY <1>10, MemorySilent DEF PurgerDies, vars, rows
<1> QED
  BY <1>1, <1>2, <1>3, <1>4, <1>5, <1>6, <1>7, <1>8, <1>9, <1>10 DEF Next, Purge

\* Whatever the workers, their crashes and the leases they lose do, mem0 is
\* asked at most once to remember a sentence: memory_outbox.py marks a row
\* started before the request and never takes a started mem0 row up again.
THEOREM MemoryAskedOnce == Spec => []AskedOnce
<1>1. IInv => AskedOnce
  BY DEF IInv, AskedOnce
<1> QED BY <1>1, MemoryInit, MemoryStep, PTL DEF Spec

----------------------------------------------------------------------------
(***************************************************************************)
(* A deleted call is forgotten, and a delivery that is settled is          *)
(* remembered.                                                             *)
(*                                                                         *)
(* Neither is inductive.  What carries them, PInv, relates the workers,    *)
(* their leases, the requests in flight and the purge:                     *)
(*   - a worker has a lease around its request, and a request in flight    *)
(*     has left one behind that only an operator takes away, so a purge    *)
(*     that finds no lease finds nobody writing (RequestsLeased,           *)
(*     FlightsLeased, Quiet);                                              *)
(*   - the purge knows every provider that knows anything of the           *)
(*     conversation (JobKnows), and does not complete while mem0 is one    *)
(*     of them (PurgerSteps);                                              *)
(*   - from the reset of Atagia to the end of the replay, a sentence is    *)
(*     remembered or has yet to be replayed, and none of the deleted call  *)
(*     is remembered (Remembered, Forgotten);                              *)
(*   - so nothing that a completed purge took away is remembered, in       *)
(*     flight, or being asked for (Gone).                                  *)
(* Lemma Kept<Action> is that the action keeps PInv.                       *)
(***************************************************************************)
HIDE DEF Types, RowOk, Asking, WorkerOk, Distinct, HasRow, MayNotRepeat, Early, Bound

\* The steps at which the provider is about to be asked, is, or has accepted.
Fenced == {"fenced", "asking", "accepted"}

\* Worker w works on the delivery that took lease l.
Has(w, l) == /\ worker[w].pc # "idle" /\ worker[w].message = l.message
             /\ worker[w].attempt = l.attempt

\* Where everything is.
Places ==
  /\ call \in [Calls -> {"live", "ended"}]
  /\ leases \subseteq LeaseStates
  /\ links \subseteq Pairs /\ talks \subseteq Providers
  /\ memory \in MemoryStates
  /\ job \in [Calls -> JobStates]
  /\ purger \in PurgerStates
  /\ held \subseteq Pairs /\ flight \subseteq Pairs
  /\ crashes \in 0..MaxCrashes

\* What the provider or its links know has been said, and the conversation is
\* linked to whoever knows of it, or will soon.
PairsSaid == \A x \in held \cup flight \cup links : message[x[1]] # "unsaid"

PairsTalked == \A x \in held \cup flight : x[2] \in talks

WorkersTalked ==
  \A w \in Workers :
    worker[w].pc \in Fenced \/ (worker[w].pc = "unlinked" /\ \E l \in leases : Has(w, l))
    => worker[w].provider \in talks

\* A worker makes an attempt that was counted.
Attempts == \A w \in Workers : worker[w].pc # "idle" => worker[w].attempt # 0

\* A lease is of an attempt that was made, and of the worker that made it.
LeasesCounted ==
  \A l \in leases : /\ message[l.message] # "unsaid"
                    /\ message[l.message] = "deleted" \/ l.attempt <= outbox[l.message].attempt

LeasesOwned ==
  \A l \in leases, w \in Workers :
    Has(w, l) => worker[w].provider = l.provider /\ worker[w].pc \notin {"claimed", "bound"}

\* Around a request its worker has a started lease ...
RequestsLeased ==
  \A w \in Workers : worker[w].pc \in Fenced =>
    \E l \in leases : /\ Has(w, l) /\ l.provider = worker[w].provider
                      /\ l.status = "active" /\ l.started

\* ... and a request in flight has left one that only an operator takes away.
FlightsLeased ==
  \A x \in flight : \E l \in leases :
    /\ l.message = x[1] /\ l.provider = x[2] /\ l.started
    /\ l.status = "needs_attention" \/ \A w \in Workers : Has(w, l) => worker[w].pc = "failing"

\* A delivery is bound to the provider of its row, and a row that is completed
\* to the one that has it.
RowsBound ==
  /\ \A w \in Workers : worker[w].pc \notin {"idle", "claimed", "failed"} =>
       /\ worker[w].provider \in Providers
       /\ HasRow(w) => outbox[worker[w].message].provider = worker[w].provider
  /\ \A m \in Messages : outbox[m].status = "completed" => outbox[m].provider \in Providers

\* There is one purge at a time, of a call that ended and takes its messages
\* with it.
OneJob ==
  /\ \A c \in Calls : job[c].status \notin {"none", "completed"} <=> memory.job = c
  /\ memory.job # NULL => memory.state # "ready"
  /\ purger.pc # "idle" => memory.job \in Calls /\ purger.job = memory.job

JobsEnded ==
  \A c \in Calls :
    /\ job[c].status # "none" => call[c] = "ended"
    /\ job[c].status = "none" => ~job[c].replayed
    /\ job[c].status = "completed" => \A m \in Messages : CallOf[m] = c => message[m] # "kept"

\* It knows every provider that may remember something, and runs, or has
\* replayed, only when nobody is writing.
JobKnows ==
  memory.job \in Calls =>
    /\ \A l \in leases : l.provider \in job[memory.job].providers
    /\ \A x \in held \cup flight : x[2] \in job[memory.job].providers

Quiet == purger.pc # "idle" \/ (memory.job \in Calls /\ job[memory.job].replayed) => leases = {}

\* The purge resets and replays Atagia only, and never goes on with mem0.
PurgerSteps ==
  LET j == job[memory.job] IN
  /\ purger.pc \in {"forgetting", "resetting", "replaying"} =>
       ~j.replayed /\ "atagia" \in j.providers
  /\ purger.pc \in {"forgetting", "resetting", "replaying", "completing"} =>
       "mem0" \notin j.providers
  /\ purger.pc = "completing" => j.replayed \/ "atagia" \notin j.providers
  /\ purger.pc = "replaying" =>
       \A m \in purger.todo : message[m] = "kept" /\ CallOf[m] # memory.job

\* From the forgetting on, nobody remembers the call.
Forgotten ==
  /\ \/ purger.pc \in {"resetting", "replaying"}
     \/ memory.job \in Calls /\ job[memory.job].replayed
     => \A m \in Messages : CallOf[m] = memory.job => <<m, "atagia">> \notin held
  /\ purger.pc = "resetting" => \A m \in Messages : <<m, "atagia">> \notin held

\* The delivery of m to p is settled, or about to be.
Delivered(m, p) ==
  \/ <<m, p>> \in links
  \/ outbox[m].status = "completed" /\ outbox[m].provider = p
  \/ \E w \in Workers : /\ worker[w].message = m /\ worker[w].provider = p
                        /\ worker[w].pc \in {"accepted", "recorded", "finished"}

\* The purge has yet to replay m, or takes it away.
Rebuilding(m) ==
  /\ memory.job \in Calls
  /\ \/ CallOf[m] = memory.job
     \/ /\ ~job[memory.job].replayed /\ "atagia" \in job[memory.job].providers
        /\ purger.pc = "replaying" => m \in purger.todo

\* A kept sentence whose delivery is settled is remembered, or will be again.
Remembered ==
  \A m \in Messages, p \in Providers :
    message[m] = "kept" /\ Delivered(m, p) =>
      <<m, p>> \in held \/ (p = "atagia" /\ Rebuilding(m))

\* What a completed purge took away is gone for good.
Gone ==
  \A m \in Messages : job[CallOf[m]].status = "completed" =>
    /\ \A p \in Providers : <<m, p>> \notin held \cup flight
    /\ \A w \in Workers : worker[w].message = m => worker[w].pc # "asking"

\* The strengthening of DeletedIsForgotten and SettledIsRemembered.
PInv ==
  /\ Places /\ PairsSaid /\ PairsTalked /\ WorkersTalked
  /\ LeasesCounted /\ LeasesOwned /\ RequestsLeased /\ FlightsLeased /\ RowsBound
  /\ Attempts
  /\ OneJob /\ JobsEnded /\ JobKnows /\ Quiet /\ PurgerSteps
  /\ Forgotten /\ Remembered /\ Gone

\* What a step of w to pc does to the workers.
Moved(w, pc) ==
  /\ worker'[w].pc = pc /\ worker'[w].message = worker[w].message
  /\ worker'[w].attempt = worker[w].attempt /\ worker'[w].provider = worker[w].provider
  /\ \A v \in Workers : v = w \/ worker'[v] = worker[v]

LEMMA MemoryMoved ==
  ASSUME IInv, NEW w \in Workers, NEW pc, Goto(w, pc)
  PROVE  Moved(w, pc)
BY DEF IInv, Types, WorkerStates, Goto, Moved

\* What w does when it puts its delivery down.
Released(w) ==
  worker'[w] = Idle /\ \A v \in Workers : v = w \/ worker'[v] = worker[v]

LEMMA MemoryReleased ==
  ASSUME IInv, NEW w \in Workers, worker' = [worker EXCEPT ![w] = Idle]
  PROVE  Released(w)
BY DEF IInv, Types, Released

\* What is known of a worker that has a delivery.
LEMMA MemoryBusy ==
  ASSUME IInv
  PROVE  /\ worker \in [Workers -> WorkerStates] /\ outbox \in [Messages -> RowStates]
         /\ message \in [Messages -> {"unsaid", "kept", "deleted"}]
         /\ \A w \in Workers : worker[w].pc # "idle" =>
              /\ worker[w].message \in Messages /\ message[worker[w].message] # "unsaid"
              /\ \/ message[worker[w].message] = "deleted"
                 \/ worker[w].attempt <= outbox[worker[w].message].attempt
         /\ \A v, w \in Workers :
              /\ worker[v].pc # "idle" /\ worker[w].pc # "idle"
              /\ worker[v].message = worker[w].message
              /\ worker[v].attempt = worker[w].attempt
              => v = w
         /\ \A m \in Messages : message[m] # "kept" => outbox[m] = NoRow
BY DEF IInv, Types, RowOk, WorkerOk, Distinct

\* The lease of a request that is about to be sent.
Sent(l) == [l EXCEPT !.started = TRUE]

LEMMA MemorySent ==
  ASSUME NEW l \in LeaseStates
  PROVE  /\ Sent(l) \in LeaseStates /\ Sent(l).message = l.message
         /\ Sent(l).attempt = l.attempt /\ Sent(l).provider = l.provider
         /\ Sent(l).status = l.status /\ Sent(l).started
         /\ Surfaced(l) \in LeaseStates /\ Surfaced(l).message = l.message
         /\ Surfaced(l).attempt = l.attempt /\ Surfaced(l).provider = l.provider
         /\ Surfaced(l).status = "needs_attention" /\ Surfaced(l).started = l.started
BY DEF Sent, Surfaced, LeaseStates

\* Row n is the one of a new claim, or no worker gets more of it.
Kindled(n) ==
  /\ outbox'[n].provider = outbox[n].provider
  /\ outbox'[n].status = "completed" => outbox[n].status = "completed"
  /\ \/ outbox'[n].attempt = outbox[n].attempt + 1 /\ message[n] = "kept"
     \/ /\ outbox'[n].attempt = outbox[n].attempt
        /\ outbox'[n].status = "processing" => outbox[n].status = "processing"

LEMMA MemoryClaimed ==
  ASSUME IInv, NEW w \in Workers, NEW expired \in SUBSET Messages,
         \A m \in expired : outbox[m].status = "processing", Claim(w, expired)
  PROVE  /\ \A n \in Messages : Kindled(n)
         /\ \/ UNCHANGED worker
            \/ /\ worker'[w].pc = "claimed" /\ worker'[w].message \in Messages
               /\ message[worker'[w].message] = "kept"
               /\ worker'[w].attempt = outbox[worker'[w].message].attempt + 1
               /\ \A v \in Workers : v = w \/ worker'[v] = worker[v]
<1> DEFINE swept == [m \in Messages |->
                      IF m \in expired THEN Reclaimed(outbox[m]) ELSE outbox[m]]
           due == {m \in Messages : swept[m].status \in {"pending", "retry"}}
           Taken(m) == [swept[m] EXCEPT !.status = "processing",
                                        !.attempt = swept[m].attempt + 1]
<1>1. /\ worker[w].pc = "idle" /\ worker \in [Workers -> WorkerStates]
      /\ outbox \in [Messages -> RowStates]
  BY MemoryBusy DEF Claim
<1>2. \A m \in Messages :
        /\ swept[m] \in RowStates
        /\ swept[m].attempt = outbox[m].attempt /\ swept[m].provider = outbox[m].provider
        /\ \/ swept[m].status = outbox[m].status
           \/ /\ outbox[m].status = "processing"
              /\ swept[m].status \in {"needs_attention", "retry"}
        /\ swept[m].status \in {"pending", "retry"} => swept[m].attempt < MaxAttempts
  BY <1>1, MemorySwept DEF IInv, RowOk
<1>3. swept \in [Messages -> RowStates]
  BY <1>2
<1> HIDE DEF swept
<1>4. CASE outbox' = swept /\ UNCHANGED worker
  BY <1>2, <1>4 DEF Kindled
<1>5. ASSUME NEW m \in due, outbox' = [swept EXCEPT ![m] = Taken(m)],
             worker' = [worker EXCEPT ![w] =
               [pc |-> "claimed", message |-> m, attempt |-> Taken(m).attempt,
                provider |-> Taken(m).provider, started |-> FALSE]]
      PROVE  /\ \A n \in Messages : Kindled(n)
             /\ worker'[w].pc = "claimed" /\ worker'[w].message \in Messages
             /\ message[worker'[w].message] = "kept"
             /\ worker'[w].attempt = outbox[worker'[w].message].attempt + 1
             /\ \A v \in Workers : v = w \/ worker'[v] = worker[v]
  <2>1. /\ m \in Messages /\ swept[m] \in RowStates
        /\ swept[m].attempt = outbox[m].attempt /\ swept[m].provider = outbox[m].provider
        /\ swept[m].attempt + 1 \in 1..MaxAttempts
    BY <1>2, MemoryBounds DEF RowStates
  <2>2. /\ Taken(m).attempt = swept[m].attempt + 1 /\ Taken(m).status = "processing"
        /\ Taken(m).provider = swept[m].provider
    BY <2>1, MemoryTaken
  <2>3. message[m] = "kept"
    <3>1. outbox[m].status # "none"
      BY <1>2, <2>1
    <3> QED BY <2>1, <3>1, MemoryBusy DEF NoRow
  <2> HIDE DEF Taken
  <2>4. outbox'[m] = Taken(m) /\ \A n \in Messages : n = m \/ outbox'[n] = swept[n]
    BY <1>3, <1>5, <2>1
  <2>5. Kindled(m)
    BY <2>1, <2>2, <2>3, <2>4 DEF Kindled
  <2>6. \A n \in Messages : n = m \/ Kindled(n)
    BY <1>2, <2>4 DEF Kindled
  <2>7. /\ worker'[w].pc = "claimed" /\ worker'[w].message = m
        /\ worker'[w].attempt = Taken(m).attempt
        /\ \A v \in Workers : v = w \/ worker'[v] = worker[v]
    BY <1>1, <1>5
  <2> QED BY <2>1, <2>2, <2>3, <2>5, <2>6, <2>7
<1>6. \/ outbox' = swept /\ UNCHANGED worker
      \/ \E m \in due :
           /\ outbox' = [swept EXCEPT ![m] = Taken(m)]
           /\ worker' = [worker EXCEPT ![w] =
                [pc |-> "claimed", message |-> m, attempt |-> Taken(m).attempt,
                 provider |-> Taken(m).provider, started |-> FALSE]]
  BY Zenon DEF Claim, swept
<1>7. CASE \E m \in due :
           /\ outbox' = [swept EXCEPT ![m] = Taken(m)]
           /\ worker' = [worker EXCEPT ![w] =
                [pc |-> "claimed", message |-> m, attempt |-> Taken(m).attempt,
                 provider |-> Taken(m).provider, started |-> FALSE]]
  <2> HIDE DEF due, Taken
  <2> QED BY <1>5, <1>7
<1> QED BY <1>4, <1>6, <1>7

LEMMA KeptPut ==
  ASSUME PInv, IInv, NEW w \in Workers, NEW pc \in {"failing", "failed"}, Goto(w, pc),
         worker[w].pc \notin {"idle", "failing", "failed"},
         pc = "failing" => worker[w].pc # "claimed",
         UNCHANGED <<call, message, outbox, leases, links, talks, memory, job, purger,
                     held, flight, asked, crashes>>
  PROVE  PInv'
<1>1. Moved(w, pc)
  BY MemoryMoved
<1>2. /\ Places' /\ PairsSaid' /\ PairsTalked' /\ LeasesCounted' /\ OneJob' /\ JobsEnded'
      /\ JobKnows' /\ Quiet' /\ PurgerSteps' /\ Forgotten'
  BY DEF PInv, Places, PairsSaid, PairsTalked, LeasesCounted, OneJob, JobsEnded, JobKnows,
         Quiet, PurgerSteps, Forgotten
<1>3. WorkersTalked'
  BY <1>1 DEF PInv, Moved, WorkersTalked, Fenced, Has
<1>4. LeasesOwned'
  BY <1>1 DEF PInv, Moved, LeasesOwned, Has
<1>5. RequestsLeased'
  BY <1>1 DEF PInv, Moved, RequestsLeased, Fenced, Has
<1>6. FlightsLeased'
  BY <1>1 DEF PInv, Moved, FlightsLeased, Has
<1>7. RowsBound'
  BY <1>1 DEF PInv, Moved, RowsBound, HasRow
<1>8. Attempts'
  BY <1>1 DEF PInv, Moved, Attempts
<1>9. Remembered'
  BY <1>1 DEF PInv, Moved, Remembered, Delivered, Rebuilding
<1>10. Gone'
  BY <1>1 DEF PInv, Moved, Gone
<1> QED BY <1>2, <1>3, <1>4, <1>5, <1>6, <1>7, <1>8, <1>9, <1>10 DEF PInv

LEMMA KeptTakeLease ==
  ASSUME PInv, IInv, NEW w \in Workers, TakeLease(w), memory.state = "ready"
  PROVE  PInv'
<1>1. UNCHANGED <<call, message, outbox, links, talks, memory, job, purger, held, flight,
                  asked, crashes>>
  BY DEF TakeLease
<1>2. /\ worker[w].pc = "bound" /\ Moved(w, "leased") /\ worker[w] \in WorkerStates
      /\ worker[w].message \in Messages /\ worker[w].attempt \in 1..MaxAttempts
      /\ worker[w].provider \in Providers
      /\ message[worker[w].message] # "unsaid"
      /\ \/ message[worker[w].message] = "deleted"
         \/ worker[w].attempt <= outbox[worker[w].message].attempt
  BY MemoryMoved, MemoryBusy
     DEF TakeLease, MayWrite, PInv, RowsBound, Attempts, WorkerStates
<1>3. PICK n \in LeaseStates : /\ leases' = leases \cup {n} /\ n.message = worker[w].message
                            /\ n.attempt = worker[w].attempt
                            /\ n.provider = worker[w].provider
  <2> DEFINE n == [message |-> worker[w].message, attempt |-> worker[w].attempt,
                   provider |-> worker[w].provider, status |-> "active", started |-> FALSE]
  <2>1. leases' = leases \cup {n}
    BY DEF TakeLease, MayWrite
  <2>2. n \in LeaseStates
    BY <1>2 DEF LeaseStates
  <2> QED BY <2>1, <2>2
<1>4. purger.pc = "idle" /\ memory.job = NULL
  BY MemoryNull DEF PInv, OneJob
<1>5. \A v \in Workers : /\ worker[v].pc # "idle" /\ worker[v].message = worker[w].message
                         /\ worker[v].attempt = worker[w].attempt
                         => v = w
  BY <1>2, MemoryBusy
<1>6. PairsSaid' /\ PairsTalked' /\ OneJob' /\ JobsEnded' /\ PurgerSteps' /\ Forgotten'
  BY <1>1 DEF PInv, PairsSaid, PairsTalked, OneJob, JobsEnded, PurgerSteps, Forgotten
<1>7. Places'
  BY <1>1, <1>3 DEF PInv, Places
<1>8. WorkersTalked'
  BY <1>1, <1>2, <1>3, <1>5 DEF PInv, Moved, WorkersTalked, Fenced, Has
<1>9. LeasesCounted'
  BY <1>1, <1>2, <1>3 DEF PInv, LeasesCounted
<1>10. LeasesOwned'
  BY <1>2, <1>3, <1>5 DEF PInv, Moved, LeasesOwned, Has
<1>11. RequestsLeased'
  BY <1>2, <1>3 DEF PInv, Moved, RequestsLeased, Fenced, Has
<1>12. FlightsLeased'
  BY <1>1, <1>2, <1>3 DEF PInv, Moved, FlightsLeased, Has
<1>13. RowsBound'
  BY <1>1, <1>2 DEF PInv, Moved, RowsBound, HasRow
<1>14. Attempts'
  BY <1>2 DEF PInv, Moved, Attempts
<1>15. JobKnows'
  BY <1>1, <1>4, MemoryNull DEF JobKnows
<1>16. Quiet'
  BY <1>1, <1>4, MemoryNull DEF Quiet
<1>17. Remembered'
  BY <1>1, <1>2 DEF PInv, Moved, Remembered, Delivered, Rebuilding
<1>18. Gone'
  BY <1>1, <1>2 DEF PInv, Moved, Gone
<1> QED BY <1>6, <1>7, <1>8, <1>9, <1>10, <1>11, <1>12, <1>13, <1>14, <1>15, <1>16, <1>17,
           <1>18
           DEF PInv

LEMMA KeptLinked ==
  ASSUME PInv, IInv, NEW w \in Workers, CheckLink(w),
         <<worker[w].message, worker[w].provider>> \in links
  PROVE  PInv'
<1>1. UNCHANGED <<call, message, outbox, leases, links, talks, memory, job, purger, held,
                  flight, asked, crashes>>
  BY DEF CheckLink
<1>2. worker[w].pc = "leased" /\ Moved(w, "recorded")
  BY MemoryMoved DEF CheckLink
<1>3. /\ Places' /\ PairsSaid' /\ PairsTalked' /\ LeasesCounted' /\ OneJob' /\ JobsEnded'
      /\ JobKnows' /\ Quiet' /\ PurgerSteps' /\ Forgotten'
  BY <1>1
     DEF PInv, Places, PairsSaid, PairsTalked, LeasesCounted, OneJob, JobsEnded, JobKnows,
         Quiet, PurgerSteps, Forgotten
<1>4. WorkersTalked'
  BY <1>1, <1>2 DEF PInv, Moved, WorkersTalked, Fenced, Has
<1>5. LeasesOwned'
  BY <1>1, <1>2 DEF PInv, Moved, LeasesOwned, Has
<1>6. RequestsLeased'
  BY <1>1, <1>2 DEF PInv, Moved, RequestsLeased, Fenced, Has
<1>7. FlightsLeased'
  BY <1>1, <1>2 DEF PInv, Moved, FlightsLeased, Has
<1>8. RowsBound'
  BY <1>1, <1>2 DEF PInv, Moved, RowsBound, HasRow
<1>9. Attempts'
  BY <1>2 DEF PInv, Moved, Attempts
<1>10. Remembered'
  BY <1>1, <1>2 DEF PInv, Moved, Remembered, Delivered, Rebuilding
<1>11. Gone'
  BY <1>1, <1>2 DEF PInv, Moved, Gone
<1> QED BY <1>3, <1>4, <1>5, <1>6, <1>7, <1>8, <1>9, <1>10, <1>11 DEF PInv

LEMMA KeptUnlinked ==
  ASSUME PInv, IInv, NEW w \in Workers, CheckLink(w),
         <<worker[w].message, worker[w].provider>> \notin links
  PROVE  PInv'
<1>1. UNCHANGED <<call, message, outbox, leases, links, memory, job, purger, held, flight,
                  asked, crashes>>
  BY DEF CheckLink
<1>2. worker[w].pc = "leased" /\ Moved(w, "unlinked")
  BY MemoryMoved DEF CheckLink
<1>3. talks' = talks \cup {worker[w].provider}
  BY DEF CheckLink
<1>4. worker[w].provider \in Providers
  BY <1>2 DEF PInv, RowsBound
<1>5. /\ PairsSaid' /\ LeasesCounted' /\ OneJob' /\ JobsEnded' /\ JobKnows' /\ Quiet'
      /\ PurgerSteps' /\ Forgotten'
  BY <1>1
     DEF PInv, PairsSaid, LeasesCounted, OneJob, JobsEnded, JobKnows, Quiet, PurgerSteps,
         Forgotten
<1>6. Places'
  BY <1>1, <1>3, <1>4 DEF PInv, Places
<1>7. PairsTalked'
  BY <1>1, <1>3 DEF PInv, PairsTalked
<1>8. WorkersTalked'
  BY <1>1, <1>2, <1>3 DEF PInv, Moved, WorkersTalked, Has
<1>9. LeasesOwned'
  BY <1>1, <1>2 DEF PInv, Moved, LeasesOwned, Has
<1>10. RequestsLeased'
  BY <1>1, <1>2 DEF PInv, Moved, RequestsLeased, Fenced, Has
<1>11. FlightsLeased'
  BY <1>1, <1>2 DEF PInv, Moved, FlightsLeased, Has
<1>12. RowsBound'
  BY <1>1, <1>2 DEF PInv, Moved, RowsBound, HasRow
<1>13. Attempts'
  BY <1>2 DEF PInv, Moved, Attempts
<1>14. Remembered'
  BY <1>1, <1>2 DEF PInv, Moved, Remembered, Delivered, Rebuilding
<1>15. Gone'
  BY <1>1, <1>2 DEF PInv, Moved, Gone
<1> QED BY <1>5, <1>6, <1>7, <1>8, <1>9, <1>10, <1>11, <1>12, <1>13, <1>14, <1>15 DEF PInv

LEMMA KeptStartLease ==
  ASSUME PInv, IInv, NEW w \in Workers, Lease(w) # {}, worker[w].pc = "unlinked",
         Goto(w, "fenced"), leases' = (leases \ Lease(w)) \cup {Sent(l) : l \in Lease(w)},
         UNCHANGED <<call, message, outbox, links, talks, memory, job, purger, held,
                     flight, asked, crashes>>
  PROVE  PInv'
<1>1. Moved(w, "fenced") /\ leases \subseteq LeaseStates
  BY MemoryMoved DEF PInv, Places
<1>2. \A l \in Lease(w) : /\ l \in leases /\ Has(w, l)
                           /\ l.status = "active" /\ l.provider = worker[w].provider
  BY DEF Lease, Has, PInv, LeasesOwned
<1>3. \A l \in leases : \E k \in leases' :
         /\ k.message = l.message /\ k.attempt = l.attempt /\ k.provider = l.provider
         /\ k.status = l.status /\ (l.started \/ l \in Lease(w) => k.started)
  BY <1>1, MemorySent
<1>4. \A k \in leases' : k \in LeaseStates /\ \E l \in leases :
         /\ k.message = l.message /\ k.attempt = l.attempt /\ k.provider = l.provider
         /\ k.status = l.status
  BY <1>1, <1>2, MemorySent
<1>5. PairsSaid' /\ PairsTalked' /\ OneJob' /\ JobsEnded' /\ PurgerSteps' /\ Forgotten'
  BY DEF PInv, PairsSaid, PairsTalked, OneJob, JobsEnded, PurgerSteps, Forgotten
<1>6. Places'
  BY <1>4 DEF PInv, Places
<1>7. WorkersTalked'
  BY <1>1, <1>2, <1>4 DEF PInv, Moved, WorkersTalked, Has
<1>8. LeasesCounted'
  BY <1>4 DEF PInv, LeasesCounted
<1>9. LeasesOwned'
  BY <1>1, <1>4 DEF PInv, Moved, LeasesOwned, Has
<1>10. RequestsLeased'
  <2>1. ASSUME NEW v \in Workers, v # w, worker'[v].pc \in Fenced
        PROVE  \E k \in leases' : /\ Has(v, k)' /\ k.provider = worker'[v].provider
                                  /\ k.status = "active" /\ k.started
    <3>1. worker'[v] = worker[v]
      BY <1>1, <2>1 DEF Moved
    <3>2. PICK l \in leases : /\ Has(v, l) /\ l.provider = worker[v].provider
                              /\ l.status = "active" /\ l.started
      BY <2>1, <3>1 DEF PInv, RequestsLeased
    <3> QED BY <1>3, <3>1, <3>2 DEF Has
  <2>2. \E k \in leases' : /\ Has(w, k)' /\ k.provider = worker'[w].provider
                           /\ k.status = "active" /\ k.started
    <3>1. PICK l \in Lease(w) : TRUE
      OBVIOUS
    <3> QED BY <1>1, <1>2, <1>3 DEF Has, Moved
  <2> QED BY <2>1, <2>2 DEF RequestsLeased
<1>11. FlightsLeased'
  <2>1. ASSUME NEW x \in flight
        PROVE  \E k \in leases' :
                 /\ k.message = x[1] /\ k.provider = x[2] /\ k.started
                 /\ \/ k.status = "needs_attention"
                    \/ \A v \in Workers : Has(v, k)' => worker'[v].pc = "failing"
    <3>1. PICK l \in leases :
            /\ l.message = x[1] /\ l.provider = x[2] /\ l.started
            /\ \/ l.status = "needs_attention"
               \/ \A v \in Workers : Has(v, l) => worker[v].pc = "failing"
      BY DEF PInv, FlightsLeased
    <3> QED BY <1>1, <1>3, <3>1 DEF Has, Moved
  <2> QED BY <2>1 DEF FlightsLeased
<1>12. RowsBound'
  BY <1>1 DEF PInv, Moved, RowsBound, HasRow
<1>13. Attempts'
  BY <1>1 DEF PInv, Moved, Attempts
<1>14. JobKnows'
  BY <1>4 DEF PInv, JobKnows
<1>15. Quiet'
  BY <1>4 DEF PInv, Quiet
<1>16. Remembered'
  BY <1>1 DEF PInv, Moved, Remembered, Delivered, Rebuilding
<1>17. Gone'
  BY <1>1 DEF PInv, Moved, Gone
<1> QED BY <1>5, <1>6, <1>7, <1>8, <1>9, <1>10, <1>11, <1>12, <1>13, <1>14, <1>15, <1>16,
           <1>17
           DEF PInv

LEMMA KeptStartRow ==
  ASSUME PInv, IInv, NEW w \in Workers, StartRow(w)
  PROVE  PInv'
<1>1. UNCHANGED <<call, message, leases, links, talks, memory, job, purger, held, flight,
                  asked, crashes>>
  BY DEF StartRow
<1>2. /\ worker[w].pc = "fenced" /\ worker[w].message \in Messages
      /\ outbox \in [Messages -> RowStates] /\ worker \in [Workers -> WorkerStates]
  BY MemoryBusy DEF StartRow
<1>3. /\ worker'[w].pc = (IF HasRow(w) THEN "asking" ELSE "failing")
      /\ worker'[w].message = worker[w].message
      /\ worker'[w].attempt = worker[w].attempt /\ worker'[w].provider = worker[w].provider
      /\ \A v \in Workers : v = w \/ worker'[v] = worker[v]
  BY <1>2 DEF StartRow, MayAsk
<1>4. \A m \in Messages :
        /\ outbox'[m].status = outbox[m].status
        /\ outbox'[m].attempt = outbox[m].attempt
        /\ outbox'[m].provider = outbox[m].provider
  BY DEF StartRow, WriteRow, RowStates
<1>5. HasRow(w) => message[worker[w].message] = "kept"
  BY <1>2, MemoryBusy DEF HasRow, NoRow
<1>6. \A v \in Workers : worker[v].pc # "idle" => worker[v].message \in Messages
  BY MemoryBusy
<1>7. /\ Places' /\ PairsSaid' /\ PairsTalked' /\ OneJob' /\ JobsEnded' /\ JobKnows'
      /\ Quiet' /\ PurgerSteps' /\ Forgotten'
  BY <1>1
     DEF PInv, Places, PairsSaid, PairsTalked, OneJob, JobsEnded, JobKnows, Quiet,
         PurgerSteps, Forgotten
<1>8. WorkersTalked'
  BY <1>1, <1>2, <1>3 DEF PInv, WorkersTalked, Fenced, Has
<1>9. LeasesCounted'
  BY <1>1, <1>4 DEF PInv, Places, LeasesCounted, LeaseStates
<1>10. LeasesOwned'
  BY <1>1, <1>2, <1>3 DEF PInv, LeasesOwned, Has
<1>11. RequestsLeased'
  BY <1>1, <1>2, <1>3 DEF PInv, RequestsLeased, Fenced, Has
<1>12. FlightsLeased'
  BY <1>1, <1>2, <1>3 DEF PInv, FlightsLeased, Has
<1>13. RowsBound'
  BY <1>2, <1>3, <1>4, <1>6 DEF PInv, RowsBound, HasRow
<1>14. Attempts'
  BY <1>2, <1>3 DEF PInv, Attempts
<1>15. Remembered'
  BY <1>1, <1>3, <1>4 DEF PInv, Remembered, Delivered, Rebuilding
<1>16. Gone'
  BY <1>1, <1>3, <1>5, MemoryCalls DEF PInv, Gone, JobsEnded
<1> QED BY <1>7, <1>8, <1>9, <1>10, <1>11, <1>12, <1>13, <1>14, <1>15, <1>16 DEF PInv

LEMMA KeptAsk ==
  ASSUME PInv, IInv, NEW w \in Workers, Ask(w)
  PROVE  PInv'
<1>1. UNCHANGED <<call, message, outbox, leases, links, talks, memory, job, purger, crashes>>
  BY DEF Ask, rows
<1>2. /\ worker[w].pc = "asking" /\ <<worker[w].message, worker[w].provider>> \in Pairs
      /\ message[worker[w].message] # "unsaid"
  BY MemoryBusy DEF Ask, Pairs, PInv, RowsBound
<1>3. \/ /\ Moved(w, "accepted") /\ flight' = flight
         /\ held' = held \cup {<<worker[w].message, worker[w].provider>>}
      \/ /\ Moved(w, "failing") /\ held' = held
         /\ flight' \in {flight, flight \cup {<<worker[w].message, worker[w].provider>>}}
  BY MemoryMoved DEF Ask
<1>4. PICK l \in leases : /\ Has(w, l) /\ l.provider = worker[w].provider
                          /\ l.status = "active" /\ l.started
  BY <1>2 DEF PInv, RequestsLeased, Fenced
<1>5. purger.pc = "idle" /\ ~(memory.job \in Calls /\ job[memory.job].replayed)
  BY DEF PInv, Quiet
<1>6. worker[w].provider \in talks
  BY <1>2 DEF PInv, WorkersTalked, Fenced
<1>7. \A v \in Workers : Has(v, l) => v = w
  BY <1>4, MemoryBusy DEF Has
<1>8. LeasesCounted' /\ OneJob' /\ JobsEnded' /\ Quiet' /\ PurgerSteps'
  BY <1>1 DEF PInv, LeasesCounted, OneJob, JobsEnded, Quiet, PurgerSteps
<1>9. Places'
  BY <1>1, <1>2, <1>3 DEF PInv, Places
<1>10. PairsSaid'
  BY <1>1, <1>2, <1>3 DEF PInv, PairsSaid
<1>11. PairsTalked'
  BY <1>1, <1>3, <1>6 DEF PInv, PairsTalked
<1>12. WorkersTalked'
  BY <1>1, <1>3, <1>6 DEF PInv, Moved, WorkersTalked, Has
<1>13. LeasesOwned'
  BY <1>1, <1>3, <1>4 DEF PInv, Moved, LeasesOwned, Has
<1>14. RequestsLeased'
  BY <1>1, <1>3, <1>4 DEF PInv, Moved, RequestsLeased, Has
<1>15. FlightsLeased'
  BY <1>1, <1>2, <1>3, <1>4, <1>7 DEF PInv, Moved, FlightsLeased, Has
<1>16. RowsBound'
  BY <1>1, <1>2, <1>3 DEF PInv, Moved, RowsBound, HasRow
<1>17. Attempts'
  BY <1>2, <1>3 DEF PInv, Moved, Attempts
<1>18. JobKnows'
  BY <1>1, <1>3, <1>4 DEF PInv, JobKnows
<1>19. Forgotten'
  BY <1>1, <1>5 DEF Forgotten
<1>20. Remembered'
  BY <1>1, <1>3 DEF PInv, Moved, Remembered, Delivered, Rebuilding
<1>21. Gone'
  BY <1>1, <1>2, <1>3 DEF PInv, Moved, Gone
<1> QED BY <1>8, <1>9, <1>10, <1>11, <1>12, <1>13, <1>14, <1>15, <1>16, <1>17, <1>18,
           <1>19, <1>20, <1>21
           DEF PInv

LEMMA KeptRecordLink ==
  ASSUME PInv, IInv, NEW w \in Workers, RecordLink(w)
  PROVE  PInv'
<1>1. UNCHANGED <<call, message, outbox, leases, talks, memory, job, purger, held, flight,
                  asked, crashes>>
  BY DEF RecordLink
<1>2. worker[w].pc = "accepted" /\ Moved(w, "recorded")
  BY MemoryMoved DEF RecordLink
<1>3. /\ links' = links \cup {<<worker[w].message, worker[w].provider>>}
      /\ <<worker[w].message, worker[w].provider>> \in Pairs
      /\ message[worker[w].message] # "unsaid"
  BY MemoryBusy DEF RecordLink, Pairs, PInv, RowsBound
<1>4. /\ PairsTalked' /\ LeasesCounted' /\ OneJob' /\ JobsEnded' /\ JobKnows' /\ Quiet'
      /\ PurgerSteps' /\ Forgotten'
  BY <1>1
     DEF PInv, PairsTalked, LeasesCounted, OneJob, JobsEnded, JobKnows, Quiet, PurgerSteps,
         Forgotten
<1>5. Places'
  BY <1>1, <1>3 DEF PInv, Places
<1>6. PairsSaid'
  BY <1>1, <1>3 DEF PInv, PairsSaid
<1>7. WorkersTalked'
  BY <1>1, <1>2 DEF PInv, Moved, WorkersTalked, Fenced, Has
<1>8. LeasesOwned'
  BY <1>1, <1>2 DEF PInv, Moved, LeasesOwned, Has
<1>9. RequestsLeased'
  BY <1>1, <1>2 DEF PInv, Moved, RequestsLeased, Fenced, Has
<1>10. FlightsLeased'
  BY <1>1, <1>2 DEF PInv, Moved, FlightsLeased, Has
<1>11. RowsBound'
  BY <1>1, <1>2 DEF PInv, Moved, RowsBound, HasRow
<1>12. Attempts'
  BY <1>2 DEF PInv, Moved, Attempts
<1>13. Remembered'
  BY <1>1, <1>2, <1>3 DEF PInv, Moved, Remembered, Delivered, Rebuilding
<1>14. Gone'
  BY <1>1, <1>2 DEF PInv, Moved, Gone
<1> QED BY <1>4, <1>5, <1>6, <1>7, <1>8, <1>9, <1>10, <1>11, <1>12, <1>13, <1>14 DEF PInv

LEMMA KeptFinishWell ==
  ASSUME PInv, IInv, NEW w \in Workers, FinishWell(w)
  PROVE  PInv'
<1>1. UNCHANGED <<call, message, outbox, links, talks, memory, job, purger, held, flight,
                  asked, crashes>>
  BY DEF FinishWell
<1>2. worker[w].pc = "recorded" /\ Moved(w, "finished")
  BY MemoryMoved DEF FinishWell
<1>3. leases' = leases \ Lease(w) /\ \A l \in Lease(w) : Has(w, l) /\ l.status = "active"
  BY DEF FinishWell, Lease, Has
<1>4. \A l \in leases, v \in Workers : Has(v, l) /\ Has(w, l) => v = w
  BY MemoryBusy DEF Has
<1>5. PairsSaid' /\ PairsTalked' /\ OneJob' /\ JobsEnded' /\ PurgerSteps' /\ Forgotten'
  BY <1>1 DEF PInv, PairsSaid, PairsTalked, OneJob, JobsEnded, PurgerSteps, Forgotten
<1>6. Places'
  BY <1>1, <1>3 DEF PInv, Places
<1>7. WorkersTalked'
  BY <1>1, <1>2, <1>3 DEF PInv, Moved, WorkersTalked, Fenced, Has
<1>8. LeasesCounted'
  BY <1>1, <1>3 DEF PInv, LeasesCounted
<1>9. LeasesOwned'
  BY <1>2, <1>3 DEF PInv, Moved, LeasesOwned, Has
<1>10. RequestsLeased'
  BY <1>2, <1>3, <1>4 DEF PInv, Moved, RequestsLeased, Fenced, Has
<1>11. FlightsLeased'
  BY <1>1, <1>2, <1>3 DEF PInv, Moved, FlightsLeased, Has
<1>12. RowsBound'
  BY <1>1, <1>2 DEF PInv, Moved, RowsBound, HasRow
<1>13. Attempts'
  BY <1>2 DEF PInv, Moved, Attempts
<1>14. JobKnows'
  BY <1>1, <1>3 DEF PInv, JobKnows
<1>15. Quiet'
  BY <1>1, <1>3 DEF PInv, Quiet
<1>16. Remembered'
  BY <1>1, <1>2 DEF PInv, Moved, Remembered, Delivered, Rebuilding
<1>17. Gone'
  BY <1>1, <1>2 DEF PInv, Moved, Gone
<1> QED BY <1>5, <1>6, <1>7, <1>8, <1>9, <1>10, <1>11, <1>12, <1>13, <1>14, <1>15, <1>16,
           <1>17
           DEF PInv

LEMMA KeptFinishBadly ==
  ASSUME PInv, IInv, NEW w \in Workers, FinishBadly(w)
  PROVE  PInv'
<1>1. UNCHANGED <<call, message, outbox, links, talks, job, purger, held, flight, asked,
                  crashes>>
  BY DEF FinishBadly
<1>2. worker[w].pc = "failing" /\ Moved(w, "failed")
  BY MemoryMoved DEF FinishBadly
<1>3. leases \subseteq LeaseStates
  BY DEF PInv, Places
<1>4. \A l \in leases : l \in Lease(w) <=> Has(w, l) /\ l.status = "active"
  BY <1>2 DEF Lease, Has
<1>5. \A l \in leases : l \notin Lease(w) => l \in leases'
  BY DEF FinishBadly
<1>6. \A l \in Lease(w) : l.started => \E k \in leases' :
         /\ k.message = l.message /\ k.attempt = l.attempt /\ k.provider = l.provider
         /\ k.status = "needs_attention" /\ k.started
  <2>1. ASSUME NEW l \in Lease(w), l.started PROVE l \in LeaseStates /\ Surfaced(l) \in leases'
    BY <1>3, <2>1 DEF FinishBadly, Lease
  <2> QED BY <2>1, MemorySent
<1>7. \A k \in leases' : k \in LeaseStates /\ \E l \in leases :
         k.message = l.message /\ k.attempt = l.attempt /\ k.provider = l.provider
  BY <1>3 DEF FinishBadly, Lease, Surfaced, LeaseStates
<1>8. /\ memory'.job = memory.job /\ memory' \in MemoryStates
      /\ memory'.state = memory.state \/ memory'.state = "needs_attention"
  BY DEF FinishBadly, PInv, Places, MemoryStates
<1>9. leases = {} => leases' = {}
  BY DEF FinishBadly, Lease
<1>10. \A l \in leases, v \in Workers : Has(v, l) /\ Has(w, l) => v = w
  BY MemoryBusy DEF Has
<1>11. PairsSaid' /\ PairsTalked' /\ JobsEnded'
  BY <1>1 DEF PInv, PairsSaid, PairsTalked, JobsEnded
<1>12. Places'
  BY <1>1, <1>7, <1>8 DEF PInv, Places
<1>13. WorkersTalked'
  BY <1>1, <1>2, <1>7 DEF PInv, Moved, WorkersTalked, Fenced, Has
<1>14. LeasesCounted'
  BY <1>1, <1>7 DEF PInv, LeasesCounted
<1>15. LeasesOwned'
  BY <1>2, <1>7 DEF PInv, Moved, LeasesOwned, Has
<1>16. RequestsLeased'
  BY <1>2, <1>4, <1>5, <1>10 DEF PInv, Moved, RequestsLeased, Fenced, Has
<1>17. FlightsLeased'
  <2>1. ASSUME NEW x \in flight
        PROVE  \E k \in leases' :
                 /\ k.message = x[1] /\ k.provider = x[2] /\ k.started
                 /\ \/ k.status = "needs_attention"
                    \/ \A v \in Workers : Has(v, k)' => worker'[v].pc = "failing"
    <3>1. PICK l \in leases :
            /\ l.message = x[1] /\ l.provider = x[2] /\ l.started
            /\ \/ l.status = "needs_attention"
               \/ \A v \in Workers : Has(v, l) => worker[v].pc = "failing"
      BY DEF PInv, FlightsLeased
    <3>2. CASE l \in Lease(w)
      BY <1>6, <3>1, <3>2
    <3>3. CASE l \notin Lease(w)
      BY <1>2, <1>3, <1>4, <1>5, <3>1, <3>3 DEF Has, Moved, LeaseStates
    <3> QED BY <3>2, <3>3
  <2> QED BY <1>1, <2>1 DEF FlightsLeased
<1>18. RowsBound'
  BY <1>1, <1>2 DEF PInv, Moved, RowsBound, HasRow
<1>19. Attempts'
  BY <1>2 DEF PInv, Moved, Attempts
<1>20. OneJob'
  BY <1>1, <1>8 DEF PInv, OneJob
<1>21. JobKnows'
  BY <1>1, <1>7, <1>8 DEF PInv, JobKnows
<1>22. Quiet'
  BY <1>1, <1>8, <1>9 DEF PInv, Quiet
<1>23. PurgerSteps'
  BY <1>1, <1>8 DEF PInv, PurgerSteps
<1>24. Forgotten'
  BY <1>1, <1>8 DEF PInv, Forgotten
<1>25. Remembered'
  BY <1>1, <1>2, <1>8 DEF PInv, Moved, Remembered, Delivered, Rebuilding
<1>26. Gone'
  BY <1>1, <1>2 DEF PInv, Moved, Gone
<1> QED BY <1>11, <1>12, <1>13, <1>14, <1>15, <1>16, <1>17, <1>18, <1>19, <1>20, <1>21,
           <1>22, <1>23, <1>24, <1>25, <1>26
           DEF PInv

LEMMA KeptDrop ==
  ASSUME PInv, IInv, NEW w \in Workers, worker[w].pc # "idle",
         worker' = [worker EXCEPT ![w] = Idle],
         NEW sent \in SUBSET {x \in Pairs : /\ worker[w].pc = "asking"
                                            /\ x = <<worker[w].message, worker[w].provider>>},
         crashes' \in 0..MaxCrashes, flight' = flight \cup sent,
         UNCHANGED <<call, message, outbox, leases, links, talks, memory, job, purger,
                     held, asked>>
  PROVE  PInv'
<1>1. Released(w) /\ Idle.pc = "idle"
  BY MemoryReleased DEF Idle
<1>2. \A x \in sent : /\ worker[w].pc = "asking" /\ x \in Pairs /\ x[1] = worker[w].message
                      /\ x[2] = worker[w].provider
                      /\ x = <<worker[w].message, worker[w].provider>>
                      /\ message[x[1]] # "unsaid" /\ x[2] \in talks
  BY MemoryBusy DEF PInv, WorkersTalked, Fenced
<1>3. worker[w].pc = "asking" => \E l \in leases :
         /\ Has(w, l) /\ l.provider = worker[w].provider /\ l.status = "active" /\ l.started
         /\ \A v \in Workers : Has(v, l) => v = w
  <2>1. \A l \in leases, v \in Workers : Has(v, l) /\ Has(w, l) => v = w
    BY MemoryBusy DEF Has
  <2> QED BY <2>1 DEF PInv, RequestsLeased, Fenced
<1>4. LeasesCounted' /\ OneJob' /\ JobsEnded' /\ Quiet' /\ PurgerSteps' /\ Forgotten'
  BY DEF PInv, LeasesCounted, OneJob, JobsEnded, Quiet, PurgerSteps, Forgotten
<1>5. Places'
  BY DEF PInv, Places
<1>6. PairsSaid'
  BY <1>2 DEF PInv, PairsSaid
<1>7. PairsTalked'
  BY <1>2 DEF PInv, PairsTalked
<1>8. WorkersTalked'
  BY <1>1 DEF PInv, WorkersTalked, Fenced, Has
<1>9. LeasesOwned'
  BY <1>1 DEF PInv, LeasesOwned, Has
<1>10. RequestsLeased'
  BY <1>1 DEF PInv, RequestsLeased, Fenced, Has
<1>11. FlightsLeased'
  BY <1>1, <1>3 DEF PInv, Released, FlightsLeased, Has
<1>12. RowsBound'
  BY <1>1 DEF PInv, RowsBound, HasRow
<1>13. Attempts'
  BY <1>1 DEF PInv, Attempts
<1>14. JobKnows'
  BY <1>3 DEF PInv, JobKnows
<1>15. Remembered'
  BY <1>1 DEF PInv, Remembered, Delivered, Rebuilding
<1>16. Gone'
  BY <1>1 DEF PInv, Gone
<1> QED BY <1>4, <1>5, <1>6, <1>7, <1>8, <1>9, <1>10, <1>11, <1>12, <1>13, <1>14, <1>15,
           <1>16
           DEF PInv

LEMMA KeptMarkCompleted ==
  ASSUME PInv, IInv, NEW w \in Workers, MarkCompleted(w)
  PROVE  PInv'
<1>1. UNCHANGED <<call, message, leases, links, talks, memory, job, purger, held, flight,
                  asked, crashes>>
  BY DEF MarkCompleted
<1>2. worker[w].pc = "finished" /\ Released(w) /\ Idle.pc = "idle"
  BY MemoryReleased DEF MarkCompleted, Idle
<1>3. \A m \in Messages :
         /\ outbox'[m].attempt = outbox[m].attempt
         /\ outbox'[m].provider = outbox[m].provider
         /\ \/ outbox'[m].status = outbox[m].status
            \/ /\ m = worker[w].message /\ outbox'[m].status = "completed"
               /\ outbox[m].provider = worker[w].provider
  BY DEF MarkCompleted, WriteRow, PInv, RowsBound
<1>4. \A v \in Workers : worker[v].pc # "idle" => worker[v].message \in Messages
  BY MemoryBusy
<1>5. /\ Places' /\ PairsSaid' /\ PairsTalked' /\ OneJob' /\ JobsEnded' /\ JobKnows'
      /\ Quiet' /\ PurgerSteps' /\ Forgotten'
  BY <1>1
     DEF PInv, Places, PairsSaid, PairsTalked, OneJob, JobsEnded, JobKnows, Quiet,
         PurgerSteps, Forgotten
<1>6. WorkersTalked'
  BY <1>1, <1>2 DEF PInv, Released, WorkersTalked, Fenced, Has
<1>7. LeasesCounted'
  BY <1>1, <1>3 DEF PInv, Places, LeasesCounted, LeaseStates
<1>8. LeasesOwned'
  BY <1>1, <1>2 DEF PInv, Released, LeasesOwned, Has
<1>9. RequestsLeased'
  BY <1>1, <1>2 DEF PInv, Released, RequestsLeased, Fenced, Has
<1>10. FlightsLeased'
  BY <1>1, <1>2 DEF PInv, Released, FlightsLeased, Has
<1>11. RowsBound'
  BY <1>2, <1>3, <1>4 DEF PInv, Released, RowsBound, HasRow
<1>12. Attempts'
  BY <1>2 DEF PInv, Released, Attempts
<1>13. Remembered'
  BY <1>1, <1>2, <1>3 DEF PInv, Released, Remembered, Delivered, Rebuilding
<1>14. Gone'
  BY <1>1, <1>2 DEF PInv, Released, Gone
<1> QED BY <1>5, <1>6, <1>7, <1>8, <1>9, <1>10, <1>11, <1>12, <1>13, <1>14 DEF PInv

LEMMA KeptMarkFailed ==
  ASSUME PInv, IInv, NEW w \in Workers, MarkFailed(w)
  PROVE  PInv'
<1>1. UNCHANGED <<call, message, leases, links, talks, memory, job, purger, held, flight,
                  asked, crashes>>
  BY DEF MarkFailed
<1>2. worker[w].pc = "failed" /\ Released(w) /\ Idle.pc = "idle"
  BY MemoryReleased DEF MarkFailed, Idle
<1>3. \A m \in Messages :
         /\ outbox'[m].attempt = outbox[m].attempt
         /\ outbox'[m].provider = outbox[m].provider
         /\ outbox'[m].status \in {outbox[m].status, "needs_attention", "retry"}
  BY DEF MarkFailed, WriteRow
<1>4. \A v \in Workers : worker[v].pc # "idle" => worker[v].message \in Messages
  BY MemoryBusy
<1>5. /\ Places' /\ PairsSaid' /\ PairsTalked' /\ OneJob' /\ JobsEnded' /\ JobKnows'
      /\ Quiet' /\ PurgerSteps' /\ Forgotten'
  BY <1>1
     DEF PInv, Places, PairsSaid, PairsTalked, OneJob, JobsEnded, JobKnows, Quiet,
         PurgerSteps, Forgotten
<1>6. WorkersTalked'
  BY <1>1, <1>2 DEF PInv, Released, WorkersTalked, Fenced, Has
<1>7. LeasesCounted'
  BY <1>1, <1>3 DEF PInv, Places, LeasesCounted, LeaseStates
<1>8. LeasesOwned'
  BY <1>1, <1>2 DEF PInv, Released, LeasesOwned, Has
<1>9. RequestsLeased'
  BY <1>1, <1>2 DEF PInv, Released, RequestsLeased, Fenced, Has
<1>10. FlightsLeased'
  BY <1>1, <1>2 DEF PInv, Released, FlightsLeased, Has
<1>11. RowsBound'
  BY <1>2, <1>3, <1>4 DEF PInv, Released, RowsBound, HasRow
<1>12. Attempts'
  BY <1>2 DEF PInv, Released, Attempts
<1>13. Remembered'
  BY <1>1, <1>2, <1>3 DEF PInv, Released, Remembered, Delivered, Rebuilding
<1>14. Gone'
  BY <1>1, <1>2 DEF PInv, Released, Gone
<1> QED BY <1>5, <1>6, <1>7, <1>8, <1>9, <1>10, <1>11, <1>12, <1>13, <1>14 DEF PInv

LEMMA KeptBind ==
  ASSUME PInv, IInv, NEW w \in Workers, NEW p \in Providers, Bind(w, p)
  PROVE  PInv'
<1>1. UNCHANGED <<call, message, leases, links, talks, memory, job, purger, held, flight,
                  asked, crashes>>
  BY DEF Bind
<1>2. /\ worker[w].pc = "claimed" /\ worker[w].message \in Messages
      /\ outbox \in [Messages -> RowStates] /\ worker \in [Workers -> WorkerStates]
  BY MemoryBusy DEF Bind
<1>3. /\ worker'[w].pc = "failed" \/ (worker'[w].pc = "bound" /\ worker'[w].provider = p)
      /\ worker'[w].message = worker[w].message /\ worker'[w].attempt = worker[w].attempt
      /\ \A v \in Workers : v = w \/ worker'[v] = worker[v]
  BY <1>2 DEF Bind, Goto, WorkerStates
<1>4. \A m \in Messages :
         /\ outbox'[m].attempt = outbox[m].attempt /\ outbox'[m].status = outbox[m].status
         /\ \/ outbox'[m].provider = outbox[m].provider
            \/ /\ m = worker[w].message /\ HasRow(w)
  BY <1>2 DEF Bind, WriteRow, RowStates
<1>5. worker'[w].pc = "bound" /\ HasRow(w) => outbox'[worker[w].message].provider = p
  <2>1. CASE HasRow(w) /\ outbox[worker[w].message].provider \in {NULL, p}
    BY <1>2, <2>1 DEF Bind, WriteRow, RowStates
  <2>2. CASE ~(HasRow(w) /\ outbox[worker[w].message].provider \in {NULL, p})
    BY <1>2, <2>2 DEF Bind, WorkerStates, Goto
  <2> QED BY <2>1, <2>2
<1>6. \A v \in Workers : /\ worker[v].pc # "idle" => worker[v].message \in Messages
                         /\ /\ worker[v].pc # "idle" /\ HasRow(v) /\ HasRow(w)
                            /\ worker[v].message = worker[w].message
                            => v = w
  BY <1>2, MemoryBusy DEF HasRow
<1>7. /\ Places' /\ PairsSaid' /\ PairsTalked' /\ OneJob' /\ JobsEnded' /\ JobKnows'
      /\ Quiet' /\ PurgerSteps' /\ Forgotten'
  BY <1>1
     DEF PInv, Places, PairsSaid, PairsTalked, OneJob, JobsEnded, JobKnows, Quiet,
         PurgerSteps, Forgotten
<1>8. WorkersTalked'
  BY <1>1, <1>3 DEF PInv, WorkersTalked, Fenced, Has
<1>9. LeasesCounted'
  BY <1>1, <1>4 DEF PInv, Places, LeasesCounted, LeaseStates
<1>10. LeasesOwned'
  BY <1>1, <1>2, <1>3 DEF PInv, LeasesOwned, Has
<1>11. RequestsLeased'
  BY <1>1, <1>3 DEF PInv, RequestsLeased, Fenced, Has
<1>12. FlightsLeased'
  BY <1>1, <1>2, <1>3 DEF PInv, FlightsLeased, Has
<1>13. RowsBound'
  BY <1>2, <1>3, <1>4, <1>5, <1>6 DEF PInv, Moved, RowsBound, HasRow
<1>14. Attempts'
  BY <1>2, <1>3 DEF PInv, Attempts
<1>15. Remembered'
  BY <1>1, <1>3, <1>4 DEF PInv, Remembered, Delivered, Rebuilding, HasRow
<1>16. Gone'
  BY <1>1, <1>3 DEF PInv, Gone
<1> QED BY <1>7, <1>8, <1>9, <1>10, <1>11, <1>12, <1>13, <1>14, <1>15, <1>16 DEF PInv

LEMMA KeptClaim ==
  ASSUME PInv, IInv, NEW w \in Workers, NEW expired \in SUBSET Messages,
         \A m \in expired : outbox[m].status = "processing", Claim(w, expired)
  PROVE  PInv'
<1>1. UNCHANGED <<call, message, leases, links, talks, memory, job, purger, held, flight,
                  asked, crashes>>
  BY DEF Claim
<1>2. /\ worker[w].pc = "idle" /\ worker \in [Workers -> WorkerStates]
      /\ outbox \in [Messages -> RowStates]
      /\ \A v \in Workers : worker[v].pc # "idle" =>
           /\ worker[v].message \in Messages
           /\ \/ message[worker[v].message] = "deleted"
              \/ worker[v].attempt <= outbox[worker[v].message].attempt
  BY MemoryBusy DEF Claim
<1>3. /\ \A n \in Messages : Kindled(n)
      /\ \/ UNCHANGED worker
         \/ /\ worker'[w].pc = "claimed" /\ worker'[w].message \in Messages
            /\ message[worker'[w].message] = "kept"
            /\ worker'[w].attempt = outbox[worker'[w].message].attempt + 1
            /\ \A v \in Workers : v = w \/ worker'[v] = worker[v]
  BY MemoryClaimed
<1>4. \A l \in leases : l.message \in Messages /\ l.attempt \in Nat
  BY DEF PInv, Places, LeaseStates
<1>5. \A m \in Messages : outbox[m].attempt \in Nat
  BY <1>2 DEF RowStates
<1>6. \A v \in Workers : worker[v].attempt \in Nat
  BY <1>2 DEF WorkerStates
<1>7. /\ Places' /\ PairsSaid' /\ PairsTalked' /\ OneJob' /\ JobsEnded' /\ JobKnows'
      /\ Quiet' /\ PurgerSteps' /\ Forgotten'
  BY <1>1
     DEF PInv, Places, PairsSaid, PairsTalked, OneJob, JobsEnded, JobKnows, Quiet,
         PurgerSteps, Forgotten
<1>8. WorkersTalked'
  BY <1>1, <1>3 DEF PInv, WorkersTalked, Fenced, Has
<1>9. LeasesCounted'
  BY <1>1, <1>3, <1>4, <1>5 DEF PInv, Kindled, LeasesCounted
<1>10. LeasesOwned'
  BY <1>1, <1>3, <1>5 DEF PInv, LeasesCounted, LeasesOwned, Has
<1>11. RequestsLeased'
  BY <1>1, <1>3 DEF PInv, RequestsLeased, Fenced, Has
<1>12. FlightsLeased'
  BY <1>1, <1>3, <1>5 DEF PInv, LeasesCounted, FlightsLeased, Has
<1>13. RowsBound'
  <2>1. ASSUME NEW v \in Workers, worker'[v].pc \notin {"idle", "claimed", "failed"}
        PROVE  /\ worker'[v].provider \in Providers
               /\ HasRow(v)' => outbox'[worker'[v].message].provider = worker'[v].provider
    <3>1. worker'[v] = worker[v]
      BY <1>3, <2>1
    <3>2. Kindled(worker[v].message)
      BY <1>2, <1>3, <2>1
    <3>3. HasRow(v)' => HasRow(v)
      BY <1>2, <1>5, <1>6, <2>1, <3>1, <3>2 DEF HasRow, Kindled
    <3> QED BY <2>1, <3>1, <3>2, <3>3 DEF PInv, RowsBound, Kindled
  <2>2. \A m \in Messages : outbox'[m].status = "completed" => outbox'[m].provider \in Providers
    BY <1>3 DEF PInv, RowsBound, Kindled
  <2> QED BY <2>1, <2>2 DEF RowsBound
<1>14. Attempts'
  BY <1>3, <1>5 DEF PInv, Attempts
<1>15. Remembered'
  BY <1>1, <1>3 DEF PInv, Remembered, Delivered, Rebuilding, Kindled
<1>16. Gone'
  BY <1>1, <1>3 DEF PInv, Gone
<1> QED BY <1>7, <1>8, <1>9, <1>10, <1>11, <1>12, <1>13, <1>14, <1>15, <1>16 DEF PInv

LEMMA KeptSay ==
  ASSUME PInv, IInv, NEW m \in Messages, Say(m)
  PROVE  PInv'
<1>1. UNCHANGED <<call, leases, links, talks, memory, worker, purger, held, flight, asked,
                  crashes>>
  BY DEF Say
<1>2. /\ message[m] = "unsaid" /\ message' = [message EXCEPT ![m] = "kept"]
      /\ outbox' = [outbox EXCEPT ![m].status = "pending"]
      /\ call[CallOf[m]] = "live" /\ CallOf[m] \in Calls
      /\ message \in [Messages -> {"unsaid", "kept", "deleted"}]
      /\ outbox \in [Messages -> RowStates]
      /\ job \in [Calls -> JobStates]
  BY MemoryBusy, MemoryCalls DEF Say, PInv, Places
<1>3. /\ message'[m] = "kept" /\ outbox'[m].status = "pending"
      /\ \A n \in Messages : n = m \/ (message'[n] = message[n] /\ outbox'[n] = outbox[n])
  BY <1>2
<1>4. /\ job' \in [Calls -> JobStates]
      /\ \A c \in Calls :
           /\ job'[c].status = job[c].status /\ job'[c].providers = job[c].providers
           /\ job'[c].replayed = job[c].replayed
  <2>1. \A j \in JobStates : LET k == [j EXCEPT !.dirty = TRUE] IN
         /\ k \in JobStates /\ k.status = j.status
         /\ k.providers = j.providers /\ k.replayed = j.replayed
    BY DEF JobStates
  <2>2. \A c \in Calls :
          job'[c] = IF memory.job = c THEN [job[c] EXCEPT !.dirty = TRUE] ELSE job[c]
    BY DEF Say
  <2>3. job' = [c \in Calls |-> job'[c]]
    BY DEF Say
  <2>4. \A c \in Calls : /\ job'[c] \in JobStates /\ job'[c].status = job[c].status
                          /\ job'[c].providers = job[c].providers
                          /\ job'[c].replayed = job[c].replayed
    BY <1>2, <2>1, <2>2
  <2> QED BY <2>3, <2>4
<1>5. \A v \in Workers : worker[v].pc # "idle" => worker[v].message \in Messages \ {m}
  BY <1>2, MemoryBusy
<1>6. /\ PairsTalked' /\ WorkersTalked' /\ LeasesOwned' /\ RequestsLeased' /\ FlightsLeased'
      /\ Attempts'
  BY <1>1
     DEF PInv, PairsTalked, WorkersTalked, Has, LeasesOwned, RequestsLeased, FlightsLeased,
         Attempts
<1>7. Places'
  BY <1>1, <1>4 DEF PInv, Places
<1>8. PairsSaid'
  BY <1>1, <1>2 DEF PInv, PairsSaid
<1>9. LeasesCounted'
  BY <1>1, <1>2 DEF PInv, LeasesCounted
<1>10. RowsBound'
  BY <1>1, <1>3, <1>5 DEF PInv, RowsBound, HasRow
<1>11. OneJob'
  BY <1>1, <1>4 DEF PInv, OneJob
<1>12. JobsEnded'
  BY <1>1, <1>2, <1>4 DEF PInv, JobsEnded
<1>13. JobKnows'
  BY <1>1, <1>4 DEF PInv, JobKnows
<1>14. Quiet'
  BY <1>1, <1>4 DEF PInv, Quiet
<1>15. PurgerSteps'
  BY <1>1, <1>2, <1>4 DEF PInv, PurgerSteps, OneJob
<1>16. Forgotten'
  BY <1>1, <1>4 DEF PInv, Forgotten
<1>17. Remembered'
  BY <1>1, <1>2, <1>4, <1>5 DEF PInv, PairsSaid, Remembered, Delivered, Rebuilding
<1>18. Gone'
  BY <1>1, <1>4, MemoryCalls DEF PInv, Gone
<1> QED BY <1>6, <1>7, <1>8, <1>9, <1>10, <1>11, <1>12, <1>13, <1>14, <1>15, <1>16, <1>17,
           <1>18
           DEF PInv

LEMMA KeptHangUp ==
  ASSUME PInv, IInv, NEW c \in Calls, HangUp(c)
  PROVE  PInv'
<1>1. UNCHANGED <<message, outbox, leases, links, talks, memory, job, worker, purger, held,
                  flight, asked, crashes>>
  BY DEF HangUp
<1>2. call' = [call EXCEPT ![c] = "ended"]
  BY DEF HangUp
<1>3. /\ PairsSaid' /\ PairsTalked' /\ WorkersTalked' /\ LeasesCounted' /\ LeasesOwned'
      /\ RequestsLeased' /\ FlightsLeased' /\ RowsBound' /\ Attempts' /\ OneJob'
      /\ JobKnows' /\ Quiet' /\ PurgerSteps' /\ Forgotten' /\ Remembered' /\ Gone'
  BY <1>1
     DEF PInv, PairsSaid, PairsTalked, WorkersTalked, Has, LeasesCounted, LeasesOwned,
         RequestsLeased, FlightsLeased, RowsBound, HasRow, Attempts, OneJob, JobKnows,
         Quiet, PurgerSteps, Forgotten, Remembered, Delivered, Rebuilding, Gone
<1>4. Places'
  BY <1>1, <1>2 DEF PInv, Places
<1>5. JobsEnded'
  BY <1>1, <1>2 DEF PInv, JobsEnded
<1> QED BY <1>3, <1>4, <1>5 DEF PInv

LEMMA KeptRequestPurge ==
  ASSUME PInv, IInv, NEW c \in Calls, RequestPurge(c)
  PROVE  PInv'
<1>1. UNCHANGED <<call, message, outbox, leases, links, talks, worker, purger, held,
                  flight, asked, crashes>>
  BY DEF RequestPurge
<1>2. /\ call[c] = "ended" /\ job[c].status = "none" /\ ~job[c].replayed
      /\ job \in [Calls -> JobStates]
      /\ memory.job = NULL /\ purger.pc = "idle" /\ leases \subseteq LeaseStates
  BY MemoryNull DEF RequestPurge, PInv, OneJob, Places, JobsEnded
<1>3. memory'.state = "rebuilding" /\ memory'.job = c /\ memory' \in MemoryStates
  BY DEF RequestPurge, MemoryStates
<1>4. {p[2] : p \in links} \cup talks \cup InUse \in SUBSET Providers
  BY DEF PInv, Places, Pairs, InUse, LeaseStates
<1>5. job' = [job EXCEPT ![c] =
        [job[c] EXCEPT !.status = "scheduled",
                       !.providers = {p[2] : p \in links} \cup talks \cup InUse]]
  BY DEF RequestPurge
<1>6. /\ job' \in [Calls -> JobStates]
      /\ job'[c].status = "scheduled"
      /\ job'[c].providers = {p[2] : p \in links} \cup talks \cup InUse
      /\ ~job'[c].replayed /\ \A d \in Calls : d = c \/ job'[d] = job[d]
  <2> DEFINE known == {p[2] : p \in links} \cup talks \cup InUse
             j == [job[c] EXCEPT !.status = "scheduled", !.providers = known]
  <2>1. known \in SUBSET Providers /\ job[c] \in JobStates
    BY <1>2, <1>4
  <2> HIDE DEF known
  <2>2. /\ j \in JobStates /\ j.status = "scheduled" /\ j.providers = known
        /\ j.replayed = job[c].replayed
    BY <2>1 DEF JobStates
  <2>3. job' = [job EXCEPT ![c] = j]
    BY <1>5 DEF known
  <2> HIDE DEF j
  <2>4. /\ job' \in [Calls -> JobStates] /\ job'[c] = j
        /\ \A d \in Calls : d = c \/ job'[d] = job[d]
    BY <1>2, <2>2, <2>3
  <2>5. known = {p[2] : p \in links} \cup talks \cup InUse
    BY DEF known
  <2> QED BY <1>2, <2>2, <2>4, <2>5
<1>7. \A d \in Calls : d # NULL
  BY MemoryNull
<1>8. /\ PairsSaid' /\ PairsTalked' /\ WorkersTalked' /\ LeasesCounted' /\ LeasesOwned'
      /\ RequestsLeased' /\ FlightsLeased' /\ RowsBound' /\ Attempts'
  BY <1>1
     DEF PInv, PairsSaid, PairsTalked, WorkersTalked, Has, LeasesCounted, LeasesOwned,
         RequestsLeased, FlightsLeased, RowsBound, HasRow, Attempts
<1>9. Places'
  BY <1>1, <1>3, <1>6 DEF PInv, Places
<1>10. OneJob'
  BY <1>1, <1>2, <1>3, <1>6, <1>7 DEF PInv, OneJob
<1>11. JobsEnded'
  BY <1>1, <1>2, <1>6 DEF PInv, JobsEnded
<1>12. JobKnows'
  BY <1>1, <1>3, <1>6 DEF PInv, PairsTalked, JobKnows, InUse
<1>13. Quiet'
  BY <1>1, <1>3, <1>6 DEF PInv, Quiet
<1>14. PurgerSteps'
  BY <1>1, <1>2 DEF PurgerSteps
<1>15. Forgotten'
  BY <1>1, <1>2, <1>3, <1>6 DEF Forgotten
<1>16. Remembered'
  BY <1>1, <1>2, MemoryNull DEF PInv, Remembered, Delivered, Rebuilding
<1>17. Gone'
  BY <1>1, <1>6, MemoryCalls DEF PInv, Gone
<1> QED BY <1>8, <1>9, <1>10, <1>11, <1>12, <1>13, <1>14, <1>15, <1>16, <1>17 DEF PInv

LEMMA KeptRetry ==
  ASSUME PInv, IInv, NEW c \in Calls, Retry(c)
  PROVE  PInv'
<1>1. UNCHANGED <<call, message, outbox, links, talks, worker, purger, held, asked, crashes>>
  BY DEF Retry
<1>2. /\ job[c].status = "needs_attention" /\ memory.job = c /\ job \in [Calls -> JobStates]
      /\ memory \in MemoryStates /\ flight' = {}
  BY DEF Retry, PInv, OneJob, Places
<1>3. /\ job' \in [Calls -> JobStates] /\ job'[c].status = "scheduled"
      /\ job'[c].providers = job[c].providers /\ job'[c].replayed = job[c].replayed
      /\ \A d \in Calls : d = c \/ job'[d] = job[d]
  BY <1>2 DEF Retry, JobStates
<1>4. memory'.state = "rebuilding" /\ memory'.job = c /\ memory' \in MemoryStates
  BY <1>2 DEF Retry, MemoryStates
<1>5. leases' \subseteq leases /\ \A l \in leases : l.status = "active" => l \in leases'
  BY DEF Retry
<1>6. RowsBound' /\ Attempts'
  BY <1>1 DEF PInv, RowsBound, HasRow, Attempts
<1>7. Places'
  BY <1>1, <1>2, <1>3, <1>4, <1>5 DEF PInv, Places
<1>8. PairsSaid'
  BY <1>1, <1>2 DEF PInv, PairsSaid
<1>9. PairsTalked'
  BY <1>1, <1>2 DEF PInv, PairsTalked
<1>10. WorkersTalked'
  BY <1>1, <1>5 DEF PInv, WorkersTalked, Has
<1>11. LeasesCounted'
  BY <1>1, <1>5 DEF PInv, LeasesCounted
<1>12. LeasesOwned'
  BY <1>1, <1>5 DEF PInv, LeasesOwned, Has
<1>13. RequestsLeased'
  BY <1>1, <1>5 DEF PInv, RequestsLeased, Has
<1>14. FlightsLeased'
  BY <1>2 DEF FlightsLeased
<1>15. OneJob'
  BY <1>1, <1>2, <1>3, <1>4 DEF PInv, OneJob
<1>16. JobsEnded'
  BY <1>1, <1>2, <1>3 DEF PInv, JobsEnded
<1>17. JobKnows'
  BY <1>1, <1>2, <1>3, <1>4, <1>5 DEF PInv, JobKnows
<1>18. Quiet'
  BY <1>1, <1>2, <1>3, <1>4, <1>5 DEF PInv, Quiet
<1>19. PurgerSteps'
  BY <1>1, <1>2, <1>3, <1>4 DEF PInv, PurgerSteps
<1>20. Forgotten'
  BY <1>1, <1>2, <1>3, <1>4 DEF PInv, Forgotten
<1>21. Remembered'
  BY <1>1, <1>2, <1>3, <1>4 DEF PInv, Remembered, Delivered, Rebuilding
<1>22. Gone'
  BY <1>1, <1>2, <1>3, MemoryCalls DEF PInv, Gone
<1> QED BY <1>6, <1>7, <1>8, <1>9, <1>10, <1>11, <1>12, <1>13, <1>14, <1>15, <1>16, <1>17,
           <1>18, <1>19, <1>20, <1>21, <1>22
           DEF PInv

LEMMA KeptWait ==
  ASSUME PInv, IInv, NEW expired \in SUBSET leases,
         UNCHANGED <<call, message, outbox, links, talks, memory, job, worker, purger,
                     held, flight, asked, crashes>>,
         leases' = leases \ {l \in expired : Harmless(l)}
  PROVE  PInv'
<1>1. leases' \subseteq leases /\ \A l \in leases : l.started => l \in leases'
  BY DEF Harmless
<1>2. /\ PairsSaid' /\ PairsTalked' /\ RowsBound' /\ Attempts' /\ OneJob' /\ JobsEnded'
      /\ PurgerSteps' /\ Forgotten' /\ Remembered' /\ Gone'
  BY DEF PInv, PairsSaid, PairsTalked, RowsBound, HasRow, Attempts, OneJob, JobsEnded,
         PurgerSteps, Forgotten, Remembered, Delivered, Rebuilding, Gone
<1>3. Places'
  BY DEF PInv, Places
<1>4. WorkersTalked'
  BY DEF PInv, WorkersTalked, Has
<1>5. LeasesCounted'
  BY DEF PInv, LeasesCounted
<1>6. LeasesOwned'
  BY DEF PInv, LeasesOwned, Has
<1>7. RequestsLeased'
  BY <1>1 DEF PInv, RequestsLeased, Has
<1>8. FlightsLeased'
  BY <1>1 DEF PInv, FlightsLeased, Has
<1>9. JobKnows'
  BY DEF PInv, JobKnows
<1>10. Quiet'
  BY DEF PInv, Quiet
<1> QED BY <1>2, <1>3, <1>4, <1>5, <1>6, <1>7, <1>8, <1>9, <1>10 DEF PInv

LEMMA KeptStall ==
  ASSUME PInv, IInv, NEW c \in Calls, NEW expired \in SUBSET {l \in leases : MayExpire(l)},
         purger.pc = "idle", memory.job = c, job[c].status \in {"scheduled", "running"},
         NEW pending, pending = leases \ {l \in expired : Harmless(l)}, NEW l \in pending,
         l \in expired \/ l.status = "needs_attention",
         leases' = (pending \ {l}) \cup {Surfaced(l)},
         job' = [job EXCEPT ![c].status = "needs_attention"],
         memory' = [memory EXCEPT !.state = "needs_attention"],
         UNCHANGED <<call, message, outbox, links, talks, worker, purger, held, flight,
                     asked, crashes>>
  PROVE  PInv'
<1>1. /\ job \in [Calls -> JobStates] /\ memory \in MemoryStates
      /\ leases \subseteq LeaseStates
  BY DEF PInv, Places
<1>2. /\ job' \in [Calls -> JobStates] /\ job'[c].status = "needs_attention"
      /\ job'[c].providers = job[c].providers /\ job'[c].replayed = job[c].replayed
      /\ \A d \in Calls : d = c \/ job'[d] = job[d]
  BY <1>1 DEF JobStates
<1>3. memory'.state = "needs_attention" /\ memory'.job = c /\ memory' \in MemoryStates
  BY <1>1 DEF MemoryStates
<1>4. \A k \in leases' : k \in LeaseStates /\ \E o \in leases :
         k.message = o.message /\ k.attempt = o.attempt /\ k.provider = o.provider
  BY <1>1, MemorySent
<1>5. \A o \in leases : o.started => o \in leases' \/ o = l
  BY DEF Harmless
<1>6. /\ Surfaced(l) \in leases' /\ l \in leases /\ Surfaced(l).message = l.message
      /\ Surfaced(l).attempt = l.attempt /\ Surfaced(l).provider = l.provider
      /\ Surfaced(l).status = "needs_attention" /\ Surfaced(l).started = l.started
  BY <1>1, MemorySent
<1>7. \A w \in Workers : l.started /\ l.status = "active" => ~Has(w, l)
  BY DEF Has, MayExpire, Abandoned
<1>8. PairsSaid' /\ PairsTalked' /\ RowsBound' /\ Attempts'
  BY DEF PInv, PairsSaid, PairsTalked, RowsBound, HasRow, Attempts
<1>9. Places'
  BY <1>2, <1>3, <1>4 DEF PInv, Places
<1>10. WorkersTalked'
  BY <1>6 DEF PInv, WorkersTalked, Has
<1>11. LeasesCounted'
  BY <1>6 DEF PInv, LeasesCounted
<1>12. LeasesOwned'
  BY <1>6 DEF PInv, LeasesOwned, Has
<1>13. RequestsLeased'
  BY <1>5, <1>7 DEF PInv, RequestsLeased, Has
<1>14. FlightsLeased'
  BY <1>5, <1>6 DEF PInv, FlightsLeased, Has
<1>15. OneJob'
  BY DEF PInv, OneJob
<1>16. JobsEnded'
  BY DEF PInv, JobsEnded
<1>17. JobKnows'
  BY <1>6 DEF PInv, JobKnows
<1>18. Quiet'
  BY DEF PInv, Quiet
<1>19. PurgerSteps'
  BY DEF PurgerSteps
<1>20. Forgotten'
  BY DEF PInv, Forgotten
<1>21. Remembered'
  BY DEF PInv, Remembered, Delivered, Rebuilding
<1>22. Gone'
  BY DEF PInv, Gone
<1> QED BY <1>8, <1>9, <1>10, <1>11, <1>12, <1>13, <1>14, <1>15, <1>16, <1>17, <1>18,
           <1>19, <1>20, <1>21, <1>22
           DEF PInv

LEMMA KeptTake ==
  ASSUME PInv, IInv, NEW c \in Calls, NEW expired \in SUBSET leases, purger.pc = "idle",
         memory.job = c, job[c].status \in {"scheduled", "running"},
         leases \ {l \in expired : Harmless(l)} = {}, leases' = {},
         job' = [job EXCEPT ![c].status = "running", ![c].dirty = FALSE],
         memory' = [memory EXCEPT !.state = "rebuilding"],
         purger' = [pc |-> "started", job |-> c, todo |-> {}],
         UNCHANGED <<call, message, outbox, links, talks, worker, held, flight, asked,
                     crashes>>
  PROVE  PInv'
<1>1. job \in [Calls -> JobStates] /\ memory \in MemoryStates /\ c # NULL
  BY MemoryNull DEF PInv, Places
<1>2. /\ job' \in [Calls -> JobStates] /\ job'[c].status = "running"
      /\ job'[c].providers = job[c].providers /\ job'[c].replayed = job[c].replayed
      /\ \A d \in Calls : d = c \/ job'[d] = job[d]
  BY <1>1 DEF JobStates
<1>3. memory'.state = "rebuilding" /\ memory'.job = c /\ memory' \in MemoryStates
  BY <1>1 DEF MemoryStates
<1>4. purger' \in PurgerStates /\ purger'.pc = "started" /\ purger'.job = c
  BY DEF PurgerStates
<1>5. \A l \in leases : ~l.started
  BY DEF Harmless
<1>6. flight = {}
  BY <1>5 DEF PInv, FlightsLeased
<1>7. \A w \in Workers : worker[w].pc \notin Fenced
  BY <1>5 DEF PInv, RequestsLeased
<1>8. PairsSaid' /\ PairsTalked' /\ RowsBound' /\ Attempts'
  BY DEF PInv, PairsSaid, PairsTalked, RowsBound, HasRow, Attempts
<1>9. Places'
  BY <1>2, <1>3, <1>4 DEF PInv, Places
<1>10. WorkersTalked'
  BY DEF PInv, WorkersTalked
<1>11. LeasesCounted'
  BY DEF LeasesCounted
<1>12. LeasesOwned'
  BY DEF LeasesOwned
<1>13. RequestsLeased'
  BY <1>7 DEF RequestsLeased
<1>14. FlightsLeased'
  BY <1>6 DEF FlightsLeased
<1>15. OneJob'
  BY <1>2 DEF PInv, OneJob
<1>16. JobsEnded'
  BY <1>2 DEF PInv, JobsEnded
<1>17. JobKnows'
  BY <1>2 DEF PInv, JobKnows
<1>18. Quiet'
  BY DEF Quiet
<1>19. PurgerSteps'
  BY DEF PurgerSteps
<1>20. Forgotten'
  BY <1>2 DEF PInv, Forgotten
<1>21. Remembered'
  BY <1>2 DEF PInv, Remembered, Delivered, Rebuilding
<1>22. Gone'
  BY <1>2, MemoryCalls DEF PInv, Gone
<1> QED BY <1>8, <1>9, <1>10, <1>11, <1>12, <1>13, <1>14, <1>15, <1>16, <1>17, <1>18,
           <1>19, <1>20, <1>21, <1>22
           DEF PInv

LEMMA KeptSurface ==
  ASSUME PInv, IInv, NEW kept \in {held, {p \in held : p[2] # "atagia"}},
         kept = held \/ purger.pc = "forgetting", held' = kept, purger.pc # "idle",
         Surface,
         UNCHANGED <<call, message, outbox, leases, links, talks, worker, flight, asked,
                     crashes>>
  PROVE  PInv'
<1>1. /\ job \in [Calls -> JobStates] /\ memory \in MemoryStates
      /\ purger.job = memory.job /\ memory.job \in Calls /\ memory.job # NULL
      /\ held \subseteq Pairs
  BY MemoryNull DEF PInv, Places, OneJob
<1>2. /\ job' \in [Calls -> JobStates] /\ job'[memory.job].status = "needs_attention"
      /\ job'[memory.job].providers = job[memory.job].providers
      /\ job'[memory.job].replayed = job[memory.job].replayed
      /\ \A d \in Calls : d = memory.job \/ job'[d] = job[d]
  BY <1>1 DEF Surface, JobStates
<1>3. /\ memory'.state = "needs_attention" /\ memory'.job = memory.job
      /\ memory' \in MemoryStates
  BY <1>1 DEF Surface, MemoryStates
<1>4. purger' \in PurgerStates /\ purger'.pc = "idle"
  BY DEF Surface, Resting, PurgerStates
<1>5. job[memory.job].status \notin {"none", "completed"}
  BY DEF PInv, OneJob
<1>6. /\ WorkersTalked' /\ LeasesCounted' /\ LeasesOwned' /\ RequestsLeased'
      /\ FlightsLeased' /\ RowsBound' /\ Attempts'
  BY DEF PInv, WorkersTalked, Has, LeasesCounted, LeasesOwned, RequestsLeased,
         FlightsLeased, RowsBound, HasRow, Attempts
<1>7. Places'
  BY <1>2, <1>3, <1>4 DEF PInv, Places
<1>8. PairsSaid'
  BY DEF PInv, PairsSaid
<1>9. PairsTalked'
  BY DEF PInv, PairsTalked
<1>10. OneJob'
  BY <1>2, <1>3, <1>4 DEF PInv, OneJob
<1>11. JobsEnded'
  BY <1>2, <1>5 DEF PInv, JobsEnded
<1>12. JobKnows'
  BY <1>2, <1>3 DEF PInv, JobKnows
<1>13. Quiet'
  BY DEF PInv, Quiet
<1>14. PurgerSteps'
  BY <1>4 DEF PurgerSteps
<1>15. Forgotten'
  BY <1>2, <1>3, <1>4 DEF PInv, Forgotten
<1>16. Remembered'
  BY <1>1, <1>2, <1>3, <1>4 DEF PInv, Remembered, Delivered, Rebuilding, PurgerSteps
<1>17. Gone'
  BY <1>2, MemoryCalls DEF PInv, Gone
<1> QED BY <1>6, <1>7, <1>8, <1>9, <1>10, <1>11, <1>12, <1>13, <1>14, <1>15, <1>16, <1>17
           DEF PInv

LEMMA KeptDecide ==
  ASSUME PInv, IInv, NEW pc \in {"forgetting", "completing"}, purger.pc = "started",
         Continue(pc), "mem0" \notin job[purger.job].providers,
         pc = "forgetting" =>
           "atagia" \in job[purger.job].providers /\ ~job[purger.job].replayed,
         pc = "completing" =>
           "atagia" \notin job[purger.job].providers \/ job[purger.job].replayed,
         UNCHANGED <<call, message, outbox, leases, links, talks, memory, job, worker,
                     held, flight, asked, crashes>>
  PROVE  PInv'
<1>1. /\ job \in [Calls -> JobStates] /\ purger \in PurgerStates
      /\ purger.job = memory.job /\ memory.job \in Calls /\ memory.job # NULL /\ leases = {}
  BY MemoryNull DEF PInv, Places, OneJob, Quiet
<1>2. purger' \in PurgerStates /\ purger'.pc = pc /\ purger'.job = memory.job
  BY <1>1 DEF Continue, PurgerStates
<1>3. /\ PairsSaid' /\ PairsTalked' /\ WorkersTalked' /\ LeasesCounted' /\ LeasesOwned'
      /\ RequestsLeased' /\ FlightsLeased' /\ RowsBound' /\ Attempts' /\ JobsEnded'
      /\ JobKnows' /\ Gone'
  BY DEF PInv, PairsSaid, PairsTalked, WorkersTalked, Has, LeasesCounted, LeasesOwned,
         RequestsLeased, FlightsLeased, RowsBound, HasRow, Attempts, JobsEnded, JobKnows,
         Gone
<1>4. Places'
  BY <1>2 DEF PInv, Places
<1>5. OneJob'
  BY <1>2 DEF PInv, OneJob
<1>6. Quiet'
  BY DEF PInv, Quiet
<1>7. PurgerSteps'
  BY <1>1, <1>2 DEF PurgerSteps
<1>8. Forgotten'
  BY <1>2 DEF PInv, Forgotten
<1>9. Remembered'
  BY <1>2 DEF PInv, Remembered, Delivered, Rebuilding
<1> QED BY <1>3, <1>4, <1>5, <1>6, <1>7, <1>8, <1>9 DEF PInv

LEMMA KeptForget ==
  ASSUME PInv, IInv, purger.pc = "forgetting", Continue("resetting"),
         held' = {p \in held : p[2] # "atagia"},
         UNCHANGED <<call, message, outbox, leases, links, talks, memory, job, worker,
                     flight, asked, crashes>>
  PROVE  PInv'
<1>1. /\ job \in [Calls -> JobStates] /\ purger \in PurgerStates
      /\ purger.job = memory.job /\ memory.job \in Calls /\ memory.job # NULL /\ leases = {}
  BY MemoryNull DEF PInv, Places, OneJob, Quiet
<1>2. purger' \in PurgerStates /\ purger'.pc = "resetting" /\ purger'.job = memory.job
  BY <1>1 DEF Continue, PurgerStates
<1>3. /\ WorkersTalked' /\ LeasesCounted' /\ LeasesOwned' /\ RequestsLeased'
      /\ FlightsLeased' /\ RowsBound' /\ Attempts' /\ JobsEnded'
  BY DEF PInv, WorkersTalked, Has, LeasesCounted, LeasesOwned, RequestsLeased,
         FlightsLeased, RowsBound, HasRow, Attempts, JobsEnded
<1>4. Places'
  BY <1>2 DEF PInv, Places
<1>5. PairsSaid'
  BY DEF PInv, PairsSaid
<1>6. PairsTalked'
  BY DEF PInv, PairsTalked
<1>7. OneJob'
  BY <1>2 DEF PInv, OneJob
<1>8. JobKnows'
  BY DEF PInv, JobKnows
<1>9. Quiet'
  BY DEF PInv, Quiet
<1>10. PurgerSteps'
  BY <1>2 DEF PInv, PurgerSteps
<1>11. Forgotten'
  BY DEF Forgotten
<1>12. Remembered'
  BY <1>1, <1>2 DEF PInv, Remembered, Delivered, Rebuilding, PurgerSteps
<1>13. Gone'
  BY DEF PInv, Gone
<1> QED BY <1>3, <1>4, <1>5, <1>6, <1>7, <1>8, <1>9, <1>10, <1>11, <1>12, <1>13 DEF PInv

LEMMA KeptResetLinks ==
  ASSUME PInv, IInv, ResetLinks
  PROVE  PInv'
<1>1. UNCHANGED <<call, message, outbox, leases, memory, job, worker, held, flight, asked,
                  crashes>>
  BY DEF ResetLinks
<1>2. /\ job \in [Calls -> JobStates] /\ purger \in PurgerStates
      /\ purger.job = memory.job /\ memory.job \in Calls /\ memory.job # NULL /\ leases = {}
  BY MemoryNull DEF ResetLinks, PInv, Places, OneJob, Quiet
<1>3. flight = {} /\ \A w \in Workers : worker[w].pc \notin Fenced
  BY <1>2 DEF PInv, FlightsLeased, RequestsLeased
<1>4. /\ purger.pc = "resetting" /\ purger' \in PurgerStates /\ purger'.pc = "replaying"
      /\ purger'.job = memory.job /\ purger'.todo = Kept \ SaidIn(memory.job)
  BY <1>2 DEF ResetLinks, PurgerStates, Kept
<1>5. /\ links' \subseteq links /\ talks' \subseteq talks
      /\ \A p \in talks : p # "atagia" => p \in talks'
  BY DEF ResetLinks
<1>6. \A x \in held : x \in Pairs /\ x[2] # "atagia"
  BY <1>4 DEF PInv, Places, Forgotten, Pairs
<1>7. \A m \in Messages :
        m \in Kept \ SaidIn(memory.job) <=> message[m] = "kept" /\ CallOf[m] # memory.job
  BY DEF Kept, SaidIn
<1>8. /\ LeasesCounted' /\ LeasesOwned' /\ RequestsLeased' /\ FlightsLeased' /\ RowsBound'
      /\ Attempts' /\ JobsEnded' /\ JobKnows' /\ Gone'
  BY <1>1
     DEF PInv, LeasesCounted, LeasesOwned, Has, RequestsLeased, FlightsLeased, RowsBound,
         HasRow, Attempts, JobsEnded, JobKnows, Gone
<1>9. Places'
  BY <1>1, <1>4, <1>5 DEF PInv, Places
<1>10. PairsSaid'
  BY <1>1, <1>5 DEF PInv, PairsSaid
<1>11. PairsTalked'
  BY <1>1, <1>3, <1>5, <1>6 DEF PInv, PairsTalked
<1>12. WorkersTalked'
  BY <1>1, <1>2, <1>3 DEF WorkersTalked
<1>13. OneJob'
  BY <1>1, <1>4 DEF PInv, OneJob
<1>14. Quiet'
  BY <1>1, <1>4 DEF PInv, Quiet
<1>15. PurgerSteps'
  BY <1>1, <1>4 DEF PInv, PurgerSteps, Kept, SaidIn
<1>16. Forgotten'
  BY <1>1, <1>6 DEF Forgotten
<1>17. Remembered'
  BY <1>1, <1>4, <1>5, <1>7 DEF PInv, Remembered, Delivered, Rebuilding
<1> QED BY <1>8, <1>9, <1>10, <1>11, <1>12, <1>13, <1>14, <1>15, <1>16, <1>17 DEF PInv

LEMMA KeptReplay ==
  ASSUME PInv, IInv, NEW m \in Messages, Replay(m)
  PROVE  PInv'
<1>1. UNCHANGED <<call, message, outbox, leases, memory, job, worker, flight, asked,
                  crashes>>
  BY DEF Replay
<1>2. /\ job \in [Calls -> JobStates] /\ purger \in PurgerStates
      /\ purger.job = memory.job /\ memory.job \in Calls /\ memory.job # NULL /\ leases = {}
  BY MemoryNull DEF Replay, PInv, Places, OneJob, Quiet
<1>3. /\ purger.pc = "replaying" /\ purger' \in PurgerStates /\ purger'.pc = "replaying"
      /\ m \in purger.todo
      /\ purger'.job = memory.job /\ purger'.todo = purger.todo \ {m}
  BY <1>2 DEF Replay, PurgerStates
<1>4. /\ held' = held \cup {<<m, "atagia">>} /\ links' = links \cup {<<m, "atagia">>}
      /\ talks' = talks \cup {"atagia"}
  BY DEF Replay
<1>5. /\ message[m] = "kept" /\ CallOf[m] # memory.job /\ CallOf[m] \in Calls
      /\ job[CallOf[m]].status # "completed"
      /\ "atagia" \in job[memory.job].providers /\ "atagia" \in Providers
      /\ ~job[memory.job].replayed
  BY <1>2, <1>3, MemoryCalls DEF PInv, PurgerSteps, JobsEnded, JobStates
<1>6. /\ LeasesCounted' /\ LeasesOwned' /\ RequestsLeased' /\ FlightsLeased' /\ RowsBound'
      /\ Attempts' /\ JobsEnded'
  BY <1>1
     DEF PInv, LeasesCounted, LeasesOwned, Has, RequestsLeased, FlightsLeased, RowsBound,
         HasRow, Attempts, JobsEnded
<1>7. Places'
  BY <1>1, <1>3, <1>4, <1>5 DEF PInv, Places, Pairs
<1>8. PairsSaid'
  BY <1>1, <1>4, <1>5 DEF PInv, PairsSaid
<1>9. PairsTalked'
  BY <1>1, <1>4 DEF PInv, PairsTalked
<1>10. WorkersTalked'
  BY <1>1, <1>4 DEF PInv, WorkersTalked, Has
<1>11. OneJob'
  BY <1>1, <1>3 DEF PInv, OneJob
<1>12. JobKnows'
  BY <1>1, <1>4, <1>5 DEF PInv, JobKnows
<1>13. Quiet'
  BY <1>1, <1>3 DEF PInv, Quiet
<1>14. PurgerSteps'
  BY <1>1, <1>3 DEF PInv, PurgerSteps
<1>15. Forgotten'
  BY <1>1, <1>3, <1>4, <1>5 DEF PInv, Forgotten
<1>16. Remembered'
  BY <1>1, <1>3, <1>4 DEF PInv, Remembered, Delivered, Rebuilding
<1>17. Gone'
  BY <1>1, <1>4, <1>5 DEF PInv, Gone
<1> QED BY <1>6, <1>7, <1>8, <1>9, <1>10, <1>11, <1>12, <1>13, <1>14, <1>15, <1>16, <1>17
           DEF PInv

LEMMA KeptSaveProgress ==
  ASSUME PInv, IInv, SaveProgress
  PROVE  PInv'
<1>1. UNCHANGED <<call, message, outbox, leases, links, talks, memory, worker, held,
                  flight, asked, crashes>>
  BY DEF SaveProgress
<1>2. /\ job \in [Calls -> JobStates] /\ purger \in PurgerStates
      /\ purger.job = memory.job /\ memory.job \in Calls /\ memory.job # NULL /\ leases = {}
  BY MemoryNull DEF SaveProgress, PInv, Places, OneJob, Quiet
<1>3. /\ purger.pc = "replaying" /\ purger' \in PurgerStates /\ purger'.pc = "completing"
      /\ purger.todo = {}
      /\ purger'.job = memory.job
  BY <1>2 DEF SaveProgress, Continue, PurgerStates
<1>4. /\ job' \in [Calls -> JobStates] /\ job'[memory.job].status = job[memory.job].status
      /\ job'[memory.job].providers = job[memory.job].providers /\ job'[memory.job].replayed
      /\ \A d \in Calls : d = memory.job \/ job'[d] = job[d]
  BY <1>2 DEF SaveProgress, JobStates
<1>5. job[memory.job].status \notin {"none", "completed"}
  BY <1>2 DEF PInv, OneJob
<1>6. /\ PairsSaid' /\ PairsTalked' /\ WorkersTalked' /\ LeasesCounted' /\ LeasesOwned'
      /\ RequestsLeased' /\ FlightsLeased' /\ RowsBound' /\ Attempts'
  BY <1>1
     DEF PInv, PairsSaid, PairsTalked, WorkersTalked, Has, LeasesCounted, LeasesOwned,
         RequestsLeased, FlightsLeased, RowsBound, HasRow, Attempts
<1>7. Places'
  BY <1>1, <1>3, <1>4 DEF PInv, Places
<1>8. OneJob'
  BY <1>1, <1>3, <1>4 DEF PInv, OneJob
<1>9. JobsEnded'
  BY <1>1, <1>4, <1>5 DEF PInv, JobsEnded
<1>10. JobKnows'
  BY <1>1, <1>4 DEF PInv, JobKnows
<1>11. Quiet'
  BY <1>1, <1>3 DEF PInv, Quiet
<1>12. PurgerSteps'
  BY <1>1, <1>3, <1>4 DEF PInv, PurgerSteps
<1>13. Forgotten'
  BY <1>1, <1>3 DEF PInv, Forgotten
<1>14. Remembered'
  BY <1>1, <1>3 DEF PInv, Remembered, Delivered, Rebuilding
<1>15. Gone'
  BY <1>1, <1>4, MemoryCalls DEF PInv, Gone
<1> QED BY <1>6, <1>7, <1>8, <1>9, <1>10, <1>11, <1>12, <1>13, <1>14, <1>15 DEF PInv

LEMMA KeptAgain ==
  ASSUME PInv, IInv, purger.pc = "completing", job[purger.job].dirty, Complete
  PROVE  PInv'
<1>1. UNCHANGED <<call, leases, talks, worker, held, flight, asked, crashes>>
  BY DEF Complete
<1>2. UNCHANGED <<message, outbox, links, memory>>
  BY DEF Complete
<1>3. /\ job \in [Calls -> JobStates] /\ purger \in PurgerStates
      /\ purger.job = memory.job /\ memory.job \in Calls /\ memory.job # NULL /\ leases = {}
  BY MemoryNull DEF PInv, Places, OneJob, Quiet
<1>4. purger' \in PurgerStates /\ purger'.pc = "started" /\ purger'.job = memory.job
  BY <1>3 DEF Complete, Continue, PurgerStates
<1>5. job' = [job EXCEPT ![memory.job] =
        [job[memory.job] EXCEPT !.dirty = FALSE, !.replayed = FALSE]]
  BY <1>3 DEF Complete
<1>6. /\ job' \in [Calls -> JobStates] /\ job'[memory.job].status = job[memory.job].status
      /\ job'[memory.job].providers = job[memory.job].providers
      /\ ~job'[memory.job].replayed
      /\ \A d \in Calls : d = memory.job \/ job'[d] = job[d]
  BY <1>3, <1>5 DEF JobStates
<1>7. /\ PairsTalked' /\ WorkersTalked' /\ LeasesOwned' /\ RequestsLeased' /\ FlightsLeased'
      /\ Attempts'
  BY <1>1
     DEF PInv, PairsTalked, WorkersTalked, Has, LeasesOwned, RequestsLeased, FlightsLeased,
         Attempts
<1>8. Places'
  BY <1>1, <1>2, <1>4, <1>6 DEF PInv, Places
<1>9. PairsSaid'
  BY <1>1, <1>2 DEF PInv, PairsSaid
<1>10. LeasesCounted'
  BY <1>1, <1>3 DEF LeasesCounted
<1>11. RowsBound'
  BY <1>1, <1>2 DEF PInv, RowsBound, HasRow
<1>12. OneJob'
  BY <1>2, <1>4, <1>6 DEF PInv, OneJob
<1>13. JobsEnded'
  BY <1>1, <1>2, <1>6 DEF PInv, JobsEnded
<1>14. JobKnows'
  BY <1>1, <1>2, <1>6 DEF PInv, JobKnows
<1>15. Quiet'
  BY <1>1 DEF PInv, Quiet
<1>16. PurgerSteps'
  BY <1>4 DEF PurgerSteps
<1>17. Forgotten'
  BY <1>2, <1>4, <1>6 DEF Forgotten
<1>18. Remembered'
  BY <1>1, <1>2, <1>4, <1>6 DEF PInv, Remembered, Delivered, Rebuilding
<1>19. Gone'
  BY <1>1, <1>6, MemoryCalls DEF PInv, Gone
<1> QED BY <1>7, <1>8, <1>9, <1>10, <1>11, <1>12, <1>13, <1>14, <1>15, <1>16, <1>17, <1>18,
           <1>19
           DEF PInv

LEMMA KeptCompleted ==
  ASSUME PInv, IInv, purger.pc = "completing", ~job[purger.job].dirty, Complete
  PROVE  PInv'
<1>1. UNCHANGED <<call, leases, talks, worker, held, flight, asked, crashes>>
  BY DEF Complete
<1>2. /\ job \in [Calls -> JobStates] /\ purger \in PurgerStates
      /\ purger.job = memory.job /\ memory.job \in Calls /\ memory.job # NULL /\ leases = {}
  BY MemoryNull DEF PInv, Places, OneJob, Quiet
<1>3. flight = {} /\ \A w \in Workers : worker[w].pc \notin Fenced
  BY <1>2 DEF PInv, FlightsLeased, RequestsLeased
<1>4. purger' \in PurgerStates /\ purger'.pc = "idle"
  BY DEF Complete, Resting, PurgerStates
<1>5. memory'.state = "ready" /\ memory'.job = NULL /\ memory' \in MemoryStates
  BY DEF Complete, MemoryStates
<1>6. /\ job' \in [Calls -> JobStates] /\ job'[memory.job].status = "completed"
      /\ job'[memory.job].providers = job[memory.job].providers
      /\ job'[memory.job].replayed = job[memory.job].replayed
      /\ \A d \in Calls : d = memory.job \/ job'[d] = job[d]
  BY <1>2 DEF Complete, JobStates
<1>7. /\ links' \subseteq links
      /\ \A m \in Messages :
           /\ outbox'[m] = IF CallOf[m] = memory.job THEN NoRow ELSE outbox[m]
           /\ message'[m] = IF CallOf[m] = memory.job /\ message[m] = "kept"
                            THEN "deleted" ELSE message[m]
  BY <1>2 DEF Complete, Erase, SaidIn, Kept
<1>8. NoRow.status = "none"
  BY DEF NoRow
<1>9. \A m \in Messages, p \in Providers : CallOf[m] = memory.job => <<m, p>> \notin held
  <2>1. ASSUME NEW m \in Messages, NEW p \in Providers, CallOf[m] = memory.job,
               <<m, p>> \in held
        PROVE  FALSE
    <3>1. p \in job[memory.job].providers
      BY <1>2, <2>1 DEF PInv, JobKnows
    <3>2. p = "atagia" /\ job[memory.job].replayed
      BY <1>2, <3>1, MemoryProviders DEF PInv, PurgerSteps
    <3> QED BY <1>2, <2>1, <3>2 DEF PInv, Forgotten
  <2> QED BY <2>1
<1>10. \A v \in Workers : worker[v].pc # "idle" => worker[v].message \in Messages
  BY MemoryBusy
<1>11. /\ call[memory.job] = "ended" /\ job[memory.job].status # "none"
       /\ \A d \in Calls : d # NULL
  BY MemoryNull DEF PInv, JobsEnded, OneJob
<1>12. /\ PairsTalked' /\ WorkersTalked' /\ LeasesOwned' /\ RequestsLeased'
       /\ FlightsLeased' /\ Attempts'
  BY <1>1
     DEF PInv, PairsTalked, WorkersTalked, Has, LeasesOwned, RequestsLeased, FlightsLeased,
         Attempts
<1>13. Places'
  BY <1>1, <1>4, <1>5, <1>6, <1>7 DEF PInv, Places
<1>14. PairsSaid'
  BY <1>1, <1>7 DEF PInv, Places, Pairs, PairsSaid
<1>15. LeasesCounted'
  BY <1>1, <1>2 DEF LeasesCounted
<1>16. RowsBound'
  BY <1>1, <1>7, <1>8, <1>10 DEF PInv, RowsBound, HasRow
<1>17. OneJob'
  BY <1>4, <1>5, <1>6, <1>11 DEF PInv, OneJob
<1>18. JobsEnded'
  BY <1>1, <1>6, <1>7, <1>11 DEF PInv, JobsEnded
<1>19. JobKnows'
  BY <1>5, <1>11 DEF JobKnows
<1>20. Quiet'
  BY <1>4, <1>5, <1>11 DEF Quiet
<1>21. PurgerSteps'
  BY <1>4 DEF PurgerSteps
<1>22. Forgotten'
  BY <1>4, <1>5, <1>11 DEF Forgotten
<1>23. Remembered'
  <2>1. ASSUME NEW m \in Messages, NEW p \in Providers, message'[m] = "kept", Delivered(m, p)'
        PROVE  <<m, p>> \in held'
    <3>1. message[m] = "kept" /\ CallOf[m] # memory.job /\ Delivered(m, p)
      BY <1>1, <1>7, <2>1 DEF Delivered
    <3>2. ~Rebuilding(m) \/ p # "atagia"
      BY <1>2, <3>1 DEF Rebuilding, PInv, PurgerSteps
    <3> QED BY <1>1, <3>1, <3>2 DEF PInv, Remembered
  <2> QED BY <2>1 DEF Remembered
<1>24. Gone'
  BY <1>1, <1>3, <1>6, <1>9, MemoryCalls DEF PInv, Gone, Fenced
<1> QED BY <1>12, <1>13, <1>14, <1>15, <1>16, <1>17, <1>18, <1>19, <1>20, <1>21, <1>22,
           <1>23, <1>24
           DEF PInv

LEMMA KeptLand ==
  ASSUME PInv, IInv, NEW p \in flight, Land(p)
  PROVE  PInv'
<1>1. UNCHANGED <<call, message, outbox, leases, links, talks, memory, job, worker, purger,
                  asked, crashes>>
  BY DEF Land, rows
<1>2. held' = held \cup {p} /\ flight' = flight \ {p}
  BY DEF Land
<1>3. leases # {}
  BY DEF PInv, FlightsLeased
<1>4. purger.pc = "idle" /\ ~(memory.job \in Calls /\ job[memory.job].replayed)
  BY <1>3 DEF PInv, Quiet
<1>5. /\ WorkersTalked' /\ LeasesCounted' /\ LeasesOwned' /\ RequestsLeased' /\ RowsBound'
      /\ Attempts' /\ OneJob' /\ JobsEnded' /\ Quiet' /\ PurgerSteps'
  BY <1>1
     DEF PInv, WorkersTalked, Has, LeasesCounted, LeasesOwned, RequestsLeased, RowsBound,
         HasRow, Attempts, OneJob, JobsEnded, Quiet, PurgerSteps
<1>6. Places'
  BY <1>1, <1>2 DEF PInv, Places
<1>7. PairsSaid'
  BY <1>1, <1>2 DEF PInv, PairsSaid
<1>8. PairsTalked'
  BY <1>1, <1>2 DEF PInv, PairsTalked
<1>9. FlightsLeased'
  BY <1>1, <1>2 DEF PInv, FlightsLeased, Has
<1>10. JobKnows'
  BY <1>1, <1>2 DEF PInv, JobKnows
<1>11. Forgotten'
  BY <1>1, <1>4 DEF Forgotten
<1>12. Remembered'
  BY <1>1, <1>2 DEF PInv, Remembered, Delivered, Rebuilding
<1>13. Gone'
  BY <1>1, <1>2 DEF PInv, Gone
<1> QED BY <1>5, <1>6, <1>7, <1>8, <1>9, <1>10, <1>11, <1>12, <1>13 DEF PInv

LEMMA KeptPurgerDies ==
  ASSUME PInv, IInv, PurgerDies
  PROVE  PInv'
<1>1. UNCHANGED <<call, message, outbox, leases, links, talks, memory, job, worker, held,
                  flight, asked>>
  BY DEF PurgerDies, rows
<1>2. /\ purger'.pc = "idle" /\ purger' \in PurgerStates /\ purger.pc # "idle"
      /\ crashes' \in 0..MaxCrashes
  BY MemoryBounds DEF PurgerDies, Resting, PurgerStates, PInv, Places
<1>3. /\ PairsSaid' /\ PairsTalked' /\ WorkersTalked' /\ LeasesCounted' /\ LeasesOwned'
      /\ RequestsLeased' /\ FlightsLeased' /\ RowsBound' /\ Attempts' /\ JobsEnded'
      /\ JobKnows' /\ Gone'
  BY <1>1
     DEF PInv, PairsSaid, PairsTalked, WorkersTalked, Has, LeasesCounted, LeasesOwned,
         RequestsLeased, FlightsLeased, RowsBound, HasRow, Attempts, JobsEnded, JobKnows,
         Gone
<1>4. Places'
  BY <1>1, <1>2 DEF PInv, Places
<1>5. OneJob'
  BY <1>1, <1>2 DEF PInv, OneJob
<1>6. Quiet'
  BY <1>1, <1>2 DEF PInv, Quiet
<1>7. PurgerSteps'
  BY <1>2 DEF PurgerSteps
<1>8. Forgotten'
  BY <1>1, <1>2 DEF PInv, Forgotten
<1>9. Remembered'
  BY <1>1, <1>2 DEF PInv, Remembered, Delivered, Rebuilding
<1> QED BY <1>3, <1>4, <1>5, <1>6, <1>7, <1>8, <1>9 DEF PInv

LEMMA KeptInit == Init => PInv
BY MemoryBounds, MemoryNull
   DEF Init, PInv, Idle, Resting, NoRow, Places, PairsSaid, PairsTalked, WorkersTalked, Fenced,
       LeasesCounted, LeasesOwned, RequestsLeased, FlightsLeased, RowsBound, Attempts, OneJob,
       JobsEnded, JobKnows, Quiet, PurgerSteps, Forgotten, Remembered, Delivered, Gone,
       MemoryStates, JobStates, PurgerStates

LEMMA KeptDelivery ==
  ASSUME PInv, IInv, NEW w \in Workers, Deliver(w)
  PROVE  PInv'
<1>1. ASSUME NEW expired \in SUBSET {m \in Messages : outbox[m].status = "processing"},
             Claim(w, expired)
      PROVE  PInv'
  BY <1>1, KeptClaim
<1>2. ASSUME NEW p \in Providers, Bind(w, p) PROVE PInv'
  BY <1>2, KeptBind
<1>3. CASE TakeLease(w)
  <2>1. CASE memory.state = "ready"
    BY <1>3, <2>1, KeptTakeLease
  <2>2. CASE memory.state # "ready"
    BY <1>3, <2>2, KeptPut DEF TakeLease, MayWrite
  <2> QED BY <2>1, <2>2
<1>4. CASE CheckLink(w)
  BY <1>4, KeptLinked, KeptUnlinked
<1>5. CASE StartLease(w)
  <2>1. CASE /\ Lease(w) # {} /\ Goto(w, "fenced")
             /\ leases' = (leases \ Lease(w)) \cup
                            {[l EXCEPT !.started = TRUE] : l \in Lease(w)}
    <3>1. leases' = (leases \ Lease(w)) \cup {Sent(l) : l \in Lease(w)}
      BY <2>1 DEF Sent
    <3> QED BY <1>5, <2>1, <3>1, KeptStartLease DEF StartLease
  <2>2. CASE Goto(w, "failing") /\ UNCHANGED leases
    BY <1>5, <2>2, KeptPut DEF StartLease
  <2> QED BY <1>5, <2>1, <2>2 DEF StartLease
<1>6. CASE StartRow(w) \/ Ask(w) \/ RecordLink(w)
  BY <1>6, KeptStartRow, KeptAsk, KeptRecordLink
<1>7. CASE FinishWell(w) \/ FinishBadly(w) \/ MarkCompleted(w) \/ MarkFailed(w)
  BY <1>7, KeptFinishWell, KeptFinishBadly, KeptMarkCompleted, KeptMarkFailed
<1> QED BY <1>1, <1>2, <1>3, <1>4, <1>5, <1>6, <1>7 DEF Deliver

LEMMA KeptDeath ==
  ASSUME PInv, IInv, NEW w \in Workers, WorkerDies(w)
  PROVE  PInv'
<1> DEFINE p == <<worker[w].message, worker[w].provider>>
           sent == IF worker[w].pc = "asking" THEN {p} ELSE {}
<1>1. /\ worker[w].pc # "idle" /\ worker' = [worker EXCEPT ![w] = Idle]
      /\ flight' = flight \cup sent /\ crashes' \in 0..MaxCrashes
      /\ UNCHANGED <<call, message, outbox, leases, links, talks, memory, job, purger,
                     held, asked>>
  BY MemoryBounds DEF WorkerDies, rows, PInv, Places
<1>2. worker[w].pc = "asking" => p \in Pairs
  BY MemoryBusy DEF PInv, RowsBound, Pairs
<1>3. sent \in SUBSET {x \in Pairs : worker[w].pc = "asking" /\ x = p}
  BY <1>2
<1> QED BY <1>1, <1>3, KeptDrop

LEMMA KeptClaimJob ==
  ASSUME PInv, IInv, NEW c \in Calls, NEW expired \in SUBSET {l \in leases : MayExpire(l)},
         ClaimJob(c, expired)
  PROVE  PInv'
<1> DEFINE pending == leases \ {l \in expired : Harmless(l)}
           ambiguous == {l \in pending : l \in expired \/ l.status = "needs_attention"}
<1>1. /\ purger.pc = "idle" /\ memory.job = c /\ job[c].status \in {"scheduled", "running"}
      /\ UNCHANGED <<call, message, outbox, links, talks, worker, held, flight, asked, crashes>>
  BY DEF ClaimJob
<1>2. CASE leases' = pending /\ UNCHANGED <<job, memory, purger>>
  BY <1>1, <1>2, KeptWait
<1>3. ASSUME NEW l \in ambiguous, leases' = (pending \ {l}) \cup {Surfaced(l)},
             job' = [job EXCEPT ![c].status = "needs_attention"],
             memory' = [memory EXCEPT !.state = "needs_attention"], UNCHANGED purger
      PROVE  PInv'
  BY <1>1, <1>3, KeptStall
<1>4. CASE /\ pending = {} /\ leases' = {}
           /\ job' = [job EXCEPT ![c].status = "running", ![c].dirty = FALSE]
           /\ memory' = [memory EXCEPT !.state = "rebuilding"]
           /\ purger' = [pc |-> "started", job |-> c, todo |-> {}]
  BY <1>1, <1>4, KeptTake
<1> QED BY <1>2, <1>3, <1>4 DEF ClaimJob

LEMMA KeptPurge ==
  ASSUME PInv, IInv, Purge \/ Fail
  PROVE  PInv'
<1>1. ASSUME NEW c \in Calls, NEW expired \in SUBSET {l \in leases : MayExpire(l)},
             ClaimJob(c, expired)
      PROVE  PInv'
  BY <1>1, KeptClaimJob
<1>2. CASE Decide
  <2>1. CASE "mem0" \in job[purger.job].providers
    BY <1>2, <2>1, KeptSurface DEF Decide
  <2>2. CASE "mem0" \notin job[purger.job].providers
    BY <1>2, <2>2, KeptDecide DEF Decide
  <2> QED BY <2>1, <2>2
<1>3. CASE Forget
  <2>1. CASE Continue("resetting") /\ UNCHANGED <<job, memory>>
    BY <1>3, <2>1, KeptForget DEF Forget
  <2>2. CASE Surface
    BY <1>3, <2>2, KeptSurface DEF Forget
  <2> QED BY <1>3, <2>1, <2>2 DEF Forget
<1>4. CASE Complete
  <2>1. CASE job[purger.job].dirty
    BY <1>4, <2>1, KeptAgain DEF Complete
  <2>2. CASE ~job[purger.job].dirty
    BY <1>4, <2>2, KeptCompleted DEF Complete
  <2> QED BY <2>1, <2>2
<1>5. ASSUME NEW m \in Messages, Replay(m) PROVE PInv'
  BY <1>5, KeptReplay
<1>6. CASE ResetLinks \/ SaveProgress
  BY <1>6, KeptResetLinks, KeptSaveProgress
<1>7. CASE Fail
  BY <1>7, KeptSurface DEF Fail
<1> QED BY <1>1, <1>2, <1>3, <1>4, <1>5, <1>6, <1>7 DEF Purge

LEMMA KeptStep == PInv /\ IInv /\ [Next]_vars => PInv'
<1> SUFFICES ASSUME PInv, IInv, [Next]_vars PROVE PInv'
  OBVIOUS
<1>1. ASSUME NEW m \in Messages, Say(m) PROVE PInv'
  BY <1>1, KeptSay
<1>2. ASSUME NEW c \in Calls, HangUp(c) \/ RequestPurge(c) \/ Retry(c) PROVE PInv'
  BY <1>2, KeptHangUp, KeptRequestPurge, KeptRetry
<1>3. ASSUME NEW w \in Workers, Deliver(w) \/ WorkerDies(w) PROVE PInv'
  BY <1>3, KeptDelivery, KeptDeath
<1>4. ASSUME NEW p \in flight, Land(p) PROVE PInv'
  BY <1>4, KeptLand
<1>5. CASE Purge \/ Fail \/ PurgerDies
  BY <1>5, KeptPurge, KeptPurgerDies
<1>6. CASE UNCHANGED vars
  BY <1>6 DEF vars, rows, PInv, Places, PairsSaid, PairsTalked, WorkersTalked, Fenced, Has,
              LeasesCounted, LeasesOwned, RequestsLeased, FlightsLeased, RowsBound, HasRow,
              Attempts, OneJob, JobsEnded, JobKnows, Quiet, PurgerSteps, Forgotten,
              Remembered, Delivered, Rebuilding, Gone
<1> QED BY <1>1, <1>2, <1>3, <1>4, <1>5, <1>6 DEF Next

\* What the workers, the purge and their crashes keep from the first state on:
\* the delivery invariant of memory_outbox.py and the one of purge.py.
THEOREM MemoryInvariant == Spec => [](IInv /\ PInv)
<1>1. Init => IInv /\ PInv
  BY MemoryInit, KeptInit
<1>2. IInv /\ PInv /\ [Next]_vars => (IInv /\ PInv)'
  BY MemoryStep, KeptStep
<1> QED BY <1>1, <1>2, PTL DEF Spec

\* Every row, lease, job and worker of memory_outbox.py and purge.py stays in
\* the states its schema and its code give it, and the attempt of a row within
\* the attempts that may be made.
THEOREM MemoryTypeOK == Spec => []TypeOK
<1>1. IInv /\ PInv => TypeOK
  BY DEF IInv, PInv, Types, Places, TypeOK
<1> QED BY <1>1, MemoryInvariant, PTL

\* When the purge of a call completes, no provider remembers a sentence of it,
\* nobody asks one to and no request that would make it is on its way: purge.py
\* waits for every lease, and purge_state.py stops with whoever it cannot reset.
THEOREM MemoryDeletedIsForgotten == Spec => []DeletedIsForgotten
<1>1. PInv => DeletedIsForgotten
  BY DEF PInv, Gone, DeletedIsForgotten
<1> QED BY <1>1, MemoryInvariant, PTL

\* When the conversation's memory is ready, a sentence that was not deleted and
\* is linked to a provider, or whose row memory_outbox.py completed, is
\* remembered by that provider: the reset of a purge is undone by its replay.
THEOREM MemorySettledIsRemembered == Spec => []SettledIsRemembered
<1>1. PInv /\ IInv => SettledIsRemembered
  <2> SUFFICES ASSUME PInv, IInv, memory.state = "ready", NEW m \in Messages,
                      message[m] = "kept"
               PROVE  /\ \A p \in Providers : <<m, p>> \in links => <<m, p>> \in held
                      /\ outbox[m].status = "completed" => <<m, outbox[m].provider>> \in held
    BY DEF SettledIsRemembered, Kept
  <2>1. ~Rebuilding(m)
    BY MemoryNull DEF PInv, OneJob, Rebuilding
  <2>2. \A p \in Providers : Delivered(m, p) => <<m, p>> \in held
    BY <2>1 DEF PInv, Remembered
  <2>3. outbox[m].status = "completed" => outbox[m].provider \in Providers
    BY DEF PInv, RowsBound
  <2> QED BY <2>2, <2>3 DEF Delivered
<1> QED BY <1>1, MemoryInvariant, PTL

====
