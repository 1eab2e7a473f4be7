---- MODULE BillingGuardProofs ----
(***************************************************************************)
(* BillingGuard keeps its promises for any number of requests, accounts    *)
(* and users: no two requests have the lock of one account, the registry   *)
(* has exactly the entries in use, provider work runs under the lock, and  *)
(* a client whose stream is done has all of it.                            *)
(*                                                                         *)
(* The inductive invariant has two parts.  LockInv is about the lock       *)
(* entries alone: an entry counts the leases that name it and those that   *)
(* hold its lock, so that its owner is given up, and the entry forgotten,  *)
(* by the last of them.  Four kinds of steps touch it: a lease joins its   *)
(* entry, wakes, leaves, or nothing happens to the locks.  HandlerInv says *)
(* which requests have a lease to leave with.  On top of them, StreamInv   *)
(* accounts for every item between the provider and the client.            *)
(***************************************************************************)
EXTENDS BillingGuard, TLAPS, FiniteSetTheorems, SequenceTheorems

EntryRecords == [participants : Nat, owner : Requests \cup {NULL}, depth : Nat,
                 queue : Seq(Leases)]

UsersOf(e) == {l \in Leases : lease[l].ref = e}

HoldersOf(e) == {l \in Leases : Holds(l) /\ lease[l].ref = e}

LockTypes ==
  /\ registry \in [Accounts -> Entries \cup {NULL}]
  /\ entry \in [Entries -> EntryRecords]
  /\ lease \in [Leases -> LeaseStates]

InQueue(l, q) == \E i \in DOMAIN q : q[i] = l

\* A lease names the entry of its account while it waits or holds.
LeasesUseEntries ==
  \A l \in Leases :
    /\ Uses(l) => /\ lease[l].account \in Accounts /\ lease[l].ref \in Entries
                  /\ registry[lease[l].account] = lease[l].ref
    /\ ~Uses(l) => lease[l].ref = NULL

HoldersOwn == \A l \in Leases : Holds(l) => entry[lease[l].ref].owner = Owner(l)

WaitersQueue ==
  \A l \in Leases : lease[l].pc = "waiting" => InQueue(l, entry[lease[l].ref].queue)

EntriesAreUsed ==
  /\ \A a \in Accounts : registry[a] # NULL => \E l \in Leases : Uses(l) /\ lease[l].account = a
  /\ \A a, b \in Accounts : registry[a] # NULL /\ registry[a] = registry[b] => a = b

EntriesCount ==
  \A e \in Entries : /\ entry[e].participants = Cardinality(UsersOf(e))
                     /\ entry[e].depth = Cardinality(HoldersOf(e))

LockInv == LockTypes /\ LeasesUseEntries /\ HoldersOwn /\ WaitersQueue /\ EntriesAreUsed
           /\ EntriesCount

----------------------------------------------------------------------------
(* Leases and entries *)

\* There are finitely many leases, each of a request.
LEMMA LeasesAreFinite ==
  /\ IsFiniteSet(Leases)
  /\ \A l \in Leases : Owner(l) \in Requests
  /\ \A r \in Requests : Inner(r) \in Leases /\ Owner(Inner(r)) = r
  /\ \A r \in Turns : <<r, "outer">> \in Leases /\ Owner(<<r, "outer">>) = r
<1>1. \A l \in Leases : Owner(l) \in Requests
  BY RequestsAssumption DEF Leases, Owner
<1>2. \A r \in Requests : Inner(r) \in Leases /\ Owner(Inner(r)) = r
  BY DEF Leases, Owner, Inner
<1>3. \A r \in Turns : <<r, "outer">> \in Leases /\ Owner(<<r, "outer">>) = r
  BY DEF Leases, Owner
<1>4. IsFiniteSet(Leases)
  <2> DEFINE In == {<<r, "inner">> : r \in Requests}
             Out == {<<r, "outer">> : r \in Turns}
             f == [r \in Requests |-> <<r, "inner">>]
             g == [r \in Turns |-> <<r, "outer">>]
  <2>1. f \in Surjection(Requests, In)
    BY DEF Surjection
  <2>2. g \in Surjection(Turns, Out)
    BY DEF Surjection
  <2>3. IsFiniteSet(Turns)
    BY FS_Subset, RequestsAssumption, GuardFinite
  <2>4. IsFiniteSet(In) /\ IsFiniteSet(Out)
    <3> HIDE DEF f, g, In, Out
    <3> QED BY <2>1, <2>2, <2>3, FS_Surjection, GuardFinite
  <2>5. Leases = In \cup Out
    BY DEF Leases
  <2> QED
    <3> HIDE DEF In, Out
    <3> QED BY <2>4, <2>5, FS_Union
<1> QED BY <1>1, <1>2, <1>3, <1>4

\* Sets of leases are finite.
LEMMA SetsOfLeases ==
  ASSUME NEW S \in SUBSET Leases
  PROVE  IsFiniteSet(S) /\ Cardinality(S) \in Nat
<1>1. IsFiniteSet(S)
  BY LeasesAreFinite, FS_Subset
<1> QED BY <1>1, FS_CardinalityType

\* A fresh entry is found, and is in nobody's use.
LEMMA FreshIsUnused ==
  ASSUME LockInv
  PROVE  /\ Fresh \in Entries
         /\ \A a \in Accounts : registry[a] # Fresh
         /\ \A l \in Leases : lease[l].ref # Fresh
<1>1. \E e \in Entries : \A a \in Accounts : registry[a] # e
  <2> SUFFICES ASSUME \A e \in Entries : \E a \in Accounts : registry[a] = e
               PROVE  FALSE
    OBVIOUS
  <2> DEFINE g == [e \in Entries |-> CHOOSE a \in Accounts : registry[a] = e]
  <2>1. \A e \in Entries : g[e] \in Accounts /\ registry[g[e]] = e
    OBVIOUS
  <2>2. g \in [Entries -> Accounts]
    BY <2>1
  <2> HIDE DEF g
  <2>3. \E x, y \in Entries : x # y /\ g[x] = g[y]
    BY <2>2, FS_PigeonHole, GuardFinite
  <2> QED BY <2>1, <2>3
<1>2. PICK e \in Entries : \A a \in Accounts : registry[a] # e
  BY <1>1
<1>3. \A l \in Leases : lease[l].ref # e
  BY <1>2, GuardNull DEF LockInv, LeasesUseEntries
<1> QED BY <1>2, <1>3 DEF Fresh

\* Without(q, l) keeps every other waiter.
LEMMA WithoutKeepsOthers ==
  ASSUME NEW q \in Seq(Leases), NEW l \in Leases, InQueue(l, q)
  PROVE  /\ Without(q, l) \in Seq(Leases)
         /\ \A k \in Leases : k # l /\ InQueue(k, q) => InQueue(k, Without(q, l))
<1> DEFINE i == CHOOSE i \in DOMAIN q : q[i] = l
           p == SubSeq(q, 1, i - 1)
           s == SubSeq(q, i + 1, Len(q))
<1>1. DOMAIN q = 1..Len(q) /\ Len(q) \in Nat /\ \A j \in 1..Len(q) : q[j] \in Leases
  OBVIOUS
<1>2. i \in 1..Len(q) /\ q[i] = l
  BY <1>1 DEF InQueue
<1>3. Without(q, l) = p \o s
  BY DEF Without
<1> HIDE DEF i
<1>4. p \in Seq(Leases) /\ Len(p) = i - 1 /\ \A j \in 1..(i - 1) : p[j] = q[j]
  <2>1. \A j \in 1..(i - 1) : q[j] \in Leases
    BY <1>1, <1>2
  <2>2. i - 1 \in Int /\ (IF 1 <= i - 1 THEN (i - 1) - 1 + 1 ELSE 0) = i - 1
        /\ (i - 1) - 1 + 1 = i - 1
    BY <1>1, <1>2
  <2>3. \A j \in 1..((i - 1) - 1 + 1) : p[j] = q[1 + j - 1]
    BY <2>1, <2>2, SubSeqProperties
  <2>4. \A j \in 1..(i - 1) : 1 + j - 1 = j
    BY <1>1, <1>2
  <2> QED BY <2>1, <2>2, <2>3, <2>4, SubSeqProperties
<1>5. s \in Seq(Leases) /\ Len(s) = Len(q) - i
      /\ \A j \in 1..(Len(q) - i) : s[j] = q[i + j]
  <2>1. \A j \in (i + 1)..Len(q) : q[j] \in Leases
    BY <1>1, <1>2
  <2>2. /\ i + 1 \in Int /\ Len(q) \in Int
        /\ (IF i + 1 <= Len(q) THEN Len(q) - (i + 1) + 1 ELSE 0) = Len(q) - i
        /\ Len(q) - (i + 1) + 1 = Len(q) - i
    <3>1. i \in Int /\ Len(q) \in Int /\ 1 <= i /\ i <= Len(q)
      BY <1>1, <1>2
    <3>2. CASE i + 1 <= Len(q)
      BY <3>1, <3>2
    <3>3. CASE ~(i + 1 <= Len(q))
      BY <3>1, <3>3
    <3> QED BY <3>2, <3>3
  <2>3. \A j \in 1..(Len(q) - (i + 1) + 1) : s[j] = q[(i + 1) + j - 1]
    BY <2>1, <2>2, SubSeqProperties
  <2>4. \A j \in 1..(Len(q) - i) : (i + 1) + j - 1 = i + j
    BY <1>1, <1>2
  <2> QED BY <2>1, <2>2, <2>3, <2>4, SubSeqProperties
<1> HIDE DEF p, s
<1>6. /\ p \o s \in Seq(Leases)
      /\ Len(p \o s) = Len(p) + Len(s)
      /\ \A j \in 1..(Len(p) + Len(s)) :
           (p \o s)[j] = IF j <= Len(p) THEN p[j] ELSE s[j - Len(p)]
  BY <1>4, <1>5, ConcatProperties
<1>7. ASSUME NEW k \in Leases, k # l, InQueue(k, q)
      PROVE  InQueue(k, p \o s)
  <2>1. PICK j \in 1..Len(q) : q[j] = k
    BY <1>7, <1>1 DEF InQueue
  <2>2. DOMAIN (p \o s) = 1..(Len(q) - 1)
    <3>1. Len(p \o s) = Len(q) - 1
      BY <1>1, <1>2, <1>4, <1>5, <1>6
    <3>2. DOMAIN (p \o s) = 1..Len(p \o s)
      BY <1>6
    <3> QED BY <3>1, <3>2
  <2>3. CASE j < i
    <3>1. j \in 1..(i - 1) /\ j \in 1..(Len(q) - 1) /\ j <= Len(p) /\ j \in 1..(Len(p) + Len(s))
      BY <2>3, <1>1, <1>2, <1>4, <1>5
    <3>2. (p \o s)[j] = k
      BY <3>1, <1>4, <1>6, <2>1
    <3> QED BY <3>1, <3>2, <2>2 DEF InQueue
  <2>4. CASE j > i
    <3>1. /\ j - i \in 1..(Len(q) - i) /\ j - 1 \in 1..(Len(q) - 1) /\ ~(j - 1 <= Len(p))
          /\ j - 1 \in 1..(Len(p) + Len(s)) /\ (j - 1) - Len(p) = j - i /\ i + (j - i) = j
      BY <2>4, <1>1, <1>2, <1>4, <1>5
    <3>2. (p \o s)[j - 1] = k
      BY <3>1, <1>5, <1>6, <2>1
    <3> QED BY <3>1, <3>2, <2>2 DEF InQueue
  <2>5. j # i
    BY <1>2, <1>7, <2>1
  <2> QED BY <2>3, <2>4, <2>5, <1>2
<1> QED BY <1>3, <1>6, <1>7

----------------------------------------------------------------------------
(* The steps of the locks *)

\* Nothing happens to the locks: the leases that use an entry, and those that
\* hold its lock, are the same.
LEMMA LocksUntouched ==
  ASSUME LockInv, LockTypes', UNCHANGED <<registry, entry>>,
         \A l \in Leases : /\ Uses(l)' = Uses(l)
                           /\ Holds(l)' = Holds(l)
                           /\ lease'[l].ref = lease[l].ref
                           /\ Uses(l) => lease'[l].account = lease[l].account
  PROVE  LockInv'
<1>1. LeasesUseEntries'
  BY DEF LockInv, LeasesUseEntries
<1>2. HoldersOwn'
  BY DEF LockInv, HoldersOwn
<1>3. WaitersQueue'
  <2>1. \A l \in Leases : lease'[l].pc = "waiting" => lease[l].pc = "waiting"
    BY Zenon DEF Uses, Holds
  <2> QED BY <2>1 DEF LockInv, WaitersQueue, InQueue
<1>4. EntriesAreUsed'
  BY DEF LockInv, EntriesAreUsed
<1>5. EntriesCount'
  <2>1. \A e \in Entries : UsersOf(e)' = UsersOf(e) /\ HoldersOf(e)' = HoldersOf(e)
    BY DEF UsersOf, HoldersOf
  <2> QED BY <2>1 DEF LockInv, EntriesCount
<1> QED BY <1>1, <1>2, <1>3, <1>4, <1>5 DEF LockInv

\* Lease l leaves its entry as x: it lets go of the lock, or stops waiting.
LEMMA LeaseDeparts ==
  ASSUME LockInv, NEW l \in Leases, NEW e \in Entries, NEW a \in Accounts,
         NEW x \in EntryRecords, NEW y \in LeaseStates,
         Uses(l), lease[l].ref = e, lease[l].account = a,
         Leave(l, x), lease' = [lease EXCEPT ![l] = y],
         y.pc \in {"idle", "reading"}, y.ref = NULL,
         x.participants = entry[e].participants - 1,
         x.depth = Cardinality(HoldersOf(e) \ {l}),
         \A k \in HoldersOf(e) \ {l} : x.owner = Owner(k),
         \A k \in Leases \ {l} : InQueue(k, entry[e].queue) => InQueue(k, x.queue)
  PROVE  LockInv'
<1>1. /\ registry \in [Accounts -> Entries \cup {NULL}] /\ entry \in [Entries -> EntryRecords]
      /\ lease \in [Leases -> LeaseStates]
  BY DEF LockInv, LockTypes
<1>2. registry[a] = e /\ e # NULL
  BY GuardNull DEF LockInv, LeasesUseEntries
<1>3. /\ entry'[e] = x
      /\ \A f \in Entries \ {e} : entry'[f] = entry[f]
      /\ entry' \in [Entries -> EntryRecords]
  BY <1>1 DEF Leave
<1>4. /\ lease'[l] = y
      /\ \A k \in Leases \ {l} : lease'[k] = lease[k]
      /\ lease' \in [Leases -> LeaseStates]
  BY <1>1
<1>5. /\ ~Uses(l)' /\ ~Holds(l)' /\ lease'[l].ref = NULL
      /\ \A k \in Leases \ {l} : Uses(k)' = Uses(k) /\ Holds(k)' = Holds(k)
  BY <1>4 DEF Uses, Holds
<1>6. /\ UsersOf(e)' = UsersOf(e) \ {l}
      /\ \A f \in Entries \ {e} : UsersOf(f)' = UsersOf(f)
  BY <1>4, <1>5, GuardNull DEF UsersOf
<1>7. /\ HoldersOf(e)' = HoldersOf(e) \ {l}
      /\ \A f \in Entries \ {e} : HoldersOf(f)' = HoldersOf(f)
  BY <1>4, <1>5, GuardNull DEF HoldersOf
<1>8. x.participants = Cardinality(UsersOf(e) \ {l})
  <2>1. l \in UsersOf(e) /\ UsersOf(e) \in SUBSET Leases
    BY DEF UsersOf
  <2>2. IsFiniteSet(UsersOf(e))
    BY <2>1, SetsOfLeases
  <2> QED BY <2>1, <2>2, FS_RemoveElement DEF LockInv, EntriesCount
<1>9. Unused(x) <=> UsersOf(e) \ {l} = {}
  <2>1. IsFiniteSet(UsersOf(e) \ {l})
    <3>1. UsersOf(e) \ {l} \in SUBSET Leases
      BY DEF UsersOf
    <3> QED BY <3>1, SetsOfLeases
  <2> QED BY <1>8, <2>1, FS_EmptySet DEF Unused
<1>10. /\ \A b \in Accounts \ {a} : registry'[b] = registry[b]
       /\ registry'[a] = IF Unused(x) THEN NULL ELSE e
       /\ registry' \in [Accounts -> Entries \cup {NULL}]
  BY <1>1, <1>2 DEF Leave
<1>11. LockTypes'
  BY <1>3, <1>4, <1>10 DEF LockTypes
<1>12. \A k \in Leases \ {l} : Uses(k) /\ lease[k].ref = e => ~Unused(x)
  BY <1>9 DEF UsersOf
<1>13. LeasesUseEntries'
  <2> SUFFICES ASSUME NEW k \in Leases
               PROVE  /\ Uses(k)' => /\ lease'[k].account \in Accounts /\ lease'[k].ref \in Entries
                                     /\ registry'[lease'[k].account] = lease'[k].ref
                      /\ ~Uses(k)' => lease'[k].ref = NULL
    BY DEF LeasesUseEntries
  <2>1. CASE k = l
    BY <2>1, <1>5
  <2>2. CASE k # l
    <3>1. lease'[k] = lease[k] /\ (Uses(k)' <=> Uses(k))
      BY <2>2, <1>4, <1>5
    <3>2. CASE Uses(k)
      <4>1. /\ lease[k].account \in Accounts /\ lease[k].ref \in Entries
            /\ registry[lease[k].account] = lease[k].ref
        BY <3>2 DEF LockInv, LeasesUseEntries
      <4>2. CASE lease[k].account = a
        <5>1. lease[k].ref = e
          BY <4>1, <4>2, <1>2
        <5>2. ~Unused(x)
          BY <5>1, <3>2, <2>2, <1>12
        <5> QED BY <5>1, <5>2, <4>1, <4>2, <3>1, <3>2, <1>10
      <4>3. CASE lease[k].account # a
        BY <4>1, <4>3, <3>1, <3>2, <1>10
      <4> QED BY <4>2, <4>3
    <3>3. CASE ~Uses(k)
      BY <3>1, <3>3 DEF LockInv, LeasesUseEntries
    <3> QED BY <3>2, <3>3
  <2> QED BY <2>1, <2>2
<1>14. HoldersOwn'
  <2> SUFFICES ASSUME NEW k \in Leases, Holds(k)'
               PROVE  entry'[lease'[k].ref].owner = Owner(k)
    BY DEF HoldersOwn
  <2>1. k # l /\ lease'[k] = lease[k] /\ Holds(k)
    BY <1>4, <1>5
  <2>2. lease[k].ref \in Entries /\ entry[lease[k].ref].owner = Owner(k)
    BY <2>1 DEF LockInv, LeasesUseEntries, HoldersOwn, Uses, Holds
  <2>3. CASE lease[k].ref = e
    <3>1. k \in HoldersOf(e) \ {l}
      BY <2>1, <2>3 DEF HoldersOf
    <3> QED BY <3>1, <2>1, <2>3, <1>3
  <2>4. CASE lease[k].ref # e
    BY <2>1, <2>2, <2>4, <1>3
  <2> QED BY <2>3, <2>4
<1>15. WaitersQueue'
  <2> SUFFICES ASSUME NEW k \in Leases, lease'[k].pc = "waiting"
               PROVE  InQueue(k, entry'[lease'[k].ref].queue)
    BY DEF WaitersQueue, InQueue
  <2>1. k # l /\ lease'[k] = lease[k]
    BY <1>4
  <2>2. lease[k].ref \in Entries /\ InQueue(k, entry[lease[k].ref].queue)
    BY <2>1 DEF LockInv, LeasesUseEntries, WaitersQueue, Uses
  <2>3. CASE lease[k].ref = e
    BY <2>1, <2>2, <2>3, <1>3
  <2>4. CASE lease[k].ref # e
    BY <2>1, <2>2, <2>4, <1>3
  <2> QED BY <2>3, <2>4
<1>16. EntriesAreUsed'
  <2>1. ASSUME NEW b \in Accounts, registry'[b] # NULL
        PROVE  registry'[b] = registry[b] /\ \E k \in Leases : Uses(k)' /\ lease'[k].account = b
    <3>1. CASE b = a
      <4>1. ~Unused(x)
        BY <2>1, <3>1, <1>10
      <4>2. PICK k \in UsersOf(e) : k # l
        BY <4>1, <1>9
      <4>3. k \in Leases /\ lease[k].ref = e /\ Uses(k)
        BY <1>2 DEF UsersOf, LockInv, LeasesUseEntries
      <4>4. lease[k].account \in Accounts /\ registry[lease[k].account] = e
        BY <4>3 DEF LockInv, LeasesUseEntries
      <4>5. lease[k].account = a
        BY <4>4, <1>2 DEF LockInv, EntriesAreUsed
      <4>6. Uses(k)' /\ lease'[k].account = a
        BY <4>2, <4>3, <4>5, <1>4, <1>5
      <4> QED BY <4>1, <4>3, <4>6, <3>1, <1>2, <1>10
    <3>2. CASE b # a
      <4>1. registry'[b] = registry[b]
        BY <3>2, <1>10
      <4>2. PICK k \in Leases : Uses(k) /\ lease[k].account = b
        BY <4>1, <2>1 DEF LockInv, EntriesAreUsed
      <4>3. k # l
        BY <4>2, <3>2
      <4>4. Uses(k)' /\ lease'[k].account = b
        BY <4>2, <4>3, <1>4, <1>5
      <4> QED BY <4>1, <4>4
    <3> QED BY <3>1, <3>2
  <2>2. ASSUME NEW b \in Accounts, NEW c \in Accounts, registry'[b] # NULL,
               registry'[b] = registry'[c]
        PROVE  b = c
    <3>1. registry'[b] = registry[b] /\ registry'[c] = registry[c]
      BY <2>1, <2>2
    <3> QED BY <3>1, <2>2 DEF LockInv, EntriesAreUsed
  <2> QED BY <2>1, <2>2 DEF EntriesAreUsed
<1>17. EntriesCount'
  <2> SUFFICES ASSUME NEW f \in Entries
               PROVE  /\ entry'[f].participants = Cardinality(UsersOf(f)')
                      /\ entry'[f].depth = Cardinality(HoldersOf(f)')
    BY DEF EntriesCount
  <2>1. CASE f = e
    BY <2>1, <1>3, <1>6, <1>7, <1>8
  <2>2. CASE f # e
    BY <2>2, <1>3, <1>6, <1>7 DEF LockInv, EntriesCount
  <2> QED BY <2>1, <2>2
<1> QED BY <1>11, <1>13, <1>14, <1>15, <1>16, <1>17 DEF LockInv

\* The lease that is released was counted, and the lock stays with its owner
\* while another lease of that owner has it.
LEMMA LeaseReleased ==
  ASSUME LockInv, NEW l \in Leases, NEW y \in LeaseStates, Holds(l), ReleaseLease(l),
         lease' = [lease EXCEPT ![l] = y], y.pc \in {"idle", "reading"}, y.ref = NULL
  PROVE  LockInv'
<1>1. PICK e \in Entries, a \in Accounts : e = lease[l].ref /\ a = lease[l].account
  BY DEF LockInv, LeasesUseEntries, Uses, Holds
<1>2. PICK x : x = Released(entry[e])
  OBVIOUS
<1>3. entry[e] \in EntryRecords
  BY DEF LockInv, LockTypes
<1>4. /\ x.participants = entry[e].participants - 1
      /\ x.depth = entry[e].depth - 1
      /\ x.owner = IF entry[e].depth = 1 THEN NULL ELSE entry[e].owner
      /\ x.queue = entry[e].queue
      /\ x = [participants |-> x.participants, owner |-> x.owner, depth |-> x.depth,
              queue |-> x.queue]
  BY <1>2, <1>3 DEF Released, EntryRecords
<1>5. /\ l \in UsersOf(e) /\ l \in HoldersOf(e)
      /\ UsersOf(e) \in SUBSET Leases /\ HoldersOf(e) \in SUBSET Leases
  BY <1>1 DEF UsersOf, HoldersOf
<1>6. /\ entry[e].participants = Cardinality(UsersOf(e))
      /\ entry[e].depth = Cardinality(HoldersOf(e))
  BY DEF LockInv, EntriesCount
<1>7. /\ Cardinality(UsersOf(e) \ {l}) = entry[e].participants - 1
      /\ Cardinality(UsersOf(e) \ {l}) \in Nat
  <2>1. IsFiniteSet(UsersOf(e)) /\ UsersOf(e) \ {l} \in SUBSET Leases
    BY <1>5, SetsOfLeases
  <2> QED BY <2>1, <1>5, <1>6, FS_RemoveElement, SetsOfLeases
<1>8. /\ Cardinality(HoldersOf(e) \ {l}) = entry[e].depth - 1
      /\ Cardinality(HoldersOf(e) \ {l}) \in Nat
      /\ Cardinality(HoldersOf(e) \ {l}) = 0 <=> HoldersOf(e) \ {l} = {}
  <2>1. /\ IsFiniteSet(HoldersOf(e)) /\ HoldersOf(e) \ {l} \in SUBSET Leases
    BY <1>5, SetsOfLeases
  <2>2. IsFiniteSet(HoldersOf(e) \ {l})
    BY <2>1, SetsOfLeases
  <2>3. Cardinality(HoldersOf(e) \ {l}) \in Nat
    BY <2>1, SetsOfLeases
  <2>4. Cardinality(HoldersOf(e) \ {l}) = 0 <=> HoldersOf(e) \ {l} = {}
    BY <2>2, FS_EmptySet
  <2>5. Cardinality(HoldersOf(e) \ {l}) = entry[e].depth - 1
    BY <2>1, <1>5, <1>6, FS_RemoveElement
  <2> QED BY <2>3, <2>4, <2>5
<1>9. x \in EntryRecords
  <2>1. entry[e].owner \in Requests \cup {NULL} /\ entry[e].queue \in Seq(Leases)
    BY <1>3 DEF EntryRecords
  <2>2. /\ x.participants \in Nat /\ x.depth \in Nat
        /\ x.owner \in Requests \cup {NULL} /\ x.queue \in Seq(Leases)
    BY <2>1, <1>4, <1>7, <1>8
  <2> QED BY <2>2, <1>4 DEF EntryRecords
<1>10. \A k \in HoldersOf(e) \ {l} : x.owner = Owner(k)
  <2> TAKE k \in HoldersOf(e) \ {l}
  <2>1. entry[e].owner = Owner(k)
    BY DEF HoldersOf, LockInv, HoldersOwn
  <2>2. entry[e].depth # 1
    BY <1>8
  <2> QED BY <2>1, <2>2, <1>4
<1>11. Leave(l, x)
  BY <1>1, <1>2 DEF ReleaseLease
<1>12. Uses(l)
  BY DEF Uses, Holds
<1> QED BY <1>1, <1>4, <1>7, <1>8, <1>9, <1>10, <1>11, <1>12, LeaseDeparts

\* A cancelled waiter leaves the queue and the count.
LEMMA WaiterWithdraws ==
  ASSUME LockInv, NEW l \in Leases, NEW y \in LeaseStates, lease[l].pc = "waiting",
         Leave(l, Withdrawn(entry[lease[l].ref], l)),
         lease' = [lease EXCEPT ![l] = y], y.pc \in {"idle", "reading"}, y.ref = NULL
  PROVE  LockInv'
<1>1. PICK e \in Entries, a \in Accounts : e = lease[l].ref /\ a = lease[l].account
  BY DEF LockInv, LeasesUseEntries, Uses
<1>2. PICK x : x = Withdrawn(entry[e], l)
  OBVIOUS
<1>3. entry[e] \in EntryRecords
  BY DEF LockInv, LockTypes
<1>4. /\ x.participants = entry[e].participants - 1
      /\ x.depth = entry[e].depth
      /\ x.owner = entry[e].owner
      /\ x.queue = Without(entry[e].queue, l)
      /\ x = [participants |-> x.participants, owner |-> x.owner, depth |-> x.depth,
              queue |-> x.queue]
  BY <1>2, <1>3 DEF Withdrawn, EntryRecords
<1>5. /\ l \in UsersOf(e) /\ l \notin HoldersOf(e) /\ UsersOf(e) \in SUBSET Leases
  BY <1>1 DEF UsersOf, HoldersOf, Holds
<1>6. /\ entry[e].participants = Cardinality(UsersOf(e))
      /\ entry[e].depth = Cardinality(HoldersOf(e))
  BY DEF LockInv, EntriesCount
<1>7. /\ Cardinality(UsersOf(e) \ {l}) = entry[e].participants - 1
      /\ Cardinality(UsersOf(e) \ {l}) \in Nat
  <2>1. IsFiniteSet(UsersOf(e)) /\ UsersOf(e) \ {l} \in SUBSET Leases
    BY <1>5, SetsOfLeases
  <2> QED BY <2>1, <1>5, <1>6, FS_RemoveElement, SetsOfLeases
<1>8. HoldersOf(e) \ {l} = HoldersOf(e)
  BY <1>5
<1>9. /\ x.queue \in Seq(Leases)
      /\ \A k \in Leases \ {l} : InQueue(k, entry[e].queue) => InQueue(k, x.queue)
  <2>1. entry[e].queue \in Seq(Leases) /\ InQueue(l, entry[e].queue)
    BY <1>1, <1>3 DEF EntryRecords, LockInv, WaitersQueue
  <2> QED BY <2>1, <1>4, WithoutKeepsOthers
<1>10. x \in EntryRecords
  <2>1. entry[e].owner \in Requests \cup {NULL} /\ entry[e].depth \in Nat
    BY <1>3 DEF EntryRecords
  <2>2. x.participants \in Nat /\ x.depth \in Nat /\ x.owner \in Requests \cup {NULL}
    BY <2>1, <1>4, <1>7
  <2> QED BY <2>2, <1>4, <1>9 DEF EntryRecords
<1>11. \A k \in HoldersOf(e) \ {l} : x.owner = Owner(k)
  BY <1>4 DEF HoldersOf, LockInv, HoldersOwn
<1>12. Leave(l, x) /\ Uses(l)
  BY <1>1, <1>2 DEF Uses
<1> QED BY <1>1, <1>4, <1>6, <1>8, <1>9, <1>10, <1>11, <1>12, LeaseDeparts

\* The first waiter takes a free lock.
LEMMA LeaseWakes ==
  ASSUME LockInv, NEW l \in Leases, Wake(l)
  PROVE  LockInv'
<1>1. PICK e \in Entries : e = lease[l].ref
  BY DEF Wake, LockInv, LeasesUseEntries, Uses
<1>2. /\ entry[e] \in EntryRecords /\ entry \in [Entries -> EntryRecords]
      /\ lease \in [Leases -> LeaseStates]
  BY DEF LockInv, LockTypes
<1>3. /\ lease[l].pc = "waiting" /\ entry[e].owner = NULL /\ Head(entry[e].queue) = l
      /\ entry' = [entry EXCEPT ![e].owner = Owner(l), ![e].depth = 1, ![e].queue = Tail(@)]
      /\ lease' = [lease EXCEPT ![l].pc = "checking"]
      /\ registry' = registry
  BY <1>1 DEF Wake
<1> DEFINE q == entry[e].queue
<1>4. q \in Seq(Leases) /\ q # <<>>
  <2>1. q \in Seq(Leases) /\ InQueue(l, q)
    BY <1>1, <1>2, <1>3 DEF EntryRecords, LockInv, WaitersQueue
  <2> QED BY <2>1 DEF InQueue
<1>5. /\ Tail(q) \in Seq(Leases) /\ Len(Tail(q)) = Len(q) - 1
      /\ \A i \in 1..Len(Tail(q)) : Tail(q)[i] = q[i + 1]
  BY <1>4, HeadTailProperties
<1>6. \A k \in Leases : k # l /\ InQueue(k, q) => InQueue(k, Tail(q))
  <2> SUFFICES ASSUME NEW k \in Leases, k # l, InQueue(k, q)
               PROVE  InQueue(k, Tail(q))
    OBVIOUS
  <2>1. DOMAIN q = 1..Len(q) /\ Len(q) \in Nat /\ q[1] = l
        /\ DOMAIN Tail(q) = 1..Len(Tail(q))
    BY <1>3, <1>4, <1>5
  <2> HIDE DEF q
  <2>2. PICK i \in 1..Len(q) : q[i] = k
    BY <2>1 DEF InQueue
  <2>3. i # 1
    BY <2>1, <2>2
  <2>4. i - 1 \in 1..Len(Tail(q)) /\ (i - 1) + 1 = i
    BY <2>1, <2>2, <2>3, <1>5
  <2>5. Tail(q)[i - 1] = k
    BY <2>2, <2>4, <1>5
  <2> QED BY <2>1, <2>4, <2>5 DEF InQueue
<1>7. HoldersOf(e) = {}
  <2> SUFFICES ASSUME NEW k \in HoldersOf(e) PROVE FALSE
    OBVIOUS
  <2>1. k \in Leases /\ entry[e].owner = Owner(k)
    BY DEF HoldersOf, LockInv, HoldersOwn
  <2> QED BY <2>1, <1>3, LeasesAreFinite, GuardNull
<1>8. /\ entry'[e] = [participants |-> entry[e].participants, owner |-> Owner(l), depth |-> 1,
                      queue |-> Tail(q)]
      /\ \A f \in Entries \ {e} : entry'[f] = entry[f]
      /\ DOMAIN entry' = Entries /\ entry' = [f \in Entries |-> entry'[f]]
  BY <1>2, <1>3 DEF EntryRecords
<1> HIDE DEF q
<1>9. /\ lease'[l].pc = "checking" /\ lease'[l].ref = e /\ lease'[l].account = lease[l].account
      /\ \A k \in Leases \ {l} : lease'[k] = lease[k]
      /\ lease' \in [Leases -> LeaseStates]
  <2>1. [lease[l] EXCEPT !.pc = "checking"] \in LeaseStates
    BY <1>2 DEF LeaseStates
  <2>2. lease'[l] = [lease[l] EXCEPT !.pc = "checking"] /\ lease[l] \in LeaseStates
    BY <1>2, <1>3
  <2>3. \A k \in Leases \ {l} : lease'[k] = lease[k]
    BY <1>2, <1>3
  <2>4. lease' \in [Leases -> LeaseStates]
    BY <2>1, <1>2, <1>3
  <2>5. lease'[l].pc = "checking" /\ lease'[l].ref = e /\ lease'[l].account = lease[l].account
    BY <2>2, <1>1 DEF LeaseStates
  <2> QED BY <2>3, <2>4, <2>5
<1>10. /\ \A k \in Leases : /\ Uses(k)' = Uses(k) /\ lease'[k].ref = lease[k].ref
                             /\ lease'[k].account = lease[k].account
       /\ Holds(l)'
       /\ \A k \in Leases \ {l} : Holds(k)' = Holds(k)
  BY <1>1, <1>3, <1>9 DEF Uses, Holds
<1>11. LockTypes'
  <2>1. entry[e].participants \in Nat /\ Owner(l) \in Requests
    BY <1>2, LeasesAreFinite DEF EntryRecords
  <2>2. entry'[e] \in EntryRecords
    BY <2>1, <1>5, <1>8 DEF EntryRecords
  <2>3. \A f \in Entries : entry'[f] \in EntryRecords
    BY <2>2, <1>2, <1>8
  <2>4. entry' \in [Entries -> EntryRecords]
    BY <2>3, <1>8
  <2> QED BY <2>4, <1>3, <1>9 DEF LockTypes, LockInv
<1>12. LeasesUseEntries'
  BY <1>3, <1>10 DEF LockInv, LeasesUseEntries
<1>13. HoldersOwn'
  <2> SUFFICES ASSUME NEW k \in Leases, Holds(k)'
               PROVE  entry'[lease'[k].ref].owner = Owner(k)
    BY DEF HoldersOwn
  <2>1. CASE k = l
    BY <2>1, <1>8, <1>9
  <2>2. CASE k # l
    <3>1. Holds(k) /\ lease'[k].ref = lease[k].ref
      BY <2>2, <1>10
    <3>2. lease[k].ref \in Entries /\ entry[lease[k].ref].owner = Owner(k)
      BY <3>1 DEF LockInv, LeasesUseEntries, HoldersOwn, Uses, Holds
    <3>3. lease[k].ref # e
      BY <3>1, <1>7 DEF HoldersOf
    <3> QED BY <3>1, <3>2, <3>3, <1>8
  <2> QED BY <2>1, <2>2
<1>14. WaitersQueue'
  <2> SUFFICES ASSUME NEW k \in Leases, lease'[k].pc = "waiting"
               PROVE  InQueue(k, entry'[lease'[k].ref].queue)
    BY DEF WaitersQueue, InQueue
  <2>1. k # l /\ lease'[k] = lease[k]
    BY <1>9
  <2>2. lease[k].ref \in Entries /\ InQueue(k, entry[lease[k].ref].queue)
    BY <2>1 DEF LockInv, LeasesUseEntries, WaitersQueue, Uses
  <2>3. CASE lease[k].ref = e
    BY <2>1, <2>2, <2>3, <1>6, <1>8 DEF q
  <2>4. CASE lease[k].ref # e
    BY <2>1, <2>2, <2>4, <1>8
  <2> QED BY <2>3, <2>4
<1>15. EntriesAreUsed'
  BY <1>3, <1>10 DEF LockInv, EntriesAreUsed
<1>16. EntriesCount'
  <2> SUFFICES ASSUME NEW f \in Entries
               PROVE  /\ entry'[f].participants = Cardinality(UsersOf(f)')
                      /\ entry'[f].depth = Cardinality(HoldersOf(f)')
    BY DEF EntriesCount
  <2>1. UsersOf(f)' = UsersOf(f)
    BY <1>10 DEF UsersOf
  <2>2. CASE f = e
    <3>1. HoldersOf(f)' = {l}
      BY <2>2, <1>1, <1>7, <1>9, <1>10 DEF HoldersOf
    <3>2. Cardinality({l}) = 1
      BY FS_Singleton
    <3> QED BY <2>1, <2>2, <3>1, <3>2, <1>8 DEF LockInv, EntriesCount
  <2>3. CASE f # e
    <3>1. HoldersOf(f)' = HoldersOf(f)
      BY <2>3, <1>1, <1>9, <1>10 DEF HoldersOf
    <3> QED BY <2>1, <2>3, <3>1, <1>8 DEF LockInv, EntriesCount
  <2> QED BY <2>2, <2>3
<1> QED BY <1>11, <1>12, <1>13, <1>14, <1>15, <1>16 DEF LockInv

\* A lease joins the entry of its account, an old one or a fresh one: it
\* enters again, takes a free lock, or waits.
LEMMA LeaseJoins ==
  ASSUME LockInv, NEW l \in Leases, Join(l)
  PROVE  LockInv'
<1>1. PICK a \in Accounts : a = lease[l].account
  BY DEF Join, LockInv, LockTypes, LeaseStates
<1>2. PICK e : e = EntryOf(a)
  OBVIOUS
<1>3. PICK old : old = IF registry[a] = NULL THEN NewEntry ELSE entry[e]
  OBVIOUS
<1>4. PICK x : x = Joined(old, l)
  OBVIOUS
<1>5. /\ lease[l].pc = "reading"
      /\ registry' = [registry EXCEPT ![a] = e]
      /\ entry' = [entry EXCEPT ![e] = x]
      /\ lease' = [lease EXCEPT ![l].ref = e,
                               ![l].pc = IF x.owner = Owner(l) THEN "checking" ELSE "waiting"]
  BY <1>1, <1>2, <1>3, <1>4 DEF Join
<1>6. /\ registry \in [Accounts -> Entries \cup {NULL}] /\ entry \in [Entries -> EntryRecords]
      /\ lease \in [Leases -> LeaseStates]
  BY DEF LockInv, LockTypes
<1>7. /\ e \in Entries /\ e # NULL
      /\ registry[a] # NULL => registry[a] = e
      /\ \A b \in Accounts \ {a} : registry[b] # e
      /\ registry[a] = NULL => \A k \in Leases : lease[k].ref # e
  <2>1. CASE registry[a] = NULL
    BY <2>1, <1>2, FreshIsUnused, GuardNull DEF EntryOf
  <2>2. CASE registry[a] # NULL
    <3>1. e = registry[a] /\ e \in Entries
      BY <2>2, <1>2, <1>6 DEF EntryOf
    <3> QED BY <2>2, <3>1 DEF LockInv, EntriesAreUsed
  <2> QED BY <2>1, <2>2
<1>8. l \notin UsersOf(e) /\ UsersOf(e) \in SUBSET Leases /\ l \notin HoldersOf(e)
      /\ HoldersOf(e) \in SUBSET Leases
  BY <1>5, <1>7 DEF UsersOf, HoldersOf, Holds, Uses, LockInv, LeasesUseEntries
<1>9. /\ old \in EntryRecords
      /\ old.participants = Cardinality(UsersOf(e))
      /\ old.depth = Cardinality(HoldersOf(e))
      /\ \A k \in HoldersOf(e) : old.owner = Owner(k)
      /\ \A k \in Leases : lease[k].pc = "waiting" /\ lease[k].ref = e => InQueue(k, old.queue)
  <2>1. CASE registry[a] = NULL
    <3>1. old = [participants |-> 0, owner |-> NULL, depth |-> 0, queue |-> <<>>]
      BY <2>1, <1>3 DEF NewEntry
    <3>2. UsersOf(e) = {} /\ HoldersOf(e) = {}
      BY <2>1, <1>7 DEF UsersOf, HoldersOf
    <3>3. old \in EntryRecords
      BY <3>1 DEF EntryRecords
    <3> QED BY <2>1, <3>1, <3>2, <3>3, <1>7, FS_EmptySet
  <2>2. CASE registry[a] # NULL
    <3>1. old = entry[e] /\ old \in EntryRecords
      BY <2>2, <1>3, <1>6, <1>7
    <3>2. old.participants = Cardinality(UsersOf(e)) /\ old.depth = Cardinality(HoldersOf(e))
      BY <3>1, <1>7 DEF LockInv, EntriesCount
    <3>3. \A k \in HoldersOf(e) : old.owner = Owner(k)
      BY <3>1 DEF HoldersOf, LockInv, HoldersOwn
    <3>4. \A k \in Leases : lease[k].pc = "waiting" /\ lease[k].ref = e
                            => InQueue(k, old.queue)
      BY <3>1 DEF LockInv, WaitersQueue
    <3> QED BY <3>1, <3>2, <3>3, <3>4
  <2> QED BY <2>1, <2>2
<1>10. /\ old = [participants |-> old.participants, owner |-> old.owner, depth |-> old.depth,
                 queue |-> old.queue]
       /\ old.participants \in Nat /\ old.depth \in Nat /\ old.queue \in Seq(Leases)
       /\ old.owner \in Requests \cup {NULL}
       /\ Owner(l) \in Requests /\ Owner(l) # NULL
  BY <1>9, LeasesAreFinite, GuardNull DEF EntryRecords
<1>11. /\ x \in EntryRecords
       /\ x.participants = old.participants + 1
       /\ x.depth = IF x.owner = Owner(l) THEN old.depth + 1 ELSE old.depth
       /\ x.owner # Owner(l) => x.owner = old.owner /\ x.queue = Append(old.queue, l)
       /\ x.owner = Owner(l) => x.queue = old.queue /\ old.owner \in {NULL, Owner(l)}
  <2>1. CASE old.owner = Owner(l)
    <3>1. x = [participants |-> old.participants + 1, owner |-> old.owner,
               depth |-> old.depth + 1, queue |-> old.queue]
      BY <2>1, <1>4, <1>10 DEF Joined
    <3>2. old.participants + 1 \in Nat /\ old.depth + 1 \in Nat
      BY <1>10
    <3> QED BY <2>1, <3>1, <3>2, <1>10 DEF EntryRecords
  <2>2. CASE old.owner = NULL /\ old.queue = <<>>
    <3>1. old.depth = 0
      <4>1. HoldersOf(e) = {}
        <5> SUFFICES ASSUME NEW k \in HoldersOf(e) PROVE FALSE
          OBVIOUS
        <5> QED BY <2>2, <1>8, <1>9, LeasesAreFinite, GuardNull
      <4> QED BY <4>1, <1>9, FS_EmptySet
    <3>2. x = [participants |-> old.participants + 1, owner |-> Owner(l), depth |-> 1,
               queue |-> old.queue]
      BY <2>2, <1>4, <1>10 DEF Joined
    <3>3. old.participants + 1 \in Nat /\ old.depth + 1 = 1
      BY <3>1, <1>10
    <3> QED BY <2>2, <3>1, <3>2, <3>3, <1>10 DEF EntryRecords
  <2>3. CASE old.owner # Owner(l) /\ ~(old.owner = NULL /\ old.queue = <<>>)
    <3>1. x = [participants |-> old.participants + 1, owner |-> old.owner,
               depth |-> old.depth, queue |-> Append(old.queue, l)]
      BY <2>3, <1>4, <1>10 DEF Joined
    <3>2. old.participants + 1 \in Nat /\ Append(old.queue, l) \in Seq(Leases)
      BY <1>10, AppendProperties
    <3> QED BY <2>3, <3>1, <3>2, <1>10 DEF EntryRecords
  <2> QED BY <2>1, <2>2, <2>3
<1>12. /\ entry'[e] = x
       /\ \A f \in Entries \ {e} : entry'[f] = entry[f]
       /\ entry' \in [Entries -> EntryRecords]
       /\ registry'[a] = e
       /\ \A b \in Accounts \ {a} : registry'[b] = registry[b]
       /\ registry' \in [Accounts -> Entries \cup {NULL}]
  BY <1>5, <1>6, <1>7, <1>11
<1>13. /\ lease'[l].ref = e /\ lease'[l].account = a
       /\ lease'[l].pc = IF x.owner = Owner(l) THEN "checking" ELSE "waiting"
       /\ \A k \in Leases \ {l} : lease'[k] = lease[k]
       /\ lease' \in [Leases -> LeaseStates]
  <2> DEFINE p == IF x.owner = Owner(l) THEN "checking" ELSE "waiting"
             y == [lease[l] EXCEPT !.ref = e, !.pc = p]
  <2>1. lease' = [lease EXCEPT ![l] = y]
    BY <1>5, <1>6 DEF LeaseStates
  <2>2. y \in LeaseStates /\ y.ref = e /\ y.pc = p /\ y.account = a
    BY <1>1, <1>6, <1>7 DEF LeaseStates
  <2> HIDE DEF y, p
  <2>3. lease'[l] = y /\ (\A k \in Leases \ {l} : lease'[k] = lease[k])
        /\ lease' \in [Leases -> LeaseStates]
    BY <2>1, <2>2, <1>6
  <2> QED BY <2>2, <2>3 DEF p
<1>14. /\ Uses(l)' /\ (Holds(l)' <=> x.owner = Owner(l))
       /\ \A k \in Leases \ {l} : Uses(k)' = Uses(k) /\ Holds(k)' = Holds(k)
  BY <1>13 DEF Uses, Holds
<1>15. LockTypes'
  BY <1>12, <1>13 DEF LockTypes
<1>16. LeasesUseEntries'
  <2> SUFFICES ASSUME NEW k \in Leases
               PROVE  /\ Uses(k)' => /\ lease'[k].account \in Accounts /\ lease'[k].ref \in Entries
                                     /\ registry'[lease'[k].account] = lease'[k].ref
                      /\ ~Uses(k)' => lease'[k].ref = NULL
    BY DEF LeasesUseEntries
  <2>1. CASE k = l
    BY <2>1, <1>7, <1>12, <1>13, <1>14
  <2>2. CASE k # l /\ Uses(k)
    <3>1. /\ lease[k].account \in Accounts /\ lease[k].ref \in Entries
          /\ registry[lease[k].account] = lease[k].ref
      BY <2>2 DEF LockInv, LeasesUseEntries
    <3>2. registry'[lease[k].account] = lease[k].ref
      <4>1. CASE lease[k].account = a
        BY <3>1, <4>1, <1>7, <1>12, GuardNull
      <4>2. CASE lease[k].account # a
        BY <3>1, <4>2, <1>12
      <4> QED BY <4>1, <4>2
    <3> QED BY <2>2, <3>1, <3>2, <1>13, <1>14
  <2>3. CASE k # l /\ ~Uses(k)
    BY <2>3, <1>13, <1>14 DEF LockInv, LeasesUseEntries
  <2> QED BY <2>1, <2>2, <2>3
<1>17. HoldersOwn'
  <2> SUFFICES ASSUME NEW k \in Leases, Holds(k)'
               PROVE  entry'[lease'[k].ref].owner = Owner(k)
    BY DEF HoldersOwn
  <2>1. CASE k = l
    BY <2>1, <1>12, <1>13, <1>14
  <2>2. CASE k # l
    <3>1. Holds(k) /\ lease'[k] = lease[k]
      BY <2>2, <1>13, <1>14
    <3>2. lease[k].ref \in Entries /\ entry[lease[k].ref].owner = Owner(k)
      BY <3>1 DEF LockInv, LeasesUseEntries, HoldersOwn, Uses, Holds
    <3>3. CASE lease[k].ref = e
      <4>1. k \in HoldersOf(e) /\ Owner(k) # NULL
        BY <3>1, <3>3, LeasesAreFinite, GuardNull DEF HoldersOf
      <4>2. x.owner = Owner(k)
        BY <4>1, <1>9, <1>11
      <4> QED BY <4>2, <3>1, <3>3, <1>12
    <3>4. CASE lease[k].ref # e
      BY <3>1, <3>2, <3>4, <1>12
    <3> QED BY <3>3, <3>4
  <2> QED BY <2>1, <2>2
<1>18. WaitersQueue'
  <2> SUFFICES ASSUME NEW k \in Leases, lease'[k].pc = "waiting"
               PROVE  InQueue(k, entry'[lease'[k].ref].queue)
    BY DEF WaitersQueue, InQueue
  <2>1. /\ InQueue(l, Append(old.queue, l))
        /\ \A j \in Leases : InQueue(j, old.queue) => InQueue(j, Append(old.queue, l))
    BY <1>10, AppendProperties DEF InQueue
  <2>2. CASE k = l
    <3>1. x.queue = Append(old.queue, l)
      BY <2>2, <1>11, <1>13
    <3> QED BY <2>1, <2>2, <3>1, <1>12, <1>13
  <2>3. CASE k # l /\ lease[k].ref = e
    <3>1. lease'[k] = lease[k] /\ InQueue(k, old.queue)
      BY <2>3, <1>9, <1>13
    <3>2. InQueue(k, x.queue)
      BY <2>1, <3>1, <1>11
    <3> QED BY <2>3, <3>1, <3>2, <1>12
  <2>4. CASE k # l /\ lease[k].ref # e
    <3>1. lease'[k] = lease[k] /\ lease[k].ref \in Entries
          /\ InQueue(k, entry[lease[k].ref].queue)
      BY <2>4, <1>13 DEF LockInv, LeasesUseEntries, WaitersQueue, Uses
    <3> QED BY <2>4, <3>1, <1>12
  <2> QED BY <2>2, <2>3, <2>4
<1>19. EntriesAreUsed'
  <2>1. ASSUME NEW b \in Accounts, registry'[b] # NULL
        PROVE  \E k \in Leases : Uses(k)' /\ lease'[k].account = b
    <3>1. CASE b = a
      BY <3>1, <1>13, <1>14
    <3>2. CASE b # a
      <4>1. PICK k \in Leases : Uses(k) /\ lease[k].account = b
        BY <2>1, <3>2, <1>12 DEF LockInv, EntriesAreUsed
      <4>2. k # l
        BY <4>1, <1>5 DEF Uses
      <4> QED BY <4>1, <4>2, <1>13, <1>14
    <3> QED BY <3>1, <3>2
  <2>2. ASSUME NEW b \in Accounts, NEW c \in Accounts, registry'[b] # NULL,
               registry'[b] = registry'[c]
        PROVE  b = c
    <3>1. CASE b = a \/ c = a
      BY <2>2, <3>1, <1>7, <1>12
    <3>2. CASE b # a /\ c # a
      BY <2>2, <3>2, <1>12 DEF LockInv, EntriesAreUsed
    <3> QED BY <3>1, <3>2
  <2> QED BY <2>1, <2>2 DEF EntriesAreUsed
<1>20. EntriesCount'
  <2> SUFFICES ASSUME NEW f \in Entries
               PROVE  /\ entry'[f].participants = Cardinality(UsersOf(f)')
                      /\ entry'[f].depth = Cardinality(HoldersOf(f)')
    BY DEF EntriesCount
  <2>1. CASE f = e
    <3>1. UsersOf(f)' = UsersOf(e) \cup {l}
      BY <2>1, <1>13 DEF UsersOf
    <3>2. HoldersOf(f)' = IF x.owner = Owner(l) THEN HoldersOf(e) \cup {l} ELSE HoldersOf(e)
      <4>1. CASE x.owner = Owner(l)
        BY <4>1, <2>1, <1>13, <1>14 DEF HoldersOf
      <4>2. CASE x.owner # Owner(l)
        BY <4>2, <2>1, <1>8, <1>13, <1>14 DEF HoldersOf
      <4> QED BY <4>1, <4>2
    <3>3. Cardinality(UsersOf(e) \cup {l}) = Cardinality(UsersOf(e)) + 1
      BY <1>8, SetsOfLeases, FS_AddElement
    <3>4. Cardinality(HoldersOf(e) \cup {l}) = Cardinality(HoldersOf(e)) + 1
      BY <1>8, SetsOfLeases, FS_AddElement
    <3> QED BY <2>1, <3>1, <3>2, <3>3, <3>4, <1>9, <1>11, <1>12
  <2>2. CASE f # e
    <3>1. UsersOf(f)' = UsersOf(f)
      <4>1. l \notin UsersOf(f)
        BY <1>5, GuardNull DEF UsersOf, Uses, LockInv, LeasesUseEntries
      <4> QED BY <2>2, <4>1, <1>13 DEF UsersOf
    <3>2. HoldersOf(f)' = HoldersOf(f)
      <4>1. ~Holds(l)
        BY <1>5 DEF Holds
      <4> QED BY <2>2, <4>1, <1>13, <1>14 DEF HoldersOf
    <3> QED BY <2>2, <3>1, <3>2, <1>12 DEF LockInv, EntriesCount
  <2> QED BY <2>1, <2>2
<1> QED BY <1>15, <1>16, <1>17, <1>18, <1>19, <1>20 DEF LockInv

----------------------------------------------------------------------------
(* The requests *)

Phases == {"idle", "acquiring", "responding", "leaving"}

\* StreamStates without the bound of got, which needs a count of the queue.
StreamRecords == [producer : {"none", "returned", "running", "putting"},
                  consumer : {"none", "reading", "finished", "failed", "gone"},
                  sent : 0..Items, next : Messages \cup {NULL},
                  queue : Seq(Messages), got : Int]

HandlerTypes == /\ payer \in [Users -> Accounts]
                /\ phase \in [Requests -> Phases]
                /\ stream \in [Requests -> StreamRecords]

\* A producer has the inner lease, and runs only once the handler responds.
ProducersHold ==
  \A r \in Requests :
    /\ stream[r].producer # "none" => lease[Inner(r)].pc = "held"
    /\ phase[r] \in {"idle", "acquiring"} => stream[r].producer = "none"
    /\ stream[r].producer = "putting" => stream[r].next \in Messages

\* A request at rest has no lease.
RestingIsIdle == \A l \in Leases : phase[Owner(l)] = "idle" => lease[l].pc = "idle"

HandlerInv == HandlerTypes /\ ProducersHold /\ RestingIsIdle

IInv == LockInv /\ HandlerInv

\* A step of one request, which changes one of its leases to y, its phase to
\* p and its stream to s.
LEMMA HandlerStep ==
  ASSUME HandlerInv, lease \in [Leases -> LeaseStates], payer' \in [Users -> Accounts],
         NEW r \in Requests, NEW l \in Leases, Owner(l) = r,
         NEW y \in LeaseStates, NEW p \in Phases, NEW s \in StreamRecords,
         lease' = [lease EXCEPT ![l] = y], phase' = [phase EXCEPT ![r] = p],
         stream' = [stream EXCEPT ![r] = s],
         s.producer # "none" => IF l = Inner(r) THEN y.pc = "held"
                                ELSE lease[Inner(r)].pc = "held",
         p \in {"idle", "acquiring"} => s.producer = "none",
         s.producer = "putting" => s.next \in Messages,
         p = "idle" => /\ y.pc = "idle"
                       /\ \A k \in Leases \ {l} : Owner(k) = r => lease[k].pc = "idle"
  PROVE  HandlerInv'
<1>1. /\ lease'[l] = y /\ (\A k \in Leases \ {l} : lease'[k] = lease[k])
      /\ phase'[r] = p /\ (\A q \in Requests \ {r} : phase'[q] = phase[q])
      /\ stream'[r] = s /\ (\A q \in Requests \ {r} : stream'[q] = stream[q])
  BY DEF HandlerInv, HandlerTypes
<1>2. HandlerTypes'
  BY DEF HandlerInv, HandlerTypes
<1>3. ProducersHold'
  <2> SUFFICES ASSUME NEW q \in Requests
               PROVE  /\ stream'[q].producer # "none" => lease'[Inner(q)].pc = "held"
                      /\ phase'[q] \in {"idle", "acquiring"} => stream'[q].producer = "none"
                      /\ stream'[q].producer = "putting" => stream'[q].next \in Messages
    BY DEF ProducersHold, Inner
  <2>1. Inner(q) \in Leases /\ Owner(Inner(q)) = q
    BY LeasesAreFinite
  <2>2. CASE q = r
    BY <2>1, <2>2, <1>1
  <2>3. CASE q # r
    <3>1. Inner(q) # l
      BY <2>1, <2>3
    <3> QED BY <2>1, <2>3, <3>1, <1>1 DEF HandlerInv, ProducersHold
  <2> QED BY <2>2, <2>3
<1>4. RestingIsIdle'
  <2> SUFFICES ASSUME NEW k \in Leases, phase'[Owner(k)] = "idle"
               PROVE  lease'[k].pc = "idle"
    BY DEF RestingIsIdle, Owner
  <2>1. Owner(k) \in Requests
    BY LeasesAreFinite
  <2>2. CASE Owner(k) = r
    BY <2>2, <1>1
  <2>3. CASE Owner(k) # r
    BY <2>1, <2>3, <1>1 DEF HandlerInv, RestingIsIdle
  <2> QED BY <2>2, <2>3
<1> QED BY <1>2, <1>3, <1>4 DEF HandlerInv

\* The same when a lease alone changes, and the handler may leave.
LEMMA LeaseOnly ==
  ASSUME IInv, NEW r \in Requests, NEW l \in Leases, Owner(l) = r, NEW y \in LeaseStates,
         NEW p \in Phases \ {"idle"},
         lease' = [lease EXCEPT ![l] = y], phase' = [phase EXCEPT ![r] = p],
         UNCHANGED <<payer, stream>>,
         stream[r].producer # "none" /\ l = Inner(r) => y.pc = "held",
         p = "acquiring" => stream[r].producer = "none"
  PROVE  HandlerInv'
<1>1. /\ lease \in [Leases -> LeaseStates] /\ payer' \in [Users -> Accounts]
      /\ stream[r] \in StreamRecords /\ stream' = [stream EXCEPT ![r] = stream[r]]
  BY DEF IInv, LockInv, LockTypes, HandlerInv, HandlerTypes
<1>2. /\ stream[r].producer # "none" => lease[Inner(r)].pc = "held"
      /\ stream[r].producer = "putting" => stream[r].next \in Messages
  BY DEF IInv, HandlerInv, ProducersHold
<1>3. HandlerInv
  BY DEF IInv
<1> QED BY <1>1, <1>2, <1>3, HandlerStep

\* The same when the stream alone changes, and the handler may respond.
LEMMA StreamOnly ==
  ASSUME IInv, NEW r \in Requests, NEW p \in Phases \ {"idle"}, NEW s \in StreamRecords,
         phase' = [phase EXCEPT ![r] = p], stream' = [stream EXCEPT ![r] = s],
         UNCHANGED <<payer, lease>>,
         s.producer # "none" => lease[Inner(r)].pc = "held",
         p = "acquiring" => s.producer = "none",
         s.producer = "putting" => s.next \in Messages
  PROVE  HandlerInv'
<1>1. /\ lease \in [Leases -> LeaseStates] /\ payer' \in [Users -> Accounts]
      /\ Inner(r) \in Leases /\ Owner(Inner(r)) = r
  BY LeasesAreFinite DEF IInv, LockInv, LockTypes, HandlerInv, HandlerTypes
<1>2. lease[Inner(r)] \in LeaseStates /\ lease' = [lease EXCEPT ![Inner(r)] = lease[Inner(r)]]
  BY <1>1
<1>3. HandlerInv
  BY DEF IInv
<1> QED BY <1>1, <1>2, <1>3, HandlerStep

----------------------------------------------------------------------------
(* The steps of the specification *)

\* A step that changes no lock.
LEMMA LocksUnchanged ==
  ASSUME LockInv, UNCHANGED <<registry, entry, lease>>
  PROVE  LockInv'
<1>1. LockTypes'
  BY DEF LockInv, LockTypes
<1> QED BY <1>1, LocksUntouched DEF Uses, Holds

\* Lease l becomes y, and waits or holds as it did.
LEMMA LeaseKept ==
  ASSUME LockInv, UNCHANGED <<registry, entry>>, NEW l \in Leases, NEW y \in LeaseStates,
         lease' = [lease EXCEPT ![l] = y], y.ref = lease[l].ref,
         y.pc \in {"waiting", "checking", "held"} <=> Uses(l),
         y.pc \in {"checking", "held"} <=> Holds(l),
         Uses(l) => y.account = lease[l].account
  PROVE  LockInv'
<1>1. /\ lease'[l] = y /\ (\A k \in Leases \ {l} : lease'[k] = lease[k])
      /\ LockTypes'
  BY DEF LockInv, LockTypes
<1>2. \A k \in Leases : Uses(k)' = Uses(k) /\ Holds(k)' = Holds(k)
  BY <1>1 DEF Uses, Holds
<1>3. \A k \in Leases : /\ lease'[k].ref = lease[k].ref
                        /\ Uses(k) => lease'[k].account = lease[k].account
  BY <1>1
<1> QED BY <1>1, <1>2, <1>3, LocksUntouched

\* A request that has a lease under way is not at rest.
LEMMA BusyIsAwake ==
  ASSUME IInv, NEW l \in Leases, lease[l].pc # "idle"
  PROVE  /\ Owner(l) \in Requests /\ lease[l] \in LeaseStates
         /\ phase[Owner(l)] \in Phases \ {"idle"}
         /\ phase[Owner(l)] = "acquiring" => stream[Owner(l)].producer = "none"
         /\ l = Inner(Owner(l)) /\ lease[l].pc # "held" => stream[Owner(l)].producer = "none"
BY LeasesAreFinite
DEF IInv, LockInv, LockTypes, HandlerInv, HandlerTypes, ProducersHold, RestingIsIdle

\* Lease l is given up, and its request leaves.
LEMMA LeaseGivenUp ==
  ASSUME IInv, NEW l \in Leases, lease[l].pc # "idle", GiveUpLease(l),
         lease[l].pc = "held" => phase[Owner(l)] = "acquiring"
  PROVE  HandlerInv'
<1>1. NoLease \in LeaseStates
  BY GuardBounds DEF NoLease, LeaseStates
<1>2. /\ lease' = [lease EXCEPT ![l] = NoLease] /\ UNCHANGED <<payer, stream>>
      /\ phase' = [phase EXCEPT ![Owner(l)] = "leaving"]
      /\ "leaving" \in Phases \ {"idle"}
  BY DEF GiveUpLease, Phases
<1>3. Owner(l) \in Requests /\ (l = Inner(Owner(l)) => stream[Owner(l)].producer = "none")
  BY BusyIsAwake
<1> QED BY <1>1, <1>2, <1>3, LeaseOnly

LEMMA InitInv == Init => IInv
<1> SUFFICES ASSUME Init PROVE IInv
  OBVIOUS
<1>1. /\ NoLease \in LeaseStates /\ NewEntry \in EntryRecords /\ NoStream \in StreamRecords
      /\ NoLease.pc = "idle" /\ NoLease.ref = NULL /\ NoStream.producer = "none"
      /\ NewEntry.participants = 0 /\ NewEntry.depth = 0
  BY GuardBounds
  DEF NoLease, LeaseStates, NewEntry, EntryRecords, NoStream, StreamRecords, Messages
<1>2. \A l \in Leases : lease[l] = NoLease /\ ~Uses(l) /\ ~Holds(l)
  BY <1>1 DEF Init, Uses, Holds
<1>3. LockTypes /\ HandlerTypes
  BY <1>1 DEF Init, LockTypes, HandlerTypes, Phases
<1>4. LeasesUseEntries /\ HoldersOwn /\ WaitersQueue /\ EntriesAreUsed
  BY <1>1, <1>2 DEF Init, LeasesUseEntries, HoldersOwn, WaitersQueue, EntriesAreUsed
<1>5. EntriesCount
  <2>1. \A e \in Entries : UsersOf(e) = {} /\ HoldersOf(e) = {}
    BY <1>1, <1>2, GuardNull DEF UsersOf, HoldersOf
  <2> QED BY <1>1, <2>1, FS_EmptySet DEF Init, EntriesCount
<1>6. ProducersHold /\ RestingIsIdle
  BY <1>1, <1>2 DEF Init, ProducersHold, RestingIsIdle
<1> QED BY <1>3, <1>4, <1>5, <1>6 DEF IInv, LockInv, HandlerInv

\* What a lease does keeps the invariant.
LEMMA LeaseSteps ==
  ASSUME IInv, NEW l \in Leases, LeaseStep(l) \/ LeaseFails(l)
  PROVE  IInv'
<1> DEFINE r == Owner(l)
<1>1. LockInv /\ HandlerInv /\ lease \in [Leases -> LeaseStates]
  BY DEF IInv, LockInv, LockTypes
<1>2. NoLease \in LeaseStates /\ NoLease.pc = "idle" /\ NoLease.ref = NULL
  BY GuardBounds DEF NoLease, LeaseStates
<1>3. phase \in [Requests -> Phases] /\ phase = [phase EXCEPT ![r] = phase[r]]
  BY <1>1 DEF HandlerInv, HandlerTypes
\* A step that keeps the request where it is.
<1>4. ASSUME NEW y \in LeaseStates, lease[l].pc # "idle", lease[l].pc # "held",
             lease' = [lease EXCEPT ![l] = y], UNCHANGED <<payer, phase, stream>>
      PROVE  HandlerInv'
  <2>1. /\ r \in Requests /\ phase[r] \in Phases \ {"idle"}
        /\ phase[r] = "acquiring" => stream[r].producer = "none"
        /\ l = Inner(r) => stream[r].producer = "none"
    BY <1>4, BusyIsAwake
  <2>2. phase' = [phase EXCEPT ![r] = phase[r]]
    BY <1>3, <1>4
  <2> HIDE DEF r
  <2> QED BY <2>1, <2>2, <1>4, LeaseOnly DEF r
<1>5. CASE ReadPayer(l)
  <2> DEFINE b == IF r \in Turns THEN Pinned[r] ELSE payer[UserOf[r]]
             y == [lease[l] EXCEPT !.account = b]
  <2>1. r \in Requests /\ b \in Accounts
    BY <1>1, LeasesAreFinite, RequestsAssumption, PinnedAssumption DEF HandlerInv, HandlerTypes
  <2>2. /\ lease[l].pc = "reading" /\ lease' = [lease EXCEPT ![l] = y]
        /\ UNCHANGED <<payer, registry, entry, phase, stream>>
    BY <1>1, <1>5 DEF ReadPayer, LeaseStates
  <2>3. lease[l] \in LeaseStates
    BY <1>1
  <2> HIDE DEF b
  <2>4. y \in LeaseStates /\ y.pc = "reading" /\ y.ref = lease[l].ref
    BY <2>1, <2>2, <2>3 DEF LeaseStates
  <2> HIDE DEF y
  <2>5. ~Uses(l) /\ ~Holds(l)
    BY <2>2 DEF Uses, Holds
  <2>6. LockInv'
    BY <1>1, <2>2, <2>4, <2>5, LeaseKept
  <2>7. HandlerInv'
    BY <2>2, <2>4, <1>4
  <2> QED BY <2>6, <2>7 DEF IInv
<1>6. CASE Join(l)
  <2>1. LockInv'
    BY <1>1, <1>6, LeaseJoins
  <2>2. lease' \in [Leases -> LeaseStates]
    BY <2>1 DEF LockInv, LockTypes
  <2>3. lease' = [lease EXCEPT ![l] = lease'[l]] /\ lease'[l] \in LeaseStates
    BY <1>1, <1>6, <2>2 DEF Join
  <2>4. lease[l].pc = "reading" /\ UNCHANGED <<payer, phase, stream>>
    BY <1>6 DEF Join
  <2>5. HandlerInv'
    BY <2>3, <2>4, <1>4
  <2> QED BY <2>1, <2>5 DEF IInv
<1>7. CASE Wake(l)
  <2>1. LockInv'
    BY <1>1, <1>7, LeaseWakes
  <2>2. lease' \in [Leases -> LeaseStates]
    BY <2>1 DEF LockInv, LockTypes
  <2>3. lease' = [lease EXCEPT ![l] = lease'[l]] /\ lease'[l] \in LeaseStates
    BY <1>1, <1>7, <2>2 DEF Wake
  <2>4. lease[l].pc = "waiting" /\ UNCHANGED <<payer, phase, stream>>
    BY <1>7 DEF Wake
  <2>5. HandlerInv'
    BY <2>3, <2>4, <1>4
  <2> QED BY <2>1, <2>5 DEF IInv
<1>8. CASE Check(l)
  <2>1. lease[l].pc = "checking" /\ Holds(l) /\ Uses(l)
    BY <1>8 DEF Check, Holds, Uses
  <2>2. CASE /\ lease' = [lease EXCEPT ![l].pc = "held"]
             /\ UNCHANGED <<payer, registry, entry, phase, stream>>
    <3> DEFINE y == [lease[l] EXCEPT !.pc = "held"]
    <3>1. lease[l] \in LeaseStates /\ lease' = [lease EXCEPT ![l] = y]
      BY <1>1, <2>2
    <3>2. y \in LeaseStates /\ y.pc = "held" /\ y.ref = lease[l].ref
          /\ y.account = lease[l].account
      BY <3>1 DEF LeaseStates
    <3> HIDE DEF y
    <3>3. LockInv'
      BY <1>1, <2>1, <2>2, <3>1, <3>2, LeaseKept
    <3>4. HandlerInv'
      BY <2>1, <2>2, <3>1, <3>2, <1>4
    <3> QED BY <3>3, <3>4 DEF IInv
  <2>3. CASE /\ lease[l].tries + 1 < Tries
             /\ ReleaseLease(l)
             /\ lease' = [lease EXCEPT ![l] = [NoLease EXCEPT !.pc = "reading",
                                                              !.tries = lease[l].tries + 1]]
             /\ UNCHANGED <<payer, phase, stream>>
    <3> DEFINE y == [NoLease EXCEPT !.pc = "reading", !.tries = lease[l].tries + 1]
    <3>1. lease[l].tries + 1 \in 0..Tries
      <4>1. lease[l].tries \in 0..Tries
        BY <1>1 DEF LeaseStates
      <4> QED BY <4>1, <2>3, GuardBounds
    <3>2. y \in LeaseStates /\ y.pc = "reading" /\ y.ref = NULL
      BY <3>1 DEF LeaseStates, NoLease
    <3>3. lease' = [lease EXCEPT ![l] = y]
      BY <2>3
    <3> HIDE DEF y
    <3>4. LockInv'
      BY <1>1, <2>1, <2>3, <3>2, <3>3, LeaseReleased
    <3>5. HandlerInv'
      BY <2>1, <2>3, <3>2, <3>3, <1>4
    <3> QED BY <3>4, <3>5 DEF IInv
  <2>4. CASE ReleaseLease(l) /\ GiveUpLease(l)
    <3>1. LockInv'
      BY <1>1, <1>2, <2>1, <2>4, LeaseReleased DEF GiveUpLease
    <3>2. HandlerInv'
      BY <2>1, <2>4, LeaseGivenUp
    <3> QED BY <3>1, <3>2 DEF IInv
  <2> QED BY <1>8, <2>2, <2>3, <2>4 DEF Check
<1>9. CASE ReadFails(l)
  <2>1. lease[l].pc = "reading" /\ GiveUpLease(l) /\ UNCHANGED <<registry, entry>>
    BY <1>9 DEF ReadFails
  <2>2. ~Uses(l) /\ ~Holds(l)
    BY <2>1 DEF Uses, Holds
  <2>3. lease[l].ref = NULL
    BY <1>1, <2>2 DEF LockInv, LeasesUseEntries
  <2>4. LockInv'
    BY <1>1, <1>2, <2>1, <2>2, <2>3, LeaseKept DEF GiveUpLease
  <2>5. HandlerInv'
    BY <2>1, LeaseGivenUp
  <2> QED BY <2>4, <2>5 DEF IInv
<1>10. CASE CancelWait(l)
  <2>1. lease[l].pc = "waiting" /\ GiveUpLease(l)
        /\ Leave(l, Withdrawn(entry[lease[l].ref], l))
    BY <1>10 DEF CancelWait
  <2>2. LockInv'
    BY <1>1, <1>2, <2>1, WaiterWithdraws DEF GiveUpLease
  <2>3. HandlerInv'
    BY <2>1, LeaseGivenUp
  <2> QED BY <2>2, <2>3 DEF IInv
<1>11. CASE CheckFails(l)
  <2>1. lease[l].pc = "checking" /\ Holds(l) /\ ReleaseLease(l) /\ GiveUpLease(l)
    BY <1>11 DEF CheckFails, Holds
  <2>2. LockInv'
    BY <1>1, <1>2, <2>1, LeaseReleased DEF GiveUpLease
  <2>3. HandlerInv'
    BY <2>1, LeaseGivenUp
  <2> QED BY <2>2, <2>3 DEF IInv
<1> QED BY <1>5, <1>6, <1>7, <1>8, <1>9, <1>10, <1>11 DEF LeaseStep, LeaseFails

\* The last thing a producer does, or the closing of a response that never
\* started: the inner lease is released, and the request goes on as p.
LEMMA InnerReleased ==
  ASSUME IInv, NEW r \in Requests, NEW p \in Phases \ {"idle", "acquiring"},
         NEW s \in StreamRecords, s.producer = "none",
         lease[Inner(r)].pc = "held", ReleaseLease(Inner(r)),
         lease' = [lease EXCEPT ![Inner(r)] = NoLease],
         phase' = [phase EXCEPT ![r] = p], stream' = [stream EXCEPT ![r] = s],
         UNCHANGED payer
  PROVE  IInv'
<1>1. /\ NoLease \in LeaseStates /\ NoLease.pc = "idle" /\ NoLease.ref = NULL
      /\ Inner(r) \in Leases /\ Owner(Inner(r)) = r
      /\ LockInv /\ HandlerInv /\ lease \in [Leases -> LeaseStates]
      /\ payer' \in [Users -> Accounts]
  BY GuardBounds, LeasesAreFinite
  DEF NoLease, LeaseStates, IInv, LockInv, LockTypes, HandlerInv, HandlerTypes
<1>2. LockInv'
  BY <1>1, LeaseReleased DEF Holds
<1>3. HandlerInv'
  BY <1>1, HandlerStep
<1> QED BY <1>2, <1>3 DEF IInv

\* A request rests, or stays at rest.
LEMMA RequestRests ==
  ASSUME HandlerInv, UNCHANGED <<payer, lease>>, NEW r \in Requests,
         NEW s \in StreamRecords, s.producer = "none",
         phase' = [phase EXCEPT ![r] = "idle"], stream' = [stream EXCEPT ![r] = s],
         \A k \in Leases : Owner(k) = r => lease[k].pc = "idle"
  PROVE  HandlerInv'
<1>1. /\ phase'[r] = "idle" /\ (\A q \in Requests \ {r} : phase'[q] = phase[q])
      /\ stream'[r] = s /\ (\A q \in Requests \ {r} : stream'[q] = stream[q])
  BY DEF HandlerInv, HandlerTypes
<1>2. HandlerTypes'
  BY DEF HandlerInv, HandlerTypes, Phases
<1>3. ProducersHold'
  <2> SUFFICES ASSUME NEW q \in Requests
               PROVE  /\ stream'[q].producer # "none" => lease[Inner(q)].pc = "held"
                      /\ phase'[q] \in {"idle", "acquiring"} => stream'[q].producer = "none"
                      /\ stream'[q].producer = "putting" => stream'[q].next \in Messages
    BY DEF ProducersHold, Inner
  <2>1. CASE q = r
    BY <2>1, <1>1
  <2>2. CASE q # r
    BY <2>2, <1>1 DEF HandlerInv, ProducersHold
  <2> QED BY <2>1, <2>2
<1>4. RestingIsIdle'
  BY <1>1, LeasesAreFinite DEF HandlerInv, RestingIsIdle, Owner
<1> QED BY <1>2, <1>3, <1>4 DEF HandlerInv

\* A message is published or discarded.
LEMMA PublishedKeeps ==
  ASSUME IInv, NEW r \in Requests, NEW q \in Seq(Messages),
         stream[r].producer = "putting", Published(r, q)
  PROVE  IInv'
<1>1. /\ stream[r] \in StreamRecords /\ lease[Inner(r)].pc = "held"
      /\ phase \in [Requests -> Phases] /\ phase[r] \in Phases \ {"idle", "acquiring"}
      /\ phase = [phase EXCEPT ![r] = phase[r]]
  BY DEF IInv, HandlerInv, HandlerTypes, ProducersHold
<1>2. CASE stream[r].next = "item"
  <2> DEFINE s == [stream[r] EXCEPT !.queue = q, !.next = NULL, !.producer = "running"]
  <2>1. stream' = [stream EXCEPT ![r] = s]
    BY <1>2 DEF Published, IInv, HandlerInv, HandlerTypes
  <2>2. s \in StreamRecords /\ s.producer = "running"
    BY <1>1 DEF StreamRecords
  <2>3. UNCHANGED <<payer, registry, entry, lease, phase>>
    BY <1>2 DEF Published
  <2> HIDE DEF s
  <2>4. HandlerInv'
    BY <2>1, <2>2, <2>3, <1>1, StreamOnly
  <2>5. LockInv'
    BY <2>3, LocksUnchanged DEF IInv
  <2> QED BY <2>4, <2>5 DEF IInv
<1>3. CASE stream[r].next # "item"
  <2> DEFINE s == [stream[r] EXCEPT !.queue = q, !.next = NULL, !.producer = "none"]
  <2>1. stream' = [stream EXCEPT ![r] = s]
    BY <1>3 DEF Published, IInv, HandlerInv, HandlerTypes
  <2>2. s \in StreamRecords /\ s.producer = "none"
    BY <1>1 DEF StreamRecords
  <2>3. /\ ReleaseLease(Inner(r)) /\ lease' = [lease EXCEPT ![Inner(r)] = NoLease]
        /\ UNCHANGED <<payer, phase>>
    BY <1>3 DEF Published
  <2> HIDE DEF s
  <2>4. phase' = [phase EXCEPT ![r] = phase[r]]
    BY <2>3, <1>1
  <2> QED BY <2>1, <2>2, <2>3, <2>4, <1>1, InnerReleased
<1> QED BY <1>2, <1>3

\* What a request does keeps the invariant.
LEMMA RequestSteps ==
  ASSUME IInv, NEW r \in Requests,
         \/ Begin(r) \/ Enter(r) \/ LeaveEarly(r) \/ Preflight(r) \/ PreflightEnds(r)
         \/ ProducerStep(r) \/ ConsumerStep(r) \/ Exit(r)
  PROVE  IInv'
<1> DEFINE in == Inner(r)
           out == <<r, "outer">>
<1>1. /\ LockInv /\ HandlerInv /\ lease \in [Leases -> LeaseStates]
      /\ in \in Leases /\ Owner(in) = r
      /\ r \in Turns => out \in Leases /\ Owner(out) = r
  BY LeasesAreFinite DEF IInv, LockInv, LockTypes
<1>2. NoLease \in LeaseStates /\ NoLease.pc = "idle" /\ NoLease.ref = NULL
  BY GuardBounds DEF NoLease, LeaseStates
<1>3. /\ phase \in [Requests -> Phases] /\ phase = [phase EXCEPT ![r] = phase[r]]
      /\ stream \in [Requests -> StreamRecords] /\ stream[r] \in StreamRecords
      /\ stream[r].producer # "none" => lease[in].pc = "held"
      /\ phase[r] \in {"idle", "acquiring"} => stream[r].producer = "none"
      /\ stream[r].producer = "putting" => stream[r].next \in Messages
  BY DEF IInv, HandlerInv, HandlerTypes, ProducersHold
<1> HIDE DEF in, out
\* A lease of the request that is idle starts to read.
<1>4. ASSUME NEW l \in Leases, Owner(l) = r, lease[l].pc = "idle",
             lease' = [lease EXCEPT ![l].pc = "reading"],
             phase' = [phase EXCEPT ![r] = "acquiring"], phase[r] \in {"idle", "acquiring"},
             UNCHANGED <<payer, registry, entry, stream>>
      PROVE  IInv'
  <2> DEFINE y == [lease[l] EXCEPT !.pc = "reading"]
  <2>1. lease' = [lease EXCEPT ![l] = y] /\ lease[l] \in LeaseStates
    BY <1>1, <1>4
  <2>2. y \in LeaseStates /\ y.pc = "reading" /\ y.ref = lease[l].ref
    BY <2>1 DEF LeaseStates
  <2> HIDE DEF y
  <2>3. ~Uses(l) /\ ~Holds(l)
    BY <1>4 DEF Uses, Holds
  <2>4. LockInv'
    BY <1>1, <1>4, <2>1, <2>2, <2>3, LeaseKept
  <2>5. "acquiring" \in Phases \ {"idle"} /\ stream[r].producer = "none"
    BY <1>3, <1>4 DEF Phases
  <2>6. HandlerInv'
    BY <1>4, <2>1, <2>2, <2>5, LeaseOnly
  <2> QED BY <2>4, <2>6 DEF IInv
\* The stream of the request becomes s and its phase p; its leases stay.
<1>5. ASSUME NEW s \in StreamRecords, NEW p \in Phases \ {"idle"},
             stream' = [stream EXCEPT ![r] = s], phase' = [phase EXCEPT ![r] = p],
             UNCHANGED <<payer, registry, entry, lease>>,
             s.producer # "none" => lease[in].pc = "held",
             p = "acquiring" => s.producer = "none",
             s.producer = "putting" => s.next \in Messages
      PROVE  IInv'
  <2>1. LockInv'
    BY <1>1, <1>5, LocksUnchanged
  <2>2. HandlerInv'
    BY <1>5, StreamOnly DEF in
  <2> QED BY <2>1, <2>2 DEF IInv
<1>6. CASE Begin(r)
  <2> DEFINE l == IF r \in Turns THEN out ELSE in
  <2>1. l \in Leases /\ Owner(l) = r
    BY <1>1
  <2>2. /\ phase[r] = "idle" /\ phase' = [phase EXCEPT ![r] = "acquiring"]
        /\ lease' = [lease EXCEPT ![l].pc = "reading"]
        /\ UNCHANGED <<payer, registry, entry, stream>>
    BY <1>6 DEF Begin, in, out
  <2> HIDE DEF l
  <2>3. lease[l].pc = "idle"
    BY <1>1, <2>1, <2>2 DEF HandlerInv, RestingIsIdle
  <2> QED BY <2>1, <2>2, <2>3, <1>4
<1>7. CASE Enter(r)
  <2>1. /\ phase[r] = "acquiring" /\ lease[in].pc = "idle"
        /\ lease' = [lease EXCEPT ![in].pc = "reading"]
        /\ UNCHANGED <<payer, registry, entry, phase, stream>>
    BY <1>7 DEF Enter, in
  <2>2. phase' = [phase EXCEPT ![r] = "acquiring"]
    BY <2>1, <1>3
  <2> QED BY <2>1, <2>2, <1>1, <1>4
<1>8. CASE LeaveEarly(r)
  <2>1. /\ phase[r] = "acquiring" /\ phase' = [phase EXCEPT ![r] = "leaving"]
        /\ stream' = [stream EXCEPT ![r] = stream[r]]
        /\ UNCHANGED <<payer, registry, entry, lease>>
    BY <1>3, <1>8 DEF LeaveEarly
  <2> QED BY <2>1, <1>3, <1>5 DEF Phases
<1>9. CASE Preflight(r)
  <2> DEFINE s == [stream[r] EXCEPT !.producer = "returned"]
  <2>1. /\ lease[in].pc = "held" /\ phase' = [phase EXCEPT ![r] = "responding"]
        /\ stream' = [stream EXCEPT ![r] = s]
        /\ UNCHANGED <<payer, registry, entry, lease>>
    BY <1>3, <1>9 DEF Preflight, in
  <2>2. s \in StreamRecords /\ s.producer = "returned"
    BY <1>3 DEF StreamRecords
  <2> HIDE DEF s
  <2> QED BY <2>1, <2>2, <1>5 DEF Phases
<1>10. CASE PreflightEnds(r)
  <2>1. /\ phase[r] = "acquiring" /\ lease[in].pc = "held"
        /\ ReleaseLease(in) /\ GiveUpLease(in)
    BY <1>10 DEF PreflightEnds, in
  <2>2. LockInv'
    BY <1>1, <1>2, <2>1, LeaseReleased DEF GiveUpLease, Holds
  <2>3. HandlerInv'
    BY <1>1, <2>1, LeaseGivenUp
  <2> QED BY <2>2, <2>3 DEF IInv
<1>11. CASE Produce(r)
  <2>1. PICK x \in Messages :
          LET skip == x = "item" /\ ~Active(r)
          IN /\ x = "item" => stream[r].sent < Items
             /\ stream' = [stream EXCEPT ![r].sent = IF x = "item" THEN @ + 1 ELSE @,
                                         ![r].next = IF skip THEN NULL ELSE x,
                                         ![r].producer = IF skip THEN @ ELSE "putting"]
    BY <1>11 DEF Produce
  <2> DEFINE skip == x = "item" /\ ~Active(r)
             n == IF x = "item" THEN stream[r].sent + 1 ELSE stream[r].sent
             m == IF skip THEN NULL ELSE x
             w == IF skip THEN "running" ELSE "putting"
             s == [stream[r] EXCEPT !.sent = n, !.next = m, !.producer = w]
  <2>2. stream[r].producer = "running" /\ UNCHANGED <<payer, registry, entry, lease, phase>>
    BY <1>11 DEF Produce
  <2>3. stream' = [stream EXCEPT ![r] = s]
    BY <1>3, <2>1, <2>2
  <2>4. n \in 0..Items /\ m \in Messages \cup {NULL} /\ w \in {"running", "putting"}
        /\ (w = "putting" => m \in Messages)
    <3>1. stream[r].sent \in 0..Items
      BY <1>3 DEF StreamRecords
    <3>2. n \in 0..Items
      BY <3>1, <2>1, GuardBounds
    <3> HIDE DEF n, skip
    <3> QED BY <3>2
  <2> HIDE DEF n, m, w
  <2>5. s \in StreamRecords /\ s.producer = w /\ s.next = m
    BY <1>3, <2>4 DEF StreamRecords
  <2> HIDE DEF s
  <2>6. phase' = [phase EXCEPT ![r] = phase[r]] /\ phase[r] \in Phases \ {"idle", "acquiring"}
    BY <1>3, <2>2
  <2>7. lease[in].pc = "held"
    BY <1>3, <2>2
  <2> QED BY <2>2, <2>3, <2>4, <2>5, <2>6, <2>7, <1>5
<1>12. CASE Put(r)
  <2>1. stream[r].queue \in Seq(Messages) /\ stream[r].producer = "putting"
        /\ stream[r].next \in Messages
    BY <1>3, <1>12 DEF StreamRecords, Put
  <2>2. Append(stream[r].queue, stream[r].next) \in Seq(Messages)
    BY <2>1, AppendProperties
  <2> QED BY <1>12, <2>1, <2>2, PublishedKeeps DEF Put
<1>13. CASE Discard(r)
  <2>1. stream[r].queue \in Seq(Messages)
    BY <1>3 DEF StreamRecords
  <2> QED BY <1>13, <2>1, PublishedKeeps DEF Discard
<1>14. CASE Start(r)
  <2> DEFINE s == [stream[r] EXCEPT !.producer = "running", !.consumer = "reading"]
  <2>1. /\ stream[r].producer = "returned" /\ phase[r] = "responding"
        /\ stream' = [stream EXCEPT ![r] = s]
        /\ UNCHANGED <<payer, registry, entry, lease, phase>>
    BY <1>3, <1>14 DEF Start
  <2>2. s \in StreamRecords /\ s.producer = "running"
    BY <1>3 DEF StreamRecords
  <2> HIDE DEF s
  <2>3. phase' = [phase EXCEPT ![r] = "responding"] /\ lease[in].pc = "held"
    BY <1>3, <2>1
  <2> QED BY <2>1, <2>2, <2>3, <1>5 DEF Phases
<1>15. CASE Consume(r)
  <2> DEFINE x == Head(stream[r].queue)
             g == IF x = "item" THEN stream[r].got + 1 ELSE stream[r].got
             c == IF x = "done" THEN "finished" ELSE IF x = "error" THEN "failed"
                  ELSE stream[r].consumer
             q == Tail(stream[r].queue)
             s == [stream[r] EXCEPT !.queue = q, !.got = g, !.consumer = c]
  <2>1. /\ stream[r].queue # <<>> /\ stream' = [stream EXCEPT ![r] = s]
        /\ UNCHANGED <<payer, registry, entry, lease, phase>>
    BY <1>3, <1>15 DEF Consume
  <2>2. g \in Int /\ q \in Seq(Messages)
        /\ c \in {"none", "reading", "finished", "failed", "gone"}
    <3>1. stream[r].got \in Int /\ stream[r].queue \in Seq(Messages)
          /\ stream[r].consumer \in {"none", "reading", "finished", "failed", "gone"}
      BY <1>3 DEF StreamRecords
    <3>2. q \in Seq(Messages)
      BY <2>1, <3>1, HeadTailProperties
    <3> HIDE DEF x
    <3> QED BY <3>1, <3>2
  <2> HIDE DEF g, q, c
  <2>3. s \in StreamRecords /\ s.producer = stream[r].producer /\ s.next = stream[r].next
    BY <1>3, <2>2 DEF StreamRecords
  <2> HIDE DEF s
  <2>4. LockInv'
    BY <1>1, <2>1, LocksUnchanged
  <2>5. CASE phase[r] # "idle"
    BY <2>1, <2>3, <2>5, <1>3, <1>5
  <2>6. CASE phase[r] = "idle"
    <3>1. phase' = [phase EXCEPT ![r] = "idle"] /\ s.producer = "none"
      BY <1>3, <2>1, <2>3, <2>6
    <3>2. \A k \in Leases : Owner(k) = r => lease[k].pc = "idle"
      BY <1>1, <2>6 DEF HandlerInv, RestingIsIdle
    <3>3. HandlerInv'
      BY <3>1, <3>2, <2>1, <2>3, <1>1, RequestRests
    <3> QED BY <3>3, <2>4 DEF IInv
  <2> QED BY <2>5, <2>6
<1>16. CASE CloseResponse(r)
  <2>1. /\ phase[r] = "responding" /\ phase' = [phase EXCEPT ![r] = "leaving"]
        /\ UNCHANGED payer /\ "leaving" \in Phases \ {"idle", "acquiring"}
    BY <1>16 DEF CloseResponse, Phases
  <2>2. CASE stream[r].producer = "returned"
    <3>1. NoStream \in StreamRecords /\ NoStream.producer = "none"
      BY GuardBounds DEF NoStream, StreamRecords, Messages
    <3>2. /\ ReleaseLease(Inner(r)) /\ lease' = [lease EXCEPT ![Inner(r)] = NoLease]
          /\ stream' = [stream EXCEPT ![r] = NoStream]
      BY <1>3, <1>16, <2>2 DEF CloseResponse, Unstarted
    <3>3. lease[Inner(r)].pc = "held"
      BY <1>3, <2>2 DEF in
    <3> QED BY <2>1, <3>1, <3>2, <3>3, InnerReleased
  <2>3. CASE stream[r].producer # "returned"
    <3> DEFINE c == IF stream[r].consumer = "reading" THEN "gone" ELSE stream[r].consumer
               s == [stream[r] EXCEPT !.consumer = c]
    <3>1. stream' = [stream EXCEPT ![r] = s]
      <4>1. stream' = [stream EXCEPT ![r] = IF stream[r].producer = "returned" THEN NoStream
                                           ELSE s]
        BY <1>16 DEF CloseResponse, Departed
      <4> QED BY <4>1, <2>3
    <3>2. s \in StreamRecords /\ s.producer = stream[r].producer /\ s.next = stream[r].next
      BY <1>3 DEF StreamRecords
    <3>3. UNCHANGED <<registry, entry, lease>>
      BY <1>16, <2>3 DEF CloseResponse, Unstarted
    <3> HIDE DEF s
    <3> QED BY <2>1, <3>1, <3>2, <3>3, <1>3, <1>5
  <2> QED BY <2>2, <2>3
<1>17. CASE Exit(r)
  <2>1. phase[r] = "leaving" /\ UNCHANGED payer
    BY <1>17 DEF Exit
  <2>2. CASE r \in Turns /\ lease[out].pc = "held"
    <3>1. /\ ReleaseLease(out) /\ lease' = [lease EXCEPT ![out] = NoLease]
          /\ UNCHANGED <<phase, stream>>
      BY <1>17, <2>2 DEF Exit, out
    <3>2. out \in Leases /\ Owner(out) = r /\ out # Inner(r) /\ Holds(out)
      BY <1>1, <2>2 DEF out, Inner, Holds
    <3>3. LockInv'
      BY <1>1, <1>2, <3>1, <3>2, LeaseReleased
    <3>4. phase' = [phase EXCEPT ![r] = "leaving"] /\ "leaving" \in Phases \ {"idle"}
      BY <1>3, <2>1, <3>1 DEF Phases
    <3>5. HandlerInv'
      BY <1>2, <2>1, <3>1, <3>2, <3>4, LeaseOnly
    <3> QED BY <3>3, <3>5 DEF IInv
  <2>3. CASE ~(r \in Turns /\ lease[out].pc = "held")
    <3>1. /\ stream[r].producer = "none" /\ \A l \in LeasesOf(r) : lease[l].pc = "idle"
          /\ phase' = [phase EXCEPT ![r] = "idle"]
          /\ stream' = [stream EXCEPT ![r] = NoStream]
          /\ UNCHANGED <<registry, entry, lease>>
      BY <1>17, <2>3 DEF Exit, out
    <3>2. LockInv'
      BY <1>1, <3>1, LocksUnchanged
    <3>3. NoStream \in StreamRecords /\ NoStream.producer = "none"
      BY GuardBounds DEF NoStream, StreamRecords, Messages
    <3>4. \A k \in Leases : Owner(k) = r => lease[k].pc = "idle"
      BY <3>1 DEF LeasesOf
    <3>5. HandlerInv'
      BY <1>1, <2>1, <3>1, <3>3, <3>4, RequestRests
    <3> QED BY <3>2, <3>5 DEF IInv
  <2> QED BY <2>2, <2>3
<1> QED
  BY <1>6, <1>7, <1>8, <1>9, <1>10, <1>11, <1>12, <1>13, <1>14, <1>15, <1>16, <1>17
  DEF ProducerStep, ConsumerStep

LEMMA StepInv == IInv /\ [Next]_vars => IInv'
<1> SUFFICES ASSUME IInv, [Next]_vars PROVE IInv'
  OBVIOUS
<1>1. CASE \E l \in Leases : LeaseStep(l) \/ LeaseFails(l)
  BY <1>1, LeaseSteps
<1>2. CASE \E r \in Requests :
             \/ Begin(r) \/ Enter(r) \/ LeaveEarly(r) \/ Preflight(r) \/ PreflightEnds(r)
             \/ ProducerStep(r) \/ ConsumerStep(r) \/ Exit(r)
  BY <1>2, RequestSteps
<1>3. CASE \E u \in Users, a \in Accounts : ChangePayer(u, a)
  <2>1. PICK u \in Users, a \in Accounts : ChangePayer(u, a)
    BY <1>3
  <2>2. UNCHANGED <<registry, entry, lease, phase, stream>> /\ payer' \in [Users -> Accounts]
    BY <2>1 DEF ChangePayer, IInv, HandlerInv, HandlerTypes
  <2>3. LockInv'
    BY <2>2, LocksUnchanged DEF IInv
  <2>4. HandlerInv'
    BY <2>2 DEF IInv, HandlerInv, HandlerTypes, ProducersHold, RestingIsIdle, Inner
  <2> QED BY <2>3, <2>4 DEF IInv
<1>4. CASE UNCHANGED vars
  <2>1. UNCHANGED <<payer, registry, entry, lease, phase, stream>>
    BY <1>4 DEF vars
  <2>2. LockInv'
    BY <2>1, LocksUnchanged DEF IInv
  <2>3. HandlerInv'
    BY <2>1 DEF IInv, HandlerInv, HandlerTypes, ProducersHold, RestingIsIdle, Inner
  <2> QED BY <2>2, <2>3 DEF IInv
<1> QED BY <1>1, <1>2, <1>3, <1>4 DEF Next

\* The invariant holds in every state the guard reaches.
THEOREM GuardInvariant == Spec => []IInv
<1> QED BY InitInv, StepInv, PTL DEF Spec

----------------------------------------------------------------------------
(* What the guard promises *)

\* Two requests never have the lock of one account at the same time, for any
\* number of requests: both would be the owner its only entry names.
THEOREM GuardMutualExclusion == Spec => []MutualExclusion
<1>1. ASSUME IInv PROVE MutualExclusion
  <2> SUFFICES ASSUME NEW k \in Leases, NEW l \in Leases, Holds(k), Holds(l),
                      lease[k].account = lease[l].account
               PROVE  Owner(k) = Owner(l)
    BY DEF MutualExclusion
  <2>1. lease[k].ref = lease[l].ref
    BY <1>1 DEF IInv, LockInv, LeasesUseEntries, Uses, Holds
  <2> QED BY <2>1, <1>1 DEF IInv, LockInv, HoldersOwn
<1> QED BY <1>1, GuardInvariant, PTL

\* The registry has an account exactly while a lease waits for its lock or has
\* it, and all of them share that one entry, however the entries are reused.
THEOREM GuardRegistryMatchesLeases == Spec => []RegistryMatchesLeases
<1>1. ASSUME IInv PROVE RegistryMatchesLeases
  <2> SUFFICES ASSUME NEW a \in Accounts
               PROVE  /\ (registry[a] # NULL) <=> (\E l \in Leases : Uses(l) /\ lease[l].account = a)
                      /\ \A l \in Leases : Uses(l) /\ lease[l].account = a
                                           => lease[l].ref = registry[a]
    BY DEF RegistryMatchesLeases
  <2>1. \A l \in Leases : Uses(l) /\ lease[l].account = a
                          => lease[l].ref = registry[a] /\ registry[a] # NULL
    BY <1>1, GuardNull DEF IInv, LockInv, LeasesUseEntries
  <2>2. registry[a] # NULL => \E l \in Leases : Uses(l) /\ lease[l].account = a
    BY <1>1 DEF IInv, LockInv, EntriesAreUsed
  <2> QED BY <2>1, <2>2
<1> QED BY <1>1, GuardInvariant, PTL

\* Provider work runs under the lock of its request until it is billed, also
\* when the client has gone and the handler has left.
THEOREM GuardProviderRunsUnderLock == Spec => []ProviderRunsUnderLock
<1>1. ASSUME IInv PROVE ProviderRunsUnderLock
  <2> SUFFICES ASSUME NEW r \in Requests, stream[r].producer \in {"running", "putting"}
               PROVE  /\ lease[Inner(r)].pc = "held"
                      /\ entry[lease[Inner(r)].ref].owner = r
    BY DEF ProviderRunsUnderLock
  <2>1. Inner(r) \in Leases /\ Owner(Inner(r)) = r /\ lease[Inner(r)].pc = "held"
    BY <1>1, LeasesAreFinite DEF IInv, HandlerInv, ProducersHold
  <2> QED BY <2>1, <1>1 DEF IInv, LockInv, HoldersOwn, Holds
<1> QED BY <1>1, GuardInvariant, PTL

----------------------------------------------------------------------------
(* The stream *)

OnlyItems(q) == \A i \in 1..Len(q) : q[i] = "item"

\* The items that the consumer got, those in the queue and the one that is
\* being put are those that the provider sent; a stream ends with a last
\* message, and is done only when every item was sent.
Flowing(s) ==
  \/ /\ s.producer = "running" /\ OnlyItems(s.queue)
     /\ s.got + Len(s.queue) = s.sent
  \/ /\ s.producer = "putting" /\ OnlyItems(s.queue)
     /\ s.got + Len(s.queue) + (IF s.next = "item" THEN 1 ELSE 0) = s.sent
     /\ s.next = "done" => s.sent = Items
  \/ /\ s.producer = "none" /\ Len(s.queue) > 0
     /\ s.queue[Len(s.queue)] \in {"done", "error"}
     /\ \A i \in 1..(Len(s.queue) - 1) : s.queue[i] = "item"
     /\ s.got + Len(s.queue) - 1 = s.sent
     /\ s.queue[Len(s.queue)] = "done" => s.sent = Items

Flow(s) ==
  /\ s.producer = "returned" => /\ s.consumer = "none" /\ s.queue = <<>>
                                /\ s.sent = 0 /\ s.got = 0
  /\ s.consumer = "reading" => Flowing(s)
  /\ s.consumer = "finished" => s.got = Items
  /\ s.got \in 0..Items

StreamInv == \A r \in Requests : /\ Flow(stream[r])
                                 /\ phase[r] \in {"idle", "acquiring"} => stream[r] = NoStream

LEMMA NoStreamFlows == NoStream \in StreamRecords /\ Flow(NoStream)
BY GuardBounds DEF NoStream, StreamRecords, Messages, Flow

\* The consumer takes the first message off the queue.
LEMMA ConsumedFlows ==
  ASSUME NEW s \in StreamRecords, Flow(s), s.consumer = "reading", s.queue # <<>>,
         NEW t, t.producer = s.producer, t.next = s.next, t.sent = s.sent,
         t.queue = Tail(s.queue),
         t.got = IF Head(s.queue) = "item" THEN s.got + 1 ELSE s.got,
         t.consumer = IF Head(s.queue) = "done" THEN "finished"
                      ELSE IF Head(s.queue) = "error" THEN "failed" ELSE s.consumer
  PROVE  Flow(t)
<1> DEFINE q == s.queue
           n == Len(q)
           x == Head(q)
<1>1. q \in Seq(Messages) /\ s.got \in 0..Items /\ s.sent \in 0..Items /\ Items \in Nat
  BY GuardBounds DEF StreamRecords, Flow
<1>2. /\ n \in Nat \ {0} /\ x = q[1] /\ Len(t.queue) = n - 1
      /\ \A i \in 1..(n - 1) : t.queue[i] = q[i + 1]
  <2>1. q # <<>>
    OBVIOUS
  <2> HIDE DEF q
  <2> QED BY <1>1, <2>1, HeadTailProperties DEF q
<1>3. Flowing(s) /\ s.producer # "returned" /\ t.producer # "returned"
  BY DEF Flow
<1> HIDE DEF q, n, x
<1>4. CASE s.producer \in {"running", "putting"}
  <2>1. OnlyItems(q) /\ (s.next = "done" /\ s.producer = "putting" => s.sent = Items)
        /\ s.got + n + (IF s.producer = "putting" /\ s.next = "item" THEN 1 ELSE 0) = s.sent
    BY <1>1, <1>2, <1>3, <1>4 DEF Flowing, q, n
  <2>2. x = "item" /\ t.consumer = "reading" /\ t.got = s.got + 1
    <3>1. 1 \in 1..n
      BY <1>2
    <3>2. x = "item"
      BY <1>2, <2>1, <3>1 DEF OnlyItems, n
    <3> QED BY <3>2 DEF x, q
  <2>3. OnlyItems(t.queue)
    <3>1. ASSUME NEW i \in 1..(n - 1) PROVE t.queue[i] = "item"
      <4>1. i + 1 \in 1..n
        BY <1>2
      <4> QED BY <1>2, <2>1, <4>1 DEF OnlyItems, n
    <3> QED BY <1>2, <3>1 DEF OnlyItems
  <2>4. t.got + Len(t.queue) = s.got + n
    <3> DEFINE g == s.got
               h == t.got
               m == Len(t.queue)
    <3>1. g \in Int /\ n \in Int /\ h = g + 1 /\ m = n - 1
      BY <1>1, <1>2, <2>2
    <3> HIDE DEF g, h, m
    <3>2. h + m = g + n
      BY <3>1
    <3> QED BY <3>2 DEF g, h, m
  <2>5. t.got + Len(t.queue) + (IF s.producer = "putting" /\ s.next = "item" THEN 1 ELSE 0) = t.sent
    BY <2>1, <2>4
  <2>6. t.got \in 0..Items
    BY <1>1, <1>2, <2>1, <2>2
  <2>7. Flowing(t)
    <3>1. CASE s.producer = "running"
      <4>1. t.got + Len(t.queue) = t.sent
        BY <1>1, <1>2, <2>5, <2>6, <3>1
      <4> QED BY <2>3, <3>1, <4>1 DEF Flowing
    <3>2. CASE s.producer = "putting"
      <4>1. t.got + Len(t.queue) + (IF t.next = "item" THEN 1 ELSE 0) = t.sent
        BY <2>5, <3>2
      <4> QED BY <2>1, <2>3, <3>2, <4>1 DEF Flowing
    <3> QED BY <1>4, <3>1, <3>2
  <2> QED BY <1>3, <2>2, <2>6, <2>7 DEF Flow
<1>5. CASE s.producer = "none"
  <2>1. /\ q[n] \in {"done", "error"} /\ (\A i \in 1..(n - 1) : q[i] = "item")
        /\ s.got + n - 1 = s.sent /\ (q[n] = "done" => s.sent = Items)
    BY <1>3, <1>5 DEF Flowing, q, n
  <2>2. CASE n = 1
    <3>1. x \in {"done", "error"} /\ x # "item" /\ s.got = s.sent /\ (x = "done" => s.sent = Items)
      BY <1>1, <1>2, <2>1, <2>2
    <3>2. t.got = s.got /\ t.consumer # "reading" /\ (t.consumer = "finished" => x = "done")
      BY <3>1 DEF x, q
    <3> QED BY <1>1, <1>3, <3>1, <3>2 DEF Flow
  <2>3. CASE n # 1
    <3>1. 1 \in 1..(n - 1) /\ n - 1 \in 1..(n - 1) /\ (n - 1) + 1 = n
      BY <1>2, <2>3
    <3>2. x = "item" /\ t.consumer = "reading" /\ t.got = s.got + 1
      <4>1. x = "item"
        BY <1>2, <2>1, <3>1
      <4> QED BY <4>1 DEF x, q
    <3>3. t.queue[n - 1] = q[n]
      BY <1>2, <3>1
    <3>4. ASSUME NEW i \in 1..(n - 1 - 1) PROVE t.queue[i] = "item"
      <4>1. i \in 1..(n - 1) /\ i + 1 \in 1..(n - 1)
        BY <1>2
      <4> QED BY <1>2, <2>1, <4>1
    <3>5. t.got + Len(t.queue) - 1 = t.sent /\ Len(t.queue) > 0 /\ t.got \in 0..Items
      <4> DEFINE g == s.got
                 h == t.got
                 m == Len(t.queue)
                 z == s.sent
      <4>1. /\ g \in 0..Items /\ z \in 0..Items /\ Items \in Nat /\ n \in Nat /\ n > 1
            /\ h = g + 1 /\ m = n - 1 /\ g + n - 1 = z /\ t.sent = z
        BY <1>1, <1>2, <2>1, <2>3, <3>2
      <4> HIDE DEF g, h, m, z
      <4>2. h + m - 1 = z /\ m > 0 /\ h \in 0..Items
        BY <4>1
      <4> QED BY <4>1, <4>2 DEF h, m
    <3>6. Flowing(t)
      BY <1>2, <1>5, <2>1, <3>3, <3>4, <3>5 DEF Flowing
    <3> QED BY <1>3, <3>2, <3>5, <3>6 DEF Flow
  <2> QED BY <2>2, <2>3
<1> QED
  BY <1>3, <1>4, <1>5 DEF Flowing

\* The producer's next message x joins the queue.
LEMMA PublishedFlows ==
  ASSUME NEW s \in StreamRecords, Flow(s), s.producer = "putting", s.next \in Messages,
         NEW t, t.consumer = s.consumer, t.sent = s.sent, t.got = s.got,
         t.producer = IF s.next = "item" THEN "running" ELSE "none",
         s.consumer = "reading" => t.queue = Append(s.queue, s.next)
  PROVE  Flow(t)
<1>1. s.queue \in Seq(Messages) /\ s.got \in 0..Items /\ s.sent \in 0..Items /\ Items \in Nat
  BY GuardBounds DEF StreamRecords, Flow
<1>2. t.producer # "returned" /\ (t.consumer = "finished" => t.got = Items) /\ t.got \in 0..Items
  BY DEF Flow
<1>3. ASSUME s.consumer = "reading" PROVE Flowing(t)
  <2> DEFINE q == s.queue
             n == Len(q)
  <2>1. /\ OnlyItems(q) /\ (s.next = "done" => s.sent = Items)
        /\ s.got + n + (IF s.next = "item" THEN 1 ELSE 0) = s.sent
    BY <1>3 DEF Flow, Flowing
  <2>2. /\ n \in Nat /\ Len(t.queue) = n + 1 /\ t.queue[n + 1] = s.next
        /\ \A i \in 1..n : t.queue[i] = q[i]
    <3>1. q \in Seq(Messages) /\ t.queue = Append(q, s.next)
      BY <1>1, <1>3
    <3> HIDE DEF q
    <3> QED BY <3>1, AppendProperties
  <2>3. \A i \in 1..n : t.queue[i] = "item"
    BY <2>1, <2>2 DEF OnlyItems
  <2> HIDE DEF q, n
  <2>4. CASE s.next = "item"
    <3>1. t.got + Len(t.queue) = t.sent
      <4> DEFINE g == s.got
                 m == Len(t.queue)
                 z == s.sent
      <4>1. g \in Int /\ n \in Int /\ m = n + 1 /\ g + n + 1 = z /\ t.got = g /\ t.sent = z
        BY <1>1, <2>1, <2>2, <2>4
      <4> HIDE DEF g, m, z
      <4>2. g + m = z
        BY <4>1
      <4> QED BY <4>1, <4>2 DEF m
    <3>2. ASSUME NEW i \in 1..(n + 1) PROVE t.queue[i] = "item"
      <4>1. i \in 1..n \/ i = n + 1
        BY <2>2
      <4> QED BY <2>2, <2>3, <2>4, <4>1
    <3>3. OnlyItems(t.queue)
      BY <2>2, <3>2 DEF OnlyItems
    <3> QED BY <2>4, <3>1, <3>3 DEF Flowing
  <2>5. CASE s.next # "item"
    <3>1. /\ t.got + Len(t.queue) - 1 = t.sent /\ Len(t.queue) > 0 /\ Len(t.queue) - 1 = n
          /\ Len(t.queue) = n + 1
      BY <1>1, <2>1, <2>2, <2>5
    <3>2. t.queue[Len(t.queue)] \in {"done", "error"}
          /\ (t.queue[Len(t.queue)] = "done" => t.sent = Items)
      BY <2>1, <2>2, <2>5 DEF Messages
    <3>3. \A i \in 1..(Len(t.queue) - 1) : t.queue[i] = "item"
      BY <2>3, <3>1
    <3> QED BY <2>5, <3>1, <3>2, <3>3 DEF Flowing
  <2> QED BY <2>4, <2>5
<1> QED
  BY <1>2, <1>3 DEF Flow

\* The provider said x, which is put while somebody listens.
LEMMA ProducedFlows ==
  ASSUME NEW s \in StreamRecords, Flow(s), s.producer = "running", NEW x \in Messages,
         x = "item" => s.sent < Items, x = "done" => s.sent = Items,
         NEW t, t.consumer = s.consumer, t.got = s.got, t.queue = s.queue,
         t.sent = IF x = "item" THEN s.sent + 1 ELSE s.sent,
         t.producer \in {"running", "putting"},
         s.consumer = "reading" => t.producer = "putting" /\ t.next = x
  PROVE  Flow(t)
<1>1. s.queue \in Seq(Messages) /\ s.got \in 0..Items /\ s.sent \in 0..Items /\ Items \in Nat
      /\ Len(s.queue) \in Nat
  BY GuardBounds DEF StreamRecords, Flow
<1>2. ASSUME s.consumer = "reading" PROVE Flowing(t)
  <2>1. OnlyItems(s.queue) /\ s.got + Len(s.queue) = s.sent
    BY <1>2 DEF Flow, Flowing
  <2>2. t.got + Len(t.queue) + (IF t.next = "item" THEN 1 ELSE 0) = t.sent
    BY <1>1, <1>2, <2>1
  <2> QED BY <1>2, <2>1, <2>2 DEF Flowing
<1> QED
  BY <1>1, <1>2 DEF Flow

\* What a request does to its stream.
LEMMA StreamStep ==
  ASSUME IInv, IInv', StreamInv, NEW r \in Requests,
         \/ Begin(r) \/ Enter(r) \/ LeaveEarly(r) \/ Preflight(r) \/ PreflightEnds(r)
         \/ ProducerStep(r) \/ ConsumerStep(r) \/ Exit(r)
  PROVE  /\ Flow(stream'[r])
         /\ phase'[r] \in {"idle", "acquiring"} => stream'[r] = NoStream
         /\ \A q \in Requests \ {r} : stream'[q] = stream[q] /\ phase'[q] = phase[q]
<1> DEFINE s == stream[r]
           t == stream'[r]
           Others == \A q \in Requests \ {r} : stream'[q] = stream[q] /\ phase'[q] = phase[q]
           Goal == Flow(t) /\ (phase'[r] \in {"idle", "acquiring"} => t = NoStream) /\ Others
<1>1. /\ s \in StreamRecords /\ stream \in [Requests -> StreamRecords]
      /\ phase \in [Requests -> Phases]
      /\ s.producer # "none" => phase[r] \notin {"idle", "acquiring"}
      /\ s.producer = "putting" => s.next \in Messages
  BY DEF IInv, HandlerInv, HandlerTypes, ProducersHold
<1>2. Flow(s) /\ (phase[r] \in {"idle", "acquiring"} => s = NoStream)
  BY DEF StreamInv
<1> SUFFICES Goal
  OBVIOUS
<1>3. CASE Begin(r) \/ Enter(r) \/ LeaveEarly(r) \/ PreflightEnds(r)
  <2>1. stream' = stream /\ Others /\ phase[r] \in {"idle", "acquiring"}
    <3>1. CASE Begin(r)
      BY <1>1, <3>1 DEF Begin
    <3>2. CASE Enter(r)
      BY <1>1, <3>2 DEF Enter
    <3>3. CASE LeaveEarly(r)
      BY <1>1, <3>3 DEF LeaveEarly
    <3>4. CASE PreflightEnds(r)
      <4>1. Owner(Inner(r)) = r
        BY LeasesAreFinite
      <4> QED BY <1>1, <3>4, <4>1 DEF PreflightEnds, GiveUpLease
    <3> QED BY <1>3, <3>1, <3>2, <3>3, <3>4
  <2> QED BY <1>2, <2>1
<1>4. CASE Preflight(r)
  <2>1. s = NoStream /\ t = [s EXCEPT !.producer = "returned"] /\ Others /\ phase'[r] = "responding"
    BY <1>1, <1>2, <1>4 DEF Preflight
  <2>2. /\ t.producer = "returned" /\ t.consumer = "none" /\ t.queue = <<>>
        /\ t.sent = 0 /\ t.got = 0
    BY <2>1 DEF NoStream
  <2> HIDE DEF t
  <2>3. Flow(t)
    BY <2>2, GuardBounds DEF Flow
  <2> QED BY <2>1, <2>3
<1>5. CASE Produce(r)
  <2>1. PICK x \in Messages :
          LET skip == x = "item" /\ ~Active(r)
          IN /\ x = "item" => s.sent < Items
             /\ x = "done" => s.sent = Items
             /\ stream' = [stream EXCEPT ![r].sent = IF x = "item" THEN @ + 1 ELSE @,
                                         ![r].next = IF skip THEN NULL ELSE x,
                                         ![r].producer = IF skip THEN @ ELSE "putting"]
    BY <1>5 DEF Produce
  <2>2. s.producer = "running" /\ phase' = phase
    BY <1>5 DEF Produce
  <2>3. /\ t.consumer = s.consumer /\ t.got = s.got /\ t.queue = s.queue
        /\ t.sent = IF x = "item" THEN s.sent + 1 ELSE s.sent
        /\ t.producer \in {"running", "putting"}
        /\ s.consumer = "reading" => t.producer = "putting" /\ t.next = x
        /\ Others
    BY <1>1, <2>1, <2>2 DEF Active, StreamRecords
  <2> HIDE DEF s, t
  <2>4. Flow(t)
    BY <1>1, <1>2, <2>1, <2>2, <2>3, ProducedFlows
  <2> QED BY <1>1, <2>2, <2>3, <2>4
<1>6. ASSUME NEW q, s.producer = "putting", Published(r, q),
             s.consumer = "reading" => q = Append(s.queue, s.next)
      PROVE  Goal
  <2>1. /\ t.consumer = s.consumer /\ t.sent = s.sent /\ t.got = s.got /\ t.queue = q
        /\ t.producer = IF s.next = "item" THEN "running" ELSE "none"
        /\ Others /\ phase' = phase
    <3>1. CASE s.next = "item"
      BY <1>1, <1>6, <3>1 DEF Published, StreamRecords
    <3>2. CASE s.next # "item"
      BY <1>1, <1>6, <3>2 DEF Published, StreamRecords
    <3> QED BY <3>1, <3>2
  <2> HIDE DEF s, t
  <2>2. Flow(t)
    BY <1>1, <1>2, <1>6, <2>1, PublishedFlows
  <2> QED BY <1>1, <1>6, <2>1, <2>2
<1>7. CASE Put(r) \/ Discard(r)
  BY <1>6, <1>7 DEF Put, Discard, GivesUp, Active
<1>8. CASE Start(r)
  <2>1. /\ s.producer = "returned" /\ t = [s EXCEPT !.producer = "running", !.consumer = "reading"]
        /\ Others /\ phase'[r] = "responding"
    BY <1>1, <1>8 DEF Start
  <2>2. s.queue = <<>> /\ s.sent = 0 /\ s.got = 0
    BY <1>2, <2>1 DEF Flow
  <2>3. /\ t.producer = "running" /\ t.consumer = "reading" /\ t.queue = <<>>
        /\ t.sent = 0 /\ t.got = 0
    <3> HIDE DEF t, s
    <3> QED BY <1>1, <2>1, <2>2 DEF StreamRecords
  <2> HIDE DEF t, s
  <2>4. Flow(t)
    BY <2>3, GuardBounds DEF Flow, Flowing, OnlyItems
  <2> QED BY <2>1, <2>4
<1>9. CASE Consume(r)
  <2>1. /\ s.consumer = "reading" /\ s.queue # <<>> /\ phase' = phase
        /\ t = [s EXCEPT !.queue = Tail(s.queue),
                         !.got = IF Head(s.queue) = "item" THEN s.got + 1 ELSE s.got,
                         !.consumer = IF Head(s.queue) = "done" THEN "finished"
                                      ELSE IF Head(s.queue) = "error" THEN "failed"
                                      ELSE s.consumer]
        /\ Others
    BY <1>1, <1>9 DEF Consume, Active
  <2>2. /\ t.producer = s.producer /\ t.next = s.next /\ t.sent = s.sent
        /\ t.queue = Tail(s.queue)
        /\ t.got = IF Head(s.queue) = "item" THEN s.got + 1 ELSE s.got
        /\ t.consumer = IF Head(s.queue) = "done" THEN "finished"
                        ELSE IF Head(s.queue) = "error" THEN "failed" ELSE s.consumer
    <3> DEFINE g == IF Head(s.queue) = "item" THEN s.got + 1 ELSE s.got
               c == IF Head(s.queue) = "done" THEN "finished"
                    ELSE IF Head(s.queue) = "error" THEN "failed" ELSE s.consumer
               q == Tail(s.queue)
    <3>1. t = [s EXCEPT !.queue = q, !.got = g, !.consumer = c]
      BY <2>1
    <3> HIDE DEF s, t, g, c, q
    <3>2. /\ t.producer = s.producer /\ t.next = s.next /\ t.sent = s.sent
          /\ t.queue = q /\ t.got = g /\ t.consumer = c
      BY <1>1, <3>1 DEF StreamRecords
    <3> QED BY <3>2 DEF q, g, c
  <2> HIDE DEF s, t
  <2>3. Flow(t)
    BY <1>1, <1>2, <2>1, <2>2, ConsumedFlows
  <2>4. phase[r] \notin {"idle", "acquiring"}
    <3>1. NoStream.consumer # "reading"
      BY DEF NoStream
    <3> QED BY <1>2, <2>1, <3>1
  <2> QED BY <2>1, <2>3, <2>4
<1>10. CASE CloseResponse(r)
  <2>1. /\ t = IF s.producer = "returned" THEN NoStream
               ELSE [s EXCEPT !.consumer = Departed(s.consumer)]
        /\ Others /\ phase'[r] = "leaving"
    BY <1>1, <1>10 DEF CloseResponse
  <2>2. CASE s.producer = "returned"
    BY <2>1, <2>2, NoStreamFlows
  <2>3. CASE s.producer # "returned"
    <3> DEFINE c == Departed(s.consumer)
    <3>1. t = [s EXCEPT !.consumer = c] /\ c # "reading"
          /\ (c = "finished" => s.consumer = "finished")
      BY <2>1, <2>3 DEF Departed
    <3> HIDE DEF s, t, c
    <3>2. t.producer = s.producer /\ t.consumer = c /\ t.got = s.got
      BY <1>1, <3>1 DEF StreamRecords
    <3>3. Flow(t)
      BY <1>2, <2>3, <3>1, <3>2 DEF Flow
    <3> QED BY <2>1, <3>3
  <2> QED BY <2>2, <2>3
<1>11. CASE Exit(r)
  <2>1. CASE UNCHANGED <<phase, stream>>
    BY <1>2, <2>1
  <2>2. CASE stream' = [stream EXCEPT ![r] = NoStream] /\ phase' = [phase EXCEPT ![r] = "idle"]
    <3>1. t = NoStream /\ Others
      BY <1>1, <2>2
    <3> QED BY <3>1, NoStreamFlows
  <2> QED BY <1>11, <2>1, <2>2 DEF Exit
<1> HIDE DEF Goal
<1> QED
  BY <1>3, <1>4, <1>5, <1>7, <1>8, <1>9, <1>10, <1>11 DEF ProducerStep, ConsumerStep

LEMMA StreamsFlow == Spec => [](IInv /\ StreamInv)
<1>1. Init => StreamInv
  BY NoStreamFlows DEF Init, StreamInv
<1>2. IInv /\ IInv' /\ StreamInv /\ [Next]_vars => StreamInv'
  <2> SUFFICES ASSUME IInv, IInv', StreamInv, [Next]_vars PROVE StreamInv'
    OBVIOUS
  <2>1. ASSUME NEW l \in Leases, LeaseStep(l) \/ LeaseFails(l) PROVE StreamInv'
    <3>1. Owner(l) \in Requests /\ phase \in [Requests -> Phases]
      BY LeasesAreFinite DEF IInv, HandlerInv, HandlerTypes
    <3>2. stream' = stream
      BY <2>1 DEF LeaseStep, LeaseFails, ReadPayer, Join, Wake, Check, ReadFails, CancelWait,
                  CheckFails, GiveUpLease
    <3>3. phase' = phase \/ phase' = [phase EXCEPT ![Owner(l)] = "leaving"]
      BY <2>1 DEF LeaseStep, LeaseFails, ReadPayer, Join, Wake, Check, ReadFails, CancelWait,
                  CheckFails, GiveUpLease
    <3>4. \A r \in Requests : phase'[r] = phase[r] \/ phase'[r] = "leaving"
      BY <3>1, <3>3
    <3> QED BY <3>2, <3>4 DEF StreamInv
  <2>2. ASSUME NEW r \in Requests,
               \/ Begin(r) \/ Enter(r) \/ LeaveEarly(r) \/ Preflight(r) \/ PreflightEnds(r)
               \/ ProducerStep(r) \/ ConsumerStep(r) \/ Exit(r)
        PROVE  StreamInv'
    <3>1. /\ Flow(stream'[r])
          /\ phase'[r] \in {"idle", "acquiring"} => stream'[r] = NoStream
          /\ \A q \in Requests \ {r} : stream'[q] = stream[q] /\ phase'[q] = phase[q]
      BY <2>2, StreamStep
    <3> QED BY <3>1 DEF StreamInv
  <2>3. CASE UNCHANGED <<phase, stream>>
    BY <2>3 DEF StreamInv
  <2> QED
    BY <2>1, <2>2, <2>3 DEF Next, ChangePayer, vars
<1> QED
  BY <1>1, <1>2, GuardInvariant, PTL DEF Spec

\* A client that is told the stream is done has received every item of it,
\* however the producer, the bounded queue and the client interleave: nothing
\* is dropped while somebody reads, and the last message is put last.
THEOREM GuardStreamComplete == Spec => []StreamComplete
<1>1. StreamInv => StreamComplete
  BY DEF StreamInv, Flow, StreamComplete
<1> QED
  BY <1>1, StreamsFlow, PTL

\* Every variable of the guard has its type: an entry counts at most all the
\* leases, and nobody receives more than the provider yields.
THEOREM GuardTypes == Spec => []TypeOK
<1>1. IInv /\ StreamInv => TypeOK
  <2> SUFFICES ASSUME IInv, StreamInv PROVE TypeOK
    OBVIOUS
  <2>1. /\ registry \in [Accounts -> Entries \cup {NULL}] /\ lease \in [Leases -> LeaseStates]
        /\ payer \in [Users -> Accounts] /\ phase \in [Requests -> Phases]
        /\ entry \in [Entries -> EntryRecords] /\ stream \in [Requests -> StreamRecords]
    BY DEF IInv, LockInv, LockTypes, HandlerInv, HandlerTypes
  <2>2. ASSUME NEW e \in Entries PROVE entry[e] \in EntryStates
    <3>1. UsersOf(e) \in SUBSET Leases /\ HoldersOf(e) \in SUBSET Leases
      BY DEF UsersOf, HoldersOf
    <3>2. /\ Cardinality(UsersOf(e)) <= Cardinality(Leases)
          /\ Cardinality(HoldersOf(e)) <= Cardinality(Leases)
          /\ Cardinality(UsersOf(e)) \in Nat /\ Cardinality(HoldersOf(e)) \in Nat
          /\ Cardinality(Leases) \in Nat
      BY <3>1, SetsOfLeases, LeasesAreFinite, FS_Subset, FS_CardinalityType
    <3>3. /\ entry[e].participants \in 0..Cardinality(Leases)
          /\ entry[e].depth \in 0..Cardinality(Leases)
      BY <3>2 DEF IInv, LockInv, EntriesCount
    <3>4. entry[e] \in EntryRecords
      BY <2>1
    <3> QED BY <3>3, <3>4 DEF EntryRecords, EntryStates
  <2>3. ASSUME NEW r \in Requests PROVE stream[r] \in StreamStates
    <3>1. stream[r] \in StreamRecords /\ stream[r].got \in 0..Items
      BY <2>1 DEF StreamInv, Flow
    <3> QED BY <3>1 DEF StreamRecords, StreamStates
  <2>4. entry \in [Entries -> EntryStates] /\ stream \in [Requests -> StreamStates]
    BY <2>1, <2>2, <2>3
  <2> QED BY <2>1, <2>4 DEF TypeOK, Phases
<1> QED
  BY <1>1, StreamsFlow, PTL
====
