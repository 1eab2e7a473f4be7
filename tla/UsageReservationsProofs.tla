---- MODULE UsageReservationsProofs ----
(***************************************************************************)
(* Proofs about the billing ledger, for every set of users, holds,         *)
(* policies and amounts: its columns keep their types, what a confirmed    *)
(* provider call and an open team hold rule out, that the ledger           *)
(* implements the escrow, so that its books balance, that the rows of      *)
(* members and the sponsored grant always bear the holds that are open,    *)
(* and what explains the spend of a member.                                *)
(***************************************************************************)
EXTENDS UsageReservations, SumsProofs

USE DEF Optional, FixedPurposes

----------------------------------------------------------------------------
(* The member's allowance *)

\* Refills enough for a shortfall cover it.
LEMMA CeilDivCovers ==
  ASSUME NEW n \in Nat \ {0}, NEW d \in Nat \ {0}
  PROVE  /\ CeilDiv(n, d) \in Nat \ {0}
         /\ n <= CeilDiv(n, d) * d
BY SMTT(30) DEF CeilDiv

LEMMA RolloverType ==
  ASSUME NEW m \in Members, NEW at \in Nat
  PROVE  /\ AfterRollover(m, at) \in Members
         /\ AfterRollover(m, at).month = at
BY DEF AfterRollover, Members

\* An allowed charge needs a natural number of refills, and raises the limit
\* by the amount that LimitDelta records.
LEMMA RefillType ==
  ASSUME NEW m \in Members, NEW n \in Nat, LimitAllows(m, n)
  PROVE  /\ RefillCount(m, n) \in Nat
         /\ LimitDelta(m, n) \in Nat
         /\ m.limit = NULL => RaisedLimit(m, n) = NULL
         /\ m.limit # NULL => RaisedLimit(m, n) = m.limit + LimitDelta(m, n)
<1>1. CASE WithinLimit(m, n) \/ m.action # "auto_refill"
  BY <1>1 DEF RefillCount, LimitDelta, RaisedLimit, Members
<1>2. CASE ~WithinLimit(m, n) /\ m.action = "auto_refill"
  <2>1. /\ m.refill \in Nat \ {0} /\ m.limit \in Nat /\ m.spent + n - m.limit \in Nat \ {0}
        /\ m.max # NULL => m.max \in Nat /\ m.spent + n <= m.max
    BY <1>2, NullAssumption DEF LimitAllows, WithinLimit, Members
  <2> DEFINE k == CeilDiv(m.spent + n - m.limit, m.refill)
  <2>2. k \in Nat \ {0}
    BY <2>1, CeilDivCovers
  <2>3. RefillCount(m, n) = k
    BY <1>2 DEF RefillCount
  <2>4. k * m.refill \in Nat
    <3> HIDE DEF k
    <3> QED BY <2>1, <2>2
  <2> HIDE DEF k
  <2> DEFINE raised == m.limit + k * m.refill
  <2>5. RaisedLimit(m, n) = IF m.max # NULL /\ m.max < raised THEN m.max ELSE raised
    BY <2>2, <2>3 DEF RaisedLimit
  <2>6. raised \in Nat /\ m.limit <= raised
    <3> DEFINE p == k * m.refill
    <3> HIDE DEF p
    <3>1. p \in Nat
      BY <2>4 DEF p
    <3>2. m.limit + p \in Nat /\ m.limit <= m.limit + p
      BY <2>1, <3>1
    <3> QED
      BY <3>2 DEF p
  <2> HIDE DEF raised
  <2>7. m.max # NULL => m.max \in Nat /\ m.limit <= m.max
    BY <2>1 DEF Members
  <2>8. RaisedLimit(m, n) \in Nat /\ m.limit <= RaisedLimit(m, n)
    BY <2>5, <2>6, <2>7
  <2> QED
    BY <2>1, <2>2, <2>3, <2>8, NullAssumption DEF LimitDelta
<1> QED
  BY <1>1, <1>2

LEMMA ChargedType ==
  ASSUME NEW m \in Members, NEW n \in Nat, LimitAllows(m, n)
  PROVE  Charged(m, n) \in Members
<1>1. RaisedLimit(m, n) \in Nat \cup {NULL}
  BY RefillType DEF Members
<1>2. /\ m.spent + n \in Nat
      /\ m.count + RefillCount(m, n) \in Nat
  BY RefillType DEF Members
<1> QED
  BY <1>1, <1>2 DEF Charged, Members

LEMMA ReleasedType ==
  ASSUME NEW m \in Members, NEW r \in Rows, NEW n \in Nat
  PROVE  Released(m, r, n) \in Members
<1>1. SpendReleased(m, r, n) \in Members
  BY DEF SpendReleased, Monus, Members
<1>2. ASSUME NEW x \in Members PROVE RefillReleased(x, r) \in Members
  <2> DEFINE lower == IF x.limit - r.limitDelta > x.spent THEN x.limit - r.limitDelta
                      ELSE x.spent
             limit == IF x.limit = NULL THEN NULL ELSE lower
             count == Monus(x.count, r.countDelta)
  <2>1. limit \in Nat \cup {NULL}
    BY DEF Members, Rows
  <2>2. count \in Nat
    BY DEF Monus, Members, Rows
  <2>3. RefillReleased(x, r) \in {x, [x EXCEPT !.limit = limit, !.count = count]}
    BY DEF RefillReleased
  <2> HIDE DEF lower, limit, count
  <2>4. [x EXCEPT !.limit = limit, !.count = count] \in Members
    BY <2>1, <2>2 DEF Members
  <2> QED
    BY <2>3, <2>4
<1> QED
  BY <1>1, <1>2 DEF Released

----------------------------------------------------------------------------
(* Types *)

LEMMA EmptyRowType == EmptyRow \in Rows
<1>1. SomeUser \in Users
  BY UsersAssumption DEF SomeUser
<1>2. {} \in {s \in SUBSET (Calls \X Costs) : IsFiniteSet(s)}
  BY FS_EmptySet
<1> QED
  BY <1>1, <1>2 DEF EmptyRow, Rows

LEMMA NewMemberType ==
  ASSUME NEW p \in Policy
  PROVE  NewMember(p) \in Members
BY DEF Policy, NewMember, Members

LEMMA UnbilledType == Unbilled \in Policy
BY DEF Unbilled, Policy

LEMMA InitType == Init => TypeOK
<1> SUFFICES ASSUME Init PROVE TypeOK
  OBVIOUS
<1>1. balance \in [Users -> Nat] /\ funded \in [Users -> Int]
  BY FundsAssumption DEF Init
<1>2. member \in [Users -> Members] /\ configured \in [Users -> Optional(Nat)]
  <2>1. PICK p \in [Users -> UNION {Policies[u] : u \in Users}] :
          /\ \A u \in Users : p[u] \in Policies[u]
          /\ member = [u \in Users |-> NewMember(p[u])]
          /\ configured = [u \in Users |-> p[u].limit]
    BY Zenon DEF Init
  <2>2. \A u \in Users : p[u] \in Policy
    BY <2>1, PoliciesAssumption
  <2>3. \A u \in Users : p[u].limit \in Optional(Nat)
    BY <2>2 DEF Policy
  <2> QED
    BY <2>1, <2>2, <2>3, NewMemberType
<1>3. hold \in [Holds -> Rows]
  BY EmptyRowType DEF Init
<1>4. month \in Nat /\ edit \in [Edits -> Optional(Policy)] /\ overwritten \subseteq Users
  BY DEF Init
<1> QED
  BY <1>1, <1>2, <1>3, <1>4 DEF TypeOK

\* The states of an account row, of a hold and of the month are typed one by
\* one, so that each action only has to type the values it computes.
LEMMA TypedUpdates ==
  ASSUME TypeOK
  PROVE  /\ \A u \in Users, n \in Nat : [balance EXCEPT ![u] = n] \in [Users -> Nat]
         /\ \A u \in Users, m \in Members : [member EXCEPT ![u] = m] \in [Users -> Members]
         /\ \A h \in Holds, r \in Rows : [hold EXCEPT ![h] = r] \in [Holds -> Rows]
BY DEF TypeOK

LEMMA ReserveType ==
  ASSUME TypeOK, NEW h \in Holds, NEW u \in Users, NEW p \in Purposes, NEW n \in Amounts,
         NEW b \in 0..month, NEW at \in 1..month, Reserve(h, u, p, n, b, at)
  PROVE  TypeOK'
<1> DEFINE sponsored == b # 0
           payer == IF sponsored THEN Sponsor ELSE PayerOf(u)
           team == ~sponsored /\ payer # u
           m == AfterRollover(member[u], at)
           delta == IF team THEN LimitDelta(m, n) ELSE 0
           count == IF team THEN RefillCount(m, n) ELSE 0
           row == [EmptyRow EXCEPT !.status = "active", !.purpose = p, !.user = u,
                     !.payer = payer, !.amount = n, !.month = at,
                     !.limitDelta = delta, !.countDelta = count,
                     !.sponsored = sponsored, !.budgetMonth = b]
<1>1. /\ n \in Nat /\ month \in Nat /\ b \in Nat /\ at \in Nat
      /\ p \in FixedPurposes \cup {"ai"} /\ member[u] \in Members
  BY AmountsAssumption, PurposesAssumption DEF TypeOK
<1>2. payer \in Users
  BY <1>1, UsersAssumption DEF PayerOf, Members
<1>3. m \in Members
  BY <1>1, RolloverType
<1>4. /\ team => LimitAllows(m, n)
      /\ balance[payer] >= n
      /\ balance' = [balance EXCEPT ![payer] = balance[payer] - n]
      /\ member' = IF team THEN [member EXCEPT ![u] = Charged(m, n)] ELSE member
      /\ hold' = [hold EXCEPT ![h] = row]
      /\ UNCHANGED <<month, edit, funded, configured, overwritten>>
  BY DEF Reserve, CanPay
<1>5. balance[payer] - n \in Nat
  BY <1>1, <1>2, <1>4 DEF TypeOK
<1>6. delta \in Nat /\ count \in Nat
  BY <1>1, <1>3, <1>4, RefillType
<1>7. row \in Rows
  <2> HIDE DEF payer, team, m, delta, count
  <2> QED BY <1>1, <1>2, <1>6, EmptyRowType DEF Rows
<1>8. team => Charged(m, n) \in Members
  BY <1>1, <1>3, <1>4, ChargedType
<1> HIDE DEF payer, team, m, delta, count, row
<1>9. /\ balance' \in [Users -> Nat]
      /\ member' \in [Users -> Members]
      /\ hold' \in [Holds -> Rows]
  <2>1. member \in [Users -> Members]
    BY DEF TypeOK
  <2> QED BY <1>2, <1>4, <1>5, <1>7, <1>8, <2>1, TypedUpdates
<1> QED
  BY <1>4, <1>9 DEF TypeOK

LEMMA ExtendType ==
  ASSUME TypeOK, NEW h \in Holds, NEW n \in Amounts, NEW at \in 1..month, Extend(h, n, at)
  PROVE  TypeOK'
<1> DEFINE r == hold[h]
           u == r.user
           team == ~r.sponsored /\ r.payer # u
           m == AfterRollover(member[u], at)
           delta == IF team THEN LimitDelta(m, n) ELSE 0
           count == IF team THEN RefillCount(m, n) ELSE 0
           row == [r EXCEPT !.amount = @ + n, !.limitDelta = @ + delta, !.countDelta = @ + count]
<1>1. n \in Nat /\ month \in Nat /\ at \in Nat /\ r \in Rows
  BY AmountsAssumption DEF TypeOK
<1>2. r.payer \in Users /\ u \in Users /\ r.amount \in Nat /\ r.limitDelta \in Nat
      /\ r.countDelta \in Nat
  BY <1>1 DEF Rows
<1>3. m \in Members
  BY <1>1, <1>2, RolloverType DEF TypeOK
<1>4. /\ team => LimitAllows(m, n)
      /\ balance[r.payer] >= n
      /\ balance' = [balance EXCEPT ![r.payer] = balance[r.payer] - n]
      /\ member' = IF team THEN [member EXCEPT ![u] = Charged(m, n)] ELSE member
      /\ UNCHANGED <<month, edit, funded, configured, overwritten>>
  BY DEF Extend, CanPay
<1>5. hold' = [hold EXCEPT ![h] = row]
  BY <1>1 DEF Extend, TypeOK, Rows
<1>6. balance[r.payer] - n \in Nat
  BY <1>1, <1>2, <1>4 DEF TypeOK
<1>7. delta \in Nat /\ count \in Nat
  BY <1>1, <1>3, <1>4, RefillType
<1>8. row \in Rows
  <2>1. /\ r.amount + n \in Nat
        /\ r.limitDelta + delta \in Nat
        /\ r.countDelta + count \in Nat
    BY <1>1, <1>2, <1>7
  <2> HIDE DEF delta, count, r
  <2> QED BY <1>1, <2>1 DEF Rows
<1>9. team => Charged(m, n) \in Members
  BY <1>1, <1>3, <1>4, ChargedType
<1> HIDE DEF u, team, m, delta, count, row
<1>10. /\ balance' \in [Users -> Nat]
       /\ member' \in [Users -> Members]
       /\ hold' \in [Holds -> Rows]
  <2>1. member \in [Users -> Members]
    BY DEF TypeOK
  <2> QED BY <1>2, <1>4, <1>5, <1>6, <1>8, <1>9, <2>1, TypedUpdates
<1> QED
  BY <1>4, <1>10 DEF TypeOK

\* An action that only writes one hold keeps the types if it writes a row.
LEMMA HoldWriteType ==
  ASSUME TypeOK, NEW h \in Holds, NEW r \in Rows, hold' = [hold EXCEPT ![h] = r],
         UNCHANGED <<balance, member, month, edit, funded, configured, overwritten>>
  PROVE  TypeOK'
BY DEF TypeOK

LEMMA AccumulateType ==
  ASSUME TypeOK, NEW h \in Holds, NEW c \in Calls, NEW x \in Costs, Accumulate(h, c, x)
  PROVE  TypeOK'
<1> DEFINE comps == hold[h].components \cup {<<c, x>>}
           row == [hold[h] EXCEPT !.components = comps]
<1>1. hold[h] \in Rows
  BY DEF TypeOK
<1>2. comps \in SUBSET (Calls \X Costs) /\ IsFiniteSet(comps)
  <2>1. hold[h].components \in SUBSET (Calls \X Costs) /\ IsFiniteSet(hold[h].components)
    BY <1>1 DEF Rows
  <2>2. IsFiniteSet(hold[h].components \cup {<<c, x>>})
    BY <2>1, FS_AddElement, Zenon
  <2> QED BY <2>1, <2>2
<1>3. row \in Rows
  <2> HIDE DEF comps
  <2> QED BY <1>1, <1>2 DEF Rows
<1>4. hold' = [hold EXCEPT ![h] = row]
  BY <1>1 DEF Accumulate, TypeOK, Rows
<1> HIDE DEF row
<1> QED
  BY <1>3, <1>4, HoldWriteType DEF Accumulate

\* Marking what a provider did, and a row's ageing, write one Boolean.
LEMMA MarkType ==
  ASSUME TypeOK, NEW h \in Holds,
         \/ MarkAiStarted(h) \/ ClaimProvider(h) \/ MarkSucceeded(h)
         \/ Expire(h) \/ ExpireStart(h)
  PROVE  TypeOK'
<1>1. hold[h] \in Rows
  BY DEF TypeOK
<1>2. /\ [hold[h] EXCEPT !.started = TRUE] \in Rows
      /\ [hold[h] EXCEPT !.succeeded = TRUE] \in Rows
      /\ [hold[h] EXCEPT !.old = TRUE] \in Rows
      /\ [hold[h] EXCEPT !.startOld = TRUE] \in Rows
  BY <1>1 DEF Rows
<1>3. CASE MarkAiStarted(h)
  <2>1. hold' = [hold EXCEPT ![h] = [hold[h] EXCEPT !.started = TRUE]]
    BY <1>3 DEF MarkAiStarted
  <2> QED BY <1>2, <1>3, <2>1, HoldWriteType DEF MarkAiStarted
<1>4. CASE ClaimProvider(h)
  <2>1. hold' = [hold EXCEPT ![h] = [hold[h] EXCEPT !.started = TRUE]]
    BY <1>4 DEF ClaimProvider
  <2> QED BY <1>2, <1>4, <2>1, HoldWriteType DEF ClaimProvider
<1>5. CASE MarkSucceeded(h)
  <2>1. hold' = [hold EXCEPT ![h] = [hold[h] EXCEPT !.succeeded = TRUE]]
    BY <1>5 DEF MarkSucceeded
  <2> QED BY <1>2, <1>5, <2>1, HoldWriteType DEF MarkSucceeded
<1>6. CASE Expire(h)
  <2>1. hold' = [hold EXCEPT ![h] = [hold[h] EXCEPT !.old = TRUE]]
    BY <1>6 DEF Expire
  <2> QED BY <1>2, <1>6, <2>1, HoldWriteType DEF Expire
<1>7. CASE ExpireStart(h)
  <2>1. hold' = [hold EXCEPT ![h] = [hold[h] EXCEPT !.startOld = TRUE]]
    BY <1>7 DEF ExpireStart
  <2> QED BY <1>2, <1>7, <2>1, HoldWriteType DEF ExpireStart
<1> QED
  BY <1>3, <1>4, <1>5, <1>6, <1>7

----------------------------------------------------------------------------
(* Closing a hold *)

LEMMA ClosedType ==
  ASSUME NEW r \in Rows, NEW n \in Nat, NEW m \in Nat
  PROVE  /\ Closed(r, "refunded") \in Rows
         /\ [Closed(r, "settled") EXCEPT !.settled = n, !.settledMonth = m] \in Rows
BY DEF Closed, Rows

\* A settlement writes a row, and credits what it did not charge.
LEMMA SettledHoldType ==
  ASSUME TypeOK, NEW h \in Holds, NEW n \in Nat, CloseSettled(h, n)
  PROVE  hold' \in [Holds -> Rows]
<1>1. hold[h] \in Rows /\ month \in Nat
  BY DEF TypeOK
<1>2. [Closed(hold[h], "settled") EXCEPT !.settled = n, !.settledMonth = month] \in Rows
  BY <1>1, ClosedType
<1> QED
  BY <1>2, TypedUpdates DEF CloseSettled

LEMMA RefundedType ==
  ASSUME TypeOK, NEW h \in Holds, CloseRefunded(h),
         UNCHANGED <<month, edit, funded, configured, overwritten>>
  PROVE  TypeOK'
<1> DEFINE r == hold[h]
<1>1. /\ r \in Rows /\ r.payer \in Users /\ r.user \in Users /\ r.amount \in Nat
      /\ balance[r.payer] \in Nat /\ member[r.user] \in Members
  BY DEF TypeOK, Rows
<1>2. /\ hold' = [hold EXCEPT ![h] = Closed(r, "refunded")]
      /\ balance' = [balance EXCEPT ![r.payer] = balance[r.payer] + r.amount]
      /\ member' = [member EXCEPT ![r.user] = Released(member[r.user], r, r.amount)]
  BY DEF CloseRefunded
<1>3. /\ Closed(r, "refunded") \in Rows
      /\ balance[r.payer] + r.amount \in Nat
      /\ Released(member[r.user], r, r.amount) \in Members
  <2>1. Closed(r, "refunded") \in Rows
    BY <1>1, ClosedType
  <2>2. balance[r.payer] + r.amount \in Nat
    BY <1>1
  <2>3. Released(member[r.user], r, r.amount) \in Members
    BY <1>1, ReleasedType
  <2> QED BY <2>1, <2>2, <2>3
<1> HIDE DEF r
<1>4. /\ hold' \in [Holds -> Rows]
      /\ balance' \in [Users -> Nat]
      /\ member' \in [Users -> Members]
  BY <1>1, <1>2, <1>3, TypedUpdates
<1> QED
  BY <1>4 DEF TypeOK

LEMMA SettleWholeType ==
  ASSUME TypeOK, NEW h \in Holds, SettleWhole(h),
         UNCHANGED <<month, edit, funded, configured, overwritten>>
  PROVE  TypeOK'
<1>1. hold[h].amount \in Nat
  BY DEF TypeOK, Rows
<1> QED
  BY <1>1, SettledHoldType DEF SettleWhole, TypeOK

LEMMA SettleFixedAmountType ==
  ASSUME TypeOK, NEW h \in Holds, NEW n \in Amounts, SettleFixedAmount(h, n)
  PROVE  TypeOK'
<1> DEFINE r == hold[h]
           credit == r.amount - n
<1>1. /\ r \in Rows /\ r.payer \in Users /\ r.user \in Users /\ r.amount \in Nat
      /\ n \in Nat /\ n <= r.amount
      /\ balance[r.payer] \in Nat /\ member[r.user] \in Members
  BY AmountsAssumption DEF TypeOK, Rows, SettleFixedAmount
<1>2. /\ CloseSettled(h, n)
      /\ balance' = [balance EXCEPT ![r.payer] = balance[r.payer] + credit]
      /\ member' \in {member, [member EXCEPT ![r.user] = Released(member[r.user], r, credit)]}
      /\ UNCHANGED <<month, edit, funded, configured, overwritten>>
  BY DEF SettleFixedAmount
<1>3. credit \in Nat /\ balance[r.payer] + credit \in Nat
  BY <1>1
<1>4. Released(member[r.user], r, credit) \in Members
  BY <1>1, <1>3, ReleasedType
<1>5. hold' \in [Holds -> Rows]
  BY <1>1, <1>2, SettledHoldType
<1> HIDE DEF r, credit
<1>6. /\ balance' \in [Users -> Nat]
      /\ member' \in [Users -> Members]
  <2>1. member \in [Users -> Members]
    BY DEF TypeOK
  <2> QED BY <1>1, <1>2, <1>3, <1>4, <2>1, TypedUpdates
<1> QED
  BY <1>2, <1>5, <1>6 DEF TypeOK

LEMMA SettleAiType ==
  ASSUME TypeOK, NEW h \in Holds, NEW n \in Nat, SettleAiFor(h, n),
         UNCHANGED <<month, edit, funded, configured, overwritten>>
  PROVE  TypeOK'
<1> DEFINE r == hold[h]
           u == r.user
           credited == balance[r.payer] + r.amount
           returned == Released(member[u], r, r.amount)
           m == AfterRollover(returned, month)
           team == ~r.sponsored /\ r.payer # u
           new == IF team THEN Charged(m, n) ELSE returned
<1>1. /\ r \in Rows /\ r.payer \in Users /\ u \in Users /\ r.amount \in Nat
      /\ balance[r.payer] \in Nat /\ member[u] \in Members /\ month \in Nat
  BY DEF TypeOK, Rows
<1>2. /\ team => LimitAllows(m, n)
      /\ n <= credited
      /\ CloseSettled(h, n)
      /\ balance' = [balance EXCEPT ![r.payer] = credited - n]
      /\ member' = [member EXCEPT ![u] = new]
  BY DEF SettleAiFor, CreditFrom
<1>3. credited - n \in Nat
  BY <1>1, <1>2
<1>4. returned \in Members
  BY <1>1, ReleasedType
<1>5. m \in Members
  BY <1>1, <1>4, RolloverType
<1>6. new \in Members
  <2> HIDE DEF m, returned
  <2> QED BY <1>2, <1>4, <1>5, ChargedType
<1>7. hold' \in [Holds -> Rows]
  BY <1>2, SettledHoldType
<1> HIDE DEF u, new, credited, team, m, returned
<1>8. /\ balance' \in [Users -> Nat]
      /\ member' \in [Users -> Members]
  BY <1>1, <1>2, <1>3, <1>6, TypedUpdates
<1> QED
  BY <1>7, <1>8 DEF TypeOK

\* Recorded usage is a natural number: finitely many calls were recorded.
LEMMA AccumulatedType ==
  ASSUME TypeOK, NEW h \in Holds
  PROVE  Accumulated(h) \in Nat
<1> DEFINE S == hold[h].components
           f == [x \in S |-> x[2]]
<1>1. S \in SUBSET (Calls \X Costs) /\ IsFiniteSet(S)
  BY DEF TypeOK, Rows
<1>2. \A x \in S : f[x] \in Nat
  BY <1>1, AmountsAssumption
<1> QED
  BY <1>1, <1>2, SumType DEF Accumulated

LEMMA ReconcileType ==
  ASSUME TypeOK, NEW h \in Holds, Reconcile(h)
  PROVE  TypeOK'
<1>1. CASE SettleAiFor(h, Accumulated(h))
  BY <1>1, AccumulatedType, SettleAiType DEF Reconcile
<1>2. CASE SettleWhole(h)
  BY <1>2, SettleWholeType DEF Reconcile
<1>3. CASE CloseRefunded(h)
  BY <1>3, RefundedType DEF Reconcile
<1> QED
  BY <1>1, <1>2, <1>3 DEF Reconcile

LEMMA OperationType ==
  ASSUME TypeOK, NEW h \in Holds, Operation(h)
  PROVE  TypeOK'
<1>1. ASSUME NEW u \in Users, NEW p \in Purposes, NEW n \in Amounts,
             NEW b \in 0..month, NEW at \in 1..month, Reserve(h, u, p, n, b, at)
      PROVE  TypeOK'
  BY <1>1, ReserveType
<1>2. ASSUME NEW n \in Amounts, NEW at \in 1..month, Extend(h, n, at) PROVE TypeOK'
  BY <1>2, ExtendType
<1>3. ASSUME NEW c \in Calls, NEW x \in Costs, Accumulate(h, c, x) PROVE TypeOK'
  BY <1>3, AccumulateType
<1>4. CASE \/ MarkAiStarted(h) \/ ClaimProvider(h) \/ MarkSucceeded(h)
           \/ Expire(h) \/ ExpireStart(h)
  BY <1>4, MarkType
<1>5. CASE SettleFixed(h)
  BY <1>5, SettleWholeType DEF SettleFixed
<1>6. ASSUME NEW n \in Amounts, SettleFixedAmount(h, n) PROVE TypeOK'
  BY <1>6, SettleFixedAmountType
<1>7. CASE Refund(h)
  BY <1>7, RefundedType DEF Refund
<1>8. ASSUME NEW n \in Costs, SettleAi(h, n) PROVE TypeOK'
  <2>1. n \in Nat
    BY AmountsAssumption
  <2> QED BY <1>8, <2>1, SettleAiType DEF SettleAi
<1>9. CASE SettleAccumulated(h)
  BY <1>9, AccumulatedType, SettleAiType DEF SettleAccumulated
<1>10. CASE Reconcile(h)
  BY <1>10, ReconcileType
<1> QED
  BY <1>1, <1>2, <1>3, <1>4, <1>5, <1>6, <1>7, <1>8, <1>9, <1>10 DEF Operation

\* Writing a policy writes a member row, and the limit that is configured by it.
LEMMA AssignType ==
  ASSUME TypeOK, NEW u \in Users, NEW p \in Policy, NEW k \in Optional(Nat), Assign(u, p, k)
  PROVE  member' \in [Users -> Members] /\ configured' \in [Users -> Optional(Nat)]
<1> DEFINE m == member[u]
           new == [m EXCEPT !.payer = p.payer, !.limit = p.limit, !.action = p.action,
                            !.refill = p.refill, !.max = p.max]
<1>1. m \in Members
  BY DEF TypeOK
<1>2. new \in Members
  <2> HIDE DEF m
  <2> QED BY <1>1 DEF Members, Policy
<1>3. member' = [member EXCEPT ![u] = new]
  BY <1>1 DEF Assign, Members, TypeOK
<1>4. configured' \in [Users -> Optional(Nat)]
  BY DEF Assign, TypeOK
<1> HIDE DEF new
<1> QED
  BY <1>2, <1>3, <1>4, TypedUpdates

\* The movements of a wallet keep the types.
LEMMA WalletType ==
  ASSUME TypeOK, NEW u \in Users, NEW n \in Deposits, TopUp(u, n) \/ Chargeback(u, n)
  PROVE  TypeOK'
<1>1. n \in Nat /\ balance[u] \in Nat /\ funded[u] \in Int
  BY AmountsAssumption DEF TypeOK
<1>2. CASE TopUp(u, n)
  BY <1>1, <1>2 DEF TopUp, TypeOK
<1>3. CASE Chargeback(u, n)
  <2> DEFINE taken == IF n <= balance[u] THEN n ELSE balance[u]
  <2>1. balance[u] - taken \in Nat /\ funded[u] - taken \in Int
    BY <1>1
  <2>2. /\ balance' = [balance EXCEPT ![u] = balance[u] - taken]
        /\ funded' = [funded EXCEPT ![u] = funded[u] - taken]
        /\ UNCHANGED <<member, hold, month, edit, configured, overwritten>>
    BY <1>3 DEF Chargeback
  <2> HIDE DEF taken
  <2> QED BY <2>1, <2>2 DEF TypeOK
<1> QED
  BY <1>2, <1>3

LEMMA UnbindType ==
  ASSUME TypeOK, NEW u \in Users, Unbind(u)
  PROVE  TypeOK'
<1>1. NewMember(Unbilled) \in Members
  BY NewMemberType, UnbilledType
<1>2. member' \in [Users -> Members]
  BY <1>1, TypedUpdates DEF Unbind
<1>3. configured' \in [Users -> Optional(Nat)]
  BY DEF Unbind, TypeOK
<1> QED
  BY <1>2, <1>3 DEF Unbind, TypeOK

\* What an edit reads is a policy.
LEMMA ConfigType ==
  ASSUME TypeOK, NEW u \in Users
  PROVE  Config(u) \in Policy
<1>1. member[u] \in Members
  BY DEF TypeOK
<1> QED
  BY <1>1 DEF Config, Policy, Members

LEMMA BindType ==
  ASSUME TypeOK, NEW u \in Users, NEW p \in Policies[u], Bind(u, p)
  PROVE  TypeOK'
<1> DEFINE limit == IF p.limit = NULL THEN member[u].limit ELSE p.limit
           max == IF p.max = NULL THEN member[u].max ELSE p.max
           q == [p EXCEPT !.limit = limit, !.max = max]
<1>1. p \in Policy
  BY PoliciesAssumption
<1>2. limit \in Optional(Nat) /\ max \in Optional(Nat)
  BY <1>1 DEF TypeOK, Members, Policy
<1>3. Assign(u, q, limit) /\ UNCHANGED <<balance, hold, month, edit, funded, overwritten>>
  BY <1>1 DEF Bind, Policy
<1> HIDE DEF limit, max
<1>4. q \in Policy
  BY <1>1, <1>2 DEF Policy
<1> HIDE DEF q
<1> QED
  BY <1>2, <1>3, <1>4, AssignType DEF TypeOK

\* An edit writes a policy it was given, or the one it read.
LEMMA EditType ==
  ASSUME TypeOK, NEW e \in Edits,
         \/ ReadForEdit(e) \/ WriteBack(e) \/ AbandonEdit(e)
         \/ \E p \in Policies[Edited[e]] : Configure(e, p)
  PROVE  TypeOK'
<1> DEFINE u == Edited[e]
<1>1. u \in Users /\ edit[e] \in Optional(Policy) /\ configured[u] \in Optional(Nat)
  BY EditsAssumption DEF TypeOK
<1> HIDE DEF u
<1>2. CASE ReadForEdit(e)
  BY <1>1, <1>2, ConfigType DEF ReadForEdit, TypeOK, u
<1>3. ASSUME NEW p \in Policies[u], Configure(e, p) PROVE TypeOK'
  <2>1. p \in Policy /\ p.limit \in Optional(Nat)
    BY <1>1, PoliciesAssumption DEF Policy
  <2>2. member' \in [Users -> Members] /\ configured' \in [Users -> Optional(Nat)]
    BY <1>1, <1>3, <2>1, AssignType DEF Configure, u
  <2>3. /\ edit' = [edit EXCEPT ![e] = NULL] /\ overwritten' = overwritten \ {u}
        /\ UNCHANGED <<balance, hold, month, funded>>
    BY <1>3 DEF Configure, u
  <2> QED BY <1>1, <2>2, <2>3 DEF TypeOK
<1>4. CASE WriteBack(e)
  <2> DEFINE k == IF edit[e] = Config(u) THEN configured[u] ELSE edit[e].limit
  <2>1. edit[e] \in Policy
    BY <1>1, <1>4 DEF WriteBack
  <2>2. k \in Optional(Nat)
    BY <1>1, <2>1 DEF Policy
  <2>3. Assign(u, edit[e], k)
    BY <1>4 DEF WriteBack, u
  <2> HIDE DEF k
  <2>4. member' \in [Users -> Members] /\ configured' \in [Users -> Optional(Nat)]
    BY <1>1, <2>1, <2>2, <2>3, AssignType
  <2>5. /\ edit' = [edit EXCEPT ![e] = NULL]
        /\ overwritten' \in {overwritten, overwritten \cup {u}, overwritten \ {u}}
        /\ UNCHANGED <<balance, hold, month, funded>>
    BY <1>4 DEF WriteBack, u
  <2> QED BY <1>1, <2>4, <2>5 DEF TypeOK
<1>5. CASE AbandonEdit(e)
  BY <1>5 DEF AbandonEdit, TypeOK
<1> QED
  BY <1>2, <1>3, <1>4, <1>5 DEF u

LEMMA EnvironmentType ==
  ASSUME TypeOK, Environment
  PROVE  TypeOK'
<1>1. CASE MonthTurns
  BY <1>1 DEF MonthTurns, TypeOK
<1>2. ASSUME NEW u \in Users, NEW n \in Deposits, TopUp(u, n) \/ Chargeback(u, n)
      PROVE  TypeOK'
  BY <1>2, WalletType
<1>3. ASSUME NEW u \in Users, Unbind(u) PROVE TypeOK'
  BY <1>3, UnbindType
<1>4. ASSUME NEW u \in Users, NEW p \in Policies[u], Bind(u, p) PROVE TypeOK'
  BY <1>4, BindType
<1>5. ASSUME NEW e \in Edits,
             \/ ReadForEdit(e) \/ WriteBack(e) \/ AbandonEdit(e)
             \/ \E p \in Policies[Edited[e]] : Configure(e, p)
      PROVE  TypeOK'
  BY <1>5, EditType
<1> QED
  BY <1>1, <1>2, <1>3, <1>4, <1>5 DEF Environment

\* In every reachable state the ledger's columns have their types: balances,
\* holds, spend, limits and refill counts are never negative, and an owner,
\* payer or limit is one that exists.
THEOREM TypeCorrect == Spec => []TypeOK
<1>1. Init => TypeOK
  BY InitType
<1>2. TypeOK /\ [Next]_vars => TypeOK'
  <2> SUFFICES ASSUME TypeOK, [Next]_vars PROVE TypeOK'
    OBVIOUS
  <2>1. ASSUME NEW h \in Holds, Operation(h) PROVE TypeOK'
    BY <2>1, OperationType
  <2>2. CASE Environment
    BY <2>2, EnvironmentType
  <2>3. CASE UNCHANGED vars
    BY <2>3 DEF vars, TypeOK
  <2> QED
    BY <2>1, <2>2, <2>3 DEF Next
<1> QED
  BY <1>1, <1>2, PTL DEF Spec

----------------------------------------------------------------------------
(* What a confirmed provider call, and an open team hold, rule out for every *)
(* other operation *)

\* What an operation on hold h may do to its row: keep it open for the same
\* user and payer, settle it, or refund it while nothing was confirmed.
KeptOpen(r, s) ==
  /\ r.status = "active" /\ s.status = "active"
  /\ s.user = r.user /\ s.payer = r.payer /\ s.sponsored = r.sponsored

Shut(r, s) == s.status = "settled" \/ (s.status = "refunded" /\ ~s.succeeded)

\* A row that is inserted takes the payer of its user, or is sponsored.
Opened(r, s) ==
  /\ s.status = "active"
  /\ s.sponsored \/ s.payer = PayerOf(s.user)

RowStep(h) ==
  \E s \in Rows : /\ hold' = [hold EXCEPT ![h] = s]
                  /\ KeptOpen(hold[h], s) \/ Shut(hold[h], s) \/ Opened(hold[h], s)

PayersKept == \A u \in Users : member'[u].payer = member[u].payer

----------------------------------------------------------------------------
(* What an operation does to payers *)

\* Charging and releasing an allowance never touch who pays.
LEMMA AllowanceKeepsPayer ==
  ASSUME NEW m \in Members, NEW r \in Rows, NEW n \in Nat, NEW at \in Nat
  PROVE  /\ AfterRollover(m, at).payer = m.payer
         /\ Charged(m, n).payer = m.payer
         /\ Released(m, r, n).payer = m.payer
<1>1. AfterRollover(m, at).payer = m.payer
  BY DEF AfterRollover, Members
<1>2. Charged(m, n).payer = m.payer
  BY DEF Charged, Members
<1>3. SpendReleased(m, r, n) \in Members /\ SpendReleased(m, r, n).payer = m.payer
  BY DEF SpendReleased, Monus, Members
<1>4. ASSUME NEW x \in Members PROVE RefillReleased(x, r).payer = x.payer
  BY DEF RefillReleased, Members
<1>5. Released(m, r, n).payer = m.payer
  BY <1>3, <1>4 DEF Released
<1> QED
  BY <1>1, <1>2, <1>5

LEMMA MemberWriteKeepsPayers ==
  ASSUME TypeOK, NEW u \in Users, NEW m, m.payer = member[u].payer,
         member' \in {member, [member EXCEPT ![u] = m]}
  PROVE  PayersKept
BY DEF TypeOK, PayersKept

----------------------------------------------------------------------------
(* One operation *)

LEMMA ReserveStep ==
  ASSUME TypeOK, NEW h \in Holds, NEW u \in Users, NEW p \in Purposes, NEW n \in Amounts,
         NEW b \in 0..month, NEW at \in 1..month, Reserve(h, u, p, n, b, at)
  PROVE  RowStep(h) /\ PayersKept
<1> DEFINE s == hold'[h]
           m == AfterRollover(member[u], at)
<1>1. TypeOK'
  BY ReserveType
<1>2. s \in Rows /\ hold' = [hold EXCEPT ![h] = s]
  BY <1>1 DEF TypeOK, Reserve
<1>3. s.status = "active" /\ s.user = u /\ s.sponsored = (b # 0)
      /\ s.payer = IF b # 0 THEN Sponsor ELSE PayerOf(u)
  BY DEF Reserve, TypeOK, EmptyRow
<1>4. RowStep(h)
  BY <1>2, <1>3 DEF RowStep, Opened
<1>5. n \in Nat /\ m \in Members /\ m.payer = member[u].payer
  <2>1. n \in Nat /\ member[u] \in Members /\ at \in Nat
    BY AmountsAssumption DEF TypeOK
  <2>2. m.payer = member[u].payer
    BY <2>1 DEF AfterRollover, Members
  <2> QED BY <2>1, <2>2, RolloverType
<1>6. Charged(m, n).payer = member[u].payer
  <2> HIDE DEF m
  <2> QED BY <1>5 DEF Charged, Members
<1>7. member' \in {member, [member EXCEPT ![u] = Charged(m, n)]}
  BY DEF Reserve
<1> HIDE DEF m
<1>8. PayersKept
  BY <1>6, <1>7, MemberWriteKeepsPayers
<1> QED
  BY <1>4, <1>8

LEMMA ExtendStep ==
  ASSUME TypeOK, NEW h \in Holds, NEW n \in Amounts, NEW at \in 1..month, Extend(h, n, at)
  PROVE  RowStep(h) /\ PayersKept
<1> DEFINE s == hold'[h]
           u == hold[h].user
           m == AfterRollover(member[u], at)
<1>1. TypeOK'
  BY ExtendType
<1>2. s \in Rows /\ hold[h] \in Rows /\ u \in Users
  BY <1>1 DEF TypeOK, Rows
<1>3. /\ hold' = [hold EXCEPT ![h] = s]
      /\ s.status = hold[h].status /\ s.user = u /\ s.payer = hold[h].payer
      /\ s.sponsored = hold[h].sponsored
  <2> DEFINE team == ~hold[h].sponsored /\ hold[h].payer # u
             delta == IF team THEN LimitDelta(m, n) ELSE 0
             count == IF team THEN RefillCount(m, n) ELSE 0
             row == [hold[h] EXCEPT !.amount = @ + n, !.limitDelta = @ + delta,
                                    !.countDelta = @ + count]
  <2>1. hold' = [hold EXCEPT ![h] = row]
    BY <1>2 DEF Extend, TypeOK, Rows
  <2> HIDE DEF delta, count
  <2>2. /\ row.status = hold[h].status /\ row.user = u /\ row.payer = hold[h].payer
        /\ row.sponsored = hold[h].sponsored
    BY <1>2 DEF Rows
  <2> HIDE DEF row
  <2>3. s = row
    BY <2>1 DEF TypeOK
  <2> QED BY <2>1, <2>2, <2>3
<1>4. hold[h].status = "active"
  BY DEF Extend, ActiveAi, Active
<1>5. RowStep(h)
  BY <1>2, <1>3, <1>4 DEF RowStep, KeptOpen
<1>6. n \in Nat /\ m \in Members /\ m.payer = member[u].payer
  <2>1. n \in Nat /\ member[u] \in Members /\ at \in Nat
    BY <1>2, AmountsAssumption DEF TypeOK
  <2>2. m.payer = member[u].payer
    BY <2>1 DEF AfterRollover, Members
  <2> QED BY <2>1, <2>2, RolloverType
<1>7. member' \in {member, [member EXCEPT ![u] = Charged(m, n)]}
  BY DEF Extend
<1> HIDE DEF m
<1>8. Charged(m, n).payer = member[u].payer
  BY <1>6 DEF Charged, Members
<1> HIDE DEF u
<1>9. PayersKept
  BY <1>2, <1>7, <1>8, MemberWriteKeepsPayers
<1> QED
  BY <1>5, <1>9

\* An action that marks an open row keeps it open.
LEMMA MarkStep ==
  ASSUME TypeOK, NEW h \in Holds,
         \/ MarkAiStarted(h) \/ ClaimProvider(h) \/ MarkSucceeded(h)
         \/ Expire(h) \/ ExpireStart(h)
         \/ \E c \in Calls, x \in Costs : Accumulate(h, c, x)
  PROVE  RowStep(h) /\ PayersKept
<1> DEFINE s == hold'[h]
<1>1. TypeOK'
  BY MarkType, AccumulateType
<1>2. s \in Rows /\ hold[h] \in Rows
  BY <1>1 DEF TypeOK
<1>3. PICK r : /\ hold' = [hold EXCEPT ![h] = r]
               /\ hold[h].status = "active" /\ r.status = "active"
               /\ r.user = hold[h].user /\ r.payer = hold[h].payer
               /\ r.sponsored = hold[h].sponsored
  <2> DEFINE Same(r) == /\ r.status = hold[h].status /\ r.user = hold[h].user
                        /\ r.payer = hold[h].payer /\ r.sponsored = hold[h].sponsored
  <2>1. /\ Same([hold[h] EXCEPT !.started = TRUE]) /\ Same([hold[h] EXCEPT !.succeeded = TRUE])
        /\ Same([hold[h] EXCEPT !.old = TRUE]) /\ Same([hold[h] EXCEPT !.startOld = TRUE])
        /\ \A x : Same([hold[h] EXCEPT !.components = x])
    BY <1>2 DEF Rows
  <2>2. hold[h].status = "active"
    BY DEF MarkAiStarted, ClaimProvider, MarkSucceeded, Expire, ExpireStart, Accumulate,
           ActiveAi, ActiveFixed, Active
  <2>3. PICK r : hold' = [hold EXCEPT ![h] = r] /\ Same(r)
    <3> HIDE DEF Same
    <3>1. CASE MarkAiStarted(h) \/ ClaimProvider(h)
      <4>1. hold' = [hold EXCEPT ![h] = [hold[h] EXCEPT !.started = TRUE]]
        BY <3>1 DEF MarkAiStarted, ClaimProvider
      <4> QED BY <2>1, <4>1
    <3>2. CASE MarkSucceeded(h)
      <4>1. hold' = [hold EXCEPT ![h] = [hold[h] EXCEPT !.succeeded = TRUE]]
        BY <3>2 DEF MarkSucceeded
      <4> QED BY <2>1, <4>1
    <3>3. CASE Expire(h)
      <4>1. hold' = [hold EXCEPT ![h] = [hold[h] EXCEPT !.old = TRUE]]
        BY <3>3 DEF Expire
      <4> QED BY <2>1, <4>1
    <3>4. CASE ExpireStart(h)
      <4>1. hold' = [hold EXCEPT ![h] = [hold[h] EXCEPT !.startOld = TRUE]]
        BY <3>4 DEF ExpireStart
      <4> QED BY <2>1, <4>1
    <3>5. ASSUME NEW c \in Calls, NEW x \in Costs, Accumulate(h, c, x)
          PROVE  \E r : hold' = [hold EXCEPT ![h] = r] /\ Same(r)
      <4> DEFINE comps == hold[h].components \cup {<<c, x>>}
      <4>1. hold' = [hold EXCEPT ![h] = [hold[h] EXCEPT !.components = comps]]
        BY <3>5 DEF Accumulate
      <4> HIDE DEF comps
      <4> QED BY <2>1, <4>1
    <3> QED
      BY <3>1, <3>2, <3>3, <3>4, <3>5
  <2> QED
    BY <2>2, <2>3
<1>4. RowStep(h)
  <2>1. s = r
    BY <1>3 DEF TypeOK
  <2> QED BY <1>2, <1>3, <2>1 DEF RowStep, KeptOpen
<1>5. PayersKept
  BY DEF MarkAiStarted, ClaimProvider, MarkSucceeded, Expire, ExpireStart, Accumulate, PayersKept
<1> QED
  BY <1>4, <1>5

LEMMA SettledStep ==
  ASSUME TypeOK, NEW h \in Holds, NEW n \in Nat, CloseSettled(h, n)
  PROVE  RowStep(h)
<1> DEFINE s == [Closed(hold[h], "settled") EXCEPT !.settled = n, !.settledMonth = month]
<1>1. hold[h] \in Rows /\ month \in Nat
  BY DEF TypeOK
<1>2. s \in Rows /\ s.status = "settled"
  <2>1. s \in Rows
    BY <1>1, ClosedType
  <2> QED BY <1>1, <2>1 DEF Closed, Rows
<1>3. hold' = [hold EXCEPT ![h] = s]
  BY DEF CloseSettled
<1> QED
  BY <1>2, <1>3 DEF RowStep, Shut

LEMMA SettleAiStep ==
  ASSUME TypeOK, NEW h \in Holds, NEW n \in Nat, SettleAiFor(h, n)
  PROVE  RowStep(h) /\ PayersKept
<1> DEFINE r == hold[h]
           u == r.user
           returned == Released(member[u], r, r.amount)
           m == AfterRollover(returned, month)
           new == IF ~r.sponsored /\ r.payer # u THEN Charged(m, n) ELSE returned
<1>1. r \in Rows /\ u \in Users /\ r.amount \in Nat /\ member[u] \in Members /\ month \in Nat
  BY DEF TypeOK, Rows
<1>2. returned \in Members /\ returned.payer = member[u].payer
  BY <1>1, ReleasedType, AllowanceKeepsPayer
<1>3. m \in Members /\ m.payer = member[u].payer
  <2> HIDE DEF returned
  <2> QED BY <1>1, <1>2, RolloverType, AllowanceKeepsPayer DEF AfterRollover, Members
<1>4. new.payer = member[u].payer
  <2> HIDE DEF m, returned
  <2>1. Charged(m, n).payer = m.payer
    BY <1>3 DEF Charged, Members
  <2> QED BY <1>2, <1>3, <2>1
<1>5. member' = [member EXCEPT ![u] = new] /\ CloseSettled(h, n)
  BY DEF SettleAiFor
<1> HIDE DEF new, u
<1>6. PayersKept
  BY <1>1, <1>4, <1>5, MemberWriteKeepsPayers
<1> QED
  BY <1>5, <1>6, SettledStep

LEMMA SettleWholeStep ==
  ASSUME TypeOK, NEW h \in Holds, SettleWhole(h)
  PROVE  RowStep(h) /\ PayersKept
<1>1. hold[h].amount \in Nat
  BY DEF TypeOK, Rows
<1> QED
  BY <1>1, SettledStep DEF SettleWhole, PayersKept

LEMMA SettleFixedAmountStep ==
  ASSUME TypeOK, NEW h \in Holds, NEW n \in Amounts, SettleFixedAmount(h, n)
  PROVE  RowStep(h) /\ PayersKept
<1> DEFINE r == hold[h]
           u == r.user
           new == Released(member[u], r, r.amount - n)
<1>1. /\ r \in Rows /\ u \in Users /\ member[u] \in Members
      /\ n \in Nat /\ r.amount \in Nat /\ n <= r.amount
  BY AmountsAssumption DEF TypeOK, Rows, SettleFixedAmount
<1>2. r.amount - n \in Nat
  BY <1>1
<1>3. new.payer = member[u].payer
  BY <1>1, <1>2, AllowanceKeepsPayer
<1>4. CloseSettled(h, n) /\ member' \in {member, [member EXCEPT ![u] = new]}
  BY DEF SettleFixedAmount
<1> HIDE DEF new, u
<1>5. PayersKept
  BY <1>1, <1>3, <1>4, MemberWriteKeepsPayers
<1> QED
  BY <1>1, <1>4, <1>5, SettledStep

LEMMA RefundedStep ==
  ASSUME TypeOK, NEW h \in Holds, CloseRefunded(h), ~hold[h].succeeded
  PROVE  RowStep(h) /\ PayersKept
<1> DEFINE r == hold[h]
           u == r.user
           new == Released(member[u], r, r.amount)
           s == Closed(r, "refunded")
<1>1. r \in Rows /\ u \in Users /\ r.amount \in Nat /\ member[u] \in Members
  BY DEF TypeOK, Rows
<1>2. new.payer = member[u].payer
  BY <1>1, AllowanceKeepsPayer
<1>3. s \in Rows /\ s.status = "refunded" /\ ~s.succeeded
  <2>1. s \in Rows
    BY <1>1, ClosedType
  <2> QED BY <1>1, <2>1 DEF Closed, Rows
<1>4. hold' = [hold EXCEPT ![h] = s] /\ member' = [member EXCEPT ![u] = new]
  BY DEF CloseRefunded
<1>5. RowStep(h)
  BY <1>3, <1>4 DEF RowStep, Shut
<1> HIDE DEF new, u, s
<1>6. PayersKept
  BY <1>1, <1>2, <1>4, MemberWriteKeepsPayers
<1> QED
  BY <1>5, <1>6

LEMMA OperationStep ==
  ASSUME TypeOK, NEW h \in Holds, Operation(h)
  PROVE  RowStep(h) /\ PayersKept
<1> DEFINE Goal == RowStep(h) /\ PayersKept
<1>1. ASSUME NEW u \in Users, NEW p \in Purposes, NEW n \in Amounts,
             NEW b \in 0..month, NEW at \in 1..month, Reserve(h, u, p, n, b, at)
      PROVE  Goal
  BY <1>1, ReserveStep
<1>2. ASSUME NEW n \in Amounts, NEW at \in 1..month, Extend(h, n, at) PROVE Goal
  BY <1>2, ExtendStep
<1>3. CASE \/ MarkAiStarted(h) \/ ClaimProvider(h) \/ MarkSucceeded(h)
           \/ Expire(h) \/ ExpireStart(h)
           \/ \E c \in Calls, x \in Costs : Accumulate(h, c, x)
  BY <1>3, MarkStep
<1>4. CASE SettleFixed(h)
  BY <1>4, SettleWholeStep DEF SettleFixed
<1>5. ASSUME NEW n \in Amounts, SettleFixedAmount(h, n) PROVE Goal
  BY <1>5, SettleFixedAmountStep
<1>6. CASE Refund(h)
  BY <1>6, RefundedStep DEF Refund, Refundable
<1>7. ASSUME NEW n \in Costs, SettleAi(h, n) PROVE Goal
  BY <1>7, SettleAiStep, AmountsAssumption DEF SettleAi
<1>8. CASE SettleAccumulated(h)
  BY <1>8, SettleAiStep, AccumulatedType DEF SettleAccumulated
<1>9. CASE Reconcile(h)
  <2>1. CASE SettleAiFor(h, Accumulated(h))
    BY <2>1, SettleAiStep, AccumulatedType
  <2>2. CASE SettleWhole(h)
    BY <2>2, SettleWholeStep
  <2>3. CASE CloseRefunded(h) /\ ~hold[h].succeeded
    BY <2>3, RefundedStep
  <2> QED BY <1>9, <2>1, <2>2, <2>3 DEF Reconcile
<1> QED
  BY <1>1, <1>2, <1>3, <1>4, <1>5, <1>6, <1>7, <1>8, <1>9 DEF Operation

LEMMA OperationKeepsPolicies ==
  ASSUME NEW h \in Holds, Operation(h)
  PROVE  UNCHANGED <<month, edit, configured, overwritten>>
<1>1. ASSUME NEW u \in Users, NEW p \in Purposes, NEW n \in Amounts,
             NEW b \in 0..month, NEW at \in 1..month, Reserve(h, u, p, n, b, at)
      PROVE  UNCHANGED <<month, edit, configured, overwritten>>
  BY <1>1 DEF Reserve
<1>2. ASSUME NEW n \in Amounts, NEW at \in 1..month, Extend(h, n, at)
      PROVE  UNCHANGED <<month, edit, configured, overwritten>>
  BY <1>2 DEF Extend
<1> QED
  BY <1>1, <1>2
     DEF Operation, Accumulate, MarkAiStarted, ClaimProvider, MarkSucceeded, Expire, ExpireStart,
         SettleFixed, SettleFixedAmount, Refund, SettleAi, SettleAccumulated, Reconcile

----------------------------------------------------------------------------
(* What the surroundings do to a member *)

\* Nothing but an operation touches a hold.
LEMMA EnvironmentKeepsHolds ==
  ASSUME Environment
  PROVE  hold' = hold
BY DEF Environment, MonthTurns, TopUp, Chargeback, Unbind, Bind, ReadForEdit, Configure,
       WriteBack, AbandonEdit

\* The row of u counts what it did, or nothing while u has no hold open.
CountKept(u) ==
  /\ member'[u].month = member[u].month
  /\ member'[u].spent = member[u].spent
  /\ member'[u].count = member[u].count

CountReset(u) ==
  /\ ~HasActiveHold(u)
  /\ member'[u].month = 0 /\ member'[u].spent = 0

\* The policy of u was written back as it is now.
PolicyKept(u) ==
  /\ member'[u].payer = IF member[u].payer = u THEN NULL ELSE member[u].payer
  /\ member'[u].limit = member[u].limit /\ configured'[u] = configured[u]
  /\ overwritten' = overwritten

\* A limit was configured for u: it has no hold open, nobody has paid for it,
\* or an edit wrote its policy over one that it has holds open under.
PolicySet(u) ==
  /\ member'[u].limit = configured'[u]
  /\ \/ ~HasActiveHold(u)
     \/ member[u].payer = NULL /\ overwritten' = overwritten
     \/ u \in overwritten'

\* Somebody changes the policy of u.
PolicyChange(u) ==
  /\ month' = month
  /\ \A w \in Users \ {u} : member'[w] = member[w] /\ configured'[w] = configured[w]
  /\ overwritten' \ {u} = overwritten \ {u}
  /\ CountKept(u) \/ CountReset(u)
  /\ PolicyKept(u) \/ PolicySet(u)

LEMMA AssignEffect ==
  ASSUME TypeOK, NEW u \in Users, NEW p, NEW k, Assign(u, p, k)
  PROVE  /\ \A w \in Users \ {u} : member'[w] = member[w] /\ configured'[w] = configured[w]
         /\ member'[u].payer = p.payer /\ member'[u].limit = p.limit
         /\ configured'[u] = k
         /\ CountKept(u)
<1>1. member[u] \in Members
  BY DEF TypeOK
<1>2. /\ \A w \in Users \ {u} : member'[w] = member[w] /\ configured'[w] = configured[w]
      /\ configured'[u] = k
  BY DEF Assign, TypeOK
<1> DEFINE m == member[u]
           new == [m EXCEPT !.payer = p.payer, !.limit = p.limit, !.action = p.action,
                            !.refill = p.refill, !.max = p.max]
<1>3. member'[u] = new
  BY <1>1 DEF Assign, Members, TypeOK
<1>4. /\ new.payer = p.payer /\ new.limit = p.limit
      /\ new.month = m.month /\ new.spent = m.spent /\ new.count = m.count
  BY <1>1 DEF Members
<1> HIDE DEF new
<1> QED
  BY <1>2, <1>3, <1>4 DEF CountKept

LEMMA UnbindChange ==
  ASSUME TypeOK, NEW u \in Users, Unbind(u)
  PROVE  PolicyChange(u)
<1>1. /\ month' = month /\ ~HasActiveHold(u) /\ overwritten' = overwritten \ {u}
      /\ \A w \in Users \ {u} : member'[w] = member[w] /\ configured'[w] = configured[w]
      /\ member'[u] = NewMember(Unbilled) /\ configured'[u] = NULL
  BY DEF Unbind, TypeOK
<1>2. CountReset(u) /\ PolicySet(u)
  BY <1>1 DEF CountReset, PolicySet, NewMember, Unbilled
<1> QED
  BY <1>1, <1>2 DEF PolicyChange

LEMMA BindChange ==
  ASSUME TypeOK, NEW u \in Users, NEW p \in Policies[u], Bind(u, p)
  PROVE  PolicyChange(u)
<1> DEFINE limit == IF p.limit = NULL THEN member[u].limit ELSE p.limit
           max == IF p.max = NULL THEN member[u].max ELSE p.max
           q == [p EXCEPT !.limit = limit, !.max = max]
<1>1. p \in Policy
  BY PoliciesAssumption
<1>2. /\ Assign(u, q, limit) /\ month' = month /\ overwritten' = overwritten
      /\ member[u].payer = NULL
  BY <1>1 DEF Bind, Policy
<1> HIDE DEF limit, max
<1>3. q.limit = limit
  BY <1>1 DEF Policy
<1> HIDE DEF q
<1> QED
  BY <1>2, <1>3, AssignEffect DEF PolicyChange, PolicySet

LEMMA ConfigureChange ==
  ASSUME TypeOK, NEW e \in Edits, NEW p, Configure(e, p)
  PROVE  PolicyChange(Edited[e])
<1> DEFINE u == Edited[e]
<1>1. u \in Users
  BY EditsAssumption
<1>2. /\ Assign(u, p, p.limit) /\ month' = month /\ ~HasActiveHold(u)
      /\ overwritten' = overwritten \ {u}
  BY DEF Configure
<1> HIDE DEF u
<1>3. PolicyChange(u)
  BY <1>1, <1>2, AssignEffect DEF PolicyChange, PolicySet
<1> QED
  BY <1>3 DEF u

LEMMA WriteBackChange ==
  ASSUME TypeOK, NEW e \in Edits, WriteBack(e)
  PROVE  PolicyChange(Edited[e])
<1> DEFINE u == Edited[e]
           read == edit[e]
           k == IF read = Config(u) THEN configured[u] ELSE read.limit
<1> SUFFICES PolicyChange(u)
  OBVIOUS
<1>1. u \in Users
  BY EditsAssumption
<1>2. /\ Assign(u, read, k) /\ month' = month
      /\ overwritten' = IF read = Config(u) THEN overwritten
                        ELSE IF HasActiveHold(u) THEN overwritten \cup {u}
                        ELSE overwritten \ {u}
  BY DEF WriteBack
<1> HIDE DEF u, read
<1>3. CASE read = Config(u)
  <2>1. /\ read.payer = IF member[u].payer = u THEN NULL ELSE member[u].payer
        /\ read.limit = member[u].limit
    BY <1>3 DEF Config
  <2>2. PolicyKept(u)
    BY <1>1, <1>2, <1>3, <2>1, AssignEffect DEF PolicyKept
  <2> QED BY <1>1, <1>2, <1>3, <2>2, AssignEffect DEF PolicyChange
<1>4. CASE read # Config(u)
  <2>1. PolicySet(u)
    BY <1>1, <1>2, <1>4, AssignEffect DEF PolicySet
  <2> QED BY <1>1, <1>2, <1>4, <2>1, AssignEffect DEF PolicyChange
<1> QED
  BY <1>3, <1>4

\* The month turns, somebody changes a policy, or no member is concerned.
LEMMA EnvironmentStep ==
  ASSUME TypeOK, Environment
  PROVE  /\ hold' = hold
         /\ \/ month' = month + 1 /\ UNCHANGED <<member, configured, overwritten>>
            \/ \E u \in Users : PolicyChange(u)
            \/ UNCHANGED <<month, member, configured, overwritten>>
<1> DEFINE Goal == \/ month' = month + 1 /\ UNCHANGED <<member, configured, overwritten>>
                   \/ \E u \in Users : PolicyChange(u)
                   \/ UNCHANGED <<month, member, configured, overwritten>>
<1>1. CASE MonthTurns
  BY <1>1 DEF MonthTurns
<1>2. ASSUME NEW u \in Users, NEW n \in Deposits, TopUp(u, n) \/ Chargeback(u, n)
      PROVE  Goal
  BY <1>2 DEF TopUp, Chargeback
<1>3. ASSUME NEW u \in Users, Unbind(u) PROVE Goal
  BY <1>3, UnbindChange
<1>4. ASSUME NEW u \in Users, NEW p \in Policies[u], Bind(u, p) PROVE Goal
  BY <1>4, BindChange
<1>5. ASSUME NEW e \in Edits, ReadForEdit(e) \/ AbandonEdit(e) PROVE Goal
  BY <1>5 DEF ReadForEdit, AbandonEdit
<1>6. ASSUME NEW e \in Edits,
             WriteBack(e) \/ \E p \in Policies[Edited[e]] : Configure(e, p)
      PROVE  Goal
  BY <1>6, EditsAssumption, WriteBackChange, ConfigureChange
<1>7. Goal
  BY <1>1, <1>2, <1>3, <1>4, <1>5, <1>6 DEF Environment
<1> QED
  BY <1>7, EnvironmentKeepsHolds

----------------------------------------------------------------------------
(* The theorems *)

\* No caller and no reconciliation gives back the money of work that a
\* fixed-cost provider confirmed: a refund finds the row unconfirmed, and a
\* confirmation finds it open.
THEOREM ConfirmedWorkStaysCharged == Spec => []ConfirmedWorkIsCharged
<1>1. Init => ConfirmedWorkIsCharged
  BY DEF Init, ConfirmedWorkIsCharged, EmptyRow
<1>2. TypeOK /\ ConfirmedWorkIsCharged /\ [Next]_vars => ConfirmedWorkIsCharged'
  <2> SUFFICES ASSUME TypeOK, ConfirmedWorkIsCharged, [Next]_vars
               PROVE  ConfirmedWorkIsCharged'
    OBVIOUS
  <2>1. ASSUME NEW h \in Holds, Operation(h) PROVE ConfirmedWorkIsCharged'
    <3>1. PICK s \in Rows : /\ hold' = [hold EXCEPT ![h] = s]
                            /\ s.status = "refunded" => ~s.succeeded
      BY <2>1, OperationStep DEF RowStep, KeptOpen, Shut, Opened
    <3> QED BY <3>1 DEF ConfirmedWorkIsCharged, TypeOK
  <2>2. CASE Environment
    BY <2>2, EnvironmentKeepsHolds DEF ConfirmedWorkIsCharged
  <2>3. CASE UNCHANGED vars
    BY <2>3 DEF vars, ConfirmedWorkIsCharged
  <2> QED
    BY <2>1, <2>2, <2>3 DEF Next
<1> QED
  BY <1>1, <1>2, TypeCorrect, PTL DEF Spec

LEMMA OperationKeepsPayerFrozen ==
  ASSUME TypeOK, PayerFrozen, NEW h \in Holds, Operation(h)
  PROVE  PayerFrozen'
<1>1. PICK s \in Rows :
        /\ hold' = [hold EXCEPT ![h] = s]
        /\ KeptOpen(hold[h], s) \/ Shut(hold[h], s) \/ Opened(hold[h], s)
  BY OperationStep DEF RowStep
<1>2. PayersKept /\ overwritten' = overwritten
  BY OperationStep, OperationKeepsPolicies
<1> SUFFICES ASSUME NEW k \in Holds, hold'[k].status = "active",
                    hold'[k].payer # hold'[k].user, ~hold'[k].sponsored,
                    hold'[k].user \notin overwritten'
             PROVE  member'[hold'[k].user].payer = hold'[k].payer
  BY DEF PayerFrozen, Active, TeamHold
<1>3. hold[k] \in Rows /\ hold[k].user \in Users
  BY DEF TypeOK, Rows
<1>4. CASE k # h
  <2>1. hold'[k] = hold[k]
    BY <1>1, <1>4 DEF TypeOK
  <2> QED BY <1>2, <1>3, <2>1 DEF PayerFrozen, Active, TeamHold, PayersKept
<1>5. CASE k = h
  <2>1. hold'[k] = s
    BY <1>1, <1>5 DEF TypeOK
  <2>2. s.user \in Users
    BY DEF Rows
  <2>3. CASE KeptOpen(hold[h], s)
    BY <1>2, <1>3, <1>5, <2>1, <2>3 DEF KeptOpen, PayerFrozen, Active, TeamHold, PayersKept
  <2>4. CASE Opened(hold[h], s)
    BY <1>2, <2>1, <2>2, <2>4 DEF Opened, PayerOf, PayersKept
  <2> QED
    BY <1>1, <2>1, <2>3, <2>4 DEF Shut
<1> QED
  BY <1>4, <1>5

\* A change of policy waits for the member's open holds; a user who is bound
\* while holding pays for his holds himself; and an edit that does not wait
\* writes the payer there is, or leaves the user among the overwritten.
LEMMA EnvironmentKeepsPayerFrozen ==
  ASSUME TypeOK, PayerFrozen, Environment
  PROVE  PayerFrozen'
<1> SUFFICES ASSUME NEW k \in Holds, hold'[k].status = "active",
                    hold'[k].payer # hold'[k].user, ~hold'[k].sponsored,
                    hold'[k].user \notin overwritten'
             PROVE  member'[hold'[k].user].payer = hold'[k].payer
  BY DEF PayerFrozen, Active, TeamHold
<1> DEFINE v == hold[k].user
<1>1. hold' = hold
  BY EnvironmentKeepsHolds
<1>2. v \in Users /\ hold[k].payer \in Users /\ HasActiveHold(v)
  BY <1>1 DEF TypeOK, Rows, HasActiveHold, Active
<1>3. v \notin overwritten => member[v].payer = hold[k].payer
  BY <1>1, <1>2 DEF PayerFrozen, Active, TeamHold
<1>4. hold[k].payer # v /\ v \notin overwritten'
  BY <1>1
<1> HIDE DEF v
<1>5. ASSUME NEW u \in Users, PolicyChange(u) PROVE member'[v].payer = hold[k].payer
  <2>1. CASE u # v
    BY <1>2, <1>3, <1>4, <1>5, <2>1 DEF PolicyChange
  <2>2. CASE u = v /\ PolicyKept(v)
    BY <1>2, <1>3, <1>4, <2>2, NullAssumption DEF PolicyKept
  <2>3. CASE u = v /\ PolicySet(v)
    BY <1>2, <1>3, <1>4, <2>3, NullAssumption DEF PolicySet
  <2> QED
    BY <1>5, <2>1, <2>2, <2>3 DEF PolicyChange
<1>6. ASSUME UNCHANGED <<member, overwritten>> PROVE member'[v].payer = hold[k].payer
  BY <1>3, <1>4, <1>6
<1> QED
  BY <1>1, <1>5, <1>6, EnvironmentStep DEF v

\* Whoever pays for a team member keeps paying while one of the member's
\* team holds is open, unless an edit wrote back a policy it had read before
\* (which app.py does without looking for holds): settlement and refund reach
\* the account the hold was taken from, and the member's row still names it.
THEOREM PayerStaysFrozen == Spec => []PayerFrozen
<1>1. Init => PayerFrozen
  BY DEF Init, PayerFrozen, EmptyRow, Active
<1>2. TypeOK /\ PayerFrozen /\ [Next]_vars => PayerFrozen'
  <2> SUFFICES ASSUME TypeOK, PayerFrozen, [Next]_vars PROVE PayerFrozen'
    OBVIOUS
  <2>1. ASSUME NEW h \in Holds, Operation(h) PROVE PayerFrozen'
    BY <2>1, OperationKeepsPayerFrozen
  <2>2. CASE Environment
    BY <2>2, EnvironmentKeepsPayerFrozen
  <2>3. CASE UNCHANGED vars
    BY <2>3 DEF vars, PayerFrozen, Active, TeamHold
  <2> QED
    BY <2>1, <2>2, <2>3 DEF Next
<1> QED
  BY <1>1, <1>2, TypeCorrect, PTL DEF Spec

----------------------------------------------------------------------------
(* The ledger implements the escrow *)

\* What the escrow sees of a row, and of the table.
Book(r) == [status |-> r.status, payer |-> r.payer, amount |-> r.amount, captured |-> r.settled]

Books == [h \in Holds |-> Book(hold[h])]

\* Writing one row writes one escrow.
LEMMA BookWrite ==
  ASSUME TypeOK, NEW h \in Holds, NEW r, hold' = [hold EXCEPT ![h] = r]
  PROVE  Books' = [Books EXCEPT ![h] = Book(r)]
<1>1. \A k \in Holds : hold'[k] = IF k = h THEN r ELSE hold[k]
  BY DEF TypeOK
<1>2. \A k \in Holds : Books'[k] = [Books EXCEPT ![h] = Book(r)][k]
  BY <1>1 DEF Books
<1> QED
  BY <1>2 DEF Books

\* A row whose money is unchanged is the same escrow.
LEMMA BookKeep ==
  ASSUME TypeOK, NEW h \in Holds, NEW r, hold' = [hold EXCEPT ![h] = r],
         r.status = hold[h].status, r.payer = hold[h].payer,
         r.amount = hold[h].amount, r.settled = hold[h].settled
  PROVE  Books' = Books
<1>1. Book(r) = Books[h]
  BY DEF Book, Books
<1> QED
  BY <1>1, BookWrite DEF Books

LEMMA ReserveOpens ==
  ASSUME TypeOK, NEW h \in Holds, NEW u \in Users, NEW p \in Purposes, NEW n \in Amounts,
         NEW b \in 0..month, NEW at \in 1..month, Reserve(h, u, p, n, b, at)
  PROVE  Ledger!Next
<1> DEFINE sponsored == b # 0
           payer == IF sponsored THEN Sponsor ELSE PayerOf(u)
           team == ~sponsored /\ payer # u
           m == AfterRollover(member[u], at)
           delta == IF team THEN LimitDelta(m, n) ELSE 0
           count == IF team THEN RefillCount(m, n) ELSE 0
           row == [EmptyRow EXCEPT !.status = "active", !.purpose = p, !.user = u,
                     !.payer = payer, !.amount = n, !.month = at,
                     !.limitDelta = delta, !.countDelta = count,
                     !.sponsored = sponsored, !.budgetMonth = b]
           opened == [status |-> "active", payer |-> payer, amount |-> n, captured |-> 0]
<1>1. n \in Nat /\ member[u] \in Members
  BY AmountsAssumption DEF TypeOK
<1>2. payer \in Users
  BY <1>1, UsersAssumption DEF PayerOf, Members
<1>3. /\ hold[h].status = "none"
      /\ balance[payer] >= n
      /\ balance' = [balance EXCEPT ![payer] = balance[payer] - n]
      /\ hold' = [hold EXCEPT ![h] = row]
      /\ funded' = funded
  BY DEF Reserve, CanPay
<1>4. Book(row) = opened
  <2> HIDE DEF payer, team, m, delta, count
  <2> QED BY DEF Book, EmptyRow
<1>5. Books' = [Books EXCEPT ![h] = opened]
  <2> HIDE DEF row, opened
  <2> QED BY <1>3, <1>4, BookWrite
<1>6. Books[h].status = "none"
  BY <1>3 DEF Books, Book
<1>7. n \in 0..balance[payer]
  BY <1>1, <1>2, <1>3 DEF TypeOK
<1> HIDE DEF payer, row
<1>8. Ledger!Open(h, payer)
  BY <1>3, <1>5, <1>6, <1>7 DEF Ledger!Open, Books, Book
<1> QED
  BY <1>2, <1>8 DEF Ledger!Open, Ledger!Next

LEMMA ExtendGrows ==
  ASSUME TypeOK, NEW h \in Holds, NEW n \in Amounts, NEW at \in 1..month, Extend(h, n, at)
  PROVE  Ledger!Grow(h)
<1> DEFINE r == hold[h]
           team == ~r.sponsored /\ r.payer # r.user
           m == AfterRollover(member[r.user], at)
           delta == IF team THEN LimitDelta(m, n) ELSE 0
           count == IF team THEN RefillCount(m, n) ELSE 0
           row == [r EXCEPT !.amount = @ + n, !.limitDelta = @ + delta, !.countDelta = @ + count]
<1>1. n \in Nat /\ r \in Rows /\ r.payer \in Users
  BY AmountsAssumption DEF TypeOK, Rows
<1>2. /\ r.status = "active"
      /\ balance[r.payer] >= n
      /\ balance' = [balance EXCEPT ![r.payer] = balance[r.payer] - n]
      /\ funded' = funded
  BY DEF Extend, CanPay, ActiveAi, Active
<1>3. hold' = [hold EXCEPT ![h] = row]
  BY <1>1 DEF Extend, TypeOK, Rows
<1>4. Book(row) = [Books[h] EXCEPT !.amount = Books[h].amount + n]
  <2> HIDE DEF delta, count
  <2> QED BY <1>1 DEF Book, Books, Rows
<1>5. Books' = [Books EXCEPT ![h].amount = @ + n]
  <2> HIDE DEF row
  <2> QED BY <1>3, <1>4, BookWrite
<1>6. n \in 0..balance[r.payer]
  BY <1>1, <1>2 DEF TypeOK
<1>7. Books[h].status = "active" /\ Books[h].payer = r.payer
  BY <1>2 DEF Books, Book
<1> HIDE DEF row
<1> QED
  BY <1>2, <1>5, <1>6, <1>7 DEF Ledger!Grow, Books, Book

\* Settling a hold for n of its amount captures n and returns the rest.
LEMMA SettleCaptures ==
  ASSUME TypeOK, NEW h \in Holds, Active(h), NEW n \in Nat, n <= hold[h].amount,
         CloseSettled(h, n),
         balance' = [balance EXCEPT ![hold[h].payer] =
                       balance[hold[h].payer] + hold[h].amount - n],
         funded' = funded
  PROVE  Ledger!Capture(h)
<1> DEFINE r == hold[h]
           row == [Closed(r, "settled") EXCEPT !.settled = n, !.settledMonth = month]
<1>1. r \in Rows /\ r.amount \in Nat
  BY DEF TypeOK, Rows
<1>2. hold' = [hold EXCEPT ![h] = row]
  BY DEF CloseSettled
<1>3. Book(row) = [status |-> "settled", payer |-> r.payer, amount |-> r.amount, captured |-> n]
  <2>1. /\ row.status = "settled" /\ row.settled = n
        /\ row.payer = r.payer /\ row.amount = r.amount
    <3> HIDE DEF r
    <3> QED BY <1>1 DEF Closed, Rows
  <2> HIDE DEF row, r
  <2> QED BY <2>1 DEF Book
<1>4. Books' = [Books EXCEPT ![h] = [status |-> "settled", payer |-> r.payer,
                                      amount |-> r.amount, captured |-> n]]
  <2> HIDE DEF row
  <2> QED BY <1>2, <1>3, BookWrite
<1>5. /\ Books[h].status = "active"
      /\ Books[h].payer = r.payer
      /\ Books[h].amount = r.amount
  BY DEF Books, Book, Active
<1>6. n \in 0..r.amount
  BY <1>1
<1> HIDE DEF row
<1> QED
  BY <1>4, <1>5, <1>6 DEF Ledger!Capture, Books, Book

LEMMA RefundReturns ==
  ASSUME TypeOK, NEW h \in Holds, Active(h), CloseRefunded(h), funded' = funded
  PROVE  Ledger!Return(h)
<1> DEFINE r == hold[h]
<1>1. r \in Rows
  BY DEF TypeOK
<1>2. hold' = [hold EXCEPT ![h] = Closed(r, "refunded")]
  BY DEF CloseRefunded
<1>3. Book(Closed(r, "refunded")) = [Books[h] EXCEPT !.status = "refunded"]
  BY <1>1 DEF Book, Books, Closed, Rows
<1>4. Books' = [Books EXCEPT ![h].status = "refunded"]
  BY <1>2, <1>3, BookWrite
<1>5. Books[h].status = "active" /\ Books[h].payer = r.payer /\ Books[h].amount = r.amount
  BY DEF Books, Book, Active
<1> QED
  BY <1>4, <1>5 DEF Ledger!Return, CloseRefunded, Books, Book

LEMMA SettleWholeCaptures ==
  ASSUME TypeOK, NEW h \in Holds, Active(h), SettleWhole(h), funded' = funded
  PROVE  Ledger!Capture(h)
<1> DEFINE r == hold[h]
<1>1. r.amount \in Nat /\ r.payer \in Users /\ balance[r.payer] \in Nat
  BY DEF TypeOK, Rows
<1>2. CloseSettled(h, r.amount) /\ balance' = balance
  BY DEF SettleWhole
<1>3. balance' = [balance EXCEPT ![r.payer] = balance[r.payer] + r.amount - r.amount]
  <2>1. balance[r.payer] + r.amount - r.amount = balance[r.payer]
    <3> HIDE DEF r
    <3> QED BY <1>1
  <2> QED BY <1>2, <2>1 DEF TypeOK
<1>4. r.amount <= r.amount
  BY <1>1
<1> QED
  BY <1>1, <1>2, <1>3, <1>4, SettleCaptures, Zenon

LEMMA SettleAmountCaptures ==
  ASSUME TypeOK, NEW h \in Holds, NEW n \in Amounts, SettleFixedAmount(h, n)
  PROVE  Ledger!Capture(h)
<1> DEFINE r == hold[h]
<1>1. /\ r.amount \in Nat /\ r.payer \in Users /\ balance[r.payer] \in Nat
      /\ n \in Nat /\ n <= r.amount
  BY AmountsAssumption DEF TypeOK, Rows, SettleFixedAmount
<1>2. /\ Active(h) /\ CloseSettled(h, n) /\ funded' = funded
      /\ balance' = [balance EXCEPT ![r.payer] = balance[r.payer] + (r.amount - n)]
  BY DEF SettleFixedAmount, ActiveFixed
<1>3. balance[r.payer] + (r.amount - n) = balance[r.payer] + r.amount - n
  <2> HIDE DEF r
  <2> QED BY <1>1
<1> QED
  BY <1>1, <1>2, <1>3, SettleCaptures

LEMMA SettleAiCaptures ==
  ASSUME TypeOK, NEW h \in Holds, NEW n \in Nat, SettleAiFor(h, n), funded' = funded
  PROVE  Ledger!Capture(h)
<1>1. Active(h) /\ CloseSettled(h, n) /\ n <= hold[h].amount
  BY DEF SettleAiFor, ActiveAi
<1>2. balance' = [balance EXCEPT ![hold[h].payer] =
                    balance[hold[h].payer] + hold[h].amount - n]
  <2>1. balance' = [balance EXCEPT ![hold[h].payer] = CreditFrom(hold[h]) - n]
    BY DEF SettleAiFor
  <2>2. CreditFrom(hold[h]) = balance[hold[h].payer] + hold[h].amount
    BY DEF CreditFrom
  <2>3. balance[hold[h].payer] \in Nat /\ hold[h].amount \in Nat
    BY DEF TypeOK, Rows
  <2>4. CreditFrom(hold[h]) - n = balance[hold[h].payer] + hold[h].amount - n
    BY <2>2, <2>3
  <2> QED BY <2>1, <2>4, Zenon
<1> QED
  BY <1>1, <1>2, SettleCaptures

\* Recording what a provider did, and the passing of time, move no money.
LEMMA MarkKeepsBooks ==
  ASSUME TypeOK, NEW h \in Holds,
         \/ \E c \in Calls, x \in Costs : Accumulate(h, c, x)
         \/ MarkAiStarted(h) \/ ClaimProvider(h) \/ MarkSucceeded(h)
         \/ Expire(h) \/ ExpireStart(h)
  PROVE  UNCHANGED <<balance, funded, Books>>
<1>1. hold[h] \in Rows
  BY DEF TypeOK
<1>2. ASSUME NEW c \in Calls, NEW x \in Costs, Accumulate(h, c, x)
      PROVE  UNCHANGED <<balance, funded, Books>>
  <2> DEFINE row == [hold[h] EXCEPT !.components = @ \cup {<<c, x>>}]
  <2>1. hold' = [hold EXCEPT ![h] = row]
    BY <1>2 DEF Accumulate
  <2>2. /\ row.status = hold[h].status /\ row.payer = hold[h].payer
        /\ row.amount = hold[h].amount /\ row.settled = hold[h].settled
    BY <1>1 DEF Rows
  <2> HIDE DEF row
  <2> QED BY <1>2, <2>1, <2>2, BookKeep DEF Accumulate
<1>3. CASE MarkAiStarted(h) \/ ClaimProvider(h)
  <2> DEFINE row == [hold[h] EXCEPT !.started = TRUE]
  <2>1. hold' = [hold EXCEPT ![h] = row]
    BY <1>3 DEF MarkAiStarted, ClaimProvider
  <2>2. /\ row.status = hold[h].status /\ row.payer = hold[h].payer
        /\ row.amount = hold[h].amount /\ row.settled = hold[h].settled
    BY <1>1 DEF Rows
  <2> HIDE DEF row
  <2> QED BY <1>3, <2>1, <2>2, BookKeep DEF MarkAiStarted, ClaimProvider
<1>4. CASE MarkSucceeded(h)
  <2> DEFINE row == [hold[h] EXCEPT !.succeeded = TRUE]
  <2>1. hold' = [hold EXCEPT ![h] = row]
    BY <1>4 DEF MarkSucceeded
  <2>2. /\ row.status = hold[h].status /\ row.payer = hold[h].payer
        /\ row.amount = hold[h].amount /\ row.settled = hold[h].settled
    BY <1>1 DEF Rows
  <2> HIDE DEF row
  <2> QED BY <1>4, <2>1, <2>2, BookKeep DEF MarkSucceeded
<1>5. CASE Expire(h)
  <2> DEFINE row == [hold[h] EXCEPT !.old = TRUE]
  <2>1. hold' = [hold EXCEPT ![h] = row]
    BY <1>5 DEF Expire
  <2>2. /\ row.status = hold[h].status /\ row.payer = hold[h].payer
        /\ row.amount = hold[h].amount /\ row.settled = hold[h].settled
    BY <1>1 DEF Rows
  <2> HIDE DEF row
  <2> QED BY <1>5, <2>1, <2>2, BookKeep DEF Expire
<1>6. CASE ExpireStart(h)
  <2> DEFINE row == [hold[h] EXCEPT !.startOld = TRUE]
  <2>1. hold' = [hold EXCEPT ![h] = row]
    BY <1>6 DEF ExpireStart
  <2>2. /\ row.status = hold[h].status /\ row.payer = hold[h].payer
        /\ row.amount = hold[h].amount /\ row.settled = hold[h].settled
    BY <1>1 DEF Rows
  <2> HIDE DEF row
  <2> QED BY <1>6, <2>1, <2>2, BookKeep DEF ExpireStart
<1> QED
  BY <1>2, <1>3, <1>4, <1>5, <1>6

LEMMA ReconcileCloses ==
  ASSUME TypeOK, NEW h \in Holds, Reconcile(h)
  PROVE  Ledger!Capture(h) \/ Ledger!Return(h)
<1>1. Active(h) /\ funded' = funded
  BY DEF Reconcile, Stale, Active
<1>2. CASE SettleAiFor(h, Accumulated(h))
  BY <1>1, <1>2, AccumulatedType, SettleAiCaptures
<1>3. CASE SettleWhole(h)
  BY <1>1, <1>3, SettleWholeCaptures
<1>4. CASE CloseRefunded(h)
  BY <1>1, <1>4, RefundReturns
<1> QED
  BY <1>2, <1>3, <1>4 DEF Reconcile

LEMMA OperationRefines ==
  ASSUME TypeOK, NEW h \in Holds, Operation(h)
  PROVE  Ledger!Next \/ UNCHANGED <<balance, funded, Books>>
<1>1. ASSUME NEW u \in Users, NEW p \in Purposes, NEW n \in Amounts,
             NEW b \in 0..month, NEW at \in 1..month, Reserve(h, u, p, n, b, at)
      PROVE  Ledger!Next
  BY <1>1, ReserveOpens
<1>2. ASSUME Ledger!Grow(h) \/ Ledger!Capture(h) \/ Ledger!Return(h) PROVE Ledger!Next
  BY <1>2 DEF Ledger!Next, Ledger!Grow, Ledger!Capture, Ledger!Return
<1>3. ASSUME NEW n \in Amounts, NEW at \in 1..month, Extend(h, n, at) PROVE Ledger!Next
  BY <1>2, <1>3, ExtendGrows
<1>4. ASSUME NEW c \in Calls, NEW x \in Costs, Accumulate(h, c, x)
      PROVE  UNCHANGED <<balance, funded, Books>>
  BY <1>4, MarkKeepsBooks
<1>5. CASE \/ MarkAiStarted(h) \/ ClaimProvider(h) \/ MarkSucceeded(h)
           \/ Expire(h) \/ ExpireStart(h)
  BY <1>5, MarkKeepsBooks
<1>6. CASE SettleFixed(h)
  BY <1>2, <1>6, SettleWholeCaptures DEF SettleFixed, ActiveFixed
<1>7. ASSUME NEW n \in Amounts, SettleFixedAmount(h, n) PROVE Ledger!Next
  BY <1>2, <1>7, SettleAmountCaptures
<1>8. CASE Refund(h)
  BY <1>2, <1>8, RefundReturns DEF Refund, Refundable, Active
<1>9. ASSUME NEW n \in Costs, SettleAi(h, n) PROVE Ledger!Next
  <2>1. n \in Nat
    BY AmountsAssumption
  <2> QED BY <1>2, <1>9, <2>1, SettleAiCaptures DEF SettleAi
<1>10. CASE SettleAccumulated(h)
  BY <1>2, <1>10, AccumulatedType, SettleAiCaptures DEF SettleAccumulated
<1>11. CASE Reconcile(h)
  BY <1>2, <1>11, ReconcileCloses
<1> QED
  BY <1>1, <1>3, <1>4, <1>5, <1>6, <1>7, <1>8, <1>9, <1>10, <1>11 DEF Operation

LEMMA EnvironmentRefines ==
  ASSUME TypeOK, Environment
  PROVE  Ledger!Next \/ UNCHANGED <<balance, funded, Books>>
<1>1. UNCHANGED hold => UNCHANGED Books
  BY DEF Books
<1>2. ASSUME NEW u \in Users, NEW n \in Deposits, TopUp(u, n) PROVE Ledger!Next
  <2>1. Ledger!Deposit(u)
    BY <1>1, <1>2 DEF TopUp, Ledger!Deposit, Books, Book
  <2> QED BY <2>1 DEF Ledger!Next, Ledger!Deposit
<1>3. ASSUME NEW u \in Users, NEW n \in Deposits, Chargeback(u, n) PROVE Ledger!Next
  <2> DEFINE taken == IF n <= balance[u] THEN n ELSE balance[u]
  <2>1. taken \in 0..balance[u]
    BY AmountsAssumption DEF TypeOK
  <2>2. /\ balance' = [balance EXCEPT ![u] = @ - taken]
        /\ funded' = [funded EXCEPT ![u] = @ - taken]
        /\ UNCHANGED hold
    BY <1>3 DEF Chargeback
  <2> HIDE DEF taken
  <2>3. Ledger!Withdraw(u)
    BY <2>1, <2>2 DEF Ledger!Withdraw
  <2> QED BY <2>3 DEF Ledger!Next, Ledger!Withdraw
<1> QED
  BY <1>1, <1>2, <1>3 DEF Environment, MonthTurns, Unbind, Bind, ReadForEdit, Configure,
                          WriteBack, AbandonEdit

LEMMA InitRefines == Init => Ledger!Init
<1> SUFFICES ASSUME Init PROVE Ledger!Init
  OBVIOUS
<1>1. hold = [h \in Holds |-> EmptyRow] /\ balance = InitialFunds /\ funded = InitialFunds
  BY DEF Init
<1>2. SomeUser \in Users
  BY UsersAssumption DEF SomeUser
<1>3. \E a \in [Holds -> Users] :
        Books = [h \in Holds |-> [status |-> "none", payer |-> a[h],
                                  amount |-> 0, captured |-> 0]]
  <2>1. [h \in Holds |-> SomeUser] \in [Holds -> Users]
    BY <1>2
  <2>2. Books = [h \in Holds |-> [status |-> "none", payer |-> [k \in Holds |-> SomeUser][h],
                                  amount |-> 0, captured |-> 0]]
    BY <1>1 DEF Books, Book, EmptyRow
  <2> QED BY <2>1, <2>2
<1> QED
  BY <1>1, <1>3, FundsAssumption DEF Ledger!Init, Books, Book

\* The ledger implements the escrow: it starts with no hold, and each of its
\* transactions opens, grows, captures or returns one hold, moves outside
\* money, or moves no money at all.
THEOREM LedgerImplementsEscrow == Spec => ImplementsEscrow
<1>1. Init => Ledger!Init
  BY InitRefines
<1>2. TypeOK /\ [Next]_vars => [Ledger!Next]_Ledger!vars
  <2> SUFFICES ASSUME TypeOK, [Next]_vars
               PROVE  Ledger!Next \/ UNCHANGED Ledger!vars
    OBVIOUS
  <2>1. UNCHANGED <<balance, funded, Books>> => UNCHANGED Ledger!vars
    BY DEF Ledger!vars, Books, Book
  <2>2. CASE \E h \in Holds : Operation(h)
    BY <2>1, <2>2, OperationRefines
  <2>3. CASE Environment
    BY <2>1, <2>3, EnvironmentRefines
  <2>4. CASE UNCHANGED vars
    BY <2>1, <2>4 DEF vars, Books
  <2> QED
    BY <2>2, <2>3, <2>4 DEF Next
<1> QED
  BY <1>1, <1>2, TypeCorrect, PTL DEF Spec, ImplementsEscrow, Ledger!Spec

EP == INSTANCE EscrowProofs WITH
  Accounts <- Users,
  Amounts <- Deposits,
  available <- balance,
  escrow <- [h \in Holds |-> [status |-> hold[h].status, payer |-> hold[h].payer,
                              amount |-> hold[h].amount, captured |-> hold[h].settled]]

\* No money is created or lost in the ledger: what was paid into an account
\* is in its balance, in its open holds or in its settled charges.
THEOREM LedgerBooksBalance == Spec => []BooksBalance
<1>1. EP!IsFiniteSet(Holds) /\ Deposits \subseteq Nat
  BY HoldsAssumption, AmountsAssumption DEF EP!IsFiniteSet, IsFiniteSet
<1>2. EP!Spec => [](EP!TypeOK /\ EP!BooksBalance)
  BY <1>1, EP!EscrowBooksBalance
<1>3. Ledger!Init => EP!Init
  BY DEF Ledger!Init, EP!Init
<1>4. [Ledger!Next]_Ledger!vars => [EP!Next]_EP!vars
  BY DEF Ledger!Next, EP!Next, Ledger!vars, EP!vars, Ledger!Deposit, EP!Deposit,
         Ledger!Withdraw, EP!Withdraw, Ledger!Open, EP!Open, Ledger!Grow, EP!Grow,
         Ledger!Capture, EP!Capture, Ledger!Return, EP!Return
<1>5. \A S : Ledger!Cardinality(S) = EP!Cardinality(S)
  BY Zenon DEF Ledger!Cardinality, EP!Cardinality
<1>6. EP!BooksBalance => BooksBalance
  BY <1>5 DEF BooksBalance, Ledger!BooksBalance, EP!BooksBalance, Ledger!TakenFrom,
              EP!TakenFrom, Ledger!Taken, EP!Taken, Ledger!SumOver, EP!SumOver,
              Ledger!Units, EP!Units
<1> QED
  BY <1>2, <1>3, <1>4, <1>6, LedgerImplementsEscrow, PTL
     DEF ImplementsEscrow, Ledger!Spec, EP!Spec

----------------------------------------------------------------------------
(* The allowance and the sponsored budget *)

\* What hold h has added to the spend, the refills and the limit of member u.
Spend(h, u) == IF OpenThisMonth(h, u) THEN hold[h].amount ELSE 0
Refills(h, u) == IF OpenThisMonth(h, u) THEN hold[h].countDelta ELSE 0
Raises(h, u) == IF OpenThisMonth(h, u) THEN hold[h].limitDelta ELSE 0

OpenRaises(u) == SumOver(Holds, [h \in Holds |-> Raises(h, u)])

\* Member row m bears holds of spend s and refills c.
Bears(m, s, c) == m.month = month => s <= m.spent /\ c <= m.count

\* Undoing raises l leaves member row m a limit of at least k.
Restores(m, l, k) == IF k = NULL THEN m.limit = NULL ELSE m.limit # NULL /\ k + l <= m.limit

\* An open hold belongs to this month or an earlier one, and raised a limit
\* only if a team pays for it.
Timely(h) ==
  Active(h) =>
    /\ hold[h].month <= month
    /\ ~TeamHold(h, hold[h].user) => hold[h].limitDelta = 0 /\ hold[h].countDelta = 0

AllTimely == \A h \in Holds : Timely(h)

Restorable(u) == Restores(member[u], OpenRaises(u), configured[u])

AllRestorable == \A u \in Users \ overwritten : Restorable(u)

Budgeted == \A b \in Nat : GrantUsed(b) <= GrantLimit

----------------------------------------------------------------------------
(* What charging and releasing leave a member row to bear *)

\* The first charge of this month forgets the spend of another one, which no
\* open hold counts in.
LEMMA RolloverBears ==
  ASSUME NEW m \in Members, NEW s \in Nat, NEW c \in Nat,
         m.month # month => s = 0 /\ c = 0, Bears(m, s, c)
  PROVE  Bears(AfterRollover(m, month), s, c)
<1>1. CASE m.month = month
  BY <1>1 DEF AfterRollover
<1>2. CASE m.month # month
  <2> DEFINE x == AfterRollover(m, month)
  <2>1. x.spent = 0 /\ x.count = 0
    BY <1>2 DEF AfterRollover, Members
  <2> HIDE DEF x
  <2>2. Bears(x, s, c)
    BY <1>2, <2>1 DEF Bears
  <2> QED BY <2>2 DEF x
<1> QED
  BY <1>1, <1>2

\* A charge adds to a row what the hold that it is made for records.
LEMMA ChargedBears ==
  ASSUME NEW m \in Members, m.month = month, NEW n \in Nat, LimitAllows(m, n),
         NEW s \in Nat, NEW c \in Nat, Bears(m, s, c)
  PROVE  Bears(Charged(m, n), s + n, c + RefillCount(m, n))
<1> DEFINE x == Charged(m, n)
           j == RefillCount(m, n)
<1>1. x.spent = m.spent + n /\ x.count = m.count + j
  BY DEF Charged, Members
<1>2. j \in Nat
  BY RefillType
<1>3. m.spent \in Nat /\ m.count \in Nat /\ s <= m.spent /\ c <= m.count
  BY DEF Bears, Members
<1> HIDE DEF x, j
<1>4. s + n <= x.spent /\ c + j <= x.count
  BY <1>1, <1>2, <1>3
<1>5. Bears(x, s + n, c + j)
  BY <1>4 DEF Bears
<1> QED
  BY <1>5 DEF x, j

LEMMA ChargedMonth ==
  ASSUME NEW m \in Members, NEW n \in Nat
  PROVE  Charged(m, n).month = m.month
BY DEF Charged, Members

\* A charge of any month raises the limit by what its hold records.
LEMMA ChargedRestores ==
  ASSUME NEW m \in Members, NEW n \in Nat, LimitAllows(m, n),
         NEW k \in Optional(Nat), NEW l \in Nat, Restores(m, l, k)
  PROVE  Restores(Charged(m, n), l + LimitDelta(m, n), k)
<1> DEFINE x == Charged(m, n)
           d == LimitDelta(m, n)
<1>1. x.limit = RaisedLimit(m, n)
  BY DEF Charged, Members
<1>2. /\ d \in Nat
      /\ m.limit = NULL => RaisedLimit(m, n) = NULL
      /\ m.limit # NULL => RaisedLimit(m, n) = m.limit + d
  BY RefillType
<1>3. m.limit \in Optional(Nat)
  BY DEF Members
<1> HIDE DEF x, d
<1>4. CASE k = NULL
  BY <1>1, <1>2, <1>4 DEF Restores, x, d
<1>5. CASE k # NULL
  <2>1. k \in Nat /\ m.limit \in Nat /\ k + l <= m.limit /\ m.limit # NULL
    BY <1>3, <1>5 DEF Restores
  <2>2. x.limit = m.limit + d
    BY <1>1, <1>2, <2>1
  <2>3. x.limit \in Nat /\ k + (l + d) <= x.limit
    BY <1>2, <2>1, <2>2
  <2>4. Restores(x, l + d, k)
    BY <1>5, <2>3, NullAssumption DEF Restores
  <2> QED BY <2>4 DEF x, d
<1> QED
  BY <1>4, <1>5

LEMMA RolloverRestores ==
  ASSUME NEW m \in Members, NEW at, NEW l, NEW k, Restores(m, l, k)
  PROVE  Restores(AfterRollover(m, at), l, k)
BY DEF AfterRollover, Members, Restores

LEMMA RestoresLess ==
  ASSUME NEW m \in Members, NEW k \in Optional(Nat), NEW l \in Nat, NEW l2 \in Nat, l2 <= l,
         Restores(m, l, k)
  PROVE  Restores(m, l2, k)
<1>1. CASE k = NULL
  BY <1>1 DEF Restores
<1>2. CASE k # NULL
  <2>1. k \in Nat /\ m.limit \in Nat /\ k + l <= m.limit
    BY <1>2 DEF Restores, Members
  <2>2. k + l2 <= m.limit
    BY <2>1
  <2> QED BY <1>2, <2>1, <2>2, NullAssumption DEF Restores
<1> QED
  BY <1>1, <1>2

\* What giving back a hold does to the parts of a row.
LEMMA ReleasedParts ==
  ASSUME NEW m \in Members, NEW r \in Rows, NEW n \in Nat
  PROVE  LET spent == IF ~r.sponsored /\ r.user # r.payer /\ r.month = month
                      THEN Monus(m.spent, n) ELSE m.spent
             undone == /\ ~r.sponsored /\ (r.limitDelta # 0 \/ r.countDelta # 0)
                       /\ r.month = month /\ m.month = month
             y == Released(m, r, n)
         IN /\ y.month = m.month /\ y.spent = spent /\ spent \in Nat
            /\ y.count = IF undone THEN Monus(m.count, r.countDelta) ELSE m.count
            /\ m.limit = NULL \/ ~undone => y.limit = m.limit
            /\ m.limit # NULL /\ undone =>
                 /\ y.limit \in Nat
                 /\ m.limit - r.limitDelta <= y.limit
<1> DEFINE x == SpendReleased(m, r, n)
           counts == r.user # r.payer /\ r.month = month
           back == IF counts THEN Monus(m.spent, n) ELSE m.spent
           undo == (r.limitDelta # 0 \/ r.countDelta # 0) /\ r.month = month /\ m.month = month
           z == RefillReleased(x, r)
<1>1. m.spent \in Nat /\ m.count \in Nat /\ m.limit \in Optional(Nat) /\ back \in Nat
  BY DEF Members, Monus
<1>2. r.limitDelta \in Nat /\ r.countDelta \in Nat
  BY DEF Rows
<1>3. x = [m EXCEPT !.spent = back]
  BY <1>1 DEF SpendReleased, Members
<1> HIDE DEF x, back, counts
<1>4. x.spent = back /\ x.month = m.month /\ x.count = m.count /\ x.limit = m.limit /\ x \in Members
  BY <1>1, <1>3 DEF Members
<1>5. /\ z.month = m.month /\ z.spent = back
      /\ z.count = IF undo THEN Monus(m.count, r.countDelta) ELSE m.count
      /\ m.limit = NULL \/ ~undo => z.limit = m.limit
      /\ m.limit # NULL /\ undo => z.limit \in Nat /\ m.limit - r.limitDelta <= z.limit
  <2>1. CASE ~undo
    <3>1. z = x
      BY <1>4, <2>1 DEF RefillReleased
    <3> QED BY <1>4, <2>1, <3>1
  <2>2. CASE undo
    <3> DEFINE lower == IF x.limit - r.limitDelta > x.spent THEN x.limit - r.limitDelta
                        ELSE x.spent
               limit == IF x.limit = NULL THEN NULL ELSE lower
               count == Monus(x.count, r.countDelta)
    <3>1. z = [x EXCEPT !.limit = limit, !.count = count]
      BY <1>4, <2>2 DEF RefillReleased
    <3>2. x.limit # NULL => limit \in Nat /\ m.limit - r.limitDelta <= limit
      BY <1>1, <1>2, <1>4
    <3>3. x.limit = NULL => limit = NULL
      OBVIOUS
    <3>4. count = Monus(m.count, r.countDelta)
      BY <1>4
    <3> HIDE DEF limit, count, lower, z, undo
    <3>5. z.month = x.month /\ z.spent = x.spent /\ z.count = count /\ z.limit = limit
      BY <1>4, <3>1 DEF Members
    <3> QED BY <1>4, <2>2, <3>2, <3>3, <3>4, <3>5
  <2> QED BY <2>1, <2>2
<1> HIDE DEF z, undo
<1>6. Released(m, r, n) = IF r.sponsored THEN m ELSE z
  BY DEF Released, x, z
<1>7. CASE r.sponsored
  BY <1>1, <1>6, <1>7
<1>8. CASE ~r.sponsored
  BY <1>1, <1>5, <1>6, <1>8 DEF back, counts, undo
<1> QED
  BY <1>7, <1>8

\* Giving back a team hold of this month leaves the row bearing the others.
LEMMA ReleasedBears ==
  ASSUME NEW m \in Members, NEW r \in Rows, NEW n \in Nat, n <= r.amount, m.month = month,
         NEW s \in Nat, NEW c \in Nat, Bears(m, s + r.amount, c + r.countDelta)
  PROVE  Bears(Released(m, r, n), s, c)
<1> DEFINE y == Released(m, r, n)
<1>1. /\ r.amount \in Nat /\ r.countDelta \in Nat /\ m.spent \in Nat /\ m.count \in Nat
      /\ s + r.amount <= m.spent /\ c + r.countDelta <= m.count
  BY DEF Rows, Members, Bears
<1>2. y.spent \in {m.spent, Monus(m.spent, n)} /\ y.count \in {m.count, Monus(m.count, r.countDelta)}
  BY ReleasedParts
<1>3. s <= y.spent /\ c <= y.count
  BY <1>1, <1>2 DEF Monus
<1> HIDE DEF y
<1>4. Bears(y, s, c)
  BY <1>3 DEF Bears
<1> QED
  BY <1>4 DEF y

\* Giving back a hold undoes no more than it raised.
LEMMA ReleasedRestores ==
  ASSUME NEW m \in Members, NEW r \in Rows, NEW n \in Nat,
         NEW k \in Optional(Nat), NEW l \in Nat, Restores(m, l + r.limitDelta, k)
  PROVE  Restores(Released(m, r, n), l, k)
<1> DEFINE y == Released(m, r, n)
<1>1. r.limitDelta \in Nat /\ m.limit \in Optional(Nat)
  BY DEF Rows, Members
<1>2. /\ m.limit = NULL => y.limit = NULL
      /\ m.limit # NULL => y.limit = m.limit \/ (y.limit \in Nat /\ m.limit - r.limitDelta <= y.limit)
  BY ReleasedParts
<1> HIDE DEF y
<1>3. CASE k = NULL
  BY <1>2, <1>3 DEF Restores, y
<1>4. CASE k # NULL
  <2>1. k \in Nat /\ m.limit \in Nat /\ m.limit # NULL /\ k + (l + r.limitDelta) <= m.limit
    BY <1>1, <1>4 DEF Restores
  <2>2. y.limit \in Nat /\ m.limit - r.limitDelta <= y.limit
    BY <1>1, <1>2, <2>1
  <2>3. k + l <= y.limit
    BY <1>1, <2>1, <2>2
  <2>4. Restores(y, l, k)
    BY <1>4, <2>2, <2>3, NullAssumption DEF Restores
  <2> QED BY <2>4 DEF y
<1> QED
  BY <1>3, <1>4

\* Giving back any other hold leaves the row alone.
LEMMA ReleasedSame ==
  ASSUME NEW m \in Members, NEW r \in Rows, NEW n \in Nat,
         \/ r.sponsored
         \/ r.month # month
         \/ r.user = r.payer /\ r.limitDelta = 0 /\ r.countDelta = 0
  PROVE  Released(m, r, n) = m
BY DEF Released, SpendReleased, RefillReleased

----------------------------------------------------------------------------
(* What an operation does to its hold and to the member it is for *)

SameTerms(r, s) ==
  /\ s.user = r.user /\ s.payer = r.payer /\ s.month = r.month
  /\ s.sponsored = r.sponsored /\ s.budgetMonth = r.budgetMonth

\* Open hold row r becomes s, whose money is the same.
Marks(r, s, v) ==
  /\ r.status = "active" /\ s.status = "active" /\ v = r.user
  /\ SameTerms(r, s)
  /\ s.amount = r.amount /\ s.limitDelta = r.limitDelta /\ s.countDelta = r.countDelta
  /\ member'[v] = member[v]

\* Member v, if a team pays for it, is charged n more for hold row r, in the
\* month that the call read.
Grows(r, s, v, n, at) ==
  LET team == ~s.sponsored /\ s.payer # v
      m == AfterRollover(member[v], at)
      Held(x) == IF r.status = "active" THEN x ELSE 0
  IN /\ s.status = "active" /\ s.user = v
     /\ \/ r.status = "none" /\ s.month = at
        \/ r.status = "active" /\ SameTerms(r, s)
     /\ s.amount = Held(r.amount) + n
     /\ s.limitDelta = Held(r.limitDelta) + IF team THEN LimitDelta(m, n) ELSE 0
     /\ s.countDelta = Held(r.countDelta) + IF team THEN RefillCount(m, n) ELSE 0
     /\ s.sponsored => GrantAllows(s.budgetMonth, n)
     /\ team => LimitAllows(m, n)
     /\ member'[v] = IF team THEN Charged(m, n) ELSE member[v]

\* Hold row r is closed, some of it goes back to member v, or all of it does
\* and v is charged anew.
Closes(r, s, v) ==
  /\ r.status = "active" /\ s.status \in {"settled", "refunded"} /\ v = r.user
  /\ SameTerms(r, s)
  /\ s.status = "settled" => s.settled <= r.amount
  /\ \/ member'[v] = member[v]
     \/ \E c \in Nat : c <= r.amount /\ member'[v] = Released(member[v], r, c)
     \/ LET m == AfterRollover(Released(member[v], r, r.amount), month)
        IN \E n \in Nat : LimitAllows(m, n) /\ member'[v] = Charged(m, n)

\* Nothing changes but hold h and the row of member v.
OnlyHold(h, v) ==
  /\ \A x \in Holds \ {h} : hold'[x] = hold[x]
  /\ \A w \in Users \ {v} : member'[w] = member[w]
  /\ UNCHANGED <<month, configured, overwritten>>

Moves(h, v) ==
  /\ OnlyHold(h, v)
  /\ \/ Marks(hold[h], hold'[h], v)
     \/ \E n \in Amounts, at \in 1..month : Grows(hold[h], hold'[h], v, n, at)
     \/ Closes(hold[h], hold'[h], v)

LEMMA ReserveMoves ==
  ASSUME TypeOK, NEW h \in Holds, NEW u \in Users, NEW p \in Purposes, NEW n \in Amounts,
         NEW b \in 0..month, NEW at \in 1..month, Reserve(h, u, p, n, b, at)
  PROVE  Moves(h, u)
<1> DEFINE sponsored == b # 0
           payer == IF sponsored THEN Sponsor ELSE PayerOf(u)
           team == ~sponsored /\ payer # u
           m == AfterRollover(member[u], at)
           delta == IF team THEN LimitDelta(m, n) ELSE 0
           count == IF team THEN RefillCount(m, n) ELSE 0
           row == [EmptyRow EXCEPT !.status = "active", !.purpose = p, !.user = u,
                     !.payer = payer, !.amount = n, !.month = at,
                     !.limitDelta = delta, !.countDelta = count,
                     !.sponsored = sponsored, !.budgetMonth = b]
<1>1. /\ hold[h].status = "none"
      /\ sponsored => GrantAllows(b, n)
      /\ team => LimitAllows(m, n)
      /\ member' = IF team THEN [member EXCEPT ![u] = Charged(m, n)] ELSE member
      /\ hold' = [hold EXCEPT ![h] = row]
      /\ UNCHANGED <<month, edit, funded, configured, overwritten>>
  BY DEF Reserve
<1>2. n \in Nat /\ 0 + n = n
  BY AmountsAssumption
<1>3. delta = 0 + delta /\ count = 0 + count
  <2>1. m \in Members
    BY RolloverType DEF TypeOK
  <2>2. delta \in Nat /\ count \in Nat
    BY <1>1, <1>2, <2>1, RefillType
  <2> HIDE DEF delta, count
  <2> QED BY <2>2
<1>4. /\ row.status = "active" /\ row.user = u /\ row.payer = payer /\ row.month = at
      /\ row.amount = n /\ row.limitDelta = delta /\ row.countDelta = count
      /\ row.sponsored = sponsored /\ row.budgetMonth = b
  <2> HIDE DEF payer, delta, count
  <2> QED BY EmptyRowType DEF EmptyRow
<1> HIDE DEF row
<1>5. OnlyHold(h, u)
  BY <1>1 DEF OnlyHold, TypeOK
<1>6. hold'[h] = row
  BY <1>1 DEF TypeOK
<1>7. member'[u] = IF team THEN Charged(m, n) ELSE member[u]
  BY <1>1 DEF TypeOK
<1>8. team = (~row.sponsored /\ row.payer # u)
  BY <1>4
<1> HIDE DEF payer, team, m
<1>9. Grows(hold[h], row, u, n, at)
  BY <1>1, <1>2, <1>3, <1>4, <1>7, <1>8 DEF Grows, m
<1> QED
  BY <1>5, <1>6, <1>9 DEF Moves

LEMMA ExtendMoves ==
  ASSUME TypeOK, NEW h \in Holds, NEW n \in Amounts, NEW at \in 1..month, Extend(h, n, at)
  PROVE  Moves(h, hold[h].user)
<1> DEFINE r == hold[h]
           u == r.user
           team == ~r.sponsored /\ r.payer # u
           m == AfterRollover(member[u], at)
           delta == IF team THEN LimitDelta(m, n) ELSE 0
           count == IF team THEN RefillCount(m, n) ELSE 0
           row == [r EXCEPT !.amount = @ + n, !.limitDelta = @ + delta, !.countDelta = @ + count]
<1>1. r \in Rows /\ u \in Users
  BY DEF TypeOK, Rows
<1>2. /\ r.status = "active"
      /\ r.sponsored => GrantAllows(r.budgetMonth, n)
      /\ team => LimitAllows(m, n)
      /\ member' = IF team THEN [member EXCEPT ![u] = Charged(m, n)] ELSE member
      /\ UNCHANGED <<month, edit, funded, configured, overwritten>>
  BY DEF Extend, ActiveAi, Active
<1>3. hold' = [hold EXCEPT ![h] = row]
  BY <1>1 DEF Extend, TypeOK, Rows
<1>4. /\ row.status = "active" /\ SameTerms(r, row)
      /\ row.amount = r.amount + n
      /\ row.limitDelta = r.limitDelta + delta
      /\ row.countDelta = r.countDelta + count
  <2> HIDE DEF r, delta, count
  <2> QED BY <1>1, <1>2 DEF SameTerms, Rows
<1> HIDE DEF row
<1>5. OnlyHold(h, u)
  BY <1>2, <1>3 DEF OnlyHold, TypeOK
<1>6. hold'[h] = row
  BY <1>3 DEF TypeOK
<1>7. member'[u] = IF team THEN Charged(m, n) ELSE member[u]
  BY <1>1, <1>2 DEF TypeOK
<1>8. team = (~row.sponsored /\ row.payer # u) /\ row.user = u /\ row.budgetMonth = r.budgetMonth
      /\ row.sponsored = r.sponsored
  BY <1>4 DEF SameTerms
<1> HIDE DEF r, u, team, m
<1>9. Grows(r, row, u, n, at)
  BY <1>2, <1>4, <1>7, <1>8 DEF Grows, m
<1> QED
  BY <1>5, <1>6, <1>9 DEF Moves, r, u

LEMMA MarkMoves ==
  ASSUME TypeOK, NEW h \in Holds,
         \/ MarkAiStarted(h) \/ ClaimProvider(h) \/ MarkSucceeded(h)
         \/ Expire(h) \/ ExpireStart(h)
         \/ \E c \in Calls, x \in Costs : Accumulate(h, c, x)
  PROVE  OnlyHold(h, hold[h].user) /\ Marks(hold[h], hold'[h], hold[h].user)
<1> DEFINE Same(s) == /\ s.status = hold[h].status /\ SameTerms(hold[h], s)
                      /\ s.amount = hold[h].amount /\ s.limitDelta = hold[h].limitDelta
                      /\ s.countDelta = hold[h].countDelta
<1>1. /\ Same([hold[h] EXCEPT !.started = TRUE]) /\ Same([hold[h] EXCEPT !.succeeded = TRUE])
      /\ Same([hold[h] EXCEPT !.old = TRUE]) /\ Same([hold[h] EXCEPT !.startOld = TRUE])
      /\ \A x : Same([hold[h] EXCEPT !.components = x])
  <2>1. hold[h] \in Rows
    BY DEF TypeOK
  <2> QED BY <2>1 DEF SameTerms, Rows
<1>2. hold[h].status = "active" /\ UNCHANGED <<member, month, configured, overwritten>>
  BY DEF MarkAiStarted, ClaimProvider, MarkSucceeded, Expire, ExpireStart, Accumulate,
         ActiveAi, ActiveFixed, Active
<1> HIDE DEF Same
<1>3. PICK s : hold' = [hold EXCEPT ![h] = s] /\ Same(s)
  <2>1. CASE MarkAiStarted(h) \/ ClaimProvider(h)
    <3>1. hold' = [hold EXCEPT ![h] = [hold[h] EXCEPT !.started = TRUE]]
      BY <2>1 DEF MarkAiStarted, ClaimProvider
    <3> QED BY <1>1, <3>1
  <2>2. CASE MarkSucceeded(h)
    <3>1. hold' = [hold EXCEPT ![h] = [hold[h] EXCEPT !.succeeded = TRUE]]
      BY <2>2 DEF MarkSucceeded
    <3> QED BY <1>1, <3>1
  <2>3. CASE Expire(h)
    <3>1. hold' = [hold EXCEPT ![h] = [hold[h] EXCEPT !.old = TRUE]]
      BY <2>3 DEF Expire
    <3> QED BY <1>1, <3>1
  <2>4. CASE ExpireStart(h)
    <3>1. hold' = [hold EXCEPT ![h] = [hold[h] EXCEPT !.startOld = TRUE]]
      BY <2>4 DEF ExpireStart
    <3> QED BY <1>1, <3>1
  <2>5. ASSUME NEW c \in Calls, NEW x \in Costs, Accumulate(h, c, x)
        PROVE  \E s : hold' = [hold EXCEPT ![h] = s] /\ Same(s)
    <3> DEFINE comps == hold[h].components \cup {<<c, x>>}
    <3>1. hold' = [hold EXCEPT ![h] = [hold[h] EXCEPT !.components = comps]]
      BY <2>5 DEF Accumulate
    <3> HIDE DEF comps
    <3> QED BY <1>1, <3>1
  <2> QED
    BY <2>1, <2>2, <2>3, <2>4, <2>5
<1>4. hold'[h] = s
  BY <1>3 DEF TypeOK
<1>5. Marks(hold[h], hold'[h], hold[h].user)
  BY <1>2, <1>3, <1>4 DEF Marks, Same
<1>6. OnlyHold(h, hold[h].user)
  BY <1>2, <1>3 DEF OnlyHold, TypeOK
<1> QED
  BY <1>5, <1>6

LEMMA RefundedTerms ==
  ASSUME NEW r \in Rows
  PROVE  SameTerms(r, Closed(r, "refunded")) /\ Closed(r, "refunded").status = "refunded"
BY DEF Closed, SameTerms, Rows

\* Settling a hold for at most what was held closes it, whatever of it goes
\* back to the member.
LEMMA SettlingMoves ==
  ASSUME TypeOK, NEW h \in Holds, Active(h), NEW n \in Nat, n <= hold[h].amount,
         CloseSettled(h, n), UNCHANGED <<month, configured, overwritten>>,
         NEW v \in Users, v = hold[h].user,
         \A w \in Users \ {v} : member'[w] = member[w],
         \/ member'[v] = member[v]
         \/ \E c \in Nat : /\ c <= hold[h].amount
                           /\ member'[v] = Released(member[v], hold[h], c)
         \/ LET x == AfterRollover(Released(member[v], hold[h], hold[h].amount), month)
            IN LimitAllows(x, n) /\ member'[v] = Charged(x, n)
  PROVE  Moves(h, v)
<1> DEFINE s == [Closed(hold[h], "settled") EXCEPT !.settled = n, !.settledMonth = month]
           x == AfterRollover(Released(member[v], hold[h], hold[h].amount), month)
<1>1. hold[h] \in Rows /\ month \in Nat /\ hold[h].status = "active"
  BY DEF TypeOK, Active
<1>2. SameTerms(hold[h], s) /\ s.status = "settled" /\ s.settled = n
  <2> DEFINE r == hold[h]
  <2>1. r \in Rows /\ month \in Nat
    BY <1>1
  <2> HIDE DEF r
  <2>2. /\ SameTerms(r, [Closed(r, "settled") EXCEPT !.settled = n, !.settledMonth = month])
        /\ [Closed(r, "settled") EXCEPT !.settled = n, !.settledMonth = month].status = "settled"
        /\ [Closed(r, "settled") EXCEPT !.settled = n, !.settledMonth = month].settled = n
    BY <2>1 DEF Closed, SameTerms, Rows
  <2> QED BY <2>2 DEF r
<1>3. hold' = [hold EXCEPT ![h] = s]
  BY DEF CloseSettled
<1> HIDE DEF s
<1>4. hold'[h] = s /\ \A y \in Holds \ {h} : hold'[y] = hold[y]
  BY <1>3 DEF TypeOK
<1>5. \/ member'[v] = member[v]
      \/ \E c \in Nat : c <= hold[h].amount /\ member'[v] = Released(member[v], hold[h], c)
      \/ LimitAllows(x, n) /\ member'[v] = Charged(x, n)
  OBVIOUS
<1> HIDE DEF x
<1>6. Closes(hold[h], s, v)
  BY <1>1, <1>2, <1>5 DEF Closes, x
<1>7. OnlyHold(h, v)
  BY <1>4 DEF OnlyHold
<1> QED
  BY <1>4, <1>6, <1>7 DEF Moves

LEMMA SettleWholeMoves ==
  ASSUME TypeOK, NEW h \in Holds, Active(h), SettleWhole(h),
         UNCHANGED <<month, configured, overwritten>>
  PROVE  Moves(h, hold[h].user)
<1>1. hold[h].amount \in Nat /\ hold[h].user \in Users /\ hold[h].amount <= hold[h].amount
  BY DEF TypeOK, Rows
<1>2. CloseSettled(h, hold[h].amount) /\ \A w \in Users : member'[w] = member[w]
  BY DEF SettleWhole
<1> QED
  BY <1>1, <1>2, SettlingMoves

LEMMA SettleAmountMoves ==
  ASSUME TypeOK, NEW h \in Holds, NEW n \in Amounts, SettleFixedAmount(h, n)
  PROVE  Moves(h, hold[h].user)
<1> DEFINE v == hold[h].user
           c == hold[h].amount - n
           m == Released(member[v], hold[h], c)
<1>1. n \in Nat /\ n <= hold[h].amount /\ hold[h].amount \in Nat /\ v \in Users
  BY AmountsAssumption DEF TypeOK, Rows, SettleFixedAmount
<1>2. c \in Nat /\ c <= hold[h].amount
  BY <1>1
<1>3. /\ Active(h) /\ CloseSettled(h, n) /\ UNCHANGED <<month, configured, overwritten>>
      /\ member' = IF c > 0 THEN [member EXCEPT ![v] = m] ELSE member
  BY DEF SettleFixedAmount, ActiveFixed
<1> HIDE DEF m
<1>4. /\ \A w \in Users \ {v} : member'[w] = member[w]
      /\ member'[v] = member[v] \/ member'[v] = m
  BY <1>1, <1>3 DEF TypeOK
<1>5. \/ member'[v] = member[v]
      \/ \E d \in Nat : d <= hold[h].amount /\ member'[v] = Released(member[v], hold[h], d)
  BY <1>2, <1>4 DEF m
<1> QED
  BY <1>1, <1>3, <1>4, <1>5, SettlingMoves

LEMMA SettleAiMoves ==
  ASSUME TypeOK, NEW h \in Holds, NEW n \in Nat, SettleAiFor(h, n),
         UNCHANGED <<month, configured, overwritten>>
  PROVE  Moves(h, hold[h].user)
<1> DEFINE r == hold[h]
           v == r.user
           returned == Released(member[v], r, r.amount)
           x == AfterRollover(returned, month)
           team == ~r.sponsored /\ r.payer # v
           m == IF team THEN Charged(x, n) ELSE returned
<1>1. /\ Active(h) /\ n <= r.amount /\ CloseSettled(h, n)
      /\ team => LimitAllows(x, n)
      /\ member' = [member EXCEPT ![v] = m]
  BY DEF SettleAiFor, ActiveAi
<1>2. r.amount \in Nat /\ v \in Users
  BY DEF TypeOK, Rows
<1>3. \/ \E c \in Nat : c <= r.amount /\ m = Released(member[v], r, c)
      \/ LimitAllows(x, n) /\ m = Charged(x, n)
  <2>1. CASE team
    BY <1>1, <2>1
  <2>2. CASE ~team
    BY <1>2, <2>2
  <2> QED BY <2>1, <2>2
<1> HIDE DEF m
<1>4. member'[v] = m /\ \A w \in Users \ {v} : member'[w] = member[w]
  BY <1>1, <1>2 DEF TypeOK
<1>5. \/ \E c \in Nat : c <= r.amount /\ member'[v] = Released(member[v], r, c)
      \/ LimitAllows(x, n) /\ member'[v] = Charged(x, n)
  BY <1>3, <1>4
<1> QED
  BY <1>1, <1>2, <1>4, <1>5, SettlingMoves

LEMMA RefundMoves ==
  ASSUME TypeOK, NEW h \in Holds, Active(h), CloseRefunded(h),
         UNCHANGED <<month, configured, overwritten>>
  PROVE  Moves(h, hold[h].user)
<1> DEFINE r == hold[h]
           v == r.user
           m == Released(member[v], r, r.amount)
           s == Closed(r, "refunded")
<1>1. r \in Rows /\ v \in Users /\ r.amount \in Nat /\ r.status = "active"
  BY DEF TypeOK, Rows, Active
<1>2. hold' = [hold EXCEPT ![h] = s] /\ member' = [member EXCEPT ![v] = m]
  BY DEF CloseRefunded
<1>3. SameTerms(r, s) /\ s.status = "refunded"
  BY <1>1, RefundedTerms
<1>4. \E c \in Nat : c <= r.amount /\ m = Released(member[v], r, c)
  BY <1>1
<1> HIDE DEF m, s
<1>5. member'[v] = m /\ \A w \in Users \ {v} : member'[w] = member[w]
  BY <1>1, <1>2 DEF TypeOK
<1>6. Closes(r, s, v)
  BY <1>1, <1>3, <1>4, <1>5 DEF Closes
<1>7. hold'[h] = s /\ \A y \in Holds \ {h} : hold'[y] = hold[y]
  BY <1>2 DEF TypeOK
<1>8. OnlyHold(h, v)
  BY <1>5, <1>7 DEF OnlyHold
<1> QED
  BY <1>6, <1>7, <1>8 DEF Moves

LEMMA OperationMoves ==
  ASSUME TypeOK, NEW h \in Holds, Operation(h)
  PROVE  \E v \in Users : Moves(h, v)
<1> DEFINE Goal == \E v \in Users : Moves(h, v)
<1>1. hold[h].user \in Users
  BY DEF TypeOK, Rows
<1>2. ASSUME NEW u \in Users, NEW p \in Purposes, NEW n \in Amounts,
             NEW b \in 0..month, NEW at \in 1..month, Reserve(h, u, p, n, b, at)
      PROVE  Goal
  BY <1>2, ReserveMoves
<1>3. ASSUME NEW n \in Amounts, NEW at \in 1..month, Extend(h, n, at) PROVE Goal
  BY <1>1, <1>3, ExtendMoves
<1>4. CASE \/ MarkAiStarted(h) \/ ClaimProvider(h) \/ MarkSucceeded(h)
           \/ Expire(h) \/ ExpireStart(h)
           \/ \E c \in Calls, x \in Costs : Accumulate(h, c, x)
  BY <1>1, <1>4, MarkMoves DEF Moves
<1>5. CASE SettleFixed(h)
  BY <1>1, <1>5, SettleWholeMoves DEF SettleFixed, ActiveFixed
<1>6. ASSUME NEW n \in Amounts, SettleFixedAmount(h, n) PROVE Goal
  BY <1>1, <1>6, SettleAmountMoves
<1>7. CASE Refund(h)
  BY <1>1, <1>7, RefundMoves DEF Refund, Refundable, Active
<1>8. ASSUME NEW n \in Costs, SettleAi(h, n) PROVE Goal
  BY <1>1, <1>8, SettleAiMoves, AmountsAssumption DEF SettleAi
<1>9. CASE SettleAccumulated(h)
  BY <1>1, <1>9, SettleAiMoves, AccumulatedType DEF SettleAccumulated
<1>10. CASE Reconcile(h)
  <2>1. CASE SettleAiFor(h, Accumulated(h))
    BY <1>1, <1>10, <2>1, SettleAiMoves, AccumulatedType DEF Reconcile
  <2>2. CASE SettleWhole(h)
    BY <1>1, <1>10, <2>2, SettleWholeMoves DEF Reconcile, Stale, Active
  <2>3. CASE CloseRefunded(h)
    BY <1>1, <1>10, <2>3, RefundMoves DEF Reconcile, Stale, Active
  <2> QED BY <1>10, <2>1, <2>2, <2>3 DEF Reconcile
<1> QED
  BY <1>2, <1>3, <1>4, <1>5, <1>6, <1>7, <1>8, <1>9, <1>10 DEF Operation

----------------------------------------------------------------------------
(* The sponsored budget *)

LEMMA GrantChargeType ==
  ASSUME TypeOK, NEW h \in Holds, NEW b \in Nat
  PROVE  GrantCharge(h, b) \in Nat
BY DEF GrantCharge, TypeOK, Rows

LEMMA GrantChargeTypeNext ==
  ASSUME TypeOK', NEW h \in Holds, NEW b \in Nat
  PROVE  GrantCharge(h, b)' \in Nat
BY DEF GrantCharge, Active, TypeOK, Rows

\* A hold takes more from the grant only by what the grant still allows, and
\* no settlement takes more than was held.
LEMMA MovesBudget ==
  ASSUME TypeOK, TypeOK', Budgeted, NEW h \in Holds, NEW v \in Users, Moves(h, v), NEW b \in Nat
  PROVE  GrantUsed(b)' <= GrantLimit
<1> DEFINE f == [x \in Holds |-> GrantCharge(x, b)]
           g == [x \in Holds |-> GrantCharge(x, b)']
           r == hold[h]
           s == hold'[h]
<1>1. \A x \in Holds : f[x] \in Nat /\ g[x] \in Nat
  BY GrantChargeType, GrantChargeTypeNext
<1>2. \A x \in Holds \ {h} : f[x] = g[x]
  BY DEF Moves, OnlyHold, GrantCharge, Active
<1>3. SumOver(Holds, g) = SumOver(Holds, f) - f[h] + g[h]
  <2> HIDE DEF f, g
  <2> QED BY <1>1, <1>2, HoldsAssumption, SumUpdate
<1>4. GrantUsed(b) = SumOver(Holds, f) /\ GrantUsed(b)' = SumOver(Holds, g)
  BY DEF GrantUsed
<1>5. SumOver(Holds, f) \in Nat
  <2> HIDE DEF f, g
  <2> QED BY <1>1, HoldsAssumption, SumType
<1>6. SumOver(Holds, f) <= GrantLimit /\ GrantLimit \in Nat
  BY <1>4, FundsAssumption DEF Budgeted
<1>7. /\ f[h] = IF ~r.sponsored \/ r.budgetMonth # b THEN 0
                ELSE IF r.status = "active" THEN r.amount
                ELSE IF r.status = "settled" THEN r.settled ELSE 0
      /\ g[h] = IF ~s.sponsored \/ s.budgetMonth # b THEN 0
                ELSE IF s.status = "active" THEN s.amount
                ELSE IF s.status = "settled" THEN s.settled ELSE 0
  BY DEF GrantCharge, Active
<1>8. /\ r.amount \in Nat /\ s.amount \in Nat /\ s.settled \in Nat
      /\ f[h] \in Nat /\ g[h] \in Nat
  BY <1>1 DEF TypeOK, Rows
<1> HIDE DEF f, g
<1>9. SumOver(Holds, f) - f[h] + g[h] <= GrantLimit
  <2>1. CASE g[h] <= f[h]
    BY <1>5, <1>6, <1>8, <2>1
  <2>2. CASE Marks(r, s, v)
    <3>1. g[h] <= f[h]
      BY <1>7, <1>8, <2>2 DEF Marks, SameTerms
    <3> QED BY <2>1, <3>1
  <2>3. CASE Closes(r, s, v)
    <3>1. /\ s.sponsored = r.sponsored /\ s.budgetMonth = r.budgetMonth
          /\ r.status = "active" /\ s.status # "active"
          /\ s.status = "settled" => s.settled <= r.amount
      BY <2>3 DEF Closes, SameTerms
    <3>2. g[h] <= f[h]
      BY <1>7, <1>8, <3>1
    <3> QED BY <2>1, <3>2
  <2>4. ASSUME NEW n \in Amounts, NEW at \in 1..month, Grows(r, s, v, n, at)
        PROVE  SumOver(Holds, f) - f[h] + g[h] <= GrantLimit
    <3>1. CASE ~s.sponsored \/ s.budgetMonth # b
      <4>1. g[h] <= f[h]
        BY <1>7, <1>8, <3>1
      <4> QED BY <2>1, <4>1
    <3>2. CASE s.sponsored /\ s.budgetMonth = b
      <4>1. n \in Nat /\ GrantAllows(b, n)
        BY <2>4, <3>2, AmountsAssumption DEF Grows
      <4>2. g[h] = f[h] + n
        <5>1. CASE r.status = "none"
          BY <1>7, <3>2, <4>1, <5>1, <2>4 DEF Grows
        <5>2. CASE r.status = "active"
          BY <1>7, <3>2, <5>2, <2>4 DEF Grows, SameTerms
        <5> QED BY <2>4, <5>1, <5>2 DEF Grows
      <4>3. SumOver(Holds, f) + n <= GrantLimit
        BY <1>4, <4>1 DEF GrantAllows
      <4> QED BY <1>5, <1>6, <1>8, <4>1, <4>2, <4>3
    <3> QED BY <3>1, <3>2
  <2> QED
    BY <2>2, <2>3, <2>4 DEF Moves
<1> QED
  BY <1>3, <1>4, <1>9

LEMMA InitBudgeted == Init => Budgeted
<1> SUFFICES ASSUME Init, NEW b \in Nat PROVE GrantUsed(b) <= GrantLimit
  BY DEF Budgeted
<1> DEFINE f == [h \in Holds |-> GrantCharge(h, b)]
<1>1. \A h \in Holds : f[h] = 0
  BY DEF Init, GrantCharge, EmptyRow
<1>2. SumOver(Holds, f) = 0
  <2> HIDE DEF f
  <2> QED BY <1>1, SumZero
<1> QED
  BY <1>2, FundsAssumption DEF GrantUsed

\* The holds and charges of a month of the sponsored grant never add up to
\* more than its limit: every reservation and extension is checked against
\* all of them in the transaction that makes it, and a settlement charges at
\* most what was held.
THEOREM LedgerGrantWithinBudget == Spec => []GrantWithinBudget
<1>1. Init => Budgeted
  BY InitBudgeted
<1>2. TypeOK /\ TypeOK' /\ Budgeted /\ [Next]_vars => Budgeted'
  <2> SUFFICES ASSUME TypeOK, TypeOK', Budgeted, [Next]_vars, NEW b \in Nat
               PROVE  GrantUsed(b)' <= GrantLimit
    BY DEF Budgeted
  <2>1. ASSUME NEW h \in Holds, Operation(h) PROVE GrantUsed(b)' <= GrantLimit
    <3>1. PICK v \in Users : Moves(h, v)
      BY <2>1, OperationMoves
    <3> QED BY <3>1, MovesBudget
  <2>2. CASE hold' = hold
    <3>1. GrantUsed(b)' = GrantUsed(b)
      BY <2>2 DEF GrantUsed, GrantCharge, Active
    <3> QED BY <3>1 DEF Budgeted
  <2> QED
    BY <2>1, <2>2, EnvironmentKeepsHolds DEF Next, vars
<1>3. TypeOK /\ Budgeted => GrantWithinBudget
  BY DEF TypeOK, Budgeted, GrantWithinBudget
<1> QED
  BY <1>1, <1>2, <1>3, TypeCorrect, PTL DEF Spec

----------------------------------------------------------------------------
(* The member's allowance *)

LEMMA SpendType ==
  ASSUME TypeOK, NEW h \in Holds, NEW u \in Users
  PROVE  Spend(h, u) \in Nat /\ Refills(h, u) \in Nat /\ Raises(h, u) \in Nat
BY DEF Spend, Refills, Raises, TypeOK, Rows

LEMMA SpendTypeNext ==
  ASSUME TypeOK', NEW h \in Holds, NEW u \in Users
  PROVE  Spend(h, u)' \in Nat /\ Refills(h, u)' \in Nat /\ Raises(h, u)' \in Nat
BY DEF Spend, Refills, Raises, OpenThisMonth, TypeOK, Rows

\* An operation leaves its hold timely: a new hold is of this month, and a
\* hold that no team pays for raises no limit.
LEMMA MovesTimely ==
  ASSUME TypeOK, NEW h \in Holds, NEW v \in Users, Moves(h, v), \A x \in Holds : Timely(x),
         NEW y \in Holds
  PROVE  Timely(y)'
<1>1. CASE y # h
  BY <1>1 DEF Moves, OnlyHold, Timely, Active, TeamHold
<1>2. CASE y = h
  <2> DEFINE r == hold[h]
             s == hold'[h]
  <2>1. month \in Nat /\ month' = month
    BY DEF TypeOK, Moves, OnlyHold
  <2>2. r.status = "active" => /\ r.month <= month
                               /\ r.user = r.payer \/ r.sponsored => r.limitDelta = 0 /\ r.countDelta = 0
    BY DEF Timely, Active, TeamHold
  <2> SUFFICES ASSUME s.status = "active"
               PROVE  /\ s.month <= month
                      /\ s.payer = s.user \/ s.sponsored => s.limitDelta = 0 /\ s.countDelta = 0
    BY <1>2, <2>1 DEF Timely, Active, TeamHold
  <2>3. CASE Marks(r, s, v)
    BY <2>2, <2>3 DEF Marks, SameTerms
  <2>4. ASSUME NEW n \in Amounts, NEW at \in 1..month, Grows(r, s, v, n, at)
        PROVE  /\ s.month <= month
               /\ s.payer = s.user \/ s.sponsored => s.limitDelta = 0 /\ s.countDelta = 0
    <3>1. CASE r.status = "none"
      BY <2>1, <2>4, <3>1 DEF Grows
    <3>2. CASE r.status = "active"
      BY <2>1, <2>2, <2>4, <3>2 DEF Grows, SameTerms
    <3> QED BY <2>4, <3>1, <3>2 DEF Grows
  <2> QED
    BY <2>3, <2>4 DEF Moves, Closes
<1> QED
  BY <1>1, <1>2

\* Growing h for member v adds to what h counts of v at most what v is
\* charged, and nothing at all if the charge is of another month.
LEMMA GrowsAdds ==
  ASSUME TypeOK, TypeOK', NEW h \in Holds, NEW v \in Users, NEW n \in Amounts,
         NEW at \in 1..month, month' = month, Grows(hold[h], hold'[h], v, n, at)
  PROVE  LET team == ~hold'[h].sponsored /\ hold'[h].payer # v
             x == AfterRollover(member[v], at)
         IN /\ hold' # hold
            /\ OpenThisMonth(h, v)' => team /\ (OpenThisMonth(h, v) \/ at = month)
            /\ OpenThisMonth(h, v) => team
            /\ team => /\ Spend(h, v)' <= Spend(h, v) + n
                       /\ Refills(h, v)' <= Refills(h, v) + RefillCount(x, n)
                       /\ Raises(h, v)' <= Raises(h, v) + LimitDelta(x, n)
<1> DEFINE r == hold[h]
           t == hold'[h]
           team == ~t.sponsored /\ t.payer # v
           x == AfterRollover(member[v], at)
           e == LimitDelta(x, n)
           j == RefillCount(x, n)
           open == OpenThisMonth(h, v)
           open2 == OpenThisMonth(h, v)'
<1>1. n \in Nat \ {0} /\ r \in Rows /\ t \in Rows
  BY AmountsAssumption DEF TypeOK
<1>2. /\ r.amount \in Nat /\ r.countDelta \in Nat /\ r.limitDelta \in Nat
      /\ t.amount \in Nat /\ t.countDelta \in Nat /\ t.limitDelta \in Nat
  BY <1>1 DEF Rows
<1>3. /\ open = (r.user = v /\ r.payer # v /\ ~r.sponsored /\ r.status = "active" /\ r.month = month)
      /\ open2 = (t.user = v /\ t.payer # v /\ ~t.sponsored /\ t.status = "active" /\ t.month = month)
  BY DEF OpenThisMonth, TeamHold, Active
<1>4. /\ Spend(h, v) = (IF open THEN r.amount ELSE 0)
      /\ Spend(h, v)' = (IF open2 THEN t.amount ELSE 0)
      /\ Refills(h, v) = (IF open THEN r.countDelta ELSE 0)
      /\ Refills(h, v)' = (IF open2 THEN t.countDelta ELSE 0)
      /\ Raises(h, v) = (IF open THEN r.limitDelta ELSE 0)
      /\ Raises(h, v)' = (IF open2 THEN t.limitDelta ELSE 0)
  BY DEF Spend, Refills, Raises
<1>5. \/ r.status = "none" /\ t.month = at
      \/ r.status = "active" /\ SameTerms(r, t)
  BY DEF Grows
<1>6. open2 => team /\ (open \/ at = month)
  BY <1>3, <1>5 DEF SameTerms
<1>7. open => team
  BY <1>3, <1>5 DEF SameTerms
<1>8. team => /\ t.status = "active"
              /\ r.status = "active" => /\ t.amount = r.amount + n /\ t.countDelta = r.countDelta + j
                                        /\ t.limitDelta = r.limitDelta + e
              /\ r.status = "none" => t.amount = 0 + n /\ t.countDelta = 0 + j /\ t.limitDelta = 0 + e
  BY DEF Grows
<1>9. hold' # hold
  <2>1. CASE r.status = "none"
    BY <2>1 DEF Grows
  <2>2. CASE r.status = "active"
    <3>1. t.amount = r.amount + n
      BY <2>2 DEF Grows
    <3>2. t.amount # r.amount
      BY <1>1, <1>2, <3>1
    <3> QED BY <3>2
  <2> QED BY <1>5, <2>1, <2>2
<1>10. ASSUME team
       PROVE  /\ Spend(h, v)' <= Spend(h, v) + n
              /\ Refills(h, v)' <= Refills(h, v) + j
              /\ Raises(h, v)' <= Raises(h, v) + e
  <2>1. e \in Nat /\ j \in Nat
    <3>1. LimitAllows(x, n)
      BY <1>10 DEF Grows
    <3>2. x \in Members
      BY RolloverType DEF TypeOK
    <3> QED BY <1>1, <3>1, <3>2, RefillType
  <2>2. open2 /\ r.status = "active" => open
    BY <1>3, <1>5 DEF SameTerms
  <2> HIDE DEF team, e, j, open, open2, r, t, x
  <2>3. CASE ~open2
    <3>1. Spend(h, v) \in Nat /\ Refills(h, v) \in Nat /\ Raises(h, v) \in Nat
      BY <1>2, <1>4
    <3> QED BY <1>1, <1>4, <2>1, <2>3, <3>1
  <2>4. CASE open2 /\ r.status = "active"
    BY <1>4, <1>8, <1>10, <2>2, <2>4, <1>1, <1>2, <2>1
  <2>5. CASE open2 /\ r.status = "none"
    <3>1. Spend(h, v) \in Nat /\ Refills(h, v) \in Nat /\ Raises(h, v) \in Nat
      BY <1>2, <1>4
    <3> QED BY <1>1, <1>4, <1>8, <1>10, <2>1, <2>5, <3>1
  <2> QED BY <1>5, <2>3, <2>4, <2>5
<1> HIDE DEF open, open2, e, j
<1> QED
  BY <1>6, <1>7, <1>9, <1>10 DEF open, open2, e, j

\* What an operation on h that dates no row back leaves the row of v to bear:
\* the other holds, of spend s and refills c, and what h counts afterwards.
LEMMA MovesBear ==
  ASSUME TypeOK, TypeOK', NEW h \in Holds, NEW v \in Users, Moves(h, v), Timely(h),
         ~DatedBack(v), NEW s \in Nat, NEW c \in Nat,
         OpenThisMonth(h, v) => member[v].month = month,
         member[v].month # month => s = 0 /\ c = 0,
         Bears(member[v], s + Spend(h, v), c + Refills(h, v))
  PROVE  /\ Bears(member[v], s + Spend(h, v), c + Refills(h, v))'
         /\ member[v].month = month \/ OpenThisMonth(h, v)' => member'[v].month = month
<1> DEFINE m == member[v]
           m2 == member'[v]
           r == hold[h]
           t == hold'[h]
           a == Spend(h, v)
           b == Refills(h, v)
           a2 == Spend(h, v)'
           b2 == Refills(h, v)'
           open == OpenThisMonth(h, v)
           open2 == OpenThisMonth(h, v)'
           Goal == /\ Bears(m2, s + a2, c + b2)
                   /\ m.month = month \/ open2 => m2.month = month
<1>1. month' = month /\ month \in Nat
  BY DEF TypeOK, Moves, OnlyHold
<1>2. SUFFICES Goal
  BY <1>1 DEF Bears
<1>3. m \in Members /\ m2 \in Members /\ r \in Rows /\ t \in Rows
  BY DEF TypeOK
<1>4. /\ a \in Nat /\ b \in Nat /\ a2 \in Nat /\ b2 \in Nat
      /\ m2.spent \in Nat /\ m2.count \in Nat /\ m.month \in Nat
  BY <1>3, SpendType, SpendTypeNext DEF Members
<1>5. r.amount \in Nat /\ r.countDelta \in Nat
  BY <1>3 DEF Rows
<1>6. /\ open = (r.user = v /\ r.payer # v /\ ~r.sponsored /\ r.status = "active" /\ r.month = month)
      /\ open2 = (t.user = v /\ t.payer # v /\ ~t.sponsored /\ t.status = "active" /\ t.month = month)
  BY <1>1 DEF OpenThisMonth, TeamHold, Active
<1>7. /\ a = (IF open THEN r.amount ELSE 0) /\ a2 = (IF open2 THEN t.amount ELSE 0)
      /\ b = (IF open THEN r.countDelta ELSE 0) /\ b2 = (IF open2 THEN t.countDelta ELSE 0)
  BY DEF Spend, Refills
<1>8. /\ open => m.month = month
      /\ m.month # month => s = 0 /\ c = 0
      /\ Bears(m, s + a, c + b)
  OBVIOUS
<1>9. hold' # hold => m2.month \notin 1..(m.month - 1)
  BY DEF DatedBack
<1>10. s + a \in Nat /\ c + b \in Nat
  BY <1>4
<1> HIDE DEF m, m2, r, t, a, b, a2, b2, open, open2
<1>11. ASSUME NEW i \in Nat, NEW j \in Nat, s + a2 <= i, c + b2 <= j, Bears(m2, i, j)
       PROVE  Bears(m2, s + a2, c + b2)
  <2>1. s + a2 \in Nat /\ c + b2 \in Nat
    BY <1>4
  <2> QED BY <1>4, <1>11, <2>1 DEF Bears
<1>12. CASE Marks(r, t, v)
  <2>1. open2 = open /\ a2 = a /\ b2 = b
    BY <1>6, <1>7, <1>12 DEF Marks, SameTerms
  <2>2. m2 = m
    BY <1>12 DEF Marks, m, m2
  <2> QED BY <1>8, <2>1, <2>2
<1>13. ASSUME NEW n \in Amounts, NEW at \in 1..month, Grows(r, t, v, n, at) PROVE Goal
  <2> DEFINE team == ~t.sponsored /\ t.payer # v
             x == AfterRollover(m, at)
             j == RefillCount(x, n)
  <2>1. n \in Nat /\ at \in Nat /\ 1 <= at /\ at <= month
    BY <1>1, AmountsAssumption
  <2>2. /\ hold' # hold
        /\ open2 => team /\ (open \/ at = month)
        /\ open => team
        /\ team => a2 <= a + n /\ b2 <= b + j
    BY <1>1, <1>13, GrowsAdds DEF m, r, t, a, a2, b, b2, open, open2
  <2>3. CASE ~team
    <3>1. m2 = m
      BY <1>13, <2>3 DEF Grows, m, m2
    <3>2. a2 = a /\ b2 = b /\ ~open2
      BY <1>7, <2>2, <2>3
    <3> QED BY <1>8, <3>1, <3>2
  <2>4. CASE team
    <3>1. LimitAllows(x, n) /\ m2 = Charged(x, n)
      BY <1>13, <2>4 DEF Grows, m, m2
    <3>2. x \in Members /\ x.month = at
      BY <1>3, <2>1, RolloverType
    <3>3. j \in Nat
      BY <2>1, <3>1, <3>2, RefillType
    <3>4. m2.month = at
      <4> HIDE DEF x
      <4> QED BY <2>1, <3>1, <3>2, ChargedMonth
    <3>5. m.month <= at
      BY <1>4, <1>9, <2>1, <2>2, <3>4
    <3>6. CASE at = month
      <4>1. m.month # month => s + a = 0 /\ c + b = 0
        BY <1>7, <1>8
      <4>2. Bears(x, s + a, c + b)
        BY <1>3, <1>8, <1>10, <3>6, <4>1, RolloverBears
      <4> HIDE DEF x
      <4>3. Bears(m2, (s + a) + n, (c + b) + j)
        BY <1>10, <2>1, <3>1, <3>2, <3>6, <4>2, ChargedBears
      <4> HIDE DEF j
      <4>4. /\ (s + a) + n \in Nat /\ (c + b) + j \in Nat
            /\ s + a2 <= (s + a) + n /\ c + b2 <= (c + b) + j
        BY <1>4, <2>1, <2>2, <2>4, <3>3
      <4>5. Bears(m2, s + a2, c + b2)
        BY <1>11, <4>3, <4>4
      <4> QED BY <3>4, <3>6, <4>5
    <3>7. CASE at # month
      <4>1. m.month # month
        BY <1>1, <1>4, <2>1, <3>5, <3>7
      <4>2. ~open2
        BY <1>8, <2>2, <3>7, <4>1
      <4> QED BY <3>4, <3>7, <4>1, <4>2 DEF Bears
    <3> QED BY <3>6, <3>7
  <2> QED BY <2>3, <2>4
<1>14. CASE Closes(r, t, v)
  <2>1. ~open2 /\ a2 = 0 /\ b2 = 0 /\ r.status = "active" /\ r.user = v
    BY <1>6, <1>7, <1>14 DEF Closes
  <2>2. s + a2 = s /\ c + b2 = c
    BY <2>1
  <2>3. Bears(m, s, c)
    <3>1. s <= s + a /\ c <= c + b /\ m.spent \in Nat /\ m.count \in Nat
      BY <1>3, <1>4 DEF Members
    <3> QED BY <1>8, <1>10, <3>1 DEF Bears
  <2>4. ASSUME NEW i \in Nat, i <= r.amount
        PROVE  /\ Bears(Released(m, r, i), s, c)
               /\ Released(m, r, i).month = m.month
    <3>1. CASE open
      <4>1. m.month = month /\ Bears(m, s + r.amount, c + r.countDelta)
        BY <1>7, <1>8, <3>1
      <4> QED BY <1>3, <2>4, <4>1, ReleasedBears, ReleasedParts
    <3>2. CASE ~open
      <4>1. \/ r.sponsored
            \/ r.month # month
            \/ r.user = r.payer /\ r.limitDelta = 0 /\ r.countDelta = 0
        BY <1>6, <2>1, <3>2 DEF Timely, Active, TeamHold, r
      <4>2. Released(m, r, i) = m
        BY <1>3, <4>1, ReleasedSame
      <4> QED BY <2>3, <4>2
    <3> QED BY <3>1, <3>2
  <2>5. CASE m2 = m
    BY <2>1, <2>2, <2>3, <2>5
  <2>6. ASSUME NEW i \in Nat, i <= r.amount, m2 = Released(m, r, i) PROVE Goal
    BY <2>1, <2>2, <2>4, <2>6
  <2>7. ASSUME NEW n \in Nat, LimitAllows(AfterRollover(Released(m, r, r.amount), month), n),
               m2 = Charged(AfterRollover(Released(m, r, r.amount), month), n)
        PROVE  Goal
    <3> DEFINE y == Released(m, r, r.amount)
               x == AfterRollover(y, month)
               j == RefillCount(x, n)
    <3>1. y \in Members /\ Bears(y, s, c) /\ y.month = m.month
      <4>1. r.amount <= r.amount
        BY <1>5
      <4> QED BY <1>3, <1>5, <2>4, <4>1, ReleasedType
    <3> HIDE DEF y
    <3>2. Bears(x, s, c) /\ x \in Members /\ x.month = month
      BY <1>1, <1>8, <3>1, RolloverBears, RolloverType
    <3>3. LimitAllows(x, n) /\ m2 = Charged(x, n)
      BY <2>7 DEF y
    <3> HIDE DEF x
    <3>4. j \in Nat
      BY <3>2, <3>3, RefillType
    <3>5. Bears(m2, s + n, c + j) /\ m2.month = month
      BY <3>2, <3>3, ChargedBears, ChargedMonth
    <3> HIDE DEF j
    <3>6. s + n \in Nat /\ c + j \in Nat /\ s <= s + n /\ c <= c + j
      BY <3>4
    <3>7. Bears(m2, s + a2, c + b2)
      BY <1>11, <2>2, <3>5, <3>6
    <3> QED BY <3>5, <3>7
  <2> QED
    <3>1. \/ m2 = m
          \/ \E i \in Nat : i <= r.amount /\ m2 = Released(m, r, i)
          \/ \E n \in Nat : /\ LimitAllows(AfterRollover(Released(m, r, r.amount), month), n)
                            /\ m2 = Charged(AfterRollover(Released(m, r, r.amount), month), n)
      BY <1>14 DEF Closes, m, m2
    <3> HIDE DEF Goal
    <3> QED BY <2>5, <2>6, <2>7, <3>1
<1> HIDE DEF Goal
<1> QED
  BY <1>12, <1>13, <1>14 DEF Moves, r, t

\* The limit of v stays what is configured and what the other holds, of raises
\* l, and h have raised it by.
LEMMA MovesRestore ==
  ASSUME TypeOK, TypeOK', NEW h \in Holds, NEW v \in Users, Moves(h, v), Timely(h),
         NEW l \in Nat, Restores(member[v], l + Raises(h, v), configured[v])
  PROVE  Restores(member[v], l + Raises(h, v), configured[v])'
<1> DEFINE m == member[v]
           m2 == member'[v]
           k == configured[v]
           r == hold[h]
           t == hold'[h]
           d == Raises(h, v)
           d2 == Raises(h, v)'
           open == OpenThisMonth(h, v)
           open2 == OpenThisMonth(h, v)'
           Goal == Restores(m2, l + d2, k)
<1>1. month' = month /\ configured' = configured /\ month \in Nat /\ k \in Optional(Nat)
  BY DEF TypeOK, Moves, OnlyHold
<1>2. SUFFICES Goal
  BY <1>1 DEF Restores
<1>3. m \in Members /\ m2 \in Members /\ r \in Rows /\ t \in Rows
  BY DEF TypeOK
<1>4. d \in Nat /\ d2 \in Nat /\ l + d \in Nat /\ l + d2 \in Nat /\ l <= l + d
  <2>1. d \in Nat /\ d2 \in Nat
    BY SpendType, SpendTypeNext
  <2> HIDE DEF d, d2
  <2> QED BY <2>1
<1>5. /\ open = (r.user = v /\ r.payer # v /\ ~r.sponsored /\ r.status = "active" /\ r.month = month)
      /\ open2 = (t.user = v /\ t.payer # v /\ ~t.sponsored /\ t.status = "active" /\ t.month = month)
  BY <1>1 DEF OpenThisMonth, TeamHold, Active
<1>6. d = (IF open THEN r.limitDelta ELSE 0) /\ d2 = (IF open2 THEN t.limitDelta ELSE 0)
  BY DEF Raises
<1>7. Restores(m, l + d, k)
  OBVIOUS
<1> HIDE DEF m, m2, k, r, t, d, d2, open, open2
<1>8. CASE Marks(r, t, v)
  <2>1. d2 = d /\ m2 = m
    BY <1>5, <1>6, <1>8 DEF Marks, SameTerms, m, m2
  <2> QED BY <1>7, <2>1
<1>9. ASSUME NEW n \in Amounts, NEW at \in 1..month, Grows(r, t, v, n, at) PROVE Goal
  <2> DEFINE team == ~t.sponsored /\ t.payer # v
             x == AfterRollover(m, at)
             e == LimitDelta(x, n)
  <2>1. n \in Nat /\ at \in Nat
    BY <1>1, AmountsAssumption
  <2>2. /\ open2 => team
        /\ open => team
        /\ team => d2 <= d + e
    BY <1>1, <1>9, GrowsAdds DEF m, r, t, d, d2, open, open2
  <2>3. CASE ~team
    <3>1. m2 = m
      BY <1>9, <2>3 DEF Grows, m, m2
    <3>2. d2 = d
      BY <1>6, <2>2, <2>3
    <3> QED BY <1>7, <3>1, <3>2
  <2>4. CASE team
    <3>1. LimitAllows(x, n) /\ m2 = Charged(x, n)
      BY <1>9, <2>4 DEF Grows, m, m2
    <3>2. x \in Members /\ Restores(x, l + d, k)
      BY <1>3, <1>7, <2>1, RolloverType, RolloverRestores
    <3> HIDE DEF x
    <3>3. Restores(m2, (l + d) + e, k) /\ e \in Nat
      BY <1>1, <1>4, <2>1, <3>1, <3>2, ChargedRestores, RefillType
    <3> HIDE DEF e
    <3>4. (l + d) + e \in Nat /\ l + d2 <= (l + d) + e
      BY <1>4, <2>2, <2>4, <3>3
    <3> QED BY <1>1, <1>3, <1>4, <3>3, <3>4, RestoresLess
  <2> QED BY <2>3, <2>4
<1>10. CASE Closes(r, t, v)
  <2>1. l + d2 = l /\ r.status = "active" /\ r.user = v /\ r.amount \in Nat
    <3>1. ~open2 /\ r.status = "active" /\ r.user = v
      BY <1>5, <1>10 DEF Closes
    <3>2. r.amount \in Nat
      BY <1>3 DEF Rows
    <3> QED BY <1>6, <3>1, <3>2
  <2>2. Restores(m, l, k)
    BY <1>1, <1>3, <1>4, <1>7, RestoresLess
  <2>3. ASSUME NEW i \in Nat PROVE Restores(Released(m, r, i), l, k)
    <3>1. CASE open
      <4>1. Restores(m, l + r.limitDelta, k)
        BY <1>6, <1>7, <3>1
      <4> QED BY <1>1, <1>3, <4>1, ReleasedRestores
    <3>2. CASE ~open
      <4>1. \/ r.sponsored
            \/ r.month # month
            \/ r.user = r.payer /\ r.limitDelta = 0 /\ r.countDelta = 0
        BY <1>5, <2>1, <3>2 DEF Timely, Active, TeamHold, r
      <4>2. Released(m, r, i) = m
        BY <1>3, <4>1, ReleasedSame
      <4> QED BY <2>2, <4>2
    <3> QED BY <3>1, <3>2
  <2>4. ASSUME NEW n \in Nat, LimitAllows(AfterRollover(Released(m, r, r.amount), month), n),
               m2 = Charged(AfterRollover(Released(m, r, r.amount), month), n)
        PROVE  Goal
    <3> DEFINE y == Released(m, r, r.amount)
               x == AfterRollover(y, month)
               e == LimitDelta(x, n)
    <3>1. y \in Members /\ Restores(y, l, k)
      BY <1>3, <2>1, <2>3, ReleasedType
    <3> HIDE DEF y
    <3>2. x \in Members /\ Restores(x, l, k)
      BY <1>1, <3>1, RolloverType, RolloverRestores
    <3>3. LimitAllows(x, n) /\ m2 = Charged(x, n)
      BY <2>4 DEF y
    <3> HIDE DEF x
    <3>4. Restores(m2, l + e, k) /\ e \in Nat
      BY <1>1, <3>2, <3>3, ChargedRestores, RefillType
    <3> HIDE DEF e
    <3>5. l + e \in Nat /\ l <= l + e
      BY <3>4
    <3>6. Restores(m2, l, k)
      BY <1>1, <1>3, <3>4, <3>5, RestoresLess
    <3> QED BY <2>1, <3>6
  <2> QED
    <3>1. \/ m2 = m
          \/ \E i \in Nat : m2 = Released(m, r, i)
          \/ \E n \in Nat : /\ LimitAllows(AfterRollover(Released(m, r, r.amount), month), n)
                            /\ m2 = Charged(AfterRollover(Released(m, r, r.amount), month), n)
      BY <1>10 DEF Closes, m, m2
    <3>2. CASE m2 = m
      BY <2>1, <2>2, <3>2
    <3>3. ASSUME NEW i \in Nat, m2 = Released(m, r, i) PROVE Goal
      BY <2>1, <2>3, <3>3
    <3> HIDE DEF Goal
    <3> QED BY <2>4, <3>1, <3>2, <3>3
<1> HIDE DEF Goal
<1> QED
  BY <1>8, <1>9, <1>10 DEF Moves, r, t

\* A change of one summand leaves the total of the others.
LEMMA SumRest ==
  ASSUME NEW h \in Holds, NEW f, NEW g, \A x \in Holds : f[x] \in Nat /\ g[x] \in Nat,
         \A x \in Holds \ {h} : f[x] = g[x]
  PROVE  \E s \in Nat : /\ SumOver(Holds, f) = s + f[h]
                        /\ SumOver(Holds, g) = s + g[h]
                        /\ (\A x \in Holds \ {h} : f[x] = 0) => s = 0
<1> DEFINE s == SumOver(Holds \ {h}, f)
<1>1. IsFiniteSet(Holds) /\ IsFiniteSet(Holds \ {h})
  BY HoldsAssumption, FS_Difference
<1>2. s \in Nat
  BY <1>1, SumType
<1>3. SumOver(Holds, f) = f[h] + s
  BY <1>1, SumSplit
<1>4. SumOver(Holds, g) = g[h] + SumOver(Holds \ {h}, g)
  BY <1>1, SumSplit
<1>5. SumOver(Holds \ {h}, g) = s
  BY SumCongruence
<1>6. (\A x \in Holds \ {h} : f[x] = 0) => s = 0
  BY SumZero
<1> HIDE DEF s
<1>7. SumOver(Holds, f) = s + f[h] /\ SumOver(Holds, g) = s + g[h]
  BY <1>2, <1>3, <1>4, <1>5
<1> QED
  BY <1>2, <1>6, <1>7

LEMMA OpenSums ==
  ASSUME NEW u \in Users
  PROVE  /\ OpenSpend(u) = SumOver(Holds, [x \in Holds |-> Spend(x, u)])
         /\ OpenRefills(u) = SumOver(Holds, [x \in Holds |-> Refills(x, u)])
         /\ OpenRaises(u) = SumOver(Holds, [x \in Holds |-> Raises(x, u)])
BY DEF OpenSpend, OpenRefills, OpenRaises, Spend, Refills, Raises

LEMMA OpenSumsNext ==
  ASSUME NEW u \in Users
  PROVE  /\ OpenSpend(u)' = SumOver(Holds, [x \in Holds |-> Spend(x, u)'])
         /\ OpenRefills(u)' = SumOver(Holds, [x \in Holds |-> Refills(x, u)'])
         /\ OpenRaises(u)' = SumOver(Holds, [x \in Holds |-> Raises(x, u)'])
BY DEF OpenSpend, OpenRefills, OpenRaises, Spend, Refills, Raises, OpenThisMonth

\* The other holds count for v what they counted.
LEMMA MovesOthers ==
  ASSUME NEW h \in Holds, NEW v \in Users, Moves(h, v), NEW u \in Users
  PROVE  \A x \in Holds \ {h} :
           /\ OpenThisMonth(x, u)' = OpenThisMonth(x, u) /\ hold'[x] = hold[x]
           /\ Spend(x, u)' = Spend(x, u) /\ Refills(x, u)' = Refills(x, u)
           /\ Raises(x, u)' = Raises(x, u)
<1>1. \A x \in Holds \ {h} : OpenThisMonth(x, u)' = OpenThisMonth(x, u) /\ hold'[x] = hold[x]
  BY DEF Moves, OnlyHold, OpenThisMonth, TeamHold, Active
<1> QED
  BY <1>1 DEF Spend, Refills, Raises

\* An operation keeps the row of its member covering its open holds, unless it
\* dates the row back.
LEMMA MovesCovers ==
  ASSUME TypeOK, TypeOK', AllTimely, NEW h \in Holds, NEW v \in Users, Moves(h, v),
         Covered(v), ~DatedBack(v)
  PROVE  Covered(v)'
<1> DEFINE fs == [x \in Holds |-> Spend(x, v)]
           fc == [x \in Holds |-> Refills(x, v)]
           gs == [x \in Holds |-> Spend(x, v)']
           gc == [x \in Holds |-> Refills(x, v)']
<1>1. /\ \A x \in Holds : fs[x] \in Nat /\ gs[x] \in Nat
      /\ \A x \in Holds : fc[x] \in Nat /\ gc[x] \in Nat
  BY SpendType, SpendTypeNext
<1>2. /\ \A x \in Holds \ {h} : OpenThisMonth(x, v)' = OpenThisMonth(x, v)
      /\ \A x \in Holds \ {h} : fs[x] = gs[x]
      /\ \A x \in Holds \ {h} : fc[x] = gc[x]
  BY MovesOthers
<1>3. /\ fs[h] = Spend(h, v) /\ gs[h] = Spend(h, v)'
      /\ fc[h] = Refills(h, v) /\ gc[h] = Refills(h, v)'
  OBVIOUS
<1>4. /\ OpenSpend(v) = SumOver(Holds, fs) /\ OpenSpend(v)' = SumOver(Holds, gs)
      /\ OpenRefills(v) = SumOver(Holds, fc) /\ OpenRefills(v)' = SumOver(Holds, gc)
  BY OpenSums, OpenSumsNext
<1>5. (\A x \in Holds : ~OpenThisMonth(x, v)) => \A x \in Holds : fs[x] = 0 /\ fc[x] = 0
  BY DEF Spend, Refills
<1> HIDE DEF fs, fc, gs, gc
<1>6. PICK s \in Nat : /\ SumOver(Holds, fs) = s + fs[h]
                       /\ SumOver(Holds, gs) = s + gs[h]
                       /\ (\A x \in Holds \ {h} : fs[x] = 0) => s = 0
  BY <1>1, <1>2, SumRest
<1>7. PICK c \in Nat : /\ SumOver(Holds, fc) = c + fc[h]
                       /\ SumOver(Holds, gc) = c + gc[h]
                       /\ (\A x \in Holds \ {h} : fc[x] = 0) => c = 0
  BY <1>1, <1>2, SumRest
<1>8. /\ \A x \in Holds : OpenThisMonth(x, v) => member[v].month = month
      /\ Bears(member[v], OpenSpend(v), OpenRefills(v))
      /\ Timely(h)
  BY DEF AllTimely, Covered, Bears
<1>9. Bears(member[v], s + Spend(h, v), c + Refills(h, v))
  BY <1>3, <1>4, <1>6, <1>7, <1>8
<1>10. member[v].month # month => s = 0 /\ c = 0
  BY <1>5, <1>6, <1>7, <1>8
<1>11. /\ Bears(member[v], s + Spend(h, v), c + Refills(h, v))'
       /\ member[v].month = month \/ OpenThisMonth(h, v)' => member'[v].month = month
  BY <1>8, <1>9, <1>10, MovesBear
<1>12. Bears(member[v], OpenSpend(v), OpenRefills(v))'
  <2>1. OpenSpend(v)' = s + Spend(h, v)' /\ OpenRefills(v)' = c + Refills(h, v)'
    BY <1>3, <1>4, <1>6, <1>7
  <2> QED BY <1>11, <2>1 DEF Bears
<1>13. month' = month
  BY DEF Moves, OnlyHold
<1>14. ASSUME NEW x \in Holds, OpenThisMonth(x, v)' PROVE member'[v].month = month
  BY <1>2, <1>8, <1>11, <1>14
<1> QED
  BY <1>12, <1>13, <1>14 DEF Covered, Bears

\* An operation keeps the limit of its member restorable.
LEMMA MovesRestorable ==
  ASSUME TypeOK, TypeOK', AllTimely, NEW h \in Holds, NEW v \in Users, Moves(h, v),
         Restorable(v)
  PROVE  Restorable(v)'
<1> DEFINE f == [x \in Holds |-> Raises(x, v)]
           g == [x \in Holds |-> Raises(x, v)']
<1>1. \A x \in Holds : f[x] \in Nat /\ g[x] \in Nat
  BY SpendType, SpendTypeNext
<1>2. \A x \in Holds \ {h} : f[x] = g[x]
  BY MovesOthers
<1>3. /\ f[h] = Raises(h, v) /\ g[h] = Raises(h, v)'
      /\ OpenRaises(v) = SumOver(Holds, f) /\ OpenRaises(v)' = SumOver(Holds, g)
  BY OpenSums, OpenSumsNext
<1> HIDE DEF f, g
<1>4. PICK l \in Nat : SumOver(Holds, f) = l + f[h] /\ SumOver(Holds, g) = l + g[h]
  BY <1>1, <1>2, SumRest
<1>5. Restores(member[v], l + Raises(h, v), configured[v]) /\ Timely(h)
  BY <1>3, <1>4 DEF Restorable, AllTimely
<1>6. Restores(member[v], l + Raises(h, v), configured[v])'
  BY <1>5, MovesRestore
<1>7. OpenRaises(v)' = l + Raises(h, v)'
  BY <1>3, <1>4
<1> QED
  BY <1>6, <1>7 DEF Restorable, Restores

\* It leaves everybody else alone.
LEMMA MovesElsewhere ==
  ASSUME TypeOK, NEW h \in Holds, NEW v \in Users, Moves(h, v), NEW u \in Users \ {v}
  PROVE  (Covered(u) => Covered(u)') /\ (Restorable(u) => Restorable(u)')
<1>1. member'[u] = member[u] /\ configured'[u] = configured[u] /\ month' = month
  BY DEF Moves, OnlyHold
<1>2. /\ hold[h].status = "active" => hold[h].user = v
      /\ hold'[h].status = "active" => hold'[h].user = v
  BY DEF Moves, Marks, Grows, Closes, SameTerms
<1>3. ~OpenThisMonth(h, u) /\ ~OpenThisMonth(h, u)'
  BY <1>2 DEF OpenThisMonth, TeamHold, Active
<1>4. \A x \in Holds : OpenThisMonth(x, u)' = OpenThisMonth(x, u)
  BY <1>3, MovesOthers DEF OpenThisMonth, TeamHold, Active
<1>5. \A x \in Holds : /\ Spend(x, u)' = Spend(x, u) /\ Refills(x, u)' = Refills(x, u)
                       /\ Raises(x, u)' = Raises(x, u)
  BY <1>3, MovesOthers DEF Spend, Refills, Raises
<1>6. /\ OpenSpend(u)' = OpenSpend(u) /\ OpenRefills(u)' = OpenRefills(u)
      /\ OpenRaises(u)' = OpenRaises(u)
  <2>1. /\ [x \in Holds |-> Spend(x, u)'] = [x \in Holds |-> Spend(x, u)]
        /\ [x \in Holds |-> Refills(x, u)'] = [x \in Holds |-> Refills(x, u)]
        /\ [x \in Holds |-> Raises(x, u)'] = [x \in Holds |-> Raises(x, u)]
    BY <1>5
  <2> QED BY <2>1, OpenSums, OpenSumsNext
<1> QED
  BY <1>1, <1>4, <1>6 DEF Covered, Restorable, Restores

\* A member without an open hold of the month has nothing to bear.
Idle(u) == \A x \in Holds : ~OpenThisMonth(x, u)

IdleCarriesNothing ==
  \A u \in Users : Idle(u) => OpenSpend(u) = 0 /\ OpenRefills(u) = 0 /\ OpenRaises(u) = 0

LEMMA IdleCarries == IdleCarriesNothing
<1> SUFFICES ASSUME NEW u \in Users, Idle(u)
             PROVE  OpenSpend(u) = 0 /\ OpenRefills(u) = 0 /\ OpenRaises(u) = 0
  BY DEF IdleCarriesNothing
<1> DEFINE f == [x \in Holds |-> Spend(x, u)]
           g == [x \in Holds |-> Refills(x, u)]
           k == [x \in Holds |-> Raises(x, u)]
<1>1. \A x \in Holds : f[x] = 0 /\ g[x] = 0 /\ k[x] = 0
  BY DEF Idle, Spend, Refills, Raises
<1>2. /\ OpenSpend(u) = SumOver(Holds, f) /\ OpenRefills(u) = SumOver(Holds, g)
      /\ OpenRaises(u) = SumOver(Holds, k)
  BY OpenSums
<1> HIDE DEF f, g, k
<1> QED
  BY <1>1, <1>2, SumZero

LEMMA IdleCarriesNext == IdleCarriesNothing'
BY IdleCarries, PTL

LEMMA IdleCoveredNext ==
  ASSUME TypeOK', NEW u \in Users, Idle(u)'
  PROVE  Covered(u)'
<1>1. OpenSpend(u)' = 0 /\ OpenRefills(u)' = 0
  BY IdleCarriesNext DEF IdleCarriesNothing
<1>2. 0 <= member'[u].spent /\ 0 <= member'[u].count
  BY DEF TypeOK, Members
<1> QED
  BY <1>1, <1>2 DEF Covered, Idle

\* A month begins without holds of its own, and who has no hold open has none
\* of this month.
LEMMA IdleNext ==
  ASSUME TypeOK, AllTimely, NEW u \in Users, hold' = hold,
         month' = month + 1 \/ (month' = month /\ \A h \in Holds : ~(Active(h) /\ TeamHold(h, u)))
  PROVE  Idle(u)'
<1>1. \A h \in Holds : Active(h) => hold[h].month \in Nat /\ hold[h].month <= month
  BY DEF AllTimely, Timely, TypeOK, Rows
<1>2. month \in Nat
  BY DEF TypeOK
<1>3. CASE month' = month + 1
  BY <1>1, <1>2, <1>3 DEF Idle, OpenThisMonth, Active
<1>4. CASE month' = month /\ \A h \in Holds : ~(Active(h) /\ TeamHold(h, u))
  BY <1>4 DEF Idle, OpenThisMonth, Active, TeamHold
<1> QED
  BY <1>3, <1>4

LEMMA EnvironmentTimely ==
  ASSUME TypeOK, AllTimely, Environment
  PROVE  AllTimely'
<1>1. hold' = hold /\ month \in Nat /\ (month' = month \/ month' = month + 1)
  BY EnvironmentStep DEF PolicyChange, TypeOK
<1>2. \A h \in Holds : hold[h].month \in Nat
  BY DEF TypeOK, Rows
<1> QED
  BY <1>1, <1>2 DEF AllTimely, Timely, Active, TeamHold

LEMMA TimelyHolds == Spec => []AllTimely
<1>1. Init => AllTimely
  BY DEF Init, AllTimely, Timely, Active, EmptyRow
<1>2. TypeOK /\ AllTimely /\ [Next]_vars => AllTimely'
  <2> SUFFICES ASSUME TypeOK, AllTimely, [Next]_vars PROVE AllTimely'
    OBVIOUS
  <2>1. ASSUME NEW h \in Holds, Operation(h) PROVE AllTimely'
    BY <2>1, OperationMoves, MovesTimely DEF AllTimely
  <2>2. CASE Environment
    BY <2>2, EnvironmentTimely
  <2>3. CASE UNCHANGED vars
    BY <2>3 DEF vars, AllTimely, Timely, Active, TeamHold
  <2> QED
    BY <2>1, <2>2, <2>3 DEF Next
<1> QED
  BY <1>1, <1>2, TypeCorrect, PTL DEF Spec

\* Nothing in the surroundings of the ledger uncovers an open hold: a month
\* begins with none, and a refunded acquisition waits for the holds.
LEMMA EnvironmentCovers ==
  ASSUME TypeOK, TypeOK', AllTimely, Environment, NEW u \in Users, Covered(u)
  PROVE  Covered(u)'
<1>1. hold' = hold
  BY EnvironmentKeepsHolds
<1>2. ASSUME month' = month, CountKept(u) PROVE Covered(u)'
  <2>1. \A h \in Holds : OpenThisMonth(h, u)' = OpenThisMonth(h, u)
    BY <1>1, <1>2 DEF OpenThisMonth, TeamHold, Active
  <2>2. OpenSpend(u)' = OpenSpend(u) /\ OpenRefills(u)' = OpenRefills(u)
    BY <1>1, <2>1 DEF OpenSpend, OpenRefills
  <2> QED BY <1>2, <2>1, <2>2 DEF Covered, CountKept
<1>3. CASE month' = month + 1
  BY <1>1, <1>3, IdleNext, IdleCoveredNext
<1>4. ASSUME month' = month, CountReset(u) PROVE Covered(u)'
  <2>1. \A h \in Holds : ~(Active(h) /\ TeamHold(h, u))
    BY <1>4 DEF CountReset, HasActiveHold, TeamHold
  <2> QED BY <1>1, <1>4, <2>1, IdleNext, IdleCoveredNext
<1>5. ASSUME NEW w \in Users, PolicyChange(w) PROVE Covered(u)'
  <2>1. CASE w = u
    BY <1>2, <1>4, <1>5, <2>1 DEF PolicyChange
  <2>2. CASE w # u
    BY <1>2, <1>5, <2>2 DEF PolicyChange, CountKept
  <2> QED BY <2>1, <2>2
<1>6. CASE UNCHANGED <<month, member>>
  BY <1>2, <1>6 DEF CountKept
<1> QED
  BY <1>3, <1>5, <1>6, EnvironmentStep

\* A charge that read the clock before its transaction, and finds the month
\* turned, is the only step after which a member's spend and refill count of
\* the month no longer contain every open team hold of the month: it dates
\* the row back (reserve_usage and extend_ai_reservation take current_month
\* before BEGIN IMMEDIATE).  No other charge, release, rollover or change of
\* policy makes a later release clamp at zero and forget part of another hold.
THEOREM LedgerAllowanceCoversHolds == Spec => AllowanceCoversHolds
<1>1. TypeOK /\ TypeOK' /\ AllTimely /\ [Next]_vars =>
        [\A u \in Users : ~Covered(u)' /\ Covered(u) => DatedBack(u)]_<<member, hold, month>>
  <2> SUFFICES ASSUME TypeOK, TypeOK', AllTimely, [Next]_vars,
                      ~UNCHANGED <<member, hold, month>>,
                      NEW u \in Users, Covered(u), ~DatedBack(u)
               PROVE  Covered(u)'
    OBVIOUS
  <2>1. ASSUME NEW h \in Holds, Operation(h) PROVE Covered(u)'
    <3>1. PICK v \in Users : Moves(h, v)
      BY <2>1, OperationMoves
    <3> QED BY <3>1, MovesCovers, MovesElsewhere
  <2>2. CASE Environment
    BY <2>2, EnvironmentCovers
  <2> QED
    BY <2>1, <2>2 DEF Next, vars
<1> QED
  BY <1>1, TypeCorrect, TimelyHolds, PTL DEF Spec, AllowanceCoversHolds

LEMMA InitRestorable == Init => AllRestorable
<1> SUFFICES ASSUME Init, NEW u \in Users PROVE Restorable(u)
  BY DEF AllRestorable
<1>1. TypeOK
  BY InitType
<1>2. OpenRaises(u) = 0
  <2>1. Idle(u)
    BY DEF Init, EmptyRow, Idle, OpenThisMonth, Active
  <2> QED BY <2>1, IdleCarries DEF IdleCarriesNothing
<1>3. member[u].limit = configured[u]
  <2>1. PICK p \in [Users -> UNION {Policies[w] : w \in Users}] :
          /\ \A w \in Users : p[w] \in Policies[w]
          /\ member = [w \in Users |-> NewMember(p[w])]
          /\ configured = [w \in Users |-> p[w].limit]
    BY Zenon DEF Init
  <2> QED BY <2>1 DEF NewMember
<1>4. configured[u] \in Optional(Nat)
  BY <1>1 DEF TypeOK
<1> QED
  BY <1>2, <1>3, <1>4 DEF Restorable, Restores

\* Who sets a limit sets it under no open raise, or leaves the user among the
\* overwritten.
LEMMA EnvironmentRestorable ==
  ASSUME TypeOK, TypeOK', PayerFrozen, AllTimely, AllRestorable, Environment
  PROVE  AllRestorable'
<1> SUFFICES ASSUME NEW u \in Users, u \notin overwritten' PROVE Restorable(u)'
  BY DEF AllRestorable, TypeOK
<1>1. hold' = hold
  BY EnvironmentKeepsHolds
<1>2. ASSUME month' = month, u \notin overwritten, member'[u].limit = member[u].limit,
             configured'[u] = configured[u]
      PROVE  Restorable(u)'
  <2>1. \A h \in Holds : OpenThisMonth(h, u)' = OpenThisMonth(h, u)
    BY <1>1, <1>2 DEF OpenThisMonth, TeamHold, Active
  <2>2. OpenRaises(u)' = OpenRaises(u)
    BY <1>1, <2>1 DEF OpenRaises, Raises
  <2>3. Restorable(u)
    BY <1>2 DEF AllRestorable
  <2> QED BY <1>2, <2>2, <2>3 DEF Restorable, Restores
<1>3. CASE month' = month + 1 /\ UNCHANGED <<member, configured, overwritten>>
  <2>1. OpenRaises(u)' = 0
    BY <1>1, <1>3, IdleNext, IdleCarriesNext DEF IdleCarriesNothing
  <2>2. OpenRaises(u) \in Nat
    <3> DEFINE f == [x \in Holds |-> Raises(x, u)]
    <3>1. \A x \in Holds : f[x] \in Nat
      BY SpendType
    <3> HIDE DEF f
    <3>2. SumOver(Holds, f) \in Nat
      BY <3>1, HoldsAssumption, SumType
    <3> QED BY <3>2, OpenSums DEF f
  <2>3. Restores(member[u], OpenRaises(u), configured[u])
    BY <1>3 DEF AllRestorable, Restorable
  <2>4. member[u] \in Members /\ configured[u] \in Optional(Nat) /\ 0 <= OpenRaises(u)
    BY <2>2 DEF TypeOK
  <2>5. Restores(member[u], 0, configured[u])
    BY <2>2, <2>3, <2>4, RestoresLess
  <2> QED BY <1>3, <2>1, <2>5 DEF Restorable, Restores
<1>4. ASSUME PolicySet(u), month' = month PROVE Restorable(u)'
  <2>1. ASSUME NEW h \in Holds, Active(h), TeamHold(h, u) PROVE FALSE
    <3>1. hold[h].user = u /\ hold[h].payer \in Users
      BY <2>1 DEF TypeOK, Rows, TeamHold
    <3>2. HasActiveHold(u)
      BY <2>1, <3>1 DEF HasActiveHold
    <3>3. u \notin overwritten => member[u].payer = hold[h].payer
      BY <2>1, <3>1 DEF PayerFrozen
    <3> QED BY <1>4, <3>1, <3>2, <3>3, NullAssumption DEF PolicySet
  <2>2. OpenRaises(u)' = 0
    BY <1>1, <1>4, <2>1, IdleNext, IdleCarriesNext DEF IdleCarriesNothing
  <2>3. member'[u].limit = configured'[u] /\ configured'[u] \in Optional(Nat)
    BY <1>4 DEF PolicySet, TypeOK
  <2> QED BY <2>2, <2>3 DEF Restorable, Restores
<1>5. ASSUME NEW w \in Users, PolicyChange(w) PROVE Restorable(u)'
  <2>1. CASE w # u
    BY <1>2, <1>5, <2>1 DEF PolicyChange
  <2>2. CASE w = u /\ PolicyKept(u)
    BY <1>2, <1>5, <2>2 DEF PolicyChange, PolicyKept
  <2>3. CASE w = u /\ PolicySet(u)
    BY <1>4, <1>5, <2>3 DEF PolicyChange
  <2> QED BY <1>5, <2>1, <2>2, <2>3 DEF PolicyChange
<1>6. CASE UNCHANGED <<month, member, configured, overwritten>>
  BY <1>2, <1>6
<1> QED
  BY <1>3, <1>5, <1>6, EnvironmentStep

\* In every reachable state a limit that no edit overwrote bears the raises of
\* the open holds on top of what is configured.
LEMMA LimitsRestorable == Spec => []AllRestorable
<1>1. Init => AllRestorable
  BY InitRestorable
<1>2. TypeOK /\ TypeOK' /\ PayerFrozen /\ AllTimely /\ AllRestorable /\ [Next]_vars =>
        AllRestorable'
  <2> SUFFICES ASSUME TypeOK, TypeOK', PayerFrozen, AllTimely, AllRestorable, [Next]_vars
               PROVE  AllRestorable'
    OBVIOUS
  <2>1. ASSUME NEW h \in Holds, Operation(h) PROVE AllRestorable'
    <3>1. PICK v \in Users : Moves(h, v)
      BY <2>1, OperationMoves
    <3>2. overwritten' = overwritten
      BY <2>1, OperationKeepsPolicies
    <3> QED BY <3>1, <3>2, MovesRestorable, MovesElsewhere DEF AllRestorable
  <2>2. CASE Environment
    BY <2>2, EnvironmentRestorable
  <2>3. CASE UNCHANGED vars
    BY <2>3 DEF vars, AllRestorable, Restorable, Restores, OpenRaises, Raises, OpenThisMonth,
                TeamHold, Active
  <2> QED
    BY <2>1, <2>2, <2>3 DEF Next
<1> QED
  BY <1>1, <1>2, TypeCorrect, PayerStaysFrozen, TimelyHolds, PTL DEF Spec

\* Undoing auto-refills, in whatever order their holds close, never takes a
\* limit below the one a person configured, since each open hold's raise is
\* still on top of it, unless an edit wrote an old limit over an open refill.
THEOREM LedgerLimitNotEroded == Spec => []LimitNotEroded
<1>1. TypeOK /\ AllRestorable => LimitNotEroded
  <2> SUFFICES ASSUME TypeOK, AllRestorable, NEW u \in Users \ overwritten
               PROVE  IF configured[u] = NULL THEN member[u].limit = NULL
                      ELSE member[u].limit # NULL /\ configured[u] <= member[u].limit
    BY DEF LimitNotEroded
  <2> DEFINE f == [x \in Holds |-> Raises(x, u)]
  <2>1. \A x \in Holds : f[x] \in Nat
    BY SpendType
  <2>2. OpenRaises(u) = SumOver(Holds, f)
    BY OpenSums
  <2> HIDE DEF f
  <2>3. OpenRaises(u) \in Nat
    BY <2>1, <2>2, HoldsAssumption, SumType
  <2>4. configured[u] \in Optional(Nat) /\ member[u].limit \in Optional(Nat)
    BY DEF TypeOK, Members
  <2> QED BY <2>3, <2>4, NullAssumption DEF AllRestorable, Restorable, Restores
<1> QED
  BY <1>1, TypeCorrect, LimitsRestorable, PTL

----------------------------------------------------------------------------
(* Spending within a limit that binds *)

\* A member is counted in no month that has not begun.
Dated == \A u \in Users : member[u].month <= month

RowInLimit(m) == m.action # "notify" /\ m.limit # NULL /\ m.month = month => m.spent <= m.limit

\* Member row m2 replaces m: it is of the same month or of one that has begun,
\* under the same policy, and within its limit if m was.
Follows(m, m2) ==
  /\ m2.month \in {m.month} \cup 0..month /\ m2.action = m.action
  /\ RowInLimit(m) => RowInLimit(m2)

LEMMA RolloverFollows ==
  ASSUME NEW m \in Members, month \in Nat, NEW at \in 0..month
  PROVE  Follows(m, AfterRollover(m, at))
<1> DEFINE x == AfterRollover(m, at)
<1>1. CASE m.month = at
  BY <1>1 DEF AfterRollover, Follows
<1>2. CASE m.month # at
  <2>1. x.spent = 0 /\ x.month = at /\ x.limit = m.limit /\ x.action = m.action
    BY <1>2 DEF AfterRollover, Members
  <2>2. x.limit \in Optional(Nat)
    BY <2>1 DEF Members
  <2> HIDE DEF x
  <2>3. RowInLimit(x)
    BY <2>1, <2>2 DEF RowInLimit
  <2>4. Follows(m, x)
    BY <2>1, <2>3 DEF Follows
  <2> QED BY <2>4 DEF x
<1> QED
  BY <1>1, <1>2

\* Enough refills are granted for the charge, and a maximum that caps them
\* has been checked to cover it.
LEMMA RaisedCovers ==
  ASSUME NEW m \in Members, NEW n \in Nat, LimitAllows(m, n), m.limit # NULL, m.action # "notify"
  PROVE  m.spent + n <= RaisedLimit(m, n)
<1>1. m.limit \in Nat /\ m.spent \in Nat /\ m.refill \in Nat /\ m.max \in Optional(Nat)
  BY DEF Members
<1>2. CASE WithinLimit(m, n)
  BY <1>2 DEF WithinLimit, RefillCount, RaisedLimit
<1>3. CASE ~WithinLimit(m, n)
  <2>1. /\ m.action = "auto_refill" /\ m.refill \in Nat \ {0}
        /\ m.spent + n - m.limit \in Nat \ {0}
        /\ m.max # NULL => m.spent + n <= m.max
    BY <1>1, <1>3 DEF LimitAllows, WithinLimit
  <2> DEFINE need == m.spent + n - m.limit
             k == CeilDiv(need, m.refill)
             p == k * m.refill
  <2>2. k \in Nat \ {0} /\ need <= p
    BY <2>1, CeilDivCovers
  <2>3. p \in Nat
    <3> HIDE DEF k
    <3> QED BY <2>1, <2>2
  <2>4. RefillCount(m, n) = k
    BY <1>3, <2>1 DEF RefillCount
  <2>5. RaisedLimit(m, n) = IF m.max # NULL /\ m.max < m.limit + p THEN m.max ELSE m.limit + p
    <3> HIDE DEF need
    <3> QED BY <2>2, <2>4 DEF RaisedLimit
  <2> HIDE DEF k, p
  <2>6. m.spent + n <= m.limit + p
    BY <1>1, <2>1, <2>2, <2>3
  <2> QED BY <1>1, <2>1, <2>3, <2>5, <2>6
<1> QED
  BY <1>2, <1>3

LEMMA ChargedFollows ==
  ASSUME NEW m \in Members, NEW n \in Nat, LimitAllows(m, n)
  PROVE  Follows(m, Charged(m, n))
<1> DEFINE x == Charged(m, n)
<1>1. /\ x.spent = m.spent + n /\ x.limit = RaisedLimit(m, n)
      /\ x.month = m.month /\ x.action = m.action
  BY DEF Charged, Members
<1>2. x.limit # NULL => m.limit # NULL
  BY <1>1, RefillType
<1> HIDE DEF x
<1>3. RowInLimit(x)
  BY <1>1, <1>2, RaisedCovers DEF RowInLimit
<1>4. Follows(m, x)
  BY <1>1, <1>3 DEF Follows
<1> QED
  BY <1>4 DEF x

\* A release lowers the limit at most to what is spent without the hold.
LEMMA ReleasedFollows ==
  ASSUME NEW m \in Members, NEW r \in Rows, NEW n \in Nat
  PROVE  Follows(m, Released(m, r, n))
<1>1. ASSUME NEW x \in Members, NEW y \in Members, NEW z, Follows(x, y), Follows(y, z)
      PROVE  Follows(x, z)
  BY <1>1 DEF Follows
<1>2. Follows(m, m)
  BY DEF Follows
<1>3. SpendReleased(m, r, n) \in Members /\ Follows(m, SpendReleased(m, r, n))
  <2> DEFINE x == SpendReleased(m, r, n)
  <2>1. m.spent \in Nat /\ m.limit \in Optional(Nat)
    BY DEF Members
  <2>2. Monus(m.spent, n) \in Nat /\ Monus(m.spent, n) <= m.spent
    BY <2>1 DEF Monus
  <2>3. x = m \/ x = [m EXCEPT !.spent = Monus(m.spent, n)]
    BY DEF SpendReleased
  <2>4. /\ x \in Members /\ x.spent \in Nat /\ x.spent <= m.spent
        /\ x.limit = m.limit /\ x.month = m.month /\ x.action = m.action
    <3> HIDE DEF x
    <3>1. CASE x = m
      BY <2>1, <3>1
    <3>2. CASE x = [m EXCEPT !.spent = Monus(m.spent, n)]
      <4> DEFINE k == Monus(m.spent, n)
      <4>1. k \in Nat /\ k <= m.spent /\ x = [m EXCEPT !.spent = k]
        BY <2>2, <3>2
      <4> HIDE DEF k
      <4> QED BY <4>1 DEF Members
    <3> QED BY <2>3, <3>1, <3>2
  <2> HIDE DEF x
  <2>5. Follows(m, x)
    BY <2>1, <2>4 DEF Follows, RowInLimit
  <2> QED BY <2>4, <2>5 DEF x
<1>4. ASSUME NEW x \in Members PROVE Follows(x, RefillReleased(x, r))
  <2> DEFINE lower == IF x.limit - r.limitDelta > x.spent THEN x.limit - r.limitDelta
                      ELSE x.spent
             limit == IF x.limit = NULL THEN NULL ELSE lower
             count == Monus(x.count, r.countDelta)
             y == [x EXCEPT !.limit = limit, !.count = count]
  <2>1. RefillReleased(x, r) \in {x, y}
    BY DEF RefillReleased
  <2>2. Follows(x, x)
    BY DEF Follows
  <2>3. x.spent \in Nat /\ x.limit \in Optional(Nat) /\ r.limitDelta \in Nat
    BY DEF Members, Rows
  <2>4. limit # NULL => x.spent <= limit
    BY <2>3
  <2> HIDE DEF lower, limit, count
  <2>5. y.spent = x.spent /\ y.limit = limit /\ y.month = x.month /\ y.action = x.action
    BY DEF Members
  <2> HIDE DEF y
  <2>6. Follows(x, y)
    BY <2>4, <2>5 DEF Follows, RowInLimit
  <2> QED BY <2>1, <2>2, <2>6
<1> QED
  BY <1>1, <1>2, <1>3, <1>4 DEF Released

\* Whatever an operation makes of the member's row follows the row before.
LEMMA MovesFollow ==
  ASSUME TypeOK, NEW h \in Holds, NEW v \in Users, Moves(h, v), NEW u \in Users
  PROVE  Follows(member[u], member'[u])
<1> DEFINE m == member[v]
           r == hold[h]
           back == Released(m, r, r.amount)
<1>1. m \in Members /\ r \in Rows /\ r.amount \in Nat /\ month \in Nat
  BY DEF TypeOK, Rows
<1>2. ASSUME NEW x \in Members, NEW y \in Members, NEW z, Follows(x, y), Follows(y, z)
      PROVE  Follows(x, z)
  BY <1>2 DEF Follows
<1>3. \A x : Follows(x, x)
  BY DEF Follows
<1>4. ASSUME NEW x \in Members, NEW n \in Nat, NEW at \in 0..month,
             LimitAllows(AfterRollover(x, at), n)
      PROVE  Follows(x, Charged(AfterRollover(x, at), n))
  <2>1. AfterRollover(x, at) \in Members /\ Follows(x, AfterRollover(x, at))
    BY <1>1, RolloverType, RolloverFollows
  <2>2. Follows(AfterRollover(x, at), Charged(AfterRollover(x, at), n))
    BY <1>4, <2>1, ChargedFollows
  <2> QED BY <1>2, <2>1, <2>2
<1>5. back \in Members /\ Follows(m, back)
  BY <1>1, ReleasedType, ReleasedFollows
<1>6. CASE u # v
  BY <1>3, <1>6 DEF Moves, OnlyHold
<1>7. CASE u = v
  <2>1. CASE Marks(r, hold'[h], v)
    BY <1>3, <1>7, <2>1 DEF Marks
  <2>2. ASSUME NEW n \in Amounts, NEW at \in 1..month, Grows(r, hold'[h], v, n, at)
        PROVE  Follows(member[u], member'[u])
    <3>1. n \in Nat /\ at \in 0..month
      BY <1>1, AmountsAssumption
    <3>2. \/ member'[v] = m
          \/ /\ LimitAllows(AfterRollover(m, at), n)
             /\ member'[v] = Charged(AfterRollover(m, at), n)
      BY <2>2 DEF Grows
    <3> QED BY <1>1, <1>3, <1>4, <1>7, <3>1, <3>2
  <2>3. CASE Closes(r, hold'[h], v)
    <3>1. CASE member'[v] = m
      BY <1>3, <1>7, <3>1
    <3>2. CASE \E c \in Nat : member'[v] = Released(m, r, c)
      BY <1>1, <1>7, <3>2, ReleasedFollows
    <3>3. ASSUME NEW n \in Nat, LimitAllows(AfterRollover(back, month), n),
                 member'[v] = Charged(AfterRollover(back, month), n)
          PROVE  Follows(member[u], member'[u])
      <4>1. Follows(back, Charged(AfterRollover(back, month), n))
        BY <1>1, <1>4, <1>5, <3>3
      <4>2. Follows(m, Charged(AfterRollover(back, month), n))
        <5>1. ASSUME NEW z, Follows(back, z) PROVE Follows(m, z)
          BY <1>5, <5>1 DEF Follows
        <5> QED BY <4>1, <5>1
      <4> QED BY <1>7, <3>3, <4>2
    <3> QED BY <2>3, <3>1, <3>2, <3>3 DEF Closes
  <2> QED BY <2>1, <2>2, <2>3 DEF Moves
<1> QED
  BY <1>6, <1>7

LEMMA DatedAlways == Spec => []Dated
<1>1. Init => Dated
  BY DEF Init, Dated, NewMember
<1>2. TypeOK /\ TypeOK' /\ Dated /\ [Next]_vars => Dated'
  <2> SUFFICES ASSUME TypeOK, TypeOK', Dated, [Next]_vars, NEW u \in Users
               PROVE  member'[u].month <= month'
    BY DEF Dated
  <2>1. member[u] \in Members /\ member[u].month \in Nat /\ month \in Nat /\ member[u].month <= month
    BY DEF TypeOK, Members, Dated
  <2>2. ASSUME NEW h \in Holds, Operation(h) PROVE member'[u].month <= month'
    <3>1. PICK v \in Users : Moves(h, v)
      BY <2>2, OperationMoves
    <3>2. month' = month
      BY <3>1 DEF Moves, OnlyHold
    <3>3. member'[u].month \in {member[u].month} \cup 0..month
      BY <3>1, MovesFollow DEF Follows
    <3> QED BY <2>1, <3>2, <3>3
  <2>3. CASE Environment
    <3>1. CASE month' = month + 1 /\ member' = member
      BY <2>1, <3>1
    <3>2. ASSUME NEW w \in Users, PolicyChange(w) PROVE member'[u].month <= month'
      BY <2>1, <3>2 DEF PolicyChange, CountKept, CountReset
    <3>3. CASE UNCHANGED <<month, member>>
      BY <2>1, <3>3
    <3> QED BY <2>3, <3>1, <3>2, <3>3, EnvironmentStep
  <2>4. CASE UNCHANGED vars
    BY <2>1, <2>4 DEF vars
  <2> QED
    BY <2>2, <2>3, <2>4 DEF Next
<1> QED
  BY <1>1, <1>2, TypeCorrect, PTL DEF Spec

\* No operation on a hold, and no turn of the month, takes a member whose
\* limit binds beyond it: a charge is refused or raises the limit enough, and
\* undoing a raise stops at what is spent without the hold.
THEOREM LedgerSpendStaysInLimit == Spec => SpendStaysInLimit
<1> DEFINE Stays == (hold' # hold \/ month' # month) => \A u \in Users : InLimit(u) => InLimit(u)'
<1>1. TypeOK /\ TypeOK' /\ Dated /\ [Next]_vars => [Stays]_vars
  <2> SUFFICES ASSUME TypeOK, TypeOK', Dated, Next, hold' # hold \/ month' # month,
                      NEW u \in Users, InLimit(u)
               PROVE  InLimit(u)'
    BY DEF Stays
  <2>1. /\ member[u] \in Members /\ member'[u] \in Members /\ month \in Nat
        /\ member[u].month <= month /\ member[u].month \in Nat
        /\ member[u].limit \in Optional(Nat) /\ member'[u].limit \in Optional(Nat)
    BY DEF TypeOK, Members, Dated
  <2>2. ASSUME NEW h \in Holds, Operation(h) PROVE InLimit(u)'
    <3>1. PICK v \in Users : Moves(h, v)
      BY <2>2, OperationMoves
    <3>2. month' = month
      BY <3>1 DEF Moves, OnlyHold
    <3>3. Follows(member[u], member'[u])
      BY <3>1, MovesFollow
    <3>4. RowInLimit(member[u])
      BY DEF InLimit, SpentNow, RowInLimit
    <3>5. RowInLimit(member'[u])
      BY <3>3, <3>4 DEF Follows
    <3> QED BY <2>1, <3>2, <3>5, NullAssumption DEF InLimit, SpentNow, RowInLimit
  <2>3. CASE MonthTurns
    <3>1. member'[u] = member[u] /\ member[u].month # month'
      BY <2>1, <2>3 DEF MonthTurns
    <3> QED BY <2>1, <3>1, NullAssumption DEF InLimit, SpentNow
  <2>4. CASE Environment
    BY <2>3, <2>4, EnvironmentKeepsHolds
       DEF Environment, TopUp, Chargeback, Unbind, Bind, ReadForEdit, Configure, WriteBack,
           AbandonEdit
  <2> QED
    BY <2>2, <2>4 DEF Next
<1> QED
  BY <1>1, TypeCorrect, DatedAlways, PTL DEF Spec, SpendStaysInLimit

----------------------------------------------------------------------------
(* What explains a member's spend *)

\* What of hold row r is part of this month's spend of member u: the amount of
\* an open hold of the month, or the charge of a hold settled for the month.
Counted(r, u) ==
  IF r.user # u \/ r.payer = u \/ r.sponsored THEN 0
  ELSE IF r.status = "active" /\ r.month = month THEN r.amount
  ELSE IF r.status = "settled" /\ (IF r.purpose = "ai" THEN r.settledMonth ELSE r.month) = month
  THEN r.settled
  ELSE 0

CountedSpend(u) == SumOver(Holds, [h \in Holds |-> Counted(hold[h], u)])

Explained == \A u \in Users : member[u].month = month => member[u].spent <= CountedSpend(u)

\* Member row m becomes m2, as what a hold counts for goes from e to e2: the
\* spend of the month grows by no more, or is no more than this hold's part.
Explains(m, m2, e, e2) ==
  m2.month = month => \/ m.month = month /\ m2.spent + e <= m.spent + e2
                      \/ m2.spent <= e2

\* An operation on hold h changes the spend of member v as it changes what h
\* counts for, which is nothing for anybody else.
Accounts(h, v) ==
  /\ OnlyHold(h, v)
  /\ \A u \in Users \ {v} : Counted(hold[h], u) = 0 /\ Counted(hold'[h], u) = 0
  /\ Explains(member[v], member'[v], Counted(hold[h], v), Counted(hold'[h], v))

LEMMA CountedType ==
  ASSUME NEW r \in Rows, NEW u
  PROVE  Counted(r, u) \in Nat
BY DEF Counted, Rows

LEMMA SameExplains ==
  ASSUME NEW m \in Members, NEW e \in Nat, NEW e2 \in Nat, e <= e2
  PROVE  Explains(m, m, e, e2)
<1>1. m.spent \in Nat
  BY DEF Members
<1> QED
  BY <1>1 DEF Explains

LEMMA ExplainsTransitive ==
  ASSUME NEW m \in Members, NEW m1 \in Members, NEW m2 \in Members,
         NEW e \in Nat, NEW e1 \in Nat, NEW e2 \in Nat,
         Explains(m, m1, e, e1), Explains(m1, m2, e1, e2)
  PROVE  Explains(m, m2, e, e2)
<1>1. m.spent \in Nat /\ m1.spent \in Nat /\ m2.spent \in Nat
  BY DEF Members
<1> QED
  BY <1>1 DEF Explains

\* A charge of n in this month is explained by a hold that counts for n more,
\* and a charge in another month leaves no spend of this one.
LEMMA ChargedExplains ==
  ASSUME NEW m \in Members, NEW at \in Nat, NEW n \in Nat, NEW e \in Nat, NEW e2 \in Nat,
         at = month => e + n <= e2
  PROVE  Explains(m, Charged(AfterRollover(m, at), n), e, e2)
<1> DEFINE x == AfterRollover(m, at)
           y == Charged(x, n)
<1>1. /\ x.spent = IF m.month = at THEN m.spent ELSE 0
      /\ x.month = at /\ x \in Members
  BY RolloverType DEF AfterRollover, Members
<1> HIDE DEF x
<1>2. y.spent = x.spent + n /\ y.month = at
  BY <1>1 DEF Charged, Members
<1>3. m.spent \in Nat
  BY DEF Members
<1> HIDE DEF y
<1>4. Explains(m, y, e, e2)
  BY <1>1, <1>2, <1>3 DEF Explains
<1> QED
  BY <1>4 DEF x, y

\* What a release leaves of the spend.
LEMMA ReleasedSpend ==
  ASSUME NEW m \in Members, NEW r \in Rows, NEW c \in Nat
  PROVE  /\ Released(m, r, c).month = m.month
         /\ Released(m, r, c).spent = IF ~r.sponsored /\ r.user # r.payer /\ r.month = month
                                      THEN Monus(m.spent, c) ELSE m.spent
<1> DEFINE x == SpendReleased(m, r, c)
           y == RefillReleased(x, r)
<1>1. /\ x.month = m.month
      /\ x.spent = IF r.user # r.payer /\ r.month = month THEN Monus(m.spent, c) ELSE m.spent
      /\ x \in Members
  BY DEF SpendReleased, Members, Monus
<1> HIDE DEF x
<1>2. y.month = x.month /\ y.spent = x.spent
  BY <1>1 DEF RefillReleased, Members
<1> HIDE DEF y
<1>3. Released(m, r, c) = IF r.sponsored THEN m ELSE y
  BY DEF Released, x, y
<1> QED
  BY <1>1, <1>2, <1>3

\* A release of c is explained by an open hold that counts for at most c less.
LEMMA ReleasedExplains ==
  ASSUME NEW m \in Members, NEW r \in Rows, r.status = "active", NEW c \in Nat,
         NEW e \in Nat, e = Counted(r, r.user), NEW e2 \in Nat, e <= e2 + c
  PROVE  Explains(m, Released(m, r, c), e, e2)
<1> DEFINE y == Released(m, r, c)
           counts == ~r.sponsored /\ r.user # r.payer /\ r.month = month
<1>1. y.month = m.month /\ y.spent = IF counts THEN Monus(m.spent, c) ELSE m.spent
  BY ReleasedSpend
<1>2. ~counts => e = 0
  BY DEF Counted
<1>3. m.spent \in Nat
  BY DEF Members
<1> HIDE DEF y, counts
<1>4. Explains(m, y, e, e2)
  <2>1. CASE counts
    BY <1>1, <1>3, <2>1 DEF Explains, Monus
  <2>2. CASE ~counts
    BY <1>1, <1>2, <1>3, <2>2 DEF Explains
  <2> QED BY <2>1, <2>2
<1> QED
  BY <1>4 DEF y

----------------------------------------------------------------------------
(* Every operation accounts for what it charges *)

LEMMA ReserveAccounts ==
  ASSUME TypeOK, NEW h \in Holds, NEW u \in Users, NEW p \in Purposes, NEW n \in Amounts,
         NEW b \in 0..month, NEW at \in 1..month, Reserve(h, u, p, n, b, at)
  PROVE  Accounts(h, u)
<1> DEFINE sponsored == b # 0
           payer == IF sponsored THEN Sponsor ELSE PayerOf(u)
           team == ~sponsored /\ payer # u
           m == AfterRollover(member[u], at)
           delta == IF team THEN LimitDelta(m, n) ELSE 0
           count == IF team THEN RefillCount(m, n) ELSE 0
           row == [EmptyRow EXCEPT !.status = "active", !.purpose = p, !.user = u,
                     !.payer = payer, !.amount = n, !.month = at,
                     !.limitDelta = delta, !.countDelta = count,
                     !.sponsored = sponsored, !.budgetMonth = b]
<1>1. /\ hold[h].status = "none"
      /\ member' = IF team THEN [member EXCEPT ![u] = Charged(m, n)] ELSE member
      /\ hold' = [hold EXCEPT ![h] = row]
  BY DEF Reserve
<1>2. n \in Nat /\ member[u] \in Members /\ month \in Nat /\ at \in Nat
  BY AmountsAssumption DEF TypeOK
<1>3. /\ row.status = "active" /\ row.user = u /\ row.payer = payer /\ row.month = at
      /\ row.amount = n /\ row.sponsored = sponsored
  <2> HIDE DEF payer, delta, count
  <2> QED BY EmptyRowType DEF EmptyRow
<1> HIDE DEF row, payer
<1>4. hold'[h] = row /\ member'[u] = IF team THEN Charged(m, n) ELSE member[u]
  BY <1>1 DEF TypeOK
<1>5. /\ \A w \in Users : Counted(hold[h], w) = 0
      /\ \A w \in Users \ {u} : Counted(row, w) = 0
      /\ Counted(row, u) = IF team /\ at = month THEN n ELSE 0
  BY <1>1, <1>3 DEF Counted
<1>6. OnlyHold(h, u)
  BY ReserveMoves DEF Moves
<1>7. Explains(member[u], member'[u], 0, Counted(row, u))
  <2>1. CASE team
    BY <1>2, <1>4, <1>5, <2>1, ChargedExplains
  <2>2. CASE ~team
    BY <1>2, <1>4, <1>5, <2>2, SameExplains
  <2> QED BY <2>1, <2>2
<1> QED
  BY <1>4, <1>5, <1>6, <1>7 DEF Accounts

\* An extension charges the month that was read for it, and its hold counts in
\* the month in which it was reserved.
LEMMA ExtendAccounts ==
  ASSUME TypeOK, NEW h \in Holds, NEW n \in Amounts, NEW at \in 1..month, Extend(h, n, at),
         at = month => hold[h].month = month
  PROVE  Accounts(h, hold[h].user)
<1> DEFINE r == hold[h]
           u == r.user
           team == ~r.sponsored /\ r.payer # u
           m == AfterRollover(member[u], at)
           delta == IF team THEN LimitDelta(m, n) ELSE 0
           count == IF team THEN RefillCount(m, n) ELSE 0
           row == [r EXCEPT !.amount = @ + n, !.limitDelta = @ + delta, !.countDelta = @ + count]
<1>1. r \in Rows /\ u \in Users /\ n \in Nat /\ member[u] \in Members /\ month \in Nat
      /\ r.amount \in Nat /\ at \in Nat
  BY AmountsAssumption DEF TypeOK, Rows
<1>2. /\ r.status = "active"
      /\ member' = IF team THEN [member EXCEPT ![u] = Charged(m, n)] ELSE member
  BY DEF Extend, ActiveAi, Active
<1>3. hold' = [hold EXCEPT ![h] = row]
  BY <1>1 DEF Extend, TypeOK, Rows
<1>4. row.status = "active" /\ SameTerms(r, row) /\ row.amount = r.amount + n
  <2> HIDE DEF r, delta, count
  <2> QED BY <1>1, <1>2 DEF SameTerms, Rows
<1> HIDE DEF row
<1>5. hold'[h] = row /\ member'[u] = IF team THEN Charged(m, n) ELSE member[u]
  BY <1>1, <1>2, <1>3 DEF TypeOK
<1>6. /\ \A w \in Users \ {u} : Counted(r, w) = 0 /\ Counted(row, w) = 0
      /\ Counted(r, u) = IF team /\ r.month = month THEN r.amount ELSE 0
      /\ Counted(row, u) = IF team /\ r.month = month THEN r.amount + n ELSE 0
      /\ at = month => r.month = month
  BY <1>2, <1>4 DEF Counted, SameTerms
<1>7. OnlyHold(h, u)
  BY ExtendMoves DEF Moves
<1> HIDE DEF r, u
<1>8. Explains(member[u], member'[u], Counted(r, u), Counted(row, u))
  <2>1. CASE team
    <3>1. /\ Counted(r, u) \in Nat /\ Counted(row, u) \in Nat
          /\ at = month => Counted(r, u) + n <= Counted(row, u)
      BY <1>1, <1>6, <2>1
    <3> QED BY <1>1, <1>5, <2>1, <3>1, ChargedExplains
  <2>2. CASE ~team
    BY <1>1, <1>5, <1>6, <2>2, SameExplains
  <2> QED BY <2>1, <2>2
<1> QED
  BY <1>5, <1>6, <1>7, <1>8 DEF Accounts, r, u

LEMMA MarkAccounts ==
  ASSUME TypeOK, NEW h \in Holds, NEW v \in Users, OnlyHold(h, v), Marks(hold[h], hold'[h], v)
  PROVE  Accounts(h, v)
<1> DEFINE r == hold[h]
           s == hold'[h]
<1>1. \A u \in Users : Counted(s, u) = Counted(r, u) /\ (u # v => Counted(r, u) = 0)
  BY DEF Marks, SameTerms, Counted
<1>2. r \in Rows /\ member[v] \in Members /\ member'[v] = member[v]
  BY DEF TypeOK, Marks
<1> HIDE DEF r, s
<1>3. Explains(member[v], member'[v], Counted(r, v), Counted(s, v))
  <2>1. Counted(r, v) \in Nat /\ Counted(r, v) <= Counted(s, v) /\ Counted(s, v) \in Nat
    BY <1>1, <1>2, CountedType
  <2> QED BY <1>2, <2>1, SameExplains
<1> QED
  BY <1>1, <1>3 DEF Accounts, r, s

\* What a settled row counts for.
LEMMA SettledCounts ==
  ASSUME TypeOK, NEW h \in Holds, Active(h), NEW n \in Nat, CloseSettled(h, n)
  PROVE  LET r == hold[h]
             team == ~r.sponsored /\ r.payer # r.user
         IN /\ \A u \in Users \ {r.user} : Counted(r, u) = 0 /\ Counted(hold'[h], u) = 0
            /\ Counted(r, r.user) = IF team /\ r.month = month THEN r.amount ELSE 0
            /\ Counted(hold'[h], r.user) =
                 IF team /\ (r.purpose = "ai" \/ r.month = month) THEN n ELSE 0
<1> DEFINE r == hold[h]
           s == [Closed(r, "settled") EXCEPT !.settled = n, !.settledMonth = month]
<1>1. r \in Rows /\ month \in Nat /\ r.status = "active"
  BY DEF TypeOK, Active
<1>2. hold'[h] = s
  BY DEF CloseSettled, TypeOK
<1>3. /\ SameTerms(r, s) /\ s.status = "settled" /\ s.settled = n /\ s.settledMonth = month
      /\ s.purpose = r.purpose
  <2> HIDE DEF r
  <2> QED BY <1>1 DEF Closed, SameTerms, Rows
<1> HIDE DEF r, s
<1>4. /\ \A u \in Users \ {r.user} : Counted(r, u) = 0 /\ Counted(s, u) = 0
      /\ Counted(r, r.user) = IF ~r.sponsored /\ r.payer # r.user /\ r.month = month
                              THEN r.amount ELSE 0
      /\ Counted(s, r.user) =
           IF ~r.sponsored /\ r.payer # r.user /\ (r.purpose = "ai" \/ r.month = month)
           THEN n ELSE 0
  BY <1>1, <1>3 DEF Counted, SameTerms
<1> QED
  BY <1>2, <1>4 DEF r

LEMMA SettleWholeAccounts ==
  ASSUME TypeOK, NEW h \in Holds, Active(h), hold[h].purpose # "ai", SettleWhole(h),
         UNCHANGED <<month, configured, overwritten>>
  PROVE  Accounts(h, hold[h].user)
<1> DEFINE r == hold[h]
           v == r.user
           e == Counted(r, v)
           e2 == Counted(hold'[h], v)
<1>1. r \in Rows /\ r.amount \in Nat /\ v \in Users /\ member[v] \in Members
  BY DEF TypeOK, Rows
<1>2. CloseSettled(h, r.amount) /\ member' = member
  BY DEF SettleWhole
<1>3. /\ \A u \in Users \ {v} : Counted(r, u) = 0 /\ Counted(hold'[h], u) = 0
      /\ e2 = e
  BY <1>1, <1>2, SettledCounts
<1>4. OnlyHold(h, v)
  BY SettleWholeMoves DEF Moves
<1>5. e \in Nat
  BY <1>1, CountedType
<1> HIDE DEF e, e2, v
<1>6. Explains(member[v], member'[v], e, e2)
  BY <1>1, <1>2, <1>3, <1>5, SameExplains
<1> QED
  BY <1>3, <1>4, <1>6 DEF Accounts, e, e2, v

LEMMA SettleAmountAccounts ==
  ASSUME TypeOK, NEW h \in Holds, NEW n \in Amounts, SettleFixedAmount(h, n)
  PROVE  Accounts(h, hold[h].user)
<1> DEFINE r == hold[h]
           v == r.user
           c == r.amount - n
           m == Released(member[v], r, c)
           e == Counted(r, v)
           e2 == Counted(hold'[h], v)
<1>1. /\ r \in Rows /\ r.amount \in Nat /\ v \in Users /\ member[v] \in Members
      /\ n \in Nat /\ n <= r.amount
  BY AmountsAssumption DEF TypeOK, Rows, SettleFixedAmount
<1>2. /\ Active(h) /\ r.purpose # "ai" /\ CloseSettled(h, n)
      /\ member' = IF c > 0 THEN [member EXCEPT ![v] = m] ELSE member
  BY DEF SettleFixedAmount, ActiveFixed
<1>3. /\ \A u \in Users \ {v} : Counted(r, u) = 0 /\ Counted(hold'[h], u) = 0
      /\ e = IF ~r.sponsored /\ r.payer # r.user /\ r.month = month THEN r.amount ELSE 0
      /\ e2 = IF ~r.sponsored /\ r.payer # r.user /\ r.month = month THEN n ELSE 0
  BY <1>1, <1>2, SettledCounts
<1>4. c \in Nat /\ e \in Nat /\ e2 \in Nat /\ e <= e2 + c
  <2>1. e \in Nat /\ e2 \in Nat
    BY <1>1, <1>3
  <2> HIDE DEF e, e2
  <2>2. (e = r.amount /\ e2 = n) \/ (e = 0 /\ e2 = 0)
    BY <1>3 DEF e, e2
  <2>3. c \in Nat /\ n + c = r.amount
    BY <1>1
  <2> QED BY <1>1, <2>1, <2>2, <2>3
<1>5. OnlyHold(h, v)
  BY SettleAmountMoves DEF Moves
<1>6. r.status = "active" /\ Explains(member[v], m, e, e2)
  <2>1. r.status = "active"
    BY <1>2 DEF Active
  <2> HIDE DEF c, e2
  <2> QED BY <1>1, <1>4, <2>1, ReleasedExplains
<1> HIDE DEF m
<1>7. member'[v] = IF c > 0 THEN m ELSE member[v]
  BY <1>1, <1>2 DEF TypeOK
<1>8. ~(c > 0) => e <= e2
  BY <1>4
<1> HIDE DEF c, e, e2, v
<1>9. Explains(member[v], member'[v], e, e2)
  BY <1>1, <1>4, <1>6, <1>7, <1>8, SameExplains
<1> QED
  BY <1>3, <1>5, <1>9 DEF Accounts, e, e2, v

LEMMA SettleAiAccounts ==
  ASSUME TypeOK, NEW h \in Holds, NEW n \in Nat, SettleAiFor(h, n),
         UNCHANGED <<month, configured, overwritten>>
  PROVE  Accounts(h, hold[h].user)
<1> DEFINE r == hold[h]
           v == r.user
           returned == Released(member[v], r, r.amount)
           x == AfterRollover(returned, month)
           team == ~r.sponsored /\ r.payer # v
           m == IF team THEN Charged(x, n) ELSE returned
           e == Counted(r, v)
           e2 == Counted(hold'[h], v)
<1>1. r \in Rows /\ r.amount \in Nat /\ v \in Users /\ member[v] \in Members /\ month \in Nat
  BY DEF TypeOK, Rows
<1>2. /\ Active(h) /\ r.purpose = "ai" /\ CloseSettled(h, n)
      /\ team => LimitAllows(x, n)
      /\ member' = [member EXCEPT ![v] = m]
  BY DEF SettleAiFor, ActiveAi
<1>3. /\ \A u \in Users \ {v} : Counted(r, u) = 0 /\ Counted(hold'[h], u) = 0
      /\ e \in Nat /\ e <= r.amount /\ (~team => e = 0)
      /\ e2 = IF team THEN n ELSE 0
  BY <1>1, <1>2, SettledCounts
<1>4. OnlyHold(h, v)
  BY SettleAiMoves DEF Moves
<1>5. returned \in Members /\ x \in Members
  BY <1>1, ReleasedType, RolloverType
<1>6. Explains(member[v], returned, e, 0)
  <2>1. r.status = "active" /\ e <= 0 + r.amount
    BY <1>1, <1>2, <1>3 DEF Active
  <2> QED BY <1>1, <1>3, <2>1, ReleasedExplains
<1>7. Explains(member[v], m, e, e2)
  <2>1. CASE team
    <3>1. Charged(x, n) \in Members
      BY <1>2, <1>5, <2>1, ChargedType
    <3>2. Explains(returned, Charged(x, n), 0, n)
      <4> HIDE DEF returned
      <4> QED BY <1>1, <1>5, ChargedExplains
    <3> HIDE DEF e, returned, x
    <3> QED BY <1>1, <1>3, <1>5, <1>6, <2>1, <3>1, <3>2, ExplainsTransitive
  <2>2. CASE ~team
    BY <1>3, <1>6, <2>2
  <2> QED BY <2>1, <2>2
<1> HIDE DEF m
<1>8. member'[v] = m
  BY <1>1, <1>2 DEF TypeOK
<1> QED
  BY <1>3, <1>4, <1>7, <1>8 DEF Accounts

LEMMA RefundAccounts ==
  ASSUME TypeOK, NEW h \in Holds, Active(h), CloseRefunded(h),
         UNCHANGED <<month, configured, overwritten>>
  PROVE  Accounts(h, hold[h].user)
<1> DEFINE r == hold[h]
           v == r.user
           m == Released(member[v], r, r.amount)
           s == Closed(r, "refunded")
           e == Counted(r, v)
<1>1. /\ r \in Rows /\ v \in Users /\ r.amount \in Nat /\ r.status = "active"
      /\ member[v] \in Members
  BY DEF TypeOK, Rows, Active
<1>2. hold'[h] = s /\ member'[v] = m
  BY <1>1 DEF CloseRefunded, TypeOK
<1>3. SameTerms(r, s) /\ s.status = "refunded"
  BY <1>1, RefundedTerms
<1> HIDE DEF s
<1>4. /\ \A u \in Users : Counted(s, u) = 0 /\ (u # v => Counted(r, u) = 0)
      /\ e \in Nat /\ e <= 0 + r.amount
  BY <1>1, <1>3 DEF Counted, SameTerms
<1>5. Explains(member[v], m, e, 0)
  BY <1>1, <1>4, ReleasedExplains
<1>6. OnlyHold(h, v)
  BY RefundMoves DEF Moves
<1> HIDE DEF m
<1> QED
  BY <1>1, <1>2, <1>4, <1>5, <1>6 DEF Accounts

\* Every extension that is counted in this month is of a hold reserved in it.
InMonth == \A h \in Holds, n \in Amounts : Extend(h, n, month) => hold[h].month = month

LEMMA OperationAccounts ==
  ASSUME TypeOK, InMonth, NEW h \in Holds, Operation(h)
  PROVE  \E v \in Users : Accounts(h, v)
<1> DEFINE Goal == \E v \in Users : Accounts(h, v)
<1>1. hold[h].user \in Users
  BY DEF TypeOK, Rows
<1>2. ASSUME NEW u \in Users, NEW p \in Purposes, NEW n \in Amounts,
             NEW b \in 0..month, NEW at \in 1..month, Reserve(h, u, p, n, b, at)
      PROVE  Goal
  BY <1>2, ReserveAccounts
<1>3. ASSUME NEW n \in Amounts, NEW at \in 1..month, Extend(h, n, at) PROVE Goal
  <2>1. at = month => hold[h].month = month
    BY <1>3 DEF InMonth
  <2> QED BY <1>1, <1>3, <2>1, ExtendAccounts
<1>4. CASE \/ MarkAiStarted(h) \/ ClaimProvider(h) \/ MarkSucceeded(h)
           \/ Expire(h) \/ ExpireStart(h)
           \/ \E c \in Calls, x \in Costs : Accumulate(h, c, x)
  BY <1>1, <1>4, MarkMoves, MarkAccounts
<1>5. CASE SettleFixed(h)
  BY <1>1, <1>5, SettleWholeAccounts DEF SettleFixed, ActiveFixed
<1>6. ASSUME NEW n \in Amounts, SettleFixedAmount(h, n) PROVE Goal
  BY <1>1, <1>6, SettleAmountAccounts
<1>7. CASE Refund(h)
  BY <1>1, <1>7, RefundAccounts DEF Refund, Refundable, Active
<1>8. ASSUME NEW n \in Costs, SettleAi(h, n) PROVE Goal
  BY <1>1, <1>8, SettleAiAccounts, AmountsAssumption DEF SettleAi
<1>9. CASE SettleAccumulated(h)
  BY <1>1, <1>9, SettleAiAccounts, AccumulatedType DEF SettleAccumulated
<1>10. CASE Reconcile(h)
  <2>1. CASE SettleAiFor(h, Accumulated(h))
    BY <1>1, <1>10, <2>1, SettleAiAccounts, AccumulatedType DEF Reconcile
  <2>2. CASE hold[h].purpose # "ai" /\ SettleWhole(h)
    BY <1>1, <1>10, <2>2, SettleWholeAccounts DEF Reconcile, Stale, Active
  <2>3. CASE CloseRefunded(h)
    BY <1>1, <1>10, <2>3, RefundAccounts DEF Reconcile, Stale, Active
  <2> QED BY <1>10, <2>1, <2>2, <2>3 DEF Reconcile
<1> QED
  BY <1>2, <1>3, <1>4, <1>5, <1>6, <1>7, <1>8, <1>9, <1>10 DEF Operation

\* The total of what the holds count for follows the hold that changes.
LEMMA AccountsExplained ==
  ASSUME TypeOK, TypeOK', Explained, NEW h \in Holds, NEW v \in Users, Accounts(h, v),
         NEW u \in Users, member'[u].month = month'
  PROVE  member'[u].spent <= CountedSpend(u)'
<1> DEFINE f == [x \in Holds |-> Counted(hold[x], u)]
           g == [x \in Holds |-> Counted(hold[x], u)']
           S == SumOver(Holds, f)
           T == SumOver(Holds, g)
<1>1. month' = month /\ \A x \in Holds \ {h} : hold'[x] = hold[x]
  BY DEF Accounts, OnlyHold
<1>2. \A x \in Holds : f[x] = Counted(hold[x], u) /\ g[x] = Counted(hold'[x], u)
  BY <1>1 DEF Counted
<1>3. \A x \in Holds : hold[x] \in Rows /\ hold'[x] \in Rows
  BY DEF TypeOK
<1>4. CountedSpend(u) = S /\ CountedSpend(u)' = T
  BY DEF CountedSpend
<1> HIDE DEF f, g
<1>5. \A x \in Holds : f[x] \in Nat /\ g[x] \in Nat
  BY <1>2, <1>3, CountedType
<1>6. \A x \in Holds \ {h} : f[x] = g[x]
  BY <1>1, <1>2
<1>7. /\ T = S - f[h] + g[h] /\ f[h] <= S /\ S \in Nat
      /\ f[h] \in Nat /\ g[h] \in Nat
  BY <1>5, <1>6, HoldsAssumption, SumUpdate, SumMember, SumType
<1>8. member[u].spent \in Nat /\ member'[u].spent \in Nat
  BY DEF TypeOK, Members
<1>9. member[u].month = month => member[u].spent <= S
  BY <1>4 DEF Explained
<1> HIDE DEF S, T
<1>10. CASE u = v
  <2>1. \/ member[u].month = month /\ member'[u].spent + f[h] <= member[u].spent + g[h]
        \/ member'[u].spent <= g[h]
    BY <1>1, <1>2, <1>10 DEF Accounts, Explains
  <2>2. member'[u].spent <= T
    BY <1>7, <1>8, <1>9, <2>1
  <2> QED BY <1>4, <2>2
<1>11. CASE u # v
  <2>1. member'[u] = member[u] /\ f[h] = 0 /\ g[h] = 0
    BY <1>2, <1>11 DEF Accounts, OnlyHold
  <2>2. member'[u].spent <= T
    BY <1>1, <1>7, <1>8, <1>9, <2>1
  <2> QED BY <1>4, <2>2
<1> QED
  BY <1>10, <1>11

LEMMA EnvironmentExplains ==
  ASSUME TypeOK, TypeOK', Dated, Explained, Environment, NEW u \in Users, member'[u].month = month'
  PROVE  member'[u].spent <= CountedSpend(u)'
<1> DEFINE f == [x \in Holds |-> Counted(hold[x], u)]
           g == [x \in Holds |-> Counted(hold[x], u)']
<1>1. /\ member[u].month \in Nat /\ member[u].month <= month /\ month \in Nat
      /\ member[u] \in Members
  BY DEF TypeOK, Members, Dated
<1>2. hold' = hold
  BY EnvironmentStep
<1>3. month' = month /\ (member'[u] = member[u] \/ CountKept(u) \/ CountReset(u))
  <2>1. CASE month' = month + 1 /\ member' = member
    BY <1>1, <2>1
  <2>2. ASSUME NEW w \in Users, PolicyChange(w)
        PROVE  month' = month /\ (member'[u] = member[u] \/ CountKept(u) \/ CountReset(u))
    BY <2>2 DEF PolicyChange
  <2>3. CASE UNCHANGED <<month, member>>
    BY <2>3
  <2> QED BY <2>1, <2>2, <2>3, EnvironmentStep
<1>4. CountedSpend(u) = SumOver(Holds, f) /\ CountedSpend(u)' = SumOver(Holds, g)
  BY DEF CountedSpend
<1>5. \A x \in Holds : f[x] = g[x] /\ f[x] = Counted(hold[x], u) /\ hold[x] \in Rows
  BY <1>2, <1>3 DEF Counted, TypeOK
<1> HIDE DEF f, g
<1>6. /\ SumOver(Holds, f) = SumOver(Holds, g) /\ SumOver(Holds, f) \in Nat
  BY <1>5, HoldsAssumption, SumCongruence, CountedType, SumType
<1>7. CountedSpend(u)' = CountedSpend(u) /\ CountedSpend(u) \in Nat
  BY <1>4, <1>6
<1>8. CASE member'[u].spent = member[u].spent /\ member'[u].month = member[u].month
  BY <1>3, <1>7, <1>8 DEF Explained
<1>9. CASE member'[u].spent = 0
  BY <1>7, <1>9
<1> QED
  BY <1>3, <1>8, <1>9 DEF CountKept, CountReset

\* A member is counted as having spent in a month no more than its open holds
\* and the charges of that month, as long as every extension that is counted in
\* a month is of a hold reserved in that month: then each closing takes back
\* all that its hold had added.  extend_ai_reservation also extends older
\* holds, and then it does not: the premise is what the program lacks.  A
\* reservation or an extension dated to the last month needs no premise.
THEOREM LedgerSpendExplained == Spec /\ [][InMonth]_vars => []SpendExplained
<1>1. Init => Explained
  BY DEF Init, Explained, NewMember
<1>2. TypeOK /\ TypeOK' /\ Dated /\ Explained /\ [Next]_vars /\ [InMonth]_vars => Explained'
  <2> SUFFICES ASSUME TypeOK, TypeOK', Dated, Explained, [Next]_vars, [InMonth]_vars PROVE Explained'
    OBVIOUS
  <2>1. CASE UNCHANGED vars
    BY <2>1 DEF vars, Explained, CountedSpend, Counted
  <2>2. ASSUME NEW h \in Holds, Operation(h), InMonth PROVE Explained'
    BY <2>2, OperationAccounts, AccountsExplained DEF Explained
  <2>3. CASE Environment
    BY <2>3, EnvironmentExplains DEF Explained
  <2> QED
    BY <2>1, <2>2, <2>3 DEF Next
<1>3. TypeOK /\ Explained => SpendExplained
  <2> SUFFICES ASSUME TypeOK, Explained, NEW u \in Users, member[u].month = month
               PROVE  member[u].spent <= SumOver(Holds, [h \in Holds |-> ExplainedSpend(h, u)])
    BY DEF SpendExplained
  <2> DEFINE f == [h \in Holds |-> Counted(hold[h], u)]
             g == [h \in Holds |-> ExplainedSpend(h, u)]
  <2>1. \A h \in Holds : f[h] \in Nat /\ g[h] \in Nat /\ f[h] <= g[h]
    <3>1. \A h \in Holds : hold[h] \in Rows
      BY DEF TypeOK
    <3> QED BY <3>1 DEF Counted, ExplainedSpend, TeamHold, Active, ChargeMonth, Rows
  <2>2. member[u].spent <= SumOver(Holds, f) /\ member[u].spent \in Nat
    BY DEF Explained, CountedSpend, TypeOK, Members
  <2> HIDE DEF f, g
  <2>3. SumOver(Holds, f) <= SumOver(Holds, g) /\ SumOver(Holds, f) \in Nat
        /\ SumOver(Holds, g) \in Nat
    BY <2>1, HoldsAssumption, SumMonotone, SumType
  <2>4. member[u].spent <= SumOver(Holds, g)
    BY <2>2, <2>3
  <2> QED BY <2>4 DEF g
<1> QED
  BY <1>1, <1>2, <1>3, TypeCorrect, DatedAlways, PTL DEF Spec

====
