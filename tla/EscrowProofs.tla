---- MODULE EscrowProofs ----
(***************************************************************************)
(* The books of the abstract escrow balance, for every set of accounts and *)
(* every finite set of holds.                                              *)
(***************************************************************************)
EXTENDS Escrow, SumsProofs

LEMMA EscrowTypeInit == Init => TypeOK
BY DEF Init, TypeOK, Escrows, Statuses

LEMMA EscrowTypeStep ==
  ASSUME Amounts \subseteq Nat, TypeOK, [Next]_vars
  PROVE  TypeOK'
<1>1. ASSUME NEW a \in Accounts, Deposit(a) \/ Withdraw(a) PROVE TypeOK'
  BY <1>1 DEF Deposit, Withdraw, TypeOK
<1>2. ASSUME NEW h \in Holds, NEW a \in Accounts, Open(h, a) PROVE TypeOK'
  BY <1>2 DEF Open, TypeOK, Escrows, Statuses
<1>3. ASSUME NEW h \in Holds, Grow(h) PROVE TypeOK'
  BY <1>3 DEF Grow, TypeOK, Escrows
<1>4. ASSUME NEW h \in Holds, Capture(h) PROVE TypeOK'
  <2>1. PICK n \in 0..escrow[h].amount :
          /\ available' = [available EXCEPT ![escrow[h].payer] = @ + escrow[h].amount - n]
          /\ escrow' = [escrow EXCEPT ![h] = [status |-> "settled", payer |-> @.payer,
                                              amount |-> @.amount, captured |-> n]]
    BY <1>4 DEF Capture
  <2>2. /\ escrow[h] \in Escrows /\ escrow[h].payer \in Accounts /\ escrow[h].amount \in Nat
        /\ available[escrow[h].payer] \in Nat
    BY DEF TypeOK, Escrows
  <2>3. available[escrow[h].payer] + escrow[h].amount - n \in Nat /\ n \in Nat
    BY <2>2
  <2>4. [status |-> "settled", payer |-> escrow[h].payer, amount |-> escrow[h].amount,
         captured |-> n] \in Escrows
    BY <2>2, <2>3 DEF Escrows, Statuses
  <2> QED
    BY <1>4, <2>1, <2>2, <2>3, <2>4 DEF Capture, TypeOK
<1>5. ASSUME NEW h \in Holds, Return(h) PROVE TypeOK'
  BY <1>5 DEF Return, TypeOK, Escrows, Statuses
<1>6. CASE UNCHANGED vars
  BY <1>6 DEF vars, TypeOK
<1> QED
  BY <1>1, <1>2, <1>3, <1>4, <1>5, <1>6 DEF Next

\* What the holds keep from an account changes by what the one hold that a
\* step writes keeps from it.
LEMMA TakenUpdate ==
  ASSUME IsFiniteSet(Holds), TypeOK, TypeOK', NEW h \in Holds,
         \A k \in Holds \ {h} : escrow'[k] = escrow[k], NEW a \in Accounts
  PROVE  /\ TakenFrom(a)' = TakenFrom(a) - Taken(h, a) + Taken(h, a)'
         /\ TakenFrom(a) \in Nat
<1> DEFINE f == [k \in Holds |-> Taken(k, a)]
           g == [k \in Holds |-> Taken(k, a)']
<1>1. \A k \in Holds : f[k] \in Nat
  BY DEF Taken, TypeOK, Escrows
<1>2. \A k \in Holds : g[k] \in Nat
  BY DEF Taken, TypeOK, Escrows
<1>3. \A k \in Holds \ {h} : f[k] = g[k]
  BY DEF Taken
<1>4. SumOver(Holds, g) = SumOver(Holds, f) - f[h] + g[h]
  <2> HIDE DEF f, g
  <2> QED BY <1>1, <1>2, <1>3, SumUpdate
<1>5. SumOver(Holds, f) \in Nat
  <2> HIDE DEF f
  <2> QED BY <1>1, SumType
<1>6. TakenFrom(a) = SumOver(Holds, f) /\ TakenFrom(a)' = SumOver(Holds, g)
  BY DEF TakenFrom
<1> QED
  BY <1>4, <1>5, <1>6

LEMMA BooksInit ==
  ASSUME Init
  PROVE  BooksBalance
<1> SUFFICES ASSUME NEW a \in Accounts PROVE funded[a] = available[a] + TakenFrom(a)
  BY DEF BooksBalance
<1>1. \A h \in Holds : [k \in Holds |-> Taken(k, a)][h] = 0
  BY DEF Init, Taken
<1>2. TakenFrom(a) = 0
  <2> DEFINE f == [k \in Holds |-> Taken(k, a)]
  <2>1. \A h \in Holds : f[h] = 0
    BY <1>1
  <2>2. TakenFrom(a) = SumOver(Holds, f)
    BY DEF TakenFrom
  <2> HIDE DEF f
  <2> QED BY <2>1, <2>2, SumZero
<1> QED
  BY <1>2 DEF Init

LEMMA BooksStep ==
  ASSUME IsFiniteSet(Holds), Amounts \subseteq Nat, TypeOK, BooksBalance, [Next]_vars
  PROVE  BooksBalance'
<1>0. TypeOK'
  BY EscrowTypeStep
<1> SUFFICES ASSUME NEW a \in Accounts
             PROVE  funded'[a] = available'[a] + TakenFrom(a)'
  BY DEF BooksBalance
<1> USE DEF TypeOK, Escrows, Statuses
<1>1. /\ funded[a] = available[a] + TakenFrom(a)
      /\ available[a] \in Nat
  BY DEF BooksBalance
<1>2. UNCHANGED escrow => TakenFrom(a)' = TakenFrom(a)
  BY DEF TakenFrom, Taken
<1>3. TakenFrom(a) \in Nat
  <2> DEFINE f == [k \in Holds |-> Taken(k, a)]
  <2>1. \A k \in Holds : f[k] \in Nat
    BY DEF Taken
  <2> HIDE DEF f
  <2>2. SumOver(Holds, f) \in Nat
    BY <2>1, SumType
  <2> QED
    BY <2>2 DEF TakenFrom, f
<1>4. ASSUME NEW b \in Accounts, Deposit(b) \/ Withdraw(b)
      PROVE  funded'[a] = available'[a] + TakenFrom(a)'
  BY <1>1, <1>2, <1>3, <1>4 DEF Deposit, Withdraw
<1>5. ASSUME NEW h \in Holds, NEW b \in Accounts, Open(h, b)
      PROVE  funded'[a] = available'[a] + TakenFrom(a)'
  <2>1. TakenFrom(a)' = TakenFrom(a) - Taken(h, a) + Taken(h, a)'
    BY <1>0, <1>5, TakenUpdate DEF Open
  <2> QED
    BY <1>1, <1>3, <1>5, <2>1 DEF Open, Taken
<1>6. ASSUME NEW h \in Holds, Grow(h)
      PROVE  funded'[a] = available'[a] + TakenFrom(a)'
  <2>1. TakenFrom(a)' = TakenFrom(a) - Taken(h, a) + Taken(h, a)'
    BY <1>0, <1>6, TakenUpdate DEF Grow
  <2> QED
    BY <1>1, <1>3, <1>6, <2>1 DEF Grow, Taken
<1>7. ASSUME NEW h \in Holds, Capture(h)
      PROVE  funded'[a] = available'[a] + TakenFrom(a)'
  <2>1. TakenFrom(a)' = TakenFrom(a) - Taken(h, a) + Taken(h, a)'
    BY <1>0, <1>7, TakenUpdate DEF Capture
  <2> QED
    BY <1>1, <1>3, <1>7, <2>1 DEF Capture, Taken
<1>8. ASSUME NEW h \in Holds, Return(h)
      PROVE  funded'[a] = available'[a] + TakenFrom(a)'
  <2>1. TakenFrom(a)' = TakenFrom(a) - Taken(h, a) + Taken(h, a)'
    BY <1>0, <1>8, TakenUpdate DEF Return
  <2> QED
    BY <1>1, <1>3, <1>8, <2>1 DEF Return, Taken
<1>9. CASE UNCHANGED vars
  BY <1>1, <1>2, <1>9 DEF vars
<1> QED
  BY <1>4, <1>5, <1>6, <1>7, <1>8, <1>9 DEF Next

\* The escrow keeps its books: what was paid into an account is available,
\* held or captured, in every reachable state.
THEOREM EscrowBooksBalance ==
  ASSUME IsFiniteSet(Holds), Amounts \subseteq Nat
  PROVE  Spec => [](TypeOK /\ BooksBalance)
<1>1. Init => TypeOK /\ BooksBalance
  BY EscrowTypeInit, BooksInit
<1>2. TypeOK /\ BooksBalance /\ [Next]_vars => (TypeOK /\ BooksBalance)'
  BY EscrowTypeStep, BooksStep
<1> QED
  BY <1>1, <1>2, PTL DEF Spec

====
