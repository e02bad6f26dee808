--------------------------- MODULE FxLedgerProofs ---------------------------
(***************************************************************************)
(* Proofs about FxLedger, for any customers, currencies, quotes, keys and  *)
(* callers, and whatever amounts the quotes and the deposits carry.        *)
(***************************************************************************)
EXTENDS FxLedger, FiniteSetTheorems, TLAPS

(* The sum over one entry is its amount. *)
LEMMA UnitsCount ==
  ASSUME NEW e, e.amt \in Nat
  PROVE  IsFiniteSet(Units(e)) /\ Cardinality(Units(e)) = e.amt
<1>1. IsFiniteSet({e}) /\ Cardinality({e}) = 1
  BY FS_Singleton
<1>2. IsFiniteSet(1 .. e.amt) /\ Cardinality(1 .. e.amt) = e.amt
  BY FS_Interval
<1>3. /\ IsFiniteSet({e} \X (1 .. e.amt))
      /\ Cardinality({e} \X (1 .. e.amt)) = Cardinality({e}) * Cardinality(1 .. e.amt)
  BY <1>1, <1>2, FS_Product
<1>4. Cardinality({e} \X (1 .. e.amt)) = 1 * e.amt
  BY <1>1, <1>2, <1>3
<1>5. QED
  BY <1>3, <1>4 DEF Units

(* Posting a new entry adds its amount to a sum that counts it. *)
LEMMA TotalOfAdded ==
  ASSUME NEW L, IsFiniteSet(AllUnits(L)), NEW e, e \notin L, e.amt \in Nat
  PROVE  /\ IsFiniteSet(AllUnits(L \cup {e}))
         /\ Total(L \cup {e}) = Total(L) + e.amt
<1>1. AllUnits(L \cup {e}) = AllUnits(L) \cup Units(e)
  BY DEF AllUnits
<1>2. AllUnits(L) \cap Units(e) = {}
  BY DEF AllUnits, Units
<1>3. IsFiniteSet(Units(e)) /\ Cardinality(Units(e)) = e.amt
  BY UnitsCount
<1>4. Cardinality(AllUnits(L)) \in Nat
  BY FS_CardinalityType
<1>5. Cardinality(AllUnits(L) \cap Units(e)) = 0
  BY <1>2, FS_EmptySet, Zenon
<1>6. /\ IsFiniteSet(AllUnits(L) \cup Units(e))
      /\ Cardinality(AllUnits(L) \cup Units(e)) =
           Cardinality(AllUnits(L)) + Cardinality(Units(e))
             - Cardinality(AllUnits(L) \cap Units(e))
  BY <1>3, FS_Union
<1>7. Cardinality(AllUnits(L) \cup Units(e)) = Cardinality(AllUnits(L)) + e.amt
  BY <1>3, <1>4, <1>5, <1>6
<1>8. QED
  BY <1>1, <1>6, <1>7, Zenon DEF Total

(* What one new entry does to the sum of an account and a direction. *)
LEMMA TotalOfPosted ==
  ASSUME NEW L, NEW a, NEW d, IsFiniteSet(AllUnits(Posted(L, a, d))),
         NEW e, e \notin L, e.amt \in Nat
  PROVE  /\ IsFiniteSet(AllUnits(Posted(L \cup {e}, a, d)))
         /\ Total(Posted(L \cup {e}, a, d)) =
              Total(Posted(L, a, d)) +
                (IF e.acct = a /\ e.dir = d THEN e.amt ELSE 0)
<1>1. CASE e.acct = a /\ e.dir = d
  <2>1. Posted(L \cup {e}, a, d) = Posted(L, a, d) \cup {e}
    BY <1>1 DEF Posted
  <2>2. e \notin Posted(L, a, d)
    BY DEF Posted
  <2>3. QED
    BY <1>1, <2>1, <2>2, TotalOfAdded
<1>2. CASE ~(e.acct = a /\ e.dir = d)
  <2>1. Posted(L \cup {e}, a, d) = Posted(L, a, d)
    BY <1>2 DEF Posted
  <2>2. Total(Posted(L, a, d)) \in Nat
    BY FS_CardinalityType DEF Total
  <2>3. QED
    BY <1>2, <2>1, <2>2
<1>3. QED
  BY <1>1, <1>2

(* An empty ledger sums to nothing. *)
LEMMA TotalOfNothing ==
  ASSUME NEW a, NEW d
  PROVE  IsFiniteSet(AllUnits(Posted({}, a, d))) /\ Total(Posted({}, a, d)) = 0
<1>1. AllUnits(Posted({}, a, d)) = {}
  BY DEF AllUnits, Posted
<1>2. QED
  BY <1>1, FS_EmptySet DEF Total
-----------------------------------------------------------------------------
(* Strengthening LedgerBalances: the sums are finite, and an entry  *)
(* in the name of an execution has its transaction, so that the entries of *)
(* a new one are new.                                                      *)
Countable ==
    \A a \in Accounts, d \in {"debit", "credit"} :
        IsFiniteSet(AllUnits(Posted(ledger, a, d)))

Referenced ==
    \A e \in ledger : e.ref \in Requests => \E t \in transactions : t.id = e.ref

(* Tables hold rows of their types in every reachable state: in particular *)
(* no execution ever takes a balance below zero.                           *)
THEOREM TypeCorrect == Spec => []TypeOK
<1>1. Init => TypeOK
  BY DEF Init, TypeOK
<1>2. TypeOK /\ [Next]_vars => TypeOK'
  <2> SUFFICES ASSUME TypeOK, [Next]_vars PROVE TypeOK'
    OBVIOUS
  <2> USE DEF TypeOK
  <2>1. ASSUME NEW q \in Quotes, NEW t \in Terms[q], Issue(q, t) PROVE TypeOK'
    <3>1. t \in Term
      BY TermsAssumption
    <3>2. QED
      BY <2>1, <3>1 DEF Issue
  <2>2. ASSUME NEW c \in Credits, NEW d \in Deposits[c], Fund(c, d) PROVE TypeOK'
    <3>1. d.acct \in Accounts /\ d.amt \in Nat
      BY DepositsAssumption
    <3>2. FundEntry(c, d) \in Entry /\ FundEntry(c, d).amt > 0
      BY <2>2, <3>1 DEF Fund, FundEntry, Entry
    <3>3. QED
      BY <2>2, <3>1, <3>2 DEF Fund
  <2>3. ASSUME NEW r \in Requests, NEW q \in Quotes, NEW k \in Keys, Execute(r, q, k)
        PROVE  TypeOK'
    <3> DEFINE t == quotes[q]
    <3>1. t \in Term /\ t.famt > 0 /\ t.tamt > 0 /\ balances[FromAcct(t)] >= t.famt
      BY <2>3 DEF Execute
    <3>2. /\ FromAcct(t) \in Accounts /\ ToAcct(t) \in Accounts
          /\ t.famt \in Nat /\ t.tamt \in Nat /\ t.cust \in Customers
      BY <3>1 DEF Term, FromAcct, ToAcct, Accounts
    <3>3. balances' \in [Accounts -> Nat]
      <4>1. balances' = Exchanged(t)
        BY <2>3 DEF Execute
      <4>2. ASSUME NEW a \in Accounts PROVE Exchanged(t)[a] \in Nat
        BY <3>1, <3>2 DEF Exchanged
      <4>3. QED
        BY <4>1, <4>2 DEF Exchanged
    <3>4. /\ {DebitEntry(r, t), CreditEntry(r, t)} \subseteq Entry
          /\ DebitEntry(r, t).amt > 0 /\ CreditEntry(r, t).amt > 0
      BY <3>1, <3>2 DEF DebitEntry, CreditEntry, Entry
    <3>5. [id |-> r, quote |-> q, cust |-> t.cust, key |-> k] \in Transaction
      BY <3>2 DEF Transaction
    <3>6. /\ ledger' = ledger \cup {DebitEntry(r, t), CreditEntry(r, t)}
          /\ transactions' = transactions \cup
                {[id |-> r, quote |-> q, cust |-> t.cust, key |-> k]}
          /\ quotes' = quotes
      BY <2>3 DEF Execute
    <3> HIDE DEF t
    <3>7. QED
      BY <3>3, <3>4, <3>5, <3>6
  <2>4. CASE UNCHANGED vars
    BY <2>4 DEF vars
  <2>5. QED
    BY <2>1, <2>2, <2>3, <2>4 DEF Next
<1>3. QED
  BY <1>1, <1>2, PTL DEF Spec
-----------------------------------------------------------------------------
(* The sums of the ledger follow the balances, given that they exist and   *)
(* that a new execution has no entry yet.                                  *)
LedgerInv == TypeOK /\ Countable /\ Referenced /\ LedgerBalances

(* It holds at first: there are no entries, and no balance. *)
LEMMA LedgerInit == Init => LedgerInv
<1> SUFFICES ASSUME Init PROVE LedgerInv
  OBVIOUS
<1>1. TypeOK /\ Referenced
  BY DEF Init, TypeOK, Referenced
<1>2. Countable
  BY TotalOfNothing DEF Init, Countable
<1>3. LedgerBalances
  BY TotalOfNothing DEF Init, LedgerBalances, Credited, Debited
<1>4. QED
  BY <1>1, <1>2, <1>3 DEF LedgerInv

(* The three facts a step has to keep, once TypeOK is known to be kept. *)
LEMMA IssueKeepsLedger ==
  ASSUME Countable, Referenced, LedgerBalances,
         UNCHANGED <<balances, ledger, transactions>>
  PROVE  Countable' /\ Referenced' /\ LedgerBalances'
BY DEF Countable, Referenced, LedgerBalances

(* Funding keeps it: the new entry adds what the balance gains. *)
LEMMA FundKeepsLedger ==
  ASSUME TypeOK, Countable, Referenced, LedgerBalances,
         NEW c \in Credits, NEW d \in Deposits[c], Fund(c, d)
  PROVE  Countable' /\ Referenced' /\ LedgerBalances'
<1> DEFINE e == FundEntry(c, d)
<1>1. d.acct \in Accounts /\ d.amt \in Nat
  BY DepositsAssumption
<1>2. e.amt = d.amt /\ e.acct = d.acct /\ e.dir = "credit" /\ e.ref = c
  BY DEF FundEntry
<1>3. e \notin ledger
  BY <1>2 DEF Fund
<1>4. ledger' = ledger \cup {e} /\ transactions' = transactions
  BY DEF Fund
<1>5. balances' = [balances EXCEPT ![d.acct] = @ + d.amt]
  BY DEF Fund
<1> HIDE DEF e
<1>6. ASSUME NEW a \in Accounts, NEW dir \in {"debit", "credit"}
      PROVE  /\ IsFiniteSet(AllUnits(Posted(ledger', a, dir)))
             /\ Total(Posted(ledger', a, dir)) = Total(Posted(ledger, a, dir)) +
                  (IF e.acct = a /\ e.dir = dir THEN e.amt ELSE 0)
  BY <1>1, <1>2, <1>3, <1>4, TotalOfPosted DEF Countable
<1>7. Countable'
  BY <1>6 DEF Countable
<1>8. Referenced'
  BY <1>2, <1>4, CallersAssumption DEF Referenced
<1>9. LedgerBalances'
  <2> SUFFICES ASSUME NEW a \in Accounts
               PROVE  balances'[a] + Debited(ledger', a) = Credited(ledger', a)
    BY DEF LedgerBalances
  <2>1. balances[a] + Debited(ledger, a) = Credited(ledger, a)
    BY DEF LedgerBalances
  <2>2. balances'[a] = balances[a] + (IF a = d.acct THEN d.amt ELSE 0)
    BY <1>1, <1>5 DEF TypeOK
  <2>3. Debited(ledger', a) = Debited(ledger, a) + 0
    BY <1>2, <1>6 DEF Debited
  <2>4. Credited(ledger', a) = Credited(ledger, a)
                                 + (IF a = d.acct THEN d.amt ELSE 0)
    BY <1>2, <1>6 DEF Credited
  <2>5. /\ Debited(ledger, a) \in Nat /\ Credited(ledger, a) \in Nat
        /\ balances[a] \in Nat
    BY FS_CardinalityType DEF Countable, Debited, Credited, Total, TypeOK
  <2>6. QED
    BY <1>1, <2>1, <2>2, <2>3, <2>4, <2>5
<1>10. QED
  BY <1>7, <1>8, <1>9

(* So does an execution, with an entry for each of its two balances. *)
LEMMA ExecuteKeepsLedger ==
  ASSUME TypeOK, Countable, Referenced, LedgerBalances,
         NEW r \in Requests, NEW q \in Quotes, NEW k \in Keys, Execute(r, q, k)
  PROVE  Countable' /\ Referenced' /\ LedgerBalances'
<1> DEFINE t == quotes[q]
           out == DebitEntry(r, t)
           in == CreditEntry(r, t)
           L == ledger \cup {out}
<1>1. t \in Term
  BY DEF Execute, TypeOK
<1>2. /\ FromAcct(t) \in Accounts /\ ToAcct(t) \in Accounts
      /\ t.famt \in Nat /\ t.tamt \in Nat
  BY <1>1 DEF Term, FromAcct, ToAcct, Accounts
<1>3. /\ out.acct = FromAcct(t) /\ out.amt = t.famt /\ out.dir = "debit"
      /\ in.acct = ToAcct(t) /\ in.amt = t.tamt /\ in.dir = "credit"
      /\ out.ref = r /\ in.ref = r
  BY DEF DebitEntry, CreditEntry
<1>4. out \notin ledger /\ in \notin L
  <2>1. \A u \in transactions : u.id # r
    BY DEF Execute, Unused
  <2>2. \A e \in ledger : e.ref # r
    BY <2>1 DEF Referenced
  <2>3. out # in
    BY <1>3
  <2>4. QED
    BY <1>3, <2>2, <2>3
<1>5. ledger' = L \cup {in}
  BY DEF Execute
<1>6. \E u \in transactions' : u.id = r
  <2> DEFINE x == [id |-> r, quote |-> q, cust |-> t.cust, key |-> k]
  <2>1. x \in transactions'
    BY DEF Execute
  <2>2. x.id = r
    OBVIOUS
  <2>3. QED
    BY <2>1, <2>2
<1>7. transactions \subseteq transactions'
  BY DEF Execute
<1>8. balances' = Exchanged(t)
  BY DEF Execute
<1> HIDE DEF out, in, L
<1>9. ASSUME NEW a \in Accounts, NEW dir \in {"debit", "credit"}
      PROVE  /\ IsFiniteSet(AllUnits(Posted(ledger', a, dir)))
             /\ Total(Posted(ledger', a, dir)) = Total(Posted(ledger, a, dir))
                  + (IF out.acct = a /\ out.dir = dir THEN out.amt ELSE 0)
                  + (IF in.acct = a /\ in.dir = dir THEN in.amt ELSE 0)
  <2>1. /\ IsFiniteSet(AllUnits(Posted(L, a, dir)))
        /\ Total(Posted(L, a, dir)) = Total(Posted(ledger, a, dir))
             + (IF out.acct = a /\ out.dir = dir THEN out.amt ELSE 0)
    BY <1>2, <1>3, <1>4, TotalOfPosted DEF Countable, L
  <2>2. /\ IsFiniteSet(AllUnits(Posted(L \cup {in}, a, dir)))
        /\ Total(Posted(L \cup {in}, a, dir)) = Total(Posted(L, a, dir))
             + (IF in.acct = a /\ in.dir = dir THEN in.amt ELSE 0)
    BY <1>2, <1>3, <1>4, <2>1, TotalOfPosted
  <2>3. QED
    BY <1>5, <2>1, <2>2
<1>10. Countable'
  BY <1>9 DEF Countable
<1>11. Referenced'
  BY <1>3, <1>5, <1>6, <1>7 DEF Referenced, L
<1>12. LedgerBalances'
  <2> SUFFICES ASSUME NEW a \in Accounts
               PROVE  balances'[a] + Debited(ledger', a) = Credited(ledger', a)
    BY DEF LedgerBalances
  <2>1. balances[a] + Debited(ledger, a) = Credited(ledger, a)
    BY DEF LedgerBalances
  <2>2. balances'[a] = balances[a] + (IF a = ToAcct(t) THEN t.tamt ELSE 0)
                                   - (IF a = FromAcct(t) THEN t.famt ELSE 0)
    BY <1>8 DEF Exchanged
  <2>3. Debited(ledger', a) = Debited(ledger, a)
                                + (IF a = FromAcct(t) THEN t.famt ELSE 0) + 0
    BY <1>3, <1>9 DEF Debited
  <2>4. Credited(ledger', a) = Credited(ledger, a) + 0
                                 + (IF a = ToAcct(t) THEN t.tamt ELSE 0)
    BY <1>3, <1>9 DEF Credited
  <2>5. /\ Debited(ledger, a) \in Nat /\ Credited(ledger, a) \in Nat
        /\ balances[a] \in Nat
    BY FS_CardinalityType DEF Countable, Debited, Credited, Total, TypeOK
  <2> HIDE DEF t
  <2>6. QED
    BY <1>2, <2>1, <2>2, <2>3, <2>4, <2>5
<1>13. QED
  BY <1>10, <1>11, <1>12

(* A balance is always what its ledger entries add up to, for every        *)
(* customer and currency and however often anyone is funded or executes.   *)
THEOREM BalancesFollowLedger == Spec => []LedgerBalances
<1>1. LedgerInv /\ TypeOK' /\ [Next]_vars => LedgerInv'
  <2> SUFFICES ASSUME LedgerInv, TypeOK', [Next]_vars
               PROVE  Countable' /\ Referenced' /\ LedgerBalances'
    BY DEF LedgerInv
  <2>1. TypeOK /\ Countable /\ Referenced /\ LedgerBalances
    BY DEF LedgerInv
  <2>2. ASSUME NEW q \in Quotes, NEW t \in Terms[q], Issue(q, t)
        PROVE  Countable' /\ Referenced' /\ LedgerBalances'
    BY <2>1, <2>2, IssueKeepsLedger DEF Issue
  <2>3. ASSUME NEW c \in Credits, NEW d \in Deposits[c], Fund(c, d)
        PROVE  Countable' /\ Referenced' /\ LedgerBalances'
    BY <2>1, <2>3, FundKeepsLedger
  <2>4. ASSUME NEW r \in Requests, NEW q \in Quotes, NEW k \in Keys,
               Execute(r, q, k)
        PROVE  Countable' /\ Referenced' /\ LedgerBalances'
    BY <2>1, <2>4, ExecuteKeepsLedger
  <2>5. CASE UNCHANGED vars
    BY <2>1, <2>5, IssueKeepsLedger DEF vars
  <2>6. QED
    BY <2>2, <2>3, <2>4, <2>5 DEF Next
<1>2. LedgerInv => LedgerBalances
  BY DEF LedgerInv
<1>3. QED
  BY <1>1, <1>2, LedgerInit, TypeCorrect, PTL DEF Spec
-----------------------------------------------------------------------------
(* A quote pays out once, a key pays out once, and always to the customer  *)
(* the quote was issued to.                                                *)
THEOREM ExecutesOnce == Spec => []ExecutedOnce
<1>1. Init => ExecutedOnce
  BY DEF Init, ExecutedOnce
<1>2. TypeOK /\ ExecutedOnce /\ [Next]_vars => ExecutedOnce'
  <2> SUFFICES ASSUME TypeOK, ExecutedOnce, [Next]_vars PROVE ExecutedOnce'
    OBVIOUS
  <2>1. ASSUME NEW q \in Quotes, NEW t \in Terms[q], Issue(q, t)
        PROVE  ExecutedOnce'
    <3>1. quotes[q] = NoQuote /\ transactions' = transactions
          /\ quotes' = [quotes EXCEPT ![q] = t]
      BY <2>1 DEF Issue
    <3>2. ASSUME NEW u \in transactions
          PROVE  quotes'[u.quote] # NoQuote /\ u.cust = quotes'[u.quote].cust
      <4>1. u.quote # q /\ u.quote \in Quotes
        BY <3>1 DEF ExecutedOnce, TypeOK, Transaction
      <4>2. quotes'[u.quote] = quotes[u.quote]
        BY <3>1, <4>1 DEF TypeOK
      <4>3. QED
        BY <4>2 DEF ExecutedOnce
    <3>3. QED
      BY <3>1, <3>2 DEF ExecutedOnce
  <2>2. ASSUME NEW c \in Credits, NEW d \in Deposits[c], Fund(c, d)
        PROVE  ExecutedOnce'
    BY <2>2 DEF Fund, ExecutedOnce
  <2>3. ASSUME NEW r \in Requests, NEW q \in Quotes, NEW k \in Keys,
               Execute(r, q, k)
        PROVE  ExecutedOnce'
    <3> DEFINE x == [id |-> r, quote |-> q, cust |-> quotes[q].cust, key |-> k]
    <3>1. /\ transactions' = transactions \cup {x} /\ quotes' = quotes
          /\ quotes[q] # NoQuote
          /\ \A t \in transactions : t.id # r /\ t.quote # q /\ t.key # k
      BY <2>3 DEF Execute, Unused
    <3>2. x.id = r /\ x.quote = q /\ x.cust = quotes[q].cust /\ x.key = k
      OBVIOUS
    <3> HIDE DEF x
    <3>3. QED
      BY <3>1, <3>2 DEF ExecutedOnce
  <2>4. CASE UNCHANGED vars
    BY <2>4 DEF vars, ExecutedOnce
  <2>5. QED
    BY <2>1, <2>2, <2>3, <2>4 DEF Next
<1>3. QED
  BY <1>1, <1>2, TypeCorrect, PTL DEF Spec

(* What TwoLegs says of one call. *)
LegsOf(r) ==
    UNION {{DebitEntry(r, quotes[t.quote]), CreditEntry(r, quotes[t.quote])} :
           t \in {u \in transactions : u.id = r}}

(* Every execution has both its legs in the ledger, with the amounts of    *)
(* its quote, and no call without a transaction has any entry there.       *)
THEOREM EveryExecutionHasTwoLegs == Spec => []TwoLegs
<1>1. Init => TwoLegs
  BY DEF Init, TwoLegs
<1>2. TypeOK /\ ExecutedOnce /\ TwoLegs /\ [Next]_vars => TwoLegs'
  <2> SUFFICES ASSUME TypeOK, ExecutedOnce, TwoLegs, [Next]_vars, NEW r \in Requests
               PROVE  {e \in ledger' : e.ref = r} = LegsOf(r)'
    BY DEF TwoLegs, LegsOf
  <2>1. {e \in ledger : e.ref = r} = LegsOf(r)
    BY DEF TwoLegs, LegsOf
  <2>2. ASSUME NEW q \in Quotes, NEW t \in Terms[q], Issue(q, t)
        PROVE  {e \in ledger' : e.ref = r} = LegsOf(r)'
    <3>1. /\ quotes[q] = NoQuote /\ quotes' = [quotes EXCEPT ![q] = t]
          /\ transactions' = transactions /\ ledger' = ledger
      BY <2>2 DEF Issue
    <3>2. ASSUME NEW u \in transactions PROVE quotes'[u.quote] = quotes[u.quote]
      <4>1. u.quote # q /\ u.quote \in Quotes
        BY <3>1 DEF ExecutedOnce, TypeOK, Transaction
      <4>2. QED
        BY <3>1, <4>1 DEF TypeOK
    <3>3. LegsOf(r)' = LegsOf(r)
      BY <3>1, <3>2 DEF LegsOf
    <3>4. QED
      BY <2>1, <3>1, <3>3
  <2>3. ASSUME NEW c \in Credits, NEW d \in Deposits[c], Fund(c, d)
        PROVE  {e \in ledger' : e.ref = r} = LegsOf(r)'
    <3>1. /\ ledger' = ledger \cup {FundEntry(c, d)}
          /\ transactions' = transactions /\ quotes' = quotes
      BY <2>3 DEF Fund
    <3>2. FundEntry(c, d).ref # r
      BY CallersAssumption DEF FundEntry
    <3>3. {e \in ledger' : e.ref = r} = {e \in ledger : e.ref = r}
      BY <3>1, <3>2
    <3>4. LegsOf(r)' = LegsOf(r)
      BY <3>1 DEF LegsOf
    <3>5. QED
      BY <2>1, <3>3, <3>4
  <2>4. ASSUME NEW o \in Requests, NEW q \in Quotes, NEW k \in Keys,
               Execute(o, q, k)
        PROVE  {e \in ledger' : e.ref = r} = LegsOf(r)'
    <3> DEFINE x == [id |-> o, quote |-> q, cust |-> quotes[q].cust, key |-> k]
               out == DebitEntry(o, quotes[q])
               in == CreditEntry(o, quotes[q])
    <3>1. /\ transactions' = transactions \cup {x} /\ quotes' = quotes
          /\ ledger' = ledger \cup {out, in}
          /\ \A t \in transactions : t.id # o
      BY <2>4 DEF Execute, Unused
    <3>2. x.id = o /\ x.quote = q
      OBVIOUS
    <3>3. out.ref = o /\ in.ref = o
      BY DEF DebitEntry, CreditEntry
    <3> HIDE DEF x
    <3>4. CASE r = o
      <4>1. {u \in transactions : u.id = r} = {}
        BY <3>1, <3>4
      <4>2. {u \in transactions' : u.id = r} = {x}
        BY <3>1, <3>2, <3>4
      <4>3. LegsOf(r) = {}
        BY <4>1 DEF LegsOf
      <4>4. LegsOf(r)' = {out, in}
        BY <3>1, <3>2, <3>4, <4>2 DEF LegsOf
      <4> HIDE DEF out, in
      <4>5. QED
        BY <2>1, <3>1, <3>3, <3>4, <4>3, <4>4
    <3>5. CASE r # o
      <4>1. {u \in transactions' : u.id = r} = {u \in transactions : u.id = r}
        BY <3>1, <3>2, <3>5
      <4>2. LegsOf(r)' = LegsOf(r)
        BY <3>1, <4>1 DEF LegsOf
      <4> HIDE DEF out, in
      <4>3. {e \in ledger' : e.ref = r} = {e \in ledger : e.ref = r}
        BY <3>1, <3>3, <3>5
      <4>4. QED
        BY <2>1, <4>2, <4>3
    <3>6. QED
      BY <3>4, <3>5
  <2>5. CASE UNCHANGED vars
    BY <2>1, <2>5 DEF vars, LegsOf
  <2>6. QED
    BY <2>2, <2>3, <2>4, <2>5 DEF Next
<1>3. QED
  BY <1>1, <1>2, TypeCorrect, ExecutesOnce, PTL DEF Spec
=============================================================================
