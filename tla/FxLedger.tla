------------------------------ MODULE FxLedger ------------------------------
(***************************************************************************)
(* What the FX engine promises, whatever runs concurrently: money moves in *)
(* whole steps. A customer is funded, a quote is issued, a quote is        *)
(* executed at most once and at most once per idempotency key, out of      *)
(* money that is there, and the ledger tells how every balance came about. *)
(*                                                                         *)
(* FxExecute, which models the SQL statements one by one, implements this  *)
(* specification.                                                          *)
(***************************************************************************)
EXTENDS FxData

VARIABLES
    quotes,         \* quotes[q]: the terms of quote q, or NoQuote
    balances,       \* balances[a]: the amount of the row, 0 without one
    ledger,         \* the rows of ledger_entries
    transactions    \* the rows of transactions

vars == <<quotes, balances, ledger, transactions>>

Init ==
    /\ quotes = [q \in Quotes |-> NoQuote]
    /\ balances = [a \in Accounts |-> 0]
    /\ ledger = {}
    /\ transactions = {}

(* POST /quotes: the terms never change afterwards. *)
Issue(q, t) ==
    /\ quotes[q] = NoQuote
    /\ quotes' = [quotes EXCEPT ![q] = t]
    /\ UNCHANGED <<balances, ledger, transactions>>

(* POST /customers/{id}/credit *)
Fund(c, d) ==
    /\ d.amt > 0
    /\ \A e \in ledger : e.ref # c
    /\ balances' = [balances EXCEPT ![d.acct] = @ + d.amt]
    /\ ledger' = ledger \cup {FundEntry(c, d)}
    /\ UNCHANGED <<quotes, transactions>>

(* No transaction yet of this call, of this quote, or under this key. *)
KeyReusable(r, q, k) ==
    \A t \in transactions : t.id # r /\ t.quote # q
Unused(r, q, k) ==
    \A t \in transactions : t.id # r /\ t.quote # q /\ t.key # k

(* Both legs move at once. *)
DebitOfPayee(t) == [balances EXCEPT ![ToAcct(t)] = @ - t.famt]
CreditOnly(t) == [balances EXCEPT ![ToAcct(t)] = @ + t.tamt]
Exchanged(t) ==
    [a \in Accounts |->
        balances[a] + (IF a = ToAcct(t) THEN t.tamt ELSE 0)
                    - (IF a = FromAcct(t) THEN t.famt ELSE 0)]

(* POST /quotes/{id}/execute *)
ExecuteWithoutDebitEntry(r, q, k) ==
    /\ quotes[q] # NoQuote
    /\ Unused(r, q, k)
    /\ balances[FromAcct(quotes[q])] >= quotes[q].famt
    /\ balances' = Exchanged(quotes[q])
    /\ ledger' = ledger \cup {CreditEntry(r, quotes[q])}
    /\ transactions' = transactions \cup
          {[id |-> r, quote |-> q, cust |-> quotes[q].cust, key |-> k]}
    /\ UNCHANGED quotes
Execute(r, q, k) ==
    /\ quotes[q] # NoQuote
    /\ Unused(r, q, k)
    /\ LET t == quotes[q]
       IN  /\ t.famt > 0 /\ t.tamt > 0
           /\ balances[FromAcct(t)] >= t.famt
           /\ balances' = Exchanged(t)
           /\ ledger' = ledger \cup {DebitEntry(r, t), CreditEntry(r, t)}
           /\ transactions' = transactions \cup
                {[id |-> r, quote |-> q, cust |-> t.cust, key |-> k]}
    /\ UNCHANGED quotes

Next ==
    \/ \E q \in Quotes : \E t \in Terms[q] : Issue(q, t)
    \/ \E c \in Credits : \E d \in Deposits[c] : Fund(c, d)
    \/ \E r \in Requests, q \in Quotes, k \in Keys : Execute(r, q, k)

Spec == Init /\ [][Next]_vars
-----------------------------------------------------------------------------
(* Every table holds rows of its type; a balance is never negative         *)
(* (CHECK balance_non_negative) and an entry is never empty (CHECK         *)
(* ledger_entries_amount_positive).                                        *)
TypeOK ==
    /\ quotes \in [Quotes -> Term \cup {NoQuote}]
    /\ \A q \in Quotes : quotes[q] \in Terms[q] \cup {NoQuote}
    /\ balances \in [Accounts -> Nat]
    /\ ledger \subseteq Entry
    /\ \A e \in ledger : e.amt > 0
    /\ transactions \subseteq Transaction

(* SPEC.md:122 and engine/fx.py:16: balance = SUM(credits) - SUM(debits)   *)
(* per customer and currency. The balances table is a cache of the ledger. *)
LedgerBalances ==
    \A a \in Accounts :
        balances[a] + Debited(ledger, a) = Credited(ledger, a)

(* Each execution posts exactly its debit and its credit, and nothing else *)
(* is ever posted in its name (SPEC.md:125).                               *)
TwoLegs ==
    \A r \in Requests :
        {e \in ledger : e.ref = r} =
            UNION {{DebitEntry(r, quotes[t.quote]), CreditEntry(r, quotes[t.quote])} :
                   t \in {u \in transactions : u.id = r}}

(* A quote is executed at most once, a key pays for at most one execution  *)
(* (UNIQUE quote_id, UNIQUE idempotency_key), and always for the customer  *)
(* the quote was issued to.                                                *)
ExecutedOnce ==
    /\ \A t, u \in transactions :
          t.id = u.id \/ t.quote = u.quote \/ t.key = u.key => t = u
    /\ \A t \in transactions :
          quotes[t.quote] # NoQuote /\ t.cust = quotes[t.quote].cust
=============================================================================
