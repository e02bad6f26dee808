------------------------------- MODULE FxData -------------------------------
(***************************************************************************)
(* The rows the FX engine keeps in PostgreSQL and the sums over its ledger *)
(* (db/versions/*_initial_schema.py, *_ledger_and_idempotency.py).         *)
(*                                                                         *)
(* Amounts are naturals: units of the smallest step of a NUMERIC(20,8).    *)
(***************************************************************************)
EXTENDS Integers, FiniteSets

CONSTANTS
    Customers,      \* the customers that have been registered
    Currencies,     \* USD, EUR, KES, NGN in the code
    Rank,           \* alphabetical position of a currency code
    Quotes,         \* ids of quotes
    Keys,           \* values of the Idempotency-Key header
    Requests,       \* calls of POST /quotes/{id}/execute
    Credits,        \* calls of POST /customers/{id}/credit
    Terms,          \* Terms[q]: what quote q may be issued for
    Deposits,       \* Deposits[c]: the bodies credit call c may carry
    NoQuote,        \* the id has not been issued
    NoKey           \* the header is missing or empty

(* What a quotes row fixes for good: both amounts are locked in when it is *)
(* issued. An amount below half a unit of its column is stored as zero.    *)
Term == [cust : Customers, from : Currencies, to : Currencies,
         famt : Nat, tamt : Nat]

(* A balances row is identified by its primary key. *)
Accounts == Customers \X Currencies

(* A ledger_entries row: "ref" stands for reference_type and reference_id, *)
(* the call that wrote it.                                                 *)
Entry == [ref : Requests \cup Credits, acct : Accounts, amt : Nat,
          dir : {"debit", "credit"}]

(* A transactions row; its id is the call that inserted it. *)
Transaction == [id : Requests, quote : Quotes, cust : Customers, key : Keys]

ASSUME RankAssumption ==
    /\ Rank \in [Currencies -> Nat]
    /\ \A c, d \in Currencies : Rank[c] = Rank[d] => c = d

(* The customer, and two distinct currencies, are checked before a quote   *)
(* is stored (routes/quotes.py:79, engine/fx.py:87).                       *)
ASSUME TermsAssumption ==
    /\ Terms \in [Quotes -> SUBSET Term]
    /\ \A q \in Quotes : \A t \in Terms[q] : t.from # t.to
    /\ NoQuote \notin Term

ASSUME DepositsAssumption ==
    Deposits \in [Credits -> SUBSET [acct : Accounts, amt : Nat]]

ASSUME CallersAssumption ==
    /\ Requests \cap Credits = {}
    /\ NoKey \notin Keys

FromAcct(t) == <<t.cust, t.from>>
ToAcct(t) == <<t.cust, t.to>>

DebitEntry(r, t) ==
    [ref |-> r, acct |-> FromAcct(t), amt |-> t.famt, dir |-> "debit"]
CreditEntry(r, t) ==
    [ref |-> r, acct |-> ToAcct(t), amt |-> t.tamt, dir |-> "credit"]
FundEntry(c, d) ==
    [ref |-> c, acct |-> d.acct, amt |-> d.amt, dir |-> "credit"]

-----------------------------------------------------------------------------
(* SUM(amount) over a set of ledger entries. It counts the units one by    *)
(* one, so that no recursion over the set is needed.                       *)
Units(e) == {e} \X (1 .. e.amt)
AllUnits(L) == UNION {Units(e) : e \in L}
Total(L) == Cardinality(AllUnits(L))

Posted(L, a, d) == {e \in L : e.acct = a /\ e.dir = d}
Credited(L, a) == Total(Posted(L, a, "credit"))
Debited(L, a) == Total(Posted(L, a, "debit"))
=============================================================================
