------------------------------ MODULE MCLedger ------------------------------
(* A small instance of FxLedger for TLC. *)
EXTENDS FxLedger, TLC

CONSTANTS c1, EUR, USD, q1, q2, q3, k1, k2, r1, r2, r3, d1, d2

MCRank == (EUR :> 1) @@ (USD :> 2)

Sells(f, n, t, m) == [cust |-> c1, from |-> f, to |-> t, famt |-> n, tamt |-> m]

(* Quotes in both directions, one of them rounded to nothing. *)
MCTerms == [q \in Quotes |->
    {Sells(USD, 2, EUR, 1), Sells(USD, 1, EUR, 0), Sells(EUR, 1, USD, 2)}]

MCDeposits == [d \in Credits |->
    {[acct |-> <<c1, ccy>>, amt |-> n] : ccy \in Currencies, n \in {0, 1, 3}}]
=============================================================================
