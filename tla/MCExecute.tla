----------------------------- MODULE MCExecute ------------------------------
(* Small instances of FxExecute: values of its constants for TLC. *)
EXTENDS FxExecute, TLC

CONSTANTS c1, c2, EUR, KES, USD, q1, q2, q3, k1, k2, k3, r1, r2, r3, d1, d2

MCRank == [c \in Currencies |-> CASE c = EUR -> 1 [] c = KES -> 2 [] OTHER -> 3]

Sells(c, f, n, t, m) ==
    [cust |-> c, from |-> f, to |-> t, famt |-> n, tamt |-> m]
Call(q, c, k) == [quote |-> q, cust |-> c, key |-> k]
Into(c, ccy, n) == [acct |-> <<c, ccy>>, amt |-> n]
-----------------------------------------------------------------------------
(* Retry: one quote, and every way to call for it again: the same key, a   *)
(* fresh key, the key with another customer, no key. The credit would pay  *)
(* for a second execution too; it may come late, or be rounded to nothing, *)
(* as the amount of the quote may.                                         *)
RetryTerms == q1 :> {Sells(c1, USD, 2, EUR, 1), Sells(c1, USD, 2, EUR, 0)}
RetryBodies == [r \in Requests |->
    {Call(q1, c1, k1), Call(q1, c1, k2), Call(q1, c2, k1), Call(q1, c1, NoKey)}]
RetryDeposits == d1 :> {Into(c1, USD, 4), Into(c1, USD, 0)}

(* Opposite: two quotes of one customer in opposite directions, executed   *)
(* three times with two keys, on one funded account and with a race for    *)
(* the money of q1 between two credits.                                    *)
OppositeTerms == q1 :> {Sells(c1, USD, 2, EUR, 1)} @@
                 q2 :> {Sells(c1, EUR, 1, USD, 1), Sells(c1, USD, 2, EUR, 1)}
OppositeBodies == [r \in Requests |->
    CASE r = r1 -> {Call(q1, c1, k1)}
      [] r = r2 -> {Call(q2, c1, k1), Call(q2, c1, k2)}
      [] r = r3 -> {Call(q1, c1, k2), Call(q2, c1, k2)}]
OppositeDeposits == [d \in Credits |->
    IF d = d1 THEN {Into(c1, USD, 2)} ELSE {Into(c1, EUR, 1)}]

(* Ring: three quotes over three currencies, each sharing one currency     *)
(* with each other, so that a circle of waits would have room.             *)
RingTerms == q1 :> {Sells(c1, USD, 1, EUR, 1)} @@
             q2 :> {Sells(c1, EUR, 1, KES, 1)} @@
             q3 :> {Sells(c1, KES, 1, USD, 1)}
RingBodies == r1 :> {Call(q1, c1, k1)} @@ r2 :> {Call(q2, c1, k2)} @@
              r3 :> {Call(q3, c1, k3)}
RingDeposits == d1 :> {Into(c1, USD, 1), Into(c1, KES, 1)}

(* Expiry: one quote that may expire before, between and during two calls. *)
ExpiryTerms == q1 :> {Sells(c1, USD, 2, EUR, 1)}
ExpiryBodies == [r \in Requests |-> {Call(q1, c1, k1), Call(q1, c1, k2)}]
ExpiryDeposits == d1 :> {Into(c1, USD, 2)}

=============================================================================
