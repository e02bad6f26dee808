------------------------------ MODULE MCQuote -------------------------------
(* A small instance of QuoteMath: rates and spreads in the proportions of  *)
(* the real ones, a few digits each.                                      *)
EXTENDS QuoteMath, TLC

CONSTANTS USD, EUR, KES

MCRates == {USD :> 10 @@ EUR :> 9 @@ KES :> 130, USD :> 3 @@ EUR :> 2 @@ KES :> 7}

MCSpread == [p \in Currencies \X Currencies |-> IF KES \in {p[1], p[2]} THEN 3 ELSE 1]

MCFunds == {USD :> 9 @@ EUR :> 0 @@ KES :> 0, USD :> 4 @@ EUR :> 0 @@ KES :> 60}
=============================================================================
