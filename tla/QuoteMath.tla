----------------------------- MODULE QuoteMath ------------------------------
(***************************************************************************)
(* The arithmetic of a quote: the mid rates and spreads of the rate        *)
(* provider (app/providers/rates.py), the amount generate_quote fixes      *)
(* (app/engine/fx.py) and what PostgreSQL keeps of it. One customer        *)
(* converts money at one set of rates, as often as it likes.               *)
(*                                                                         *)
(* A balance counts steps of its NUMERIC(20,8) column, a to_amount is a    *)
(* whole number of cents, and a request may have digits beyond both.       *)
(* Rates are exact fractions: Decimal's 28 digits are not rounded here.    *)
(***************************************************************************)
EXTENDS Integers, FiniteSets, FiniteSetsExt

CONSTANTS
    Currencies,     \* SUPPORTED_CURRENCIES
    UsdRates,       \* answers of upstream: units of a currency per dollar
    Unit,           \* a spread counts fractions of this
    Spread,         \* PAIR_SPREADS
    Places,         \* column steps in a cent: 10^6 in the code
    Extra,          \* request digits in a column step
    Amounts,        \* the amounts that may be asked for
    Funds,          \* the balances a customer may start with
    MaxQuotes,      \* bound: so many quotes
    NoQuote         \* there is no open quote

(* The currencies are listed in the code (providers/rates.py:42). *)
ASSUME CurrenciesAssumption == IsFiniteSet(Currencies)

ASSUME RatesAssumption ==
    UsdRates \subseteq [Currencies -> Nat \ {0}]

ASSUME SpreadAssumption ==
    /\ Unit \in Nat
    /\ Spread \in [Currencies \X Currencies -> 1 .. Unit - 1]

ASSUME AmountsAssumption ==
    /\ Places \in Nat \ {0} /\ Extra \in Nat \ {0}
    /\ Amounts \subseteq Nat \ {0} /\ MaxQuotes \in Nat
    /\ Funds \subseteq [Currencies -> Nat]

VARIABLES
    usd,            \* the rates of the day
    quote,          \* the open quote
    wallet,         \* the balances
    funded,         \* what the wallet held at first
    due,            \* history: the spread of all executions
    slack,          \* history: what their roundings may amount to
    issued          \* how many quotes there were

vars == <<usd, quote, wallet, funded, due, slack, issued>>

(* ROUND_HALF_UP of n/d; NUMERIC rounds positive numbers the same way. *)
Truncated(n, d) == n \div d
HalfUp(n, d) == (2 * n + d) \div (2 * d)

(* _compute_all_mids: twelve pairs, each a ratio of two dollar rates. *)
Mid(a, b) == [num |-> usd[b], den |-> usd[a]]

(* get_effective_rate: mid * (1 - spread) *)
EffectiveRate(a, b) ==
    [num |-> Mid(a, b).num * (Unit - Spread[<<a, b>>]), den |-> Mid(a, b).den * Unit]

(* (from_amount * rate).quantize(QUANTUM), and from_amount as it is stored. *)
ToAmount(amount, a, b) ==
    HalfUp(amount * EffectiveRate(a, b).num, EffectiveRate(a, b).den * Extra * Places)
FromAmount(amount) == HalfUp(amount, Extra)

(* What a step of a currency is worth, in units that make it a whole       *)
(* number, and what a wallet is worth.                                     *)
Worth(c) ==
    FoldFunctionOnSet(LAMBDA x, y : x * y, 1, usd, Currencies \ {c})
Value(w) == MapThenSumSet(LAMBDA c : w[c] * Worth(c), Currencies)

-----------------------------------------------------------------------------
(* POST /quotes *)
Generate(a, b, amount) ==
    /\ quote = NoQuote /\ issued < MaxQuotes
    /\ a # b
    /\ quote' = [from |-> a, to |-> b, famt |-> FromAmount(amount),
                 tamt |-> Places * ToAmount(amount, a, b)]
    /\ issued' = issued + 1
    /\ UNCHANGED <<usd, wallet, funded, due, slack>>

(* POST /quotes/{id}/execute, if the funds suffice and neither entry of    *)
(* the ledger would be empty.                                              *)
CoveredSomehow(q) == wallet[q.from] > 0
Covered(q) == wallet[q.from] >= q.famt

Execute ==
    /\ quote # NoQuote
    /\ quote.famt > 0 /\ quote.tamt > 0
    /\ Covered(quote)
    /\ wallet' = [wallet EXCEPT ![quote.from] = @ - quote.famt,
                                ![quote.to] = @ + quote.tamt]
    /\ due' = due + quote.famt * Worth(quote.from) * Spread[<<quote.from, quote.to>>]
    /\ slack' = slack + Places * Worth(quote.to) + Worth(quote.from)
    /\ quote' = NoQuote
    /\ UNCHANGED <<usd, funded, issued>>

(* The quote is left to expire. *)
Expire ==
    /\ quote # NoQuote
    /\ quote' = NoQuote
    /\ UNCHANGED <<usd, wallet, funded, due, slack, issued>>

Init ==
    /\ usd \in UsdRates
    /\ quote = NoQuote
    /\ wallet \in Funds
    /\ funded = wallet
    /\ due = 0 /\ slack = 0 /\ issued = 0

Next ==
    \/ \E a, b \in Currencies, amount \in Amounts : Generate(a, b, amount)
    \/ Execute \/ Expire

Spec == Init /\ [][Next]_vars
-----------------------------------------------------------------------------
(* Amounts are natural numbers of column steps, quotes are between two     *)
(* currencies and pay whole cents, and no balance is negative.             *)
TypeOK ==
    /\ usd \in UsdRates
    /\ quote \in [from : Currencies, to : Currencies, famt : Nat, tamt : Nat]
                 \cup {NoQuote}
    /\ quote # NoQuote => quote.from # quote.to /\ quote.tamt % Places = 0
    /\ wallet \in [Currencies -> Nat] /\ funded \in Funds
    /\ {due, slack} \subseteq Nat
    /\ issued \in 0 .. MaxQuotes

(* SPEC.md:44: what the bank keeps of any chain of conversions, valued at  *)
(* the mid rates, is the spread of each of them; half a cent of what is    *)
(* bought and half a step of what is sold is all that rounding can add to  *)
(* it or take from it.                                                     *)
RevenueIsTheSpread ==
    LET kept == Unit * (Value(funded) - Value(wallet))
    IN  /\ 2 * (kept - due) <= Unit * slack
        /\ 2 * (due - kept) <= Unit * slack
=============================================================================
