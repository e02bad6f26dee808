--------------------------- MODULE QuoteMathProofs ---------------------------
(***************************************************************************)
(* Theorems about the arithmetic of quotes, for any currencies, rates,     *)
(* spreads and amounts, and chains of conversions of any length.           *)
(*                                                                         *)
(* Worth and Value are folds over sets, and an induction over their data   *)
(* cannot be had from the library. It is done here by a smallest           *)
(* counterexample instead: what holds of a set if it holds of its proper   *)
(* subsets holds of all finite sets (SmallestSet). So there is a fold, one *)
(* only, and it may take out any element first (FoldExists, FoldsAgree,    *)
(* FoldTakes), and an exchange changes the value of a wallet by what it    *)
(* changes the two balances (ValueOfExchange). What a single quote may be  *)
(* off by is an inequality between products (Conversion).                  *)
(***************************************************************************)
EXTENDS QuoteMath, FiniteSetTheorems, WellFoundedInduction, TLAPS

(* The element a fold takes out of a set first. *)
Pick(s) == CHOOSE x \in s : TRUE

(* F folds H over the subsets of S: it is base for the empty set, and adds *)
(* the element it picks to the fold of the others.                         *)
IsFold(F, H, base, S) ==
    /\ F \in [SUBSET S -> Nat]
    /\ F[{}] = base
    /\ \A u \in (SUBSET S) \ {{}} : F[u] = H[Pick(u)][F[u \ {Pick(u)}]]

(* What H does with an element and a number is a number again, and the     *)
(* order of two elements does not matter.                                  *)
Counts(H, S) == \A x \in S : H[x] \in [Nat -> Nat]
Commutes(H, S) == \A x, y \in S : \A n \in Nat : H[x][H[y][n]] = H[y][H[x][n]]

(* A recursive definition of F, before it is known to be a number.         *)
Unfolds(F, H, base, S) ==
    /\ F = [u \in SUBSET S |-> F[u]]
    /\ F[{}] = base
    /\ \A u \in (SUBSET S) \ {{}} :
          F[u \ {Pick(u)}] \in Nat => F[u] = H[Pick(u)][F[u \ {Pick(u)}]]

(* A set of T that contains no other. *)
Smallest(m, T) == m \in T /\ \A x \in T : x \subseteq m => x = m

(* Among finite sets there is always one. *)
LEMMA SmallestSet ==
  ASSUME NEW S, IsFiniteSet(S), NEW T, T \subseteq SUBSET S, T # {}
  PROVE  \E m : Smallest(m, T)
<1> DEFINE R == StrictSubsetOrdering(S)
<1>1. IsWellFoundedOn(R, SUBSET S)
  BY FS_StrictSubsetOrderingWellFounded, FS_FiniteSubsetsOfFinite
<1>2. \E m \in T : \A x \in T : ~(<<x, m>> \in R)
  <2> HIDE DEF R
  <2> QED
    BY <1>1, WFMin
<1>3. QED
  BY <1>2 DEF StrictSubsetOrdering, Smallest

(* What is picked is in the set. *)
LEMMA PickedIn ==
  ASSUME NEW u, u # {}
  PROVE  Pick(u) \in u
BY DEF Pick

(* Two folds agree on a set if what they fold agrees on its elements. *)
LEMMA FoldsAgree ==
  ASSUME NEW S, NEW T, NEW F, NEW G, NEW H, NEW J, NEW base,
         IsFold(F, H, base, S), IsFold(G, J, base, T),
         NEW u \in SUBSET (S \cap T), IsFiniteSet(u),
         \A x \in u : \A n \in Nat : H[x][n] = J[x][n]
  PROVE  F[u] = G[u]
<1> DEFINE Bad == {v \in SUBSET u : F[v] # G[v]}
<1> SUFFICES ASSUME Bad # {} PROVE FALSE
  OBVIOUS
<1>0. PICK m : Smallest(m, Bad)
  <2>1. Bad \subseteq SUBSET u
    OBVIOUS
  <2> HIDE DEF Bad
  <2>2. QED
    BY <2>1, SmallestSet
<1>1. m \in Bad /\ \A x \in Bad : x \subseteq m => x = m
  BY <1>0 DEF Smallest
<1>2. m # {}
  BY <1>1 DEF IsFold
<1>3. Pick(m) \in m
  BY <1>2, PickedIn
<1> DEFINE r == m \ {Pick(m)}
<1>4. r \subseteq m /\ r # m /\ r \in SUBSET u
  BY <1>1, <1>3
<1>5. F[r] = G[r]
  <2> HIDE DEF r
  <2> QED
    BY <1>1, <1>4
<1>6. F[r] \in Nat
  BY <1>4 DEF IsFold
<1>7. F[m] = H[Pick(m)][F[r]] /\ G[m] = J[Pick(m)][G[r]]
  BY <1>1, <1>2 DEF IsFold
<1>8. H[Pick(m)][F[r]] = J[Pick(m)][F[r]]
  <2> HIDE DEF r
  <2> QED
    BY <1>1, <1>3, <1>6
<1>9. F[m] = G[m]
  BY <1>5, <1>7, <1>8
<1>10. QED
  BY <1>1, <1>9

(* Over a finite set there is a fold. *)
LEMMA FoldExists ==
  ASSUME NEW S, IsFiniteSet(S), NEW H, Counts(H, S), NEW base \in Nat
  PROVE  \E F : IsFold(F, H, base, S)
<1> DEFINE Bad == {v \in SUBSET S : ~ \E F : IsFold(F, H, base, v)}
<1> SUFFICES ASSUME Bad # {} PROVE FALSE
  OBVIOUS
<1>0. PICK m : Smallest(m, Bad)
  <2>1. Bad \subseteq SUBSET S
    OBVIOUS
  <2> HIDE DEF Bad
  <2>2. QED
    BY <2>1, SmallestSet
<1>1. m \in Bad /\ \A x \in Bad : x \subseteq m => x = m
  BY <1>0 DEF Smallest
<1> DEFINE V(u) == (CHOOSE F : IsFold(F, H, base, u))[u]
           p == Pick(m)
           F == [u \in SUBSET m |-> IF u = {} THEN base ELSE
                                    IF u = m THEN H[p][V(m \ {p})] ELSE V(u)]
<1>2. ASSUME NEW u \in SUBSET m, u # m
      PROVE  IsFold(CHOOSE G : IsFold(G, H, base, u), H, base, u)
  <2>1. u \in SUBSET S /\ u \notin Bad
    BY <1>1, <1>2
  <2>2. \E G : IsFold(G, H, base, u)
    BY <2>1
  <2>3. QED
    BY <2>2
<1>3. ASSUME NEW u \in SUBSET m, u # m PROVE V(u) \in Nat
  <2> DEFINE A == CHOOSE G : IsFold(G, H, base, u)
  <2>1. IsFold(A, H, base, u)
    BY <1>2, <1>3
  <2>2. V(u) = A[u]
    OBVIOUS
  <2>3. A \in [SUBSET u -> Nat] => A[u] \in Nat
    <3> HIDE DEF A
    <3> QED
      OBVIOUS
  <2> HIDE DEF A, V
  <2>4. QED
    BY <2>1, <2>2, <2>3 DEF IsFold
<1>4. m # {}
  <2>1. IsFold([u \in {{}} |-> base], H, base, {})
    BY DEF IsFold
  <2>2. QED
    BY <2>1, <1>1
<1>5. p \in m /\ p \in S
  BY <1>1, <1>4, PickedIn
<1>6. F \in [SUBSET m -> Nat]
  <2>1. m \ {p} \in SUBSET m /\ m \ {p} # m
    BY <1>5
  <2>2. V(m \ {p}) \in Nat
    BY <1>3, <2>1
  <2>3. H[p][V(m \ {p})] \in Nat
    <3> HIDE DEF V, p
    <3> QED
      BY <1>5, <2>2 DEF Counts
  <2> HIDE DEF V, p
  <2>4. QED
    BY <1>3, <2>3
<1>7. ASSUME NEW u \in (SUBSET m) \ {{}}
      PROVE  F[u] = H[Pick(u)][F[u \ {Pick(u)}]]
  <2> DEFINE r == u \ {Pick(u)}
  <2>1. Pick(u) \in u
    BY PickedIn
  <2>2. r \in SUBSET m /\ r # m /\ r \in SUBSET u
    BY <2>1
  <2>3. F[r] = V(r)
    <3>1. CASE r = {}
      <4>1. V({}) = base
        BY <1>2, <1>4 DEF IsFold
      <4>2. QED
        BY <3>1, <4>1
    <3>2. CASE r # {}
      <4> HIDE DEF V, r
      <4> QED
        BY <2>2, <3>2
    <3>3. QED
      BY <3>1, <3>2
  <2>4. CASE u = m
    <3> HIDE DEF V
    <3> QED
      BY <1>4, <2>3, <2>4
  <2>5. CASE u # m
    <3> DEFINE A == CHOOSE G : IsFold(G, H, base, u)
               B == CHOOSE G : IsFold(G, H, base, r)
    <3>1. IsFold(A, H, base, u) /\ IsFold(B, H, base, r)
      BY <1>2, <2>2, <2>5
    <3>2. IsFiniteSet(r)
      BY <2>2, <1>1, FS_Subset
    <3>3. A[r] = B[r]
      <4>1. r \in SUBSET (u \cap r)
        BY <2>2
      <4> HIDE DEF A, B, r
      <4>2. QED
        BY <3>1, <3>2, <4>1, FoldsAgree
    <3>4. A[u] = H[Pick(u)][A[r]]
      <4> HIDE DEF A
      <4> QED
        BY <3>1 DEF IsFold
    <3>5. V(u) = A[u] /\ V(r) = B[r]
      OBVIOUS
    <3>6. F[u] = V(u)
      <4> HIDE DEF V
      <4> QED
        BY <2>5
    <3> HIDE DEF V, A, B, r, F
    <3>7. QED
      BY <2>3, <3>3, <3>4, <3>5, <3>6 DEF r
  <2>6. QED
    BY <2>4, <2>5
<1>8. F[{}] = base
  OBVIOUS
<1>9. IsFold(F, H, base, m)
  <2> HIDE DEF F
  <2> QED
    BY <1>6, <1>7, <1>8 DEF IsFold
<1>10. QED
  BY <1>9, <1>1

(* If the order does not matter, any element may be taken out first. *)
LEMMA FoldTakes ==
  ASSUME NEW S, IsFiniteSet(S), NEW H, Commutes(H, S), NEW base, NEW F,
         IsFold(F, H, base, S), NEW v \in SUBSET S, NEW y \in v
  PROVE  F[v] = H[y][F[v \ {y}]]
<1> DEFINE Bad == {u \in SUBSET S : \E x \in u : F[u] # H[x][F[u \ {x}]]}
<1> SUFFICES ASSUME Bad # {} PROVE FALSE
  OBVIOUS
<1>0. PICK m : Smallest(m, Bad)
  <2>1. Bad \subseteq SUBSET S
    OBVIOUS
  <2> HIDE DEF Bad
  <2>2. QED
    BY <2>1, SmallestSet
<1>1. m \in Bad /\ \A x \in Bad : x \subseteq m => x = m
  BY <1>0 DEF Smallest
<1>2. PICK x \in m : F[m] # H[x][F[m \ {x}]]
  BY <1>1
<1> DEFINE p == Pick(m)
           r == (m \ {x}) \ {p}
<1>3. p \in m /\ F[m] = H[p][F[m \ {p}]]
  BY <1>1, <1>2, PickedIn DEF IsFold
<1> HIDE DEF p
<1>4. p # x
  BY <1>2, <1>3
<1>5. F[m \ {p}] = H[x][F[(m \ {p}) \ {x}]]
  <2>1. /\ m \ {p} \subseteq m /\ m \ {p} # m
        /\ m \ {p} \in SUBSET S /\ x \in m \ {p}
    BY <1>1, <1>2, <1>3, <1>4
  <2>2. m \ {p} \notin Bad
    BY <1>1, <2>1
  <2>3. QED
    BY <2>1, <2>2
<1>6. F[m \ {x}] = H[p][F[r]]
  <2>1. /\ m \ {x} \subseteq m /\ m \ {x} # m
        /\ m \ {x} \in SUBSET S /\ p \in m \ {x}
    BY <1>1, <1>2, <1>3, <1>4
  <2>2. m \ {x} \notin Bad
    BY <1>1, <2>1
  <2>3. QED
    BY <2>1, <2>2
<1>7. (m \ {p}) \ {x} = r /\ r \in SUBSET S
  BY <1>1
<1>8. F[r] \in Nat /\ p \in S /\ x \in S
  BY <1>1, <1>2, <1>3, <1>7 DEF IsFold
<1>9. H[p][H[x][F[r]]] = H[x][H[p][F[r]]]
  <2> HIDE DEF r
  <2> QED
    BY <1>8 DEF Commutes
<1>10. QED
  BY <1>2, <1>3, <1>5, <1>6, <1>7, <1>9
-----------------------------------------------------------------------------
(* Its values are numbers, so it is a fold. *)
LEMMA RecursionFolds ==
  ASSUME NEW S, IsFiniteSet(S), NEW H, Counts(H, S), NEW base \in Nat,
         NEW F, Unfolds(F, H, base, S)
  PROVE  IsFold(F, H, base, S)
<1> DEFINE Bad == {u \in SUBSET S : F[u] \notin Nat}
<1>1. Bad = {}
  <2> SUFFICES ASSUME Bad # {} PROVE FALSE
    OBVIOUS
  <2>1. PICK m : Smallest(m, Bad)
    <3>1. Bad \subseteq SUBSET S
      OBVIOUS
    <3> HIDE DEF Bad
    <3>2. QED
      BY <3>1, SmallestSet
  <2>2. m \in Bad /\ \A x \in Bad : x \subseteq m => x = m
    BY <2>1 DEF Smallest
  <2>3. m # {}
    BY <2>2 DEF Unfolds
  <2>4. Pick(m) \in m
    BY <2>3, PickedIn
  <2> DEFINE r == m \ {Pick(m)}
  <2>5. r \subseteq m /\ r # m /\ r \in SUBSET S
    BY <2>2, <2>4
  <2>6. F[r] \in Nat
    <3> HIDE DEF r
    <3> QED
      BY <2>2, <2>5
  <2>7. F[m] = H[Pick(m)][F[r]]
    BY <2>2, <2>3, <2>6 DEF Unfolds
  <2>8. Pick(m) \in S
    BY <2>2, <2>4
  <2>9. F[m] \in Nat
    <3> HIDE DEF r
    <3> QED
      BY <2>6, <2>7, <2>8 DEF Counts
  <2>10. QED
    BY <2>2, <2>9
<1>2. \A u \in SUBSET S : F[u] \in Nat
  BY <1>1
<1>3. F \in [SUBSET S -> Nat]
  BY <1>2 DEF Unfolds
<1>4. ASSUME NEW u \in (SUBSET S) \ {{}} PROVE F[u] = H[Pick(u)][F[u \ {Pick(u)}]]
  <2>1. Pick(u) \in u
    BY PickedIn
  <2>2. F[u \ {Pick(u)}] \in Nat
    BY <1>2
  <2>3. QED
    BY <2>2 DEF Unfolds
<1>5. F[{}] = base
  BY DEF Unfolds
<1>6. QED
  BY <1>3, <1>4, <1>5 DEF IsFold
-----------------------------------------------------------------------------
(* What Worth and Value fold: factors and summands. *)
Times == [c \in Currencies |-> [n \in Nat |-> usd[c] * n]]
Adding(w) == [c \in Currencies |-> [n \in Nat |-> w[c] * Worth(c) + n]]

(* Rates are positive, and a spread is less than all of the amount. *)
LEMMA RateFacts ==
  ASSUME usd \in UsdRates
  PROVE  \A c \in Currencies : usd[c] \in Nat \ {0}
BY RatesAssumption

(* A spread is at least one of Unit, and less than all. *)
LEMMA SpreadFacts ==
  ASSUME NEW a \in Currencies, NEW b \in Currencies
  PROVE  /\ Unit \in Nat /\ Spread[<<a, b>>] \in Nat
         /\ 1 <= Spread[<<a, b>>] /\ Spread[<<a, b>>] < Unit
<1>1. Spread[<<a, b>>] \in 1 .. Unit - 1
  BY SpreadAssumption
<1>2. QED
  BY <1>1, SpreadAssumption

(* Worth is a fold over the other currencies. *)
LEMMA WorthFolds ==
  ASSUME usd \in UsdRates, NEW c \in Currencies
  PROVE  \E F : IsFold(F, Times, 1, Currencies \ {c}) /\ Worth(c) = F[Currencies \ {c}]
<1> DEFINE S == Currencies \ {c}
           Eq(it) == it = [s \in SUBSET S |->
                        IF s = {} THEN 1 ELSE usd[Pick(s)] * it[s \ {Pick(s)}]]
           G == CHOOSE it : Eq(it)
<1>1. Worth(c) = G[S]
  BY DEF Worth, FoldFunctionOnSet, MapThenFoldSet, Pick
<1>2. IsFiniteSet(S)
  BY CurrenciesAssumption, FS_Subset
<1>3. /\ \A x \in Currencies : Times[x] \in [Nat -> Nat]
      /\ \A x \in Currencies : \A n \in Nat : Times[x][n] = usd[x] * n
  BY RateFacts DEF Times
<1>4. \E it : Eq(it)
  <2>1. PICK F : IsFold(F, Times, 1, S)
    <3>1. Counts(Times, S)
      BY <1>3 DEF Counts
    <3> HIDE DEF S
    <3>2. QED
      BY <1>2, <3>1, FoldExists
  <2>2. ASSUME NEW s \in SUBSET S, s # {}
        PROVE  F[s] = usd[Pick(s)] * F[s \ {Pick(s)}]
    <3>1. Pick(s) \in Currencies /\ F[s \ {Pick(s)}] \in Nat
      BY <2>1, <2>2, PickedIn DEF IsFold
    <3>2. F[s] = Times[Pick(s)][F[s \ {Pick(s)}]]
      BY <2>1, <2>2 DEF IsFold
    <3>3. QED
      BY <1>3, <3>1, <3>2
  <2>3. F = [s \in SUBSET S |-> F[s]] /\ F[{}] = 1
    BY <2>1 DEF IsFold
  <2> HIDE DEF S
  <2>4. Eq(F)
    BY <2>2, <2>3
  <2>5. QED
    BY <2>4
<1>5. Eq(G)
  <2> HIDE DEF Eq
  <2> QED
    BY <1>4
<1>6. IsFold(G, Times, 1, S)
  <2> HIDE DEF G
  <2>1. G = [s \in SUBSET S |-> G[s]] /\ G[{}] = 1
    BY <1>5
  <2>2. ASSUME NEW s \in (SUBSET S) \ {{}}, G[s \ {Pick(s)}] \in Nat
        PROVE  G[s] = Times[Pick(s)][G[s \ {Pick(s)}]]
    <3>1. Pick(s) \in Currencies
      BY PickedIn
    <3>2. G[s] = usd[Pick(s)] * G[s \ {Pick(s)}]
      BY <1>5
    <3>3. QED
      BY <1>3, <2>2, <3>1, <3>2
  <2>3. Counts(Times, S) /\ Unfolds(G, Times, 1, S)
    BY <1>3, <2>1, <2>2 DEF Counts, Unfolds
  <2> HIDE DEF S
  <2>4. QED
    BY <1>2, <2>3, RecursionFolds
<1>7. QED
  BY <1>1, <1>6

(* What a step of any currency is worth is a whole number, and as many     *)
(* steps as a dollar buys are worth the same in every currency.            *)
LEMMA WorthFacts ==
  ASSUME usd \in UsdRates
  PROVE  /\ \A c \in Currencies : Worth(c) \in Nat
         /\ \E P \in Nat : \A c \in Currencies : usd[c] * Worth(c) = P
<1>1. /\ \A x \in Currencies : Times[x] \in [Nat -> Nat]
      /\ \A x \in Currencies : \A n \in Nat : Times[x][n] = usd[x] * n
  BY RateFacts DEF Times
<1>2. PICK F : IsFold(F, Times, 1, Currencies)
  <2>1. Counts(Times, Currencies)
    BY <1>1 DEF Counts
  <2>2. QED
    BY <2>1, CurrenciesAssumption, FoldExists
<1>3. F[Currencies] \in Nat
  BY <1>2 DEF IsFold
<1>4. Commutes(Times, Currencies)
  <2> SUFFICES ASSUME NEW x \in Currencies, NEW y \in Currencies, NEW n \in Nat
               PROVE  Times[x][Times[y][n]] = Times[y][Times[x][n]]
    BY DEF Commutes
  <2>1. usd[x] \in Nat /\ usd[y] \in Nat
    BY RateFacts
  <2>2. usd[x] * n \in Nat /\ usd[y] * n \in Nat
    BY <2>1
  <2>3. /\ Times[x][Times[y][n]] = usd[x] * (usd[y] * n)
        /\ Times[y][Times[x][n]] = usd[y] * (usd[x] * n)
    BY <1>1, <2>2
  <2>4. QED
    BY <2>1, <2>3
<1>5. ASSUME NEW c \in Currencies
      PROVE  Worth(c) \in Nat /\ usd[c] * Worth(c) = F[Currencies]
  <2> DEFINE S == Currencies \ {c}
  <2>1. PICK G : IsFold(G, Times, 1, S) /\ Worth(c) = G[S]
    BY WorthFolds
  <2>2. S \in SUBSET (Currencies \cap S) /\ IsFiniteSet(S) /\ S \in SUBSET S
    BY CurrenciesAssumption, FS_Subset
  <2>3. F[S] = G[S]
    <3> HIDE DEF S
    <3> QED
      BY <1>2, <2>1, <2>2, FoldsAgree
  <2>4. G[S] \in Nat
    <3> HIDE DEF S
    <3> QED
      BY <2>1, <2>2 DEF IsFold
  <2>5. F[Currencies] = Times[c][F[S]]
    BY <1>2, <1>4, CurrenciesAssumption, FoldTakes
  <2> HIDE DEF S
  <2>6. QED
    BY <1>1, <2>1, <2>3, <2>4, <2>5
<1>6. QED
  BY <1>3, <1>5
-----------------------------------------------------------------------------
(* Its summands are numbers. *)
LEMMA AddingFacts ==
  ASSUME usd \in UsdRates, NEW w \in [Currencies -> Nat]
  PROVE  /\ \A x \in Currencies : Adding(w)[x] \in [Nat -> Nat]
         /\ \A x \in Currencies : \A n \in Nat : Adding(w)[x][n] = w[x] * Worth(x) + n
BY WorthFacts DEF Adding

(* Value is a fold over all currencies. *)
LEMMA ValueFolds ==
  ASSUME usd \in UsdRates, NEW w \in [Currencies -> Nat]
  PROVE  \E F : IsFold(F, Adding(w), 0, Currencies) /\ Value(w) = F[Currencies]
<1> DEFINE S == Currencies
           Eq(it) == it = [s \in SUBSET S |->
                        IF s = {} THEN 0
                        ELSE w[Pick(s)] * Worth(Pick(s)) + it[s \ {Pick(s)}]]
           G == CHOOSE it : Eq(it)
<1>1. Value(w) = G[S]
  BY DEF Value, MapThenSumSet, MapThenFoldSet, Pick
<1>2. IsFiniteSet(S)
  BY CurrenciesAssumption
<1>3. /\ \A x \in Currencies : Adding(w)[x] \in [Nat -> Nat]
      /\ \A x \in Currencies : \A n \in Nat : Adding(w)[x][n] = w[x] * Worth(x) + n
  BY AddingFacts
<1>4. \E it : Eq(it)
  <2>1. PICK F : IsFold(F, Adding(w), 0, S)
    <3>1. Counts(Adding(w), S)
      BY <1>3 DEF Counts
    <3>2. QED
      BY <1>2, <3>1, FoldExists
  <2>2. ASSUME NEW s \in SUBSET S, s # {}
        PROVE  F[s] = w[Pick(s)] * Worth(Pick(s)) + F[s \ {Pick(s)}]
    <3>1. Pick(s) \in Currencies /\ F[s \ {Pick(s)}] \in Nat
      BY <2>1, <2>2, PickedIn DEF IsFold
    <3>2. F[s] = Adding(w)[Pick(s)][F[s \ {Pick(s)}]]
      BY <2>1, <2>2 DEF IsFold
    <3>3. QED
      BY <1>3, <3>1, <3>2
  <2>3. F = [s \in SUBSET S |-> F[s]] /\ F[{}] = 0
    BY <2>1 DEF IsFold
  <2>4. Eq(F)
    BY <2>2, <2>3
  <2>5. QED
    BY <2>4
<1>5. Eq(G)
  <2> HIDE DEF Eq
  <2> QED
    BY <1>4
<1>6. IsFold(G, Adding(w), 0, S)
  <2> HIDE DEF G
  <2>1. G = [s \in SUBSET S |-> G[s]] /\ G[{}] = 0
    BY <1>5
  <2>2. ASSUME NEW s \in (SUBSET S) \ {{}}, G[s \ {Pick(s)}] \in Nat
        PROVE  G[s] = Adding(w)[Pick(s)][G[s \ {Pick(s)}]]
    <3>1. Pick(s) \in Currencies
      BY PickedIn
    <3>2. G[s] = w[Pick(s)] * Worth(Pick(s)) + G[s \ {Pick(s)}]
      BY <1>5
    <3>3. QED
      BY <1>3, <2>2, <3>1, <3>2
  <2>3. Counts(Adding(w), S) /\ Unfolds(G, Adding(w), 0, S)
    BY <1>3, <2>1, <2>2 DEF Counts, Unfolds
  <2>4. QED
    BY <1>2, <2>3, RecursionFolds
<1>7. QED
  BY <1>1, <1>6

(* The value of a wallet is what two of its balances are worth, and the    *)
(* rest.                                                                   *)
LEMMA ValueSplits ==
  ASSUME usd \in UsdRates, NEW w \in [Currencies -> Nat],
         NEW F, IsFold(F, Adding(w), 0, Currencies), Value(w) = F[Currencies],
         NEW a \in Currencies, NEW b \in Currencies, a # b
  PROVE  /\ F[Currencies \ {a, b}] \in Nat
         /\ Value(w) = w[a] * Worth(a) + w[b] * Worth(b) + F[Currencies \ {a, b}]
<1> DEFINE R == Currencies \ {a, b}
<1>1. /\ \A x \in Currencies : Adding(w)[x] \in [Nat -> Nat]
      /\ \A x \in Currencies : \A n \in Nat : Adding(w)[x][n] = w[x] * Worth(x) + n
  BY AddingFacts
<1>3. Commutes(Adding(w), Currencies)
  <2> SUFFICES ASSUME NEW x \in Currencies, NEW y \in Currencies, NEW n \in Nat
               PROVE  Adding(w)[x][Adding(w)[y][n]] = Adding(w)[y][Adding(w)[x][n]]
    BY DEF Commutes
  <2> DEFINE X == w[x] * Worth(x)
             Y == w[y] * Worth(y)
  <2>1. X \in Nat /\ Y \in Nat
    BY WorthFacts
  <2>2. \A m \in Nat : Adding(w)[x][m] = X + m /\ Adding(w)[y][m] = Y + m
    BY <1>1
  <2> HIDE DEF X, Y
  <2>3. QED
    BY <2>1, <2>2
<1>4. ASSUME NEW u \in SUBSET Currencies, NEW x \in u
      PROVE  F[u] = Adding(w)[x][F[u \ {x}]]
  BY <1>3, CurrenciesAssumption, FoldTakes
<1>5. F[Currencies] = Adding(w)[a][F[Currencies \ {a}]]
  BY <1>4
<1>6. F[Currencies \ {a}] = Adding(w)[b][F[R]]
  <2>1. /\ Currencies \ {a} \in SUBSET Currencies
        /\ b \in Currencies \ {a} /\ (Currencies \ {a}) \ {b} = R
    OBVIOUS
  <2> HIDE DEF R
  <2>2. QED
    BY <1>4, <2>1
<1>7. F[R] \in Nat /\ F[Currencies \ {a}] \in Nat
  BY DEF IsFold
<1>8. /\ F[Currencies \ {a}] = w[b] * Worth(b) + F[R]
      /\ F[Currencies] = w[a] * Worth(a) + F[Currencies \ {a}]
  <2> HIDE DEF R
  <2> QED
    BY <1>1, <1>5, <1>6, <1>7
<1>9. w[a] * Worth(a) \in Nat /\ w[b] * Worth(b) \in Nat
  BY WorthFacts
<1> HIDE DEF R
<1>10. Value(w) = w[a] * Worth(a) + w[b] * Worth(b) + F[R]
  BY <1>7, <1>8, <1>9
<1>11. QED
  BY <1>7, <1>10 DEF R

(* So an exchange changes it by what the two balances change.              *)
LEMMA ValueOfExchange ==
  ASSUME usd \in UsdRates, NEW w \in [Currencies -> Nat], NEW v \in [Currencies -> Nat],
         NEW a \in Currencies, NEW b \in Currencies, a # b,
         \A c \in Currencies \ {a, b} : v[c] = w[c]
  PROVE  /\ Value(w) \in Nat /\ Value(v) \in Nat
         /\ Value(v) - Value(w) = (v[a] - w[a]) * Worth(a) + (v[b] - w[b]) * Worth(b)
<1> DEFINE R == Currencies \ {a, b}
<1>1. PICK F : IsFold(F, Adding(w), 0, Currencies) /\ Value(w) = F[Currencies]
  BY ValueFolds
<1>2. PICK G : IsFold(G, Adding(v), 0, Currencies) /\ Value(v) = G[Currencies]
  BY ValueFolds
<1>3. F[R] = G[R]
  <2>1. \A x \in R : \A n \in Nat : Adding(w)[x][n] = Adding(v)[x][n]
    BY DEF Adding
  <2>2. R \in SUBSET (Currencies \cap Currencies) /\ IsFiniteSet(R)
    BY CurrenciesAssumption, FS_Subset
  <2> HIDE DEF R
  <2>3. QED
    BY <1>1, <1>2, <2>1, <2>2, FoldsAgree
<1>4. /\ F[R] \in Nat
      /\ Value(w) = w[a] * Worth(a) + w[b] * Worth(b) + F[R]
  BY <1>1, ValueSplits
<1>5. Value(v) = v[a] * Worth(a) + v[b] * Worth(b) + G[R]
  BY <1>2, ValueSplits
<1>6. /\ Worth(a) \in Nat /\ Worth(b) \in Nat
      /\ w[a] \in Nat /\ w[b] \in Nat /\ v[a] \in Nat /\ v[b] \in Nat
  BY WorthFacts
<1>7. /\ (v[a] - w[a]) * Worth(a) = v[a] * Worth(a) - w[a] * Worth(a)
      /\ (v[b] - w[b]) * Worth(b) = v[b] * Worth(b) - w[b] * Worth(b)
  BY <1>6
<1>8. /\ w[a] * Worth(a) \in Nat /\ w[b] * Worth(b) \in Nat
      /\ v[a] * Worth(a) \in Nat /\ v[b] * Worth(b) \in Nat
  BY <1>6
<1> HIDE DEF R
<1>9. QED
  BY <1>3, <1>4, <1>5, <1>7, <1>8
-----------------------------------------------------------------------------
(* ROUND_HALF_UP is off by half a unit at most. *)
LEMMA HalfUpFacts ==
  ASSUME NEW n \in Nat, NEW d \in Nat, d > 0
  PROVE  /\ HalfUp(n, d) \in Nat
         /\ 2 * (d * HalfUp(n, d)) <= 2 * n + d
         /\ 2 * n <= 2 * (d * HalfUp(n, d)) + d
<1> DEFINE h == HalfUp(n, d)
           D == 2 * d
           N == 2 * n + d
<1>1. D \in Nat /\ D > 0 /\ N \in Nat
  OBVIOUS
<1>2. h = N \div D
  BY DEF HalfUp
<1> HIDE DEF h, D, N
<1>3. /\ N \div D \in Nat
      /\ D * (N \div D) <= N /\ N < D * (N \div D) + D
  BY <1>1
<1>4. h \in Nat /\ D * h <= N /\ N < D * h + D
  BY <1>2, <1>3
<1>5. D * h = 2 * (d * h)
  BY <1>4 DEF D
<1>6. d * h \in Nat
  BY <1>4
<1>7. /\ h \in Nat
      /\ 2 * (d * h) <= 2 * n + d
      /\ 2 * n <= 2 * (d * h) + d
  BY <1>4, <1>5, <1>6 DEF N, D
<1>8. QED
  BY <1>7 DEF h

(* A common factor may be taken out of a comparison. *)
LEMMA Cancel ==
  ASSUME NEW k \in Nat, k > 0, NEW x \in Int, NEW y \in Int, k * x <= k * y
  PROVE  x <= y
OBVIOUS

(* And one may be brought in. *)
LEMMA Scale ==
  ASSUME NEW k \in Nat, NEW x \in Int, NEW y \in Int, x <= y
  PROVE  k * x <= k * y
OBVIOUS

(* The terms of a quote for n request digits: a step of the currency sold  *)
(* is worth A and costs u to the dollar, one of the currency bought B and  *)
(* v; s of U is left after the spread. What it takes from the bank, at the *)
(* mid rate and after the spread, differs from what it brings by half a    *)
(* cent of the one and half a step of the other.                           *)
LEMMA Conversion ==
  ASSUME NEW n \in Nat, NEW e \in Nat, e > 0, NEW c \in Nat, c > 0,
         NEW U \in Nat, U > 0, NEW s \in Nat, s <= U,
         NEW u \in Nat, u > 0, NEW v \in Nat, v > 0,
         NEW A \in Nat, NEW B \in Nat, u * A = v * B
  PROVE  LET f == HalfUp(n, e)
             t == c * HalfUp(n * (v * s), ((u * U) * e) * c)
         IN  /\ 2 * (U * (B * t) - s * (A * f)) <= U * (c * B + A)
             /\ 2 * (s * (A * f) - U * (B * t)) <= U * (c * B + A)
<1> DEFINE f == HalfUp(n, e)
           d == ((u * U) * e) * c
           m == n * (v * s)
           h == HalfUp(m, d)
           t == c * h
<1>1. /\ f \in Nat /\ 2 * (e * f) <= 2 * n + e /\ 2 * n <= 2 * (e * f) + e
  BY HalfUpFacts
<1>2. m \in Nat /\ d \in Nat /\ d > 0
  <2>1. u * U \in Nat /\ u * U > 0 /\ v * s \in Nat
    OBVIOUS
  <2>2. (u * U) * e \in Nat /\ (u * U) * e > 0
    BY <2>1
  <2>3. d \in Nat /\ d > 0
    BY <2>2
  <2>4. QED
    BY <2>1, <2>3
<1>3. /\ h \in Nat /\ 2 * (d * h) <= 2 * m + d /\ 2 * m <= 2 * (d * h) + d
  <2> HIDE DEF m, d
  <2> QED
    BY <1>2, HalfUpFacts
<1> HIDE DEF f, h
(* The cents, times what the bought currency is worth. *)
<1>4. t \in Nat
  BY <1>3
<1> DEFINE X == e * (U * (B * t))
           Y == n * (s * A)
           Z == e * (U * (c * B))
<1>5. X \in Nat /\ Y \in Nat /\ Z \in Nat
  <2> HIDE DEF t
  <2>1. B * t \in Nat /\ s * A \in Nat /\ c * B \in Nat
    BY <1>4
  <2>2. U * (B * t) \in Nat /\ U * (c * B) \in Nat
    BY <2>1
  <2>3. QED
    BY <2>1, <2>2
<1>6. /\ B * (2 * (d * h)) = u * (2 * X)
      /\ B * d = u * Z
  BY <1>3
<1>7. B * (2 * m) = u * (2 * Y)
  <2>1. B * (2 * m) = 2 * (n * (s * (v * B)))
    OBVIOUS
  <2>2. u * (2 * Y) = 2 * (n * (s * (u * A)))
    OBVIOUS
  <2>3. QED
    BY <2>1, <2>2
<1>8. 2 * X <= 2 * Y + Z
  <2> DEFINE l == 2 * (d * h)
             r == 2 * m + d
  <2>1. l \in Int /\ r \in Int /\ l <= r
    <3> HIDE DEF d, m
    <3>1. d * h \in Nat
      BY <1>2, <1>3
    <3>2. QED
      BY <1>2, <1>3, <3>1
  <2>2. B * l <= B * r
    <3> HIDE DEF l, r
    <3> QED
      BY <2>1, Scale
  <2>3. B * r = B * (2 * m) + B * d
    <3> HIDE DEF m, d
    <3> QED
      BY <1>2
  <2>4. u * (2 * X) <= u * (2 * Y) + u * Z
    <3> HIDE DEF X, Y, Z, m, d
    <3> QED
      BY <1>6, <1>7, <2>2, <2>3
  <2>5. u * (2 * X) <= u * (2 * Y + Z)
    <3> HIDE DEF X, Y, Z
    <3>1. u * (2 * Y + Z) = u * (2 * Y) + u * Z
      BY <1>5
    <3>2. QED
      BY <2>4, <3>1
  <2>6. QED
    <3> HIDE DEF X, Y, Z
    <3>1. 2 * X \in Int /\ 2 * Y + Z \in Int
      BY <1>5
    <3>2. QED
      BY <2>5, <3>1, Cancel
<1>9. 2 * Y <= 2 * X + Z
  <2> DEFINE l == 2 * (d * h) + d
             r == 2 * m
  <2>1. l \in Int /\ r \in Int /\ r <= l
    <3> HIDE DEF d, m
    <3>1. d * h \in Nat
      BY <1>2, <1>3
    <3>2. QED
      BY <1>2, <1>3, <3>1
  <2>2. B * r <= B * l
    <3> HIDE DEF l, r
    <3> QED
      BY <2>1, Scale
  <2>3. B * l = B * (2 * (d * h)) + B * d
    <3> HIDE DEF d
    <3>1. d * h \in Nat
      BY <1>2, <1>3
    <3>2. QED
      BY <1>2, <3>1
  <2>4. u * (2 * Y) <= u * (2 * X) + u * Z
    <3> HIDE DEF X, Y, Z, m, d
    <3> QED
      BY <1>6, <1>7, <2>2, <2>3
  <2>5. u * (2 * Y) <= u * (2 * X + Z)
    <3> HIDE DEF X, Y, Z
    <3>1. u * (2 * X + Z) = u * (2 * X) + u * Z
      BY <1>5
    <3>2. QED
      BY <2>4, <3>1
  <2>6. QED
    <3> HIDE DEF X, Y, Z
    <3>1. 2 * Y \in Int /\ 2 * X + Z \in Int
      BY <1>5
    <3>2. QED
      BY <2>5, <3>1, Cancel
(* The steps, times what the sold currency is worth after the spread.      *)
<1> DEFINE k == s * A
           W == s * (A * f)
<1>10. /\ k \in Nat /\ W \in Nat /\ W = k * f /\ Y = k * n
  BY <1>1
<1>11. 2 * (e * W) <= 2 * Y + e * k
  <2>1. k * (2 * (e * f)) <= k * (2 * n + e)
    <3>1. 2 * (e * f) \in Int /\ 2 * n + e \in Int
      BY <1>1
    <3> HIDE DEF k
    <3>2. QED
      BY <1>1, <1>10, <3>1, Scale
  <2>2. k * (2 * (e * f)) = 2 * (e * W) /\ k * (2 * n + e) = 2 * Y + e * k
    <3> HIDE DEF k, W, Y
    <3> QED
      BY <1>1, <1>10
  <2>3. QED
    BY <2>1, <2>2
<1>12. 2 * Y <= 2 * (e * W) + e * k
  <2>1. k * (2 * n) <= k * (2 * (e * f) + e)
    <3>1. 2 * (e * f) + e \in Int /\ 2 * n \in Int
      BY <1>1
    <3> HIDE DEF k
    <3>2. QED
      BY <1>1, <1>10, <3>1, Scale
  <2>2. k * (2 * (e * f) + e) = 2 * (e * W) + e * k /\ k * (2 * n) = 2 * Y
    <3> HIDE DEF k, W, Y
    <3> QED
      BY <1>1, <1>10
  <2>3. QED
    BY <2>1, <2>2
<1> DEFINE V == U * (B * t)
           C == U * (c * B)
<1>13. V \in Nat /\ C \in Nat
  <2> HIDE DEF t
  <2>1. B * t \in Nat /\ c * B \in Nat
    BY <1>4
  <2>2. QED
    BY <2>1
<1>14. /\ e * (2 * (V - W)) <= e * (C + k)
       /\ e * (2 * (W - V)) <= e * (C + k)
  <2>1. X = e * V /\ Z = e * C
    OBVIOUS
  <2>2. e * V \in Nat /\ e * C \in Nat /\ e * W \in Nat /\ e * k \in Nat
    <3> HIDE DEF V, C, W, k
    <3> QED
      BY <1>10, <1>13
  <2>3. /\ e * (2 * (V - W)) = 2 * (e * V) - 2 * (e * W)
        /\ e * (2 * (W - V)) = 2 * (e * W) - 2 * (e * V)
        /\ e * (C + k) = e * C + e * k
    <3> HIDE DEF V, C, W, k
    <3> QED
      BY <1>10, <1>13
  <2> HIDE DEF V, C, W, k, X, Y, Z
  <2>4. QED
    BY <1>5, <1>8, <1>9, <1>11, <1>12, <2>1, <2>2, <2>3
<1>15. 2 * (V - W) <= C + k /\ 2 * (W - V) <= C + k
  <2> HIDE DEF V, C, W, k
  <2>1. 2 * (V - W) \in Int /\ 2 * (W - V) \in Int /\ C + k \in Int
    BY <1>10, <1>13
  <2>2. QED
    BY <1>14, <2>1, Cancel
<1>16. C + k <= U * (c * B + A)
  <2>1. U * (c * B + A) = C + U * A
    OBVIOUS
  <2>2. s * A <= U * A
    OBVIOUS
  <2>3. U * A \in Nat
    OBVIOUS
  <2> HIDE DEF C
  <2>4. QED
    BY <1>10, <1>13, <2>1, <2>2, <2>3
<1>17. U * (c * B + A) \in Nat
  OBVIOUS
<1>18. /\ 2 * (V - W) <= U * (c * B + A)
       /\ 2 * (W - V) <= U * (c * B + A)
  <2> DEFINE M == U * (c * B + A)
  <2> HIDE DEF V, C, W, k, M
  <2>1. C + k <= M /\ M \in Nat
    BY <1>16, <1>17 DEF M
  <2>2. 2 * (V - W) <= M /\ 2 * (W - V) <= M
    BY <1>10, <1>13, <1>15, <2>1
  <2>3. QED
    BY <2>2 DEF M
<1>19. QED
  BY <1>18 DEF f, h
-----------------------------------------------------------------------------
(* A quote takes from the bank, at the mid rate, what it brings less the   *)
(* spread, but for its roundings (engine/fx.py:98-100).                    *)
QuoteInv ==
    quote # NoQuote =>
        LET left == Unit - Spread[<<quote.from, quote.to>>]
            paid == Unit * (Worth(quote.to) * quote.tamt)
            earned == left * (Worth(quote.from) * quote.famt)
            room == Unit * (Places * Worth(quote.to) + Worth(quote.from))
        IN  2 * (paid - earned) <= room /\ 2 * (earned - paid) <= room

(* The inductive invariant. *)
IInv == TypeOK /\ QuoteInv /\ RevenueIsTheSpread

(* The rates of the day stay, and so does what currencies are worth. *)
LEMMA WorthStays ==
  ASSUME usd' = usd
  PROVE  /\ \A c : Worth(c)' = Worth(c)
         /\ Value(funded)' = Value(funded')
         /\ Value(wallet)' = Value(wallet')
<1>1. ASSUME NEW c PROVE Worth(c)' = Worth(c)
  BY DEF Worth, FoldFunctionOnSet, MapThenFoldSet
<1>2. Value(funded)' = Value(funded')
  BY <1>1, ZenonT(60) DEF Value, MapThenSumSet, MapThenFoldSet
<1>3. Value(wallet)' = Value(wallet')
  BY <1>1, ZenonT(60) DEF Value, MapThenSumSet, MapThenFoldSet
<1>4. QED
  BY <1>1, <1>2, <1>3
-----------------------------------------------------------------------------
(* Whole cents are whole cents. *)
LEMMA Cents ==
  ASSUME NEW c \in Nat, c > 0, NEW h \in Nat
  PROVE  c * h \in Nat /\ (c * h) % c = 0
OBVIOUS

(* A new quote keeps the invariant: its terms are those of Conversion. *)
LEMMA GenerateInv ==
  ASSUME IInv, NEW a \in Currencies, NEW b \in Currencies, NEW amount \in Amounts,
         Generate(a, b, amount)
  PROVE  IInv'
<1> DEFINE left == Unit - Spread[<<a, b>>]
           f == FromAmount(amount)
           h == ToAmount(amount, a, b)
           t == Places * h
<1>1. /\ amount \in Nat /\ Extra \in Nat /\ Extra > 0 /\ Places \in Nat /\ Places > 0
  BY AmountsAssumption
<1>2. /\ Unit \in Nat /\ Unit > 0 /\ left \in Nat /\ left <= Unit
  BY SpreadFacts
<1>3. usd \in UsdRates /\ UNCHANGED <<usd, wallet, funded, due, slack>>
  BY DEF IInv, TypeOK, Generate
<1>4. /\ usd[a] \in Nat /\ usd[a] > 0 /\ usd[b] \in Nat /\ usd[b] > 0
  BY <1>3, RateFacts
<1>5. /\ Worth(a) \in Nat /\ Worth(b) \in Nat
      /\ usd[a] * Worth(a) = usd[b] * Worth(b)
  BY <1>3, WorthFacts
<1>6. f = HalfUp(amount, Extra)
  BY DEF FromAmount
<1>7. h = HalfUp(amount * (usd[b] * left), ((usd[a] * Unit) * Extra) * Places)
  BY DEF ToAmount, EffectiveRate, Mid
<1>8. f \in Nat
  BY <1>1, <1>6, HalfUpFacts
<1>9. h \in Nat
  <2> DEFINE n == amount * (usd[b] * left)
             d == ((usd[a] * Unit) * Extra) * Places
  <2>1. n \in Nat
    <3> HIDE DEF left
    <3>1. usd[b] * left \in Nat
      BY <1>2, <1>4
    <3>2. QED
      BY <1>1, <3>1
  <2>2. d \in Nat /\ d > 0
    <3>1. usd[a] * Unit \in Nat /\ usd[a] * Unit > 0
      BY <1>2, <1>4
    <3>2. (usd[a] * Unit) * Extra \in Nat /\ (usd[a] * Unit) * Extra > 0
      BY <1>1, <3>1
    <3>3. QED
      BY <1>1, <3>2
  <2>3. h = HalfUp(n, d)
    BY <1>7
  <2> HIDE DEF n, d, h
  <2>4. QED
    BY <2>1, <2>2, <2>3, HalfUpFacts
<1>10. t \in Nat /\ t % Places = 0
  <2> HIDE DEF h
  <2> QED
    BY <1>1, <1>9, Cents
<1>11. /\ 2 * (Unit * (Worth(b) * t) - left * (Worth(a) * f))
             <= Unit * (Places * Worth(b) + Worth(a))
       /\ 2 * (left * (Worth(a) * f) - Unit * (Worth(b) * t))
             <= Unit * (Places * Worth(b) + Worth(a))
  <2> DEFINE g == HalfUp(amount, Extra)
             k == Places * HalfUp(amount * (usd[b] * left),
                                  ((usd[a] * Unit) * Extra) * Places)
  <2> HIDE DEF left
  <2>1. /\ 2 * (Unit * (Worth(b) * k) - left * (Worth(a) * g))
              <= Unit * (Places * Worth(b) + Worth(a))
        /\ 2 * (left * (Worth(a) * g) - Unit * (Worth(b) * k))
              <= Unit * (Places * Worth(b) + Worth(a))
    BY <1>1, <1>2, <1>4, <1>5, Conversion
  <2>2. f = g /\ t = k
    BY <1>6, <1>7
  <2> HIDE DEF f, t, g, k
  <2>3. QED
    BY <2>1, <2>2
<1>12. quote' = [from |-> a, to |-> b, famt |-> f, tamt |-> t] /\ a # b
  BY DEF Generate
<1>13. /\ quote'.from = a /\ quote'.to = b /\ quote'.famt = f /\ quote'.tamt = t
       /\ quote' \in [from : Currencies, to : Currencies, famt : Nat, tamt : Nat]
  <2> HIDE DEF f, t
  <2> QED
    BY <1>8, <1>10, <1>12
<1> HIDE DEF f, h, t
<1>14. TypeOK'
  <2>1. issued' \in 0 .. MaxQuotes
    BY AmountsAssumption DEF IInv, TypeOK, Generate
  <2>2. TypeOK
    BY DEF IInv
  <2>3. QED
    BY <1>3, <1>10, <1>12, <1>13, <2>1, <2>2 DEF TypeOK
<1>15. \A c : Worth(c)' = Worth(c)
  BY <1>3, WorthStays
<1>16. QuoteInv'
  BY <1>11, <1>13, <1>15 DEF QuoteInv
<1>17. RevenueIsTheSpread'
  <2>1. Value(funded)' = Value(funded) /\ Value(wallet)' = Value(wallet)
    BY <1>3, WorthStays
  <2>2. QED
    BY <1>3, <2>1 DEF IInv, RevenueIsTheSpread
<1>18. QED
  BY <1>14, <1>16, <1>17 DEF IInv

(* An execution keeps it: what the wallet loses is the spread that falls   *)
(* due, and what QuoteInv allows for.                                      *)
LEMMA ExecuteInv ==
  ASSUME IInv, Execute
  PROVE  IInv'
<1> DEFINE a == quote.from
           b == quote.to
           f == quote.famt
           t == quote.tamt
           p == Spread[<<a, b>>]
<1>1. TypeOK /\ QuoteInv /\ RevenueIsTheSpread /\ usd \in UsdRates
  BY DEF IInv, TypeOK
<1>2. /\ a \in Currencies /\ b \in Currencies /\ a # b /\ f \in Nat /\ t \in Nat
  BY <1>1 DEF Execute, TypeOK
<1>3. /\ wallet \in [Currencies -> Nat] /\ funded \in [Currencies -> Nat]
      /\ due \in Nat /\ slack \in Nat
  BY <1>1, AmountsAssumption DEF TypeOK
<1>4. /\ UNCHANGED <<usd, funded, issued>> /\ quote' = NoQuote
      /\ wallet' = [wallet EXCEPT ![a] = @ - f, ![b] = @ + t]
      /\ due' = due + (f * Worth(a)) * p
      /\ slack' = slack + Places * Worth(b) + Worth(a)
      /\ wallet[a] >= f /\ quote # NoQuote
  BY DEF Execute, Covered
<1>5. /\ Worth(a) \in Nat /\ Worth(b) \in Nat
  BY <1>1, <1>2, WorthFacts
<1>6. /\ Unit \in Nat /\ p \in Nat /\ 1 <= p /\ p < Unit
      /\ Places \in Nat
  BY <1>2, SpreadFacts, AmountsAssumption
<1>7. /\ 2 * (Unit * (Worth(b) * t) - (Unit - p) * (Worth(a) * f))
             <= Unit * (Places * Worth(b) + Worth(a))
      /\ 2 * ((Unit - p) * (Worth(a) * f) - Unit * (Worth(b) * t))
             <= Unit * (Places * Worth(b) + Worth(a))
  BY <1>1, <1>4 DEF QuoteInv
<1> HIDE DEF a, b, f, t, p
<1>8. /\ wallet' \in [Currencies -> Nat]
      /\ wallet'[a] = wallet[a] - f /\ wallet'[b] = wallet[b] + t
      /\ \A c \in Currencies \ {a, b} : wallet'[c] = wallet[c]
  BY <1>2, <1>3, <1>4
<1>9. f * Worth(a) \in Nat /\ (f * Worth(a)) * p \in Nat /\ Places * Worth(b) \in Nat
  <2>1. f * Worth(a) \in Nat /\ Places * Worth(b) \in Nat
    BY <1>2, <1>5, <1>6
  <2>2. QED
    BY <1>6, <2>1
<1>10. due' \in Nat /\ slack' \in Nat
  BY <1>3, <1>4, <1>5, <1>9
<1>11. TypeOK'
  BY <1>1, <1>4, <1>8, <1>10 DEF TypeOK
<1>12. QuoteInv'
  BY <1>4 DEF QuoteInv
<1>13. RevenueIsTheSpread'
  <2> DEFINE wa == wallet
             wb == wallet'
             G == Unit * (Worth(a) * f)
             L == Unit * (Worth(b) * t)
             P == (f * Worth(a)) * p
             room == Unit * (Places * Worth(b) + Worth(a))
             kept == Unit * (Value(funded) - Value(wallet))
             keptN == Unit * (Value(funded) - Value(wallet'))
  <2>1. /\ Value(wallet) \in Nat /\ Value(wallet') \in Nat
        /\ Value(wallet') - Value(wallet)
              = (wallet'[a] - wallet[a]) * Worth(a) + (wallet'[b] - wallet[b]) * Worth(b)
    BY <1>1, <1>2, <1>3, <1>8, ValueOfExchange
  <2>2. Value(funded) \in Nat
    BY <1>1, <1>2, <1>3, ValueOfExchange
  <2>3. wallet[a] \in Nat /\ wallet[b] \in Nat
    BY <1>2, <1>3
  <2>4. /\ wallet'[a] - wallet[a] = -f /\ wallet'[b] - wallet[b] = t
    BY <1>2, <1>8, <2>3
  <2>5. Value(wallet') = Value(wallet) - Worth(a) * f + Worth(b) * t
    <3>1. Value(wallet') - Value(wallet) = (-f) * Worth(a) + t * Worth(b)
      BY <2>1, <2>4
    <3>2. (-f) * Worth(a) = -(Worth(a) * f) /\ t * Worth(b) = Worth(b) * t
      BY <1>2, <1>5
    <3>3. Worth(a) * f \in Nat /\ Worth(b) * t \in Nat
      BY <1>2, <1>5
    <3>4. Value(wallet') - Value(wallet) = -(Worth(a) * f) + Worth(b) * t
      BY <3>1, <3>2
    <3> DEFINE x == Worth(a) * f
               y == Worth(b) * t
               V == Value(wallet)
               W == Value(wallet')
    <3>5. x \in Nat /\ y \in Nat /\ V \in Nat /\ W \in Nat /\ W - V = -x + y
      BY <2>1, <3>3, <3>4
    <3>6. W = V - x + y
      <4> HIDE DEF x, y, V, W
      <4> QED
        BY <3>5
    <3>7. QED
      BY <3>6
  <2>6. keptN = kept + G - L /\ kept \in Int /\ G \in Nat /\ L \in Nat
    <3> DEFINE x == Worth(a) * f
               y == Worth(b) * t
               V == Value(funded)
               W == Value(wallet)
    <3>1. x \in Nat /\ y \in Nat /\ V \in Nat /\ W \in Nat
      BY <1>2, <1>5, <2>1, <2>2
    <3>2. keptN = Unit * (V - (W - x + y))
      BY <2>5
    <3> HIDE DEF x, y, V, W
    <3>3. Unit * (V - (W - x + y)) = Unit * (V - W) + Unit * x - Unit * y
      BY <1>6, <3>1
    <3>4. Unit * (V - W) \in Int /\ Unit * x \in Nat /\ Unit * y \in Nat
      BY <1>6, <3>1
    <3>5. kept = Unit * (V - W) /\ G = Unit * x /\ L = Unit * y
      BY DEF x, y, V, W
    <3> HIDE DEF kept, keptN, G, L
    <3>6. QED
      BY <3>2, <3>3, <3>4, <3>5
  <2>7. (Unit - p) * (Worth(a) * f) = G - P
    <3>1. Worth(a) * f \in Nat /\ P = p * (Worth(a) * f)
      BY <1>2, <1>5, <1>6
    <3>2. QED
      BY <1>6, <3>1
  <2>8. 2 * (L - (G - P)) <= room /\ 2 * ((G - P) - L) <= room
    <3> HIDE DEF G, P
    <3> QED
      BY <1>7, <2>7
  <2>9. Unit * slack' = Unit * slack + room /\ Unit * slack \in Nat /\ room \in Nat
    <3> DEFINE z == Places * Worth(b) + Worth(a)
    <3>1. z \in Nat /\ slack' = slack + z
      BY <1>3, <1>4, <1>5, <1>9
    <3> HIDE DEF z
    <3>2. Unit * (slack + z) = Unit * slack + Unit * z
      BY <1>3, <1>6, <3>1
    <3>3. Unit * slack \in Nat /\ Unit * z \in Nat
      BY <1>3, <1>6, <3>1
    <3>4. QED
      BY <3>1, <3>2, <3>3 DEF z
  <2>10. due' = due + P
    BY <1>4
  <2>11. /\ 2 * (kept - due) <= Unit * slack
         /\ 2 * (due - kept) <= Unit * slack
    BY <1>1 DEF RevenueIsTheSpread
  <2>12. P \in Nat
    BY <1>9
  <2>13. /\ 2 * (keptN - due') <= Unit * slack'
         /\ 2 * (due' - keptN) <= Unit * slack'
    <3> HIDE DEF kept, keptN, G, L, P, room
    <3> QED
      BY <1>3, <2>6, <2>8, <2>9, <2>10, <2>11, <2>12
  <2>14. /\ Value(funded)' = Value(funded) /\ Value(wallet)' = Value(wallet')
    BY <1>4, WorthStays
  <2>15. QED
    BY <2>13, <2>14 DEF RevenueIsTheSpread
<1>14. QED
  BY <1>11, <1>12, <1>13 DEF IInv

(* A quote that expires moves nothing. *)
LEMMA ExpireInv ==
  ASSUME IInv, Expire \/ UNCHANGED vars
  PROVE  IInv'
<1>1. /\ UNCHANGED <<usd, wallet, funded, due, slack, issued>>
      /\ quote' = quote \/ quote' = NoQuote
  BY DEF Expire, vars
<1>2. TypeOK'
  BY <1>1 DEF IInv, TypeOK
<1>3. \A c : Worth(c)' = Worth(c)
  BY <1>1, WorthStays
<1>4. QuoteInv'
  <2>1. CASE quote' = NoQuote
    BY <2>1 DEF QuoteInv
  <2>2. CASE quote' = quote
    BY <1>3, <2>2 DEF IInv, QuoteInv
  <2>3. QED
    BY <1>1, <2>1, <2>2
<1>5. RevenueIsTheSpread'
  <2>1. Value(funded)' = Value(funded) /\ Value(wallet)' = Value(wallet)
    BY <1>1, WorthStays
  <2>2. QED
    BY <1>1, <2>1 DEF IInv, RevenueIsTheSpread
<1>6. QED
  BY <1>2, <1>4, <1>5 DEF IInv

(* It holds at first: nothing has been kept, and nothing is due. *)
LEMMA InitInv == Init => IInv
<1> SUFFICES ASSUME Init PROVE IInv
  OBVIOUS
<1>1. TypeOK
  BY AmountsAssumption DEF Init, TypeOK
<1>2. QuoteInv
  BY DEF Init, QuoteInv
<1>3. RevenueIsTheSpread
  <2>1. Unit \in Nat
    BY SpreadAssumption
  <2>2. wallet \in [Currencies -> Nat] /\ usd \in UsdRates /\ funded = wallet
    BY AmountsAssumption DEF Init
  <2>3. Value(wallet) \in Nat
    <3>1. PICK F : /\ IsFold(F, Adding(wallet), 0, Currencies)
                   /\ Value(wallet) = F[Currencies]
      BY <2>2, ValueFolds
    <3>2. QED
      BY <3>1 DEF IsFold
  <2>4. Value(funded) - Value(wallet) = 0
    BY <2>2, <2>3
  <2>5. QED
    BY <2>1, <2>4 DEF Init, RevenueIsTheSpread
<1>4. QED
  BY <1>1, <1>2, <1>3 DEF IInv

(* The invariant holds in every reachable state. *)
THEOREM Invariant == Spec => []IInv
<1>1. IInv /\ [Next]_vars => IInv'
  BY GenerateInv, ExecuteInv, ExpireInv DEF Next
<1>2. QED
  BY InitInv, <1>1, PTL DEF Spec

(* engine/fx.py:100, 277: amounts are natural numbers of column steps,    *)
(* what is paid out is whole cents, and no balance becomes negative.       *)
THEOREM TypeCorrect == Spec => []TypeOK
<1>1. IInv => TypeOK
  BY DEF IInv
<1>2. QED
  BY <1>1, Invariant, PTL

(* engine/fx.py:98-100: at any rates and spreads and over any number of    *)
(* conversions, rounding is worth half a cent of what is bought and half a *)
(* step of what is sold for each of them, and the rest is the spread.      *)
THEOREM RevenueFromSpread == Spec => []RevenueIsTheSpread
<1>1. IInv => RevenueIsTheSpread
  BY DEF IInv
<1>2. QED
  BY <1>1, Invariant, PTL
==============================================================================
