---------------------------- MODULE DexAppProofs ----------------------------
(***************************************************************************)
(* Proofs about the exchange for every set of accounts, wallets and tokens *)
(* (and so of pairs), every fee of a swap, every minimum liquidity, every  *)
(* balance to begin with and every bound on what the programs do.          *)
(*                                                                         *)
(* The argument: whatever program runs, the chain changes by transactions  *)
(* only, so that it is enough to look at calls.  Good is what every call   *)
(* keeps of every pair: its pool tokens are backed by its supply, its      *)
(* reserves by its balances, and the product of the reserves has not       *)
(* fallen below that of the mark, the last mint or burn.  Most calls are   *)
(* Quiet: supplies stay, and no product falls.  A mint or a burn is not;   *)
(* it closes the pair at what it holds, and the shares it gives or pays    *)
(* are rounded down, so that the product per square of the supply is kept. *)
(*                                                                         *)
(* The fee of the protocol needs more.  It is minted from the roots of two *)
(* products, both rounded down, and a root that is rounded down lets the   *)
(* growth appear greater than it was.  The square of the supply is within  *)
(* the product of the mark, and from this it follows that the fee is 0     *)
(* wherever the rounding could make a difference (FeeShare).               *)
(*                                                                         *)
(* The pages and the scripts rely on allowances, about which a second      *)
(* argument goes through the same calls: a call uses what its sender has   *)
(* allowed the router (Uses) or sets one allowance (Sets), and nobody's    *)
(* else.  Where only pages send, an allowance is 0 or without a limit      *)
(* (Level), for they approve nothing else; so it only ever rises, an       *)
(* answer that a page has read is 0 or still true (Answered), and what a   *)
(* page found to be covered stays covered until it is mined (Request).  A  *)
(* script approves exactly what its next step spends (Prepared), and the   *)
(* others cannot take that away (OthersLeaveScripts).  AppSound is all of  *)
(* it, with the least output that a request for a swap asks for (Bound).   *)
(*                                                                         *)
(* A third argument is about the price service.  No candle ever counts a   *)
(* swap of another time (CandlesHold).  The last one of a length may miss  *)
(* swaps, for a run reads them before it writes; but the next run begins   *)
(* again where that candle does.  So while runs do not overlap every other *)
(* candle has all that were stored before a later time came, and the one a *)
(* run writes after another finds that other so (CandlesGood, RunGood).    *)
(*                                                                         *)
(* What is left is the type of the whole.  The lists and the chart show    *)
(* what several reads under way have found, each of which has seen another *)
(* chain; but pairs and swaps are only added (CallAdds), so that a read    *)
(* never has more than there is (Sweeping, TradesRead).                    *)
(***************************************************************************)
EXTENDS DexApp, FiniteSetTheorems, WellFoundedInduction, TLAPS

---------------------------------------------------------------------------
(* Numbers *)

\* Products of numbers are monotonic, ...
LEMMA MulMono ==
  ASSUME NEW a \in Nat, NEW b \in Nat, NEW c \in Nat, a <= b
  PROVE  a * c <= b * c
OBVIOUS

\* ... a factor other than 0 may be cancelled, ...
LEMMA Cancel ==
  ASSUME NEW a \in Nat, NEW b \in Nat, NEW c \in Nat, a * c <= b * c, c # 0
  PROVE  a <= b
OBVIOUS

\* ... and of smaller factors the product is no greater.
LEMMA Prod ==
  ASSUME NEW a \in Nat, NEW b \in Nat, NEW c \in Nat, NEW d \in Nat, a <= b, c <= d
  PROVE  a * c <= b * d
OBVIOUS

\* Four factors may be taken in another order.
LEMMA Swap4 ==
  ASSUME NEW a \in Int, NEW b \in Int, NEW c \in Int, NEW d \in Int
  PROVE  (a * b) * (c * d) = (a * c) * (b * d)
OBVIOUS

\* A mint of l pool tokens out of s that are no more than the share of what is
\* deposited: the product of what the pair holds, per square of the supply,
\* does not fall.
LEMMA MintShare ==
  ASSUME NEW s \in Nat, NEW l \in Nat, NEW r1 \in Nat, NEW r2 \in Nat,
         NEW a1 \in Nat, NEW a2 \in Nat,
         l * r1 <= a1 * s, l * r2 <= a2 * s
  PROVE  (r1 * r2) * ((s + l) * (s + l)) <= ((r1 + a1) * (r2 + a2)) * (s * s)
<1>1. r1 * (s + l) <= (r1 + a1) * s
  OBVIOUS
<1>2. r2 * (s + l) <= (r2 + a2) * s
  OBVIOUS
<1>3. (r1 * (s + l)) * (r2 * (s + l)) <= ((r1 + a1) * s) * ((r2 + a2) * s)
  <2>1. r1 * (s + l) \in Nat /\ r2 * (s + l) \in Nat /\ (r1 + a1) * s \in Nat /\ (r2 + a2) * s \in Nat
    OBVIOUS
  <2> QED BY <1>1, <1>2, <2>1, Prod
<1>4. (r1 * (s + l)) * (r2 * (s + l)) = (r1 * r2) * ((s + l) * (s + l))
  BY Swap4
<1>5. ((r1 + a1) * s) * ((r2 + a2) * s) = ((r1 + a1) * (r2 + a2)) * (s * s)
  BY Swap4
<1> QED BY <1>3, <1>4, <1>5

\* A burn of l pool tokens that pays their part at most: what is left, per
\* square of the supply, does not fall.
LEMMA BurnShare ==
  ASSUME NEW s \in Nat, NEW l \in 0..s, NEW b1 \in Nat, NEW b2 \in Nat,
         NEW c1 \in Nat, NEW c2 \in Nat,
         (b1 - c1) * s <= l * b1, (b2 - c2) * s <= l * b2
  PROVE  (b1 * b2) * ((s - l) * (s - l)) <= (c1 * c2) * (s * s)
<1>1. b1 * (s - l) <= c1 * s
  OBVIOUS
<1>2. b2 * (s - l) <= c2 * s
  OBVIOUS
<1>3. (b1 * (s - l)) * (b2 * (s - l)) <= (c1 * s) * (c2 * s)
  <2>1. b1 * (s - l) \in Nat /\ b2 * (s - l) \in Nat /\ c1 * s \in Nat /\ c2 * s \in Nat
    OBVIOUS
  <2> QED BY <1>1, <1>2, <2>1, Prod
<1>4. (b1 * (s - l)) * (b2 * (s - l)) = (b1 * b2) * ((s - l) * (s - l))
  BY Swap4
<1>5. (c1 * s) * (c2 * s) = (c1 * c2) * (s * s)
  BY Swap4
<1> QED BY <1>3, <1>4, <1>5

\* Product per square of the supply: not falling twice is not falling.
LEMMA ShareAgain ==
  ASSUME NEW m \in Nat, NEW s \in Nat, NEW k \in Nat, NEW s1 \in Nat,
         NEW k2 \in Nat, NEW s2 \in Nat,
         m * (s1 * s1) <= k * (s * s), k * (s2 * s2) <= k2 * (s1 * s1), s1 # 0
  PROVE  m * (s2 * s2) <= k2 * (s * s)
<1> DEFINE S == s * s
           S1 == s1 * s1
           S2 == s2 * s2
<1>1. S \in Nat /\ S1 \in Nat /\ S2 \in Nat /\ S1 # 0
  OBVIOUS
<1>2. m * S1 <= k * S /\ k * S2 <= k2 * S1
  OBVIOUS
<1> HIDE DEF S, S1, S2
<1>3. (m * S1) * S2 <= (k * S) * S2
  <2>1. m * S1 \in Nat /\ k * S \in Nat
    BY <1>1
  <2> QED BY <1>1, <1>2, <2>1, MulMono
<1>4. (k * S2) * S <= (k2 * S1) * S
  <2>1. k * S2 \in Nat /\ k2 * S1 \in Nat
    BY <1>1
  <2> QED BY <1>1, <1>2, <2>1, MulMono
<1>5. (m * S2) * S1 <= (k2 * S) * S1
  <2>1. (m * S1) * S2 = (m * S2) * S1 /\ (k * S) * S2 = (k * S2) * S /\ (k2 * S1) * S = (k2 * S) * S1
    BY <1>1
  <2>2. (m * S1) * S2 \in Int /\ (k * S) * S2 \in Int /\ (k2 * S1) * S \in Int
    BY <1>1
  <2> QED BY <1>3, <1>4, <2>1, <2>2
<1>6. m * S2 \in Nat /\ k2 * S \in Nat
  BY <1>1
<1>7. m * S2 <= k2 * S
  BY <1>1, <1>5, <1>6, Cancel
<1> QED BY <1>7 DEF S, S2

\* Squares compare as their roots do.
LEMMA SquareMono ==
  ASSUME NEW a \in Nat, NEW b \in Nat
  PROVE  (a <= b) <=> (a * a <= b * b)
OBVIOUS

\* The fee of the protocol, a sixth of the growth of the root of the product,
\* leaves the others at least the product per square of the supply of the mark,
\* though both roots are rounded down.  Where the rounding could make a
\* difference the fee is 0.
LEMMA FeeShare ==
  ASSUME NEW s \in Nat, NEW m \in Nat, NEW k \in Nat, NEW r \in Nat, NEW q \in Nat, NEW f \in Nat,
         s * s <= m, m <= k, r * r <= k, q * q <= m, m < (q + 1) * (q + 1), q < r,
         f * (r * 5 + q) <= s * (r - q)
  PROVE m * ((s + f) * (s + f)) <= k * (s * s)
<1>1. CASE f = 0
  <2>1. s * s \in Nat /\ (s + f) * (s + f) = s * s
    BY <1>1
  <2> QED BY <2>1, MulMono
<1>2. CASE f >= 1
  <2> DEFINE d == r - q
             e == r * 5 + q
  <2>1. d \in Nat /\ d >= 1 /\ e = 6 * q + 5 * d /\ r = q + d /\ e \in Nat
    OBVIOUS
  <2>2. s <= q
    <3>1. s * s < (q + 1) * (q + 1)
      OBVIOUS
    <3>2. ~(q + 1 <= s)
      BY <3>1, SquareMono
    <3> QED BY <3>2
  <2> HIDE DEF d, e
  <2>3. e <= f * e
    BY <1>2, <2>1, MulMono
  <2>4. s * d <= q * d
    BY <2>1, <2>2, MulMono
  <2>5. 6 * q + 5 * d <= q * d
    <3>1. f * e <= s * d
      BY DEF d, e
    <3> QED BY <2>1, <2>3, <2>4, <3>1
  <2>6. d >= 6
    <3>1. ~(d < 6)
      <4> SUFFICES ASSUME d < 6 PROVE FALSE
        OBVIOUS
      <4>1. q * d <= q * 6
        BY <2>1
      <4> QED BY <2>1, <2>5, <4>1
    <3> QED BY <2>1, <3>1
  <2>7. 36 * m <= e * e
    <3>1. q * d >= 6 * q
      BY <2>1, <2>6
    <3>2. m <= q * q + 2 * q
      OBVIOUS
    <3>3. e * e = 36 * (q * q) + 60 * (q * d) + 25 * (d * d)
      BY <2>1
    <3>4. d * d \in Nat /\ q * q \in Nat /\ q * d \in Nat
      BY <2>1
    <3> QED BY <2>1, <3>1, <3>2, <3>3, <3>4
  <2>8. (s + f) * e <= 6 * (r * s)
    <3>1. f * e <= s * d
      BY DEF d, e
    <3>2. (s + f) * e = s * e + f * e
      BY <2>1
    <3>3. s * e + s * d = 6 * (r * s)
      BY <2>1
    <3>4. s * e \in Nat /\ f * e \in Nat /\ s * d \in Nat
      BY <2>1
    <3> QED BY <3>1, <3>2, <3>3, <3>4
  <2>9. ((s + f) * e) * ((s + f) * e) <= (6 * (r * s)) * (6 * (r * s))
    <3>1. (s + f) * e \in Nat /\ 6 * (r * s) \in Nat
      BY <2>1
    <3> QED BY <2>8, <3>1, Prod
  <2> DEFINE E == e * e
             T == (s + f) * (s + f)
             R == r * r
             S == s * s
  <2>10. E \in Nat /\ E # 0 /\ T \in Nat /\ R \in Nat /\ S \in Nat
    BY <2>1
  <2>11. T * E <= 36 * (R * S)
    <3>1. ((s + f) * e) * ((s + f) * e) = T * E
      BY <2>1, Swap4
    <3>2. (6 * (r * s)) * (6 * (r * s)) = 36 * (R * S)
      BY Swap4
    <3> QED BY <2>9, <3>1, <3>2
  <2>12. R <= k /\ 36 * m <= E
    BY <2>7
  <2> HIDE DEF E, T, R, S
  <2>13. m * (T * E) <= m * (36 * (R * S))
    BY <2>10, <2>11
  <2>14. (36 * m) * (R * S) <= E * (k * S)
    <3>1. R * S <= k * S /\ R * S \in Nat /\ k * S \in Nat
      BY <2>10, <2>12, MulMono
    <3> QED BY <2>10, <2>12, <3>1, Prod
  <2>15. (m * T) * E <= (k * S) * E
    <3>1. m * (T * E) = (m * T) * E /\ m * (36 * (R * S)) = (36 * m) * (R * S) /\ E * (k * S) = (k * S) * E
      BY <2>10
    <3>2. m * (T * E) \in Int /\ (36 * m) * (R * S) \in Int
      BY <2>10
    <3>3. (k * S) * E \in Int
      BY <2>10
    <3> QED BY <2>13, <2>14, <3>1, <3>2, <3>3
  <2>16. m * T <= k * S
    <3>1. m * T \in Nat /\ k * S \in Nat
      BY <2>10
    <3> QED BY <2>10, <2>15, <3>1, Cancel
  <2> QED BY <2>16 DEF T, S
<1> QED BY <1>1, <1>2

\* The check of a swap: with the fee taken off what came in, the product did not
\* fall, so that without it taken off it did not fall either.
LEMMA SwapGrows ==
  ASSUME NEW b1 \in Nat, NEW b2 \in Nat, NEW i1 \in 0..b1, NEW i2 \in 0..b2,
         NEW u \in Nat, u # 0, NEW g \in 0..u, NEW k \in Nat,
         k * u * u <= (b1 * u - i1 * g) * (b2 * u - i2 * g)
  PROVE  k <= b1 * b2
<1>1. b1 * u - i1 * g \in Nat /\ b1 * u - i1 * g <= b1 * u
  <2>1. i1 * g <= b1 * u
    BY Prod
  <2> QED BY <2>1
<1>2. b2 * u - i2 * g \in Nat /\ b2 * u - i2 * g <= b2 * u
  <2>1. i2 * g <= b2 * u
    BY Prod
  <2> QED BY <2>1
<1>3. (b1 * u - i1 * g) * (b2 * u - i2 * g) <= (b1 * u) * (b2 * u)
  BY <1>1, <1>2, Prod
<1>4. k * u * u <= (b1 * u) * (b2 * u)
  BY <1>1, <1>2, <1>3
<1>5. k * (u * u) <= (b1 * b2) * (u * u)
  <2>1. k * u * u = k * (u * u)
    OBVIOUS
  <2>2. (b1 * u) * (b2 * u) = (b1 * b2) * (u * u)
    BY Swap4
  <2> QED BY <1>4, <2>1, <2>2
<1> QED BY <1>5, Cancel

\* A number is no more than its square.
LEMMA SquareUp ==
  ASSUME NEW a \in Nat
  PROVE  a <= a * a
<1>1. CASE a = 0
  BY <1>1
<1>2. CASE a >= 1
  <2>1. 1 * a <= a * a
    BY <1>2, MulMono
  <2>. QED BY <2>1
<1>. QED BY <1>1, <1>2

---------------------------------------------------------------------------
(* Pairs, holders and roots *)

\* A set of numbers has a least one.
LEMMA Least ==
  ASSUME NEW S \in SUBSET Nat, S # {}
  PROVE  \E x \in S : \A y \in S : x <= y
<1>1. PICK x \in S : \A y \in S : ~(<<y, x>> \in OpToRel(<, Nat))
  BY NatLessThanWellFounded, WFMin
<1>2. \A y \in S : ~(y < x)
  BY <1>1 DEF OpToRel
<1>. QED BY <1>2

\* A pair is of two tokens, ...
LEMMA PairOfTwo ==
  ASSUME NEW p \in Pair
  PROVE  /\ OneOf(p) \in Token /\ Other(p, OneOf(p)) \in Token
         /\ OneOf(p) # Other(p, OneOf(p)) /\ p = {OneOf(p), Other(p, OneOf(p))}
<1>1. p \in SUBSET Token /\ IsFiniteSet(p) /\ Cardinality(p) = 2
  <2>1. p \in SUBSET Token /\ Cardinality(p) = 2
    BY DEF Pair, kSubset
  <2>. QED BY <2>1, FS_Subset, ContractsAssumption
<1> DEFINE t == OneOf(p)
<1>2. t \in p
  <2>1. p # {}
    BY <1>1, FS_EmptySet
  <2>. QED BY <2>1 DEF OneOf
<1>. HIDE DEF t
<1>3. IsFiniteSet(p \ {t}) /\ Cardinality(p \ {t}) = 1
  BY <1>1, <1>2, FS_RemoveElement
<1>4. PICK u : p \ {t} = {u}
  BY <1>3, FS_Singleton
<1>5. u \in p /\ u # t /\ \A x \in p : x # t => x = u
  BY <1>4
<1>6. Other(p, t) = u
  BY <1>5 DEF Other
<1>. QED BY <1>1, <1>2, <1>4, <1>5, <1>6 DEF t

\* ... of which each is the other one of the other, ...
LEMMA TwoOfPair ==
  ASSUME NEW p \in Pair, NEW x \in p
  PROVE  Other(p, x) \in p /\ Other(p, x) # x /\ p = {x, Other(p, x)} /\ x \in Token
<1> DEFINE t == OneOf(p)
           u == Other(p, t)
<1>1. t \in Token /\ u \in Token /\ t # u /\ p = {t, u}
  BY PairOfTwo
<1>2. Other(p, t) \in p /\ Other(p, t) # t
  BY <1>1
<1>3. Other(p, u) = t
  BY <1>1 DEF Other
<1>. HIDE DEF t, u
<1>4. CASE x = t
  BY <1>1, <1>2, <1>4 DEF u
<1>5. CASE x = u
  BY <1>1, <1>3, <1>5
<1>. QED BY <1>1, <1>4, <1>5

\* ... and two tokens are a pair.
LEMMA PairOf ==
  ASSUME NEW a \in Token, NEW b \in Token, a # b
  PROVE  {a, b} \in Pair
<1>1. IsFiniteSet({a}) /\ Cardinality({a}) = 1
  BY FS_Singleton
<1>2. Cardinality({a} \cup {b}) = 2
  BY <1>1, FS_AddElement
<1>3. {a, b} = {a} \cup {b}
  OBVIOUS
<1>. QED BY <1>2, <1>3 DEF Pair, kSubset

\* No address is two things.
LEMMA Apart ==
  /\ Pair \cap Token = {} /\ Pair \cap Account = {} /\ ECY \notin Pair /\ Router \notin Pair
  /\ Nobody \notin Pair /\ WECY \notin Pair /\ ECY \notin Token /\ WECY \in Token
  /\ Router \notin Token /\ Nobody \notin Account
BY ContractsAssumption

\* The holders are finitely many, so that their balances add up.
LEMMA HolderFinite == IsFiniteSet(Holder)
<1>1. IsFiniteSet(SUBSET Token) /\ IsFiniteSet(Account)
  BY ContractsAssumption, FS_SUBSET
<1>2. IsFiniteSet(Pair)
  <2>1. Pair \in SUBSET (SUBSET Token)
    BY DEF Pair, kSubset
  <2>. QED BY <1>1, <2>1, FS_Subset
<1>3. IsFiniteSet(Account \cup Pair)
  BY <1>1, <1>2, FS_Union
<1>4. IsFiniteSet((((Account \cup Pair) \cup {WECY}) \cup {Router}) \cup {Nobody})
  BY <1>3, FS_AddElement
<1>. QED BY <1>4 DEF Holder

---------------------------------------------------------------------------
(* Sums of balances *)

\* The numbers that a function of the holders adds up to are no more than n.
Adds(f, n, m, e, total) ==
  /\ m \in Nat /\ e \in [1..m -> Holder] /\ total \in [0..m -> Nat]
  /\ \A i, j \in 1..m : e[i] = e[j] => i = j
  /\ \A h \in Holder : \E i \in 1..m : e[i] = h
  /\ total[0] = 0 /\ total[m] <= n
  /\ \A i \in 1..m : total[i] = total[i - 1] + f[e[i]]

Backs(f, n) == \E m, e, total : Adds(f, n, m, e, total)

\* A sum so far is no less than any of its terms.
LEMMA Rises ==
  ASSUME NEW f \in [Holder -> Nat], NEW n, NEW m, NEW e, NEW total, Adds(f, n, m, e, total),
         NEW j \in 1..m, NEW i \in j..m
  PROVE  total[i] >= f[e[j]]
<1> DEFINE S == {k \in j..m : ~(total[k] >= f[e[j]])}
<1>1. m \in Nat /\ \A k \in 1..m : f[e[k]] \in Nat
  BY DEF Adds
<1>2. \A k \in 0..m : total[k] \in Nat
  BY DEF Adds
<1>3. SUFFICES ASSUME S # {} PROVE FALSE
  OBVIOUS
<1>4. S \in SUBSET Nat
  BY <1>1
<1>5. PICK k \in S : \A y \in S : k <= y
  <2>. HIDE DEF S
  <2>. QED BY <1>3, <1>4, Least
<1>6. k \in j..m /\ k \in Nat /\ total[k] < f[e[j]] /\ total[k] = total[k - 1] + f[e[k]]
  <2>1. k \in j..m /\ ~(total[k] >= f[e[j]])
    BY <1>5
  <2>2. k \in 1..m /\ k \in 0..m /\ j \in 1..m
    BY <1>1, <2>1
  <2>3. total[k] \in Nat /\ f[e[j]] \in Nat
    BY <1>1, <1>2, <2>2
  <2>4. total[k] = total[k - 1] + f[e[k]]
    BY <2>2 DEF Adds
  <2>. QED BY <2>1, <2>2, <2>3, <2>4
<1>7. k # j
  <2>1. total[j - 1] \in Nat
    BY <1>1, <1>2
  <2>. QED BY <1>1, <1>6, <2>1
<1>8. k - 1 \in j..m /\ k - 1 \notin S
  BY <1>1, <1>5, <1>6, <1>7
<1>9. total[k - 1] >= f[e[j]] /\ f[e[k]] \in Nat /\ total[k - 1] \in Nat /\ f[e[j]] \in Nat
  BY <1>1, <1>2, <1>6, <1>8
<1>. QED BY <1>6, <1>9

\* Nobody holds more than there is.
LEMMA HoldsNoMore ==
  ASSUME NEW f \in [Holder -> Nat], NEW n \in Nat, Backs(f, n), NEW h \in Holder
  PROVE  f[h] <= n
<1>1. PICK m, e, total : Adds(f, n, m, e, total)
  BY DEF Backs
<1>2. PICK j \in 1..m : e[j] = h
  BY <1>1 DEF Adds
<1>3. m \in j..m /\ m \in Nat
  BY <1>1, <1>2 DEF Adds
<1>4. total[m] >= f[h]
  BY <1>1, <1>2, <1>3, Rises
<1>5. total[m] <= n /\ total[m] \in Nat
  BY <1>1, <1>3 DEF Adds
<1>. QED BY <1>4, <1>5

\* One balance changes by what the supply changes.
LEMMA Gives ==
  ASSUME NEW f \in [Holder -> Nat], NEW n \in Nat, Backs(f, n), NEW h \in Holder,
         NEW v \in Int, f[h] + v \in Nat
  PROVE  n + v \in Nat /\ Backs([f EXCEPT ![h] = @ + v], n + v)
<1> DEFINE g == [f EXCEPT ![h] = @ + v]
<1>1. PICK m, e, total : Adds(f, n, m, e, total)
  BY DEF Backs
<1>2. PICK j \in 1..m : e[j] = h
  BY <1>1 DEF Adds
<1>3. /\ m \in Nat /\ j \in Nat /\ e \in [1..m -> Holder]
      /\ \A i \in 0..m : total[i] \in Nat
      /\ \A i \in 1..m : total[i] = total[i - 1] + f[e[i]]
      /\ total[m] <= n /\ total[0] = 0
      /\ \A i \in 1..m : e[i] = h => i = j
  <2>1. m \in Nat /\ e \in [1..m -> Holder] /\ total \in [0..m -> Nat]
    BY <1>1 DEF Adds
  <2>2. (\A i \in 1..m : total[i] = total[i - 1] + f[e[i]]) /\ total[m] <= n /\ total[0] = 0
    BY <1>1 DEF Adds
  <2>3. \A i \in 1..m : e[i] = h => i = j
    BY <1>1, <1>2 DEF Adds
  <2>. QED BY <2>1, <2>2, <2>3
<1>4. \A i \in 1..m : g[e[i]] = IF i = j THEN f[e[i]] + v ELSE f[e[i]]
  BY <1>2, <1>3
<1> DEFINE more == [i \in 0..m |-> IF i < j THEN total[i] ELSE total[i] + v]
<1>5. \A i \in 0..m : more[i] \in Nat
  <2>1. ASSUME NEW i \in 0..m, ~(i < j) PROVE total[i] + v \in Nat
    <3>1. i \in j..m
      BY <1>3, <2>1
    <3>2. total[i] >= f[h]
      BY <1>1, <1>2, <3>1, Rises
    <3>. QED BY <1>3, <3>2
  <2>. QED BY <1>3, <2>1
<1>6. \A i \in 1..m : more[i] = more[i - 1] + g[e[i]]
  <2>. SUFFICES ASSUME NEW i \in 1..m PROVE more[i] = more[i - 1] + g[e[i]]
    OBVIOUS
  <2>1. /\ i \in 0..m /\ i - 1 \in 0..m /\ total[i] \in Nat /\ total[i - 1] \in Nat
        /\ f[e[i]] \in Nat /\ total[i] = total[i - 1] + f[e[i]]
    BY <1>3
  <2>2. /\ more[i] = IF i < j THEN total[i] ELSE total[i] + v
        /\ more[i - 1] = IF i - 1 < j THEN total[i - 1] ELSE total[i - 1] + v
        /\ g[e[i]] = IF i = j THEN f[e[i]] + v ELSE f[e[i]]
        /\ i \in Int /\ j \in Int
    BY <1>3, <1>4, <2>1
  <2>. HIDE DEF more, g
  <2>. QED BY <2>1, <2>2
<1>7. more[0] = 0 /\ more[m] <= n + v
  BY <1>2, <1>3
<1>8. more[m] \in Nat
  BY <1>3, <1>5
<1>9. more \in [0..m -> Nat]
  BY <1>5
<1>. HIDE DEF more, g
<1>10. Adds(g, n + v, m, e, more)
  BY <1>1, <1>6, <1>7, <1>9 DEF Adds
<1>11. n + v \in Nat
  BY <1>7, <1>8
<1>. QED BY <1>10, <1>11 DEF Backs, g

\* Before the first pool tokens are minted.
LEMMA NothingBacks ==
  ASSUME NEW f \in [Holder -> Nat], \A h \in Holder : f[h] = 0
  PROVE  Backs(f, 0)
<1>1. PICK m \in Nat : ExistsBijection(1..m, Holder)
  BY HolderFinite, FS_NatBijection
<1>2. PICK e \in Bijection(1..m, Holder) : TRUE
  BY <1>1 DEF ExistsBijection
<1>3. e \in [1..m -> Holder] /\ (\A i, j \in 1..m : e[i] = e[j] => i = j) /\ \A h \in Holder : \E i \in 1..m : e[i] = h
  BY <1>2 DEF Bijection, Injection, Surjection, IsInjective
<1> DEFINE total == [i \in 0..m |-> 0]
<1>4. total \in [0..m -> Nat] /\ total[0] = 0 /\ total[m] <= 0 /\ \A i \in 1..m : total[i] = total[i - 1] + f[e[i]]
  BY <1>3
<1>. HIDE DEF total
<1>5. Adds(f, 0, m, e, total)
  BY <1>3, <1>4 DEF Adds
<1>. QED BY <1>5 DEF Backs

\* The integer square root.
LEMMA RootOf ==
  ASSUME NEW y \in Nat
  PROVE  sqrt(y) \in Nat /\ sqrt(y) * sqrt(y) <= y /\ y < (sqrt(y) + 1) * (sqrt(y) + 1)
<1> DEFINE S == {z \in Nat : y < (z + 1) * (z + 1)}
<1>1. y \in S
  <2>1. (y + 1) * (y + 1) = y * y + 2 * y + 1 /\ y * y \in Nat
    OBVIOUS
  <2>. QED BY <2>1
<1>2. PICK z \in S : \A x \in S : z <= x
  <2>1. S \in SUBSET Nat /\ S # {}
    BY <1>1
  <2>. HIDE DEF S
  <2>. QED BY <2>1, Least
<1>3. z \in Nat /\ y < (z + 1) * (z + 1)
  BY <1>2
<1>4. z * z <= y
  <2>1. CASE z = 0
    BY <1>3, <2>1
  <2>2. CASE z # 0
    <3>1. z - 1 \in Nat /\ ~(z <= z - 1)
      BY <1>3, <2>2
    <3>2. z - 1 \notin S
      BY <1>2, <3>1
    <3>3. ~(y < ((z - 1) + 1) * ((z - 1) + 1))
      BY <3>1, <3>2
    <3>4. (z - 1) + 1 = z /\ z * z \in Nat
      BY <1>3
    <3>. QED BY <3>3, <3>4
  <2>. QED BY <2>1, <2>2
<1>5. z \in 0..y
  <2>1. z <= z * z
    BY <1>3, SquareUp
  <2>2. z * z \in Nat
    BY <1>3
  <2>. QED BY <1>3, <1>4, <2>1, <2>2
<1>6. \E x \in 0..y : x * x <= y /\ y < (x + 1) * (x + 1)
  BY <1>3, <1>4, <1>5
<1> DEFINE Q(x) == x * x <= y /\ y < (x + 1) * (x + 1)
<1>7. sqrt(y) = CHOOSE x \in 0..y : Q(x)
  BY DEF sqrt
<1>8. sqrt(y) \in 0..y /\ Q(sqrt(y))
  <2>1. \E x \in 0..y : Q(x)
    BY <1>6
  <2>. HIDE DEF Q
  <2>. QED BY <1>7, <2>1
<1>. QED BY <1>8

---------------------------------------------------------------------------
(* The state and the books *)

\* The state of the contracts, typed.  A pair keeps the amounts of its own tokens.
PairAmounts == UNION {[p -> Nat] : p \in Pair}

SwapEvent == [pair : Pair, in : PairAmounts, out : PairAmounts, sender : Holder, to : Holder, block : Nat]

Chain ==
  [bal : [Asset -> [Holder -> Nat]], allow : [Token \cup Pair -> [Account -> Nat]],
   reserve : [Pair -> PairAmounts], supply : [Pair -> Nat], kLast : [Pair -> Nat],
   feeTo : Account \cup {Nobody}, feeToSetter : Account, allPairs : Seq(Pair),
   swaps : Seq(SwapEvent), block : Nat, mark : [Pair -> [k : Nat, supply : Nat]]]

\* The books: the pool tokens that holders have are within the supply.
Books(s) ==
  /\ s \in Chain
  /\ \A p \in Pair : s.reserve[p] \in [p -> Nat]
  /\ \A p \in Pair : Backs(s.bal[p], s.supply[p])

\* Balances and supplies change, and nothing else of a pair.
Frame(s, t) ==
  /\ t.reserve = s.reserve /\ t.kLast = s.kLast /\ t.mark = s.mark
  /\ t.feeTo = s.feeTo /\ t.feeToSetter = s.feeToSetter
  /\ t.allPairs = s.allPairs /\ t.swaps = s.swaps /\ t.block = s.block

\* Only balances change.
Moved(s, t) == Frame(s, t) /\ t.supply = s.supply

\* The holders H have no less of any token than before.
Fed(s, t, H) == \A a \in Token, h \in H : s.bal[a][h] <= t.bal[a][h]

\* The assets and the holders there are.
LEMMA Assets ==
  /\ Token \subseteq Asset /\ Pair \subseteq Asset /\ ECY \in Asset /\ WECY \in Asset
  /\ WECY \in Token /\ Account \subseteq Holder /\ Pair \subseteq Holder /\ WECY \in Holder
  /\ Router \in Holder /\ Nobody \in Holder
BY Apart DEF Asset, Holder

\* New balances leave the rest.
LEMMA NewBal ==
  ASSUME NEW s \in Chain, NEW b \in [Asset -> [Holder -> Nat]]
  PROVE  /\ [s EXCEPT !.bal = b] \in Chain /\ [s EXCEPT !.bal = b].bal = b
         /\ Moved(s, [s EXCEPT !.bal = b]) /\ [s EXCEPT !.bal = b].allow = s.allow
BY DEF Chain, Moved, Frame

---------------------------------------------------------------------------
(* Tokens *)

\* A transfer checks the balance of the sender, and moves.
LEMMA TransferMoves ==
  ASSUME NEW s, NEW a, NEW from, NEW to, NEW v, NEW t \in transfer(s, a, from, to, v)
  PROVE  /\ v <= s.bal[a][from]
         /\ t = [s EXCEPT !.bal = [s.bal EXCEPT ![a] = moved(s.bal[a], from, to, v)]]
BY DEF transfer

\* A transfer within the books: what the two holders have after it.
LEMMA Transfers ==
  ASSUME NEW s, Books(s), NEW a \in Asset, NEW from \in Holder, NEW to \in Holder, NEW v \in Nat,
         NEW t \in transfer(s, a, from, to, v)
  PROVE  /\ Books(t) /\ Moved(s, t) /\ t.allow = s.allow /\ v <= s.bal[a][from]
         /\ \A x \in Asset : x # a => t.bal[x] = s.bal[x]
         /\ \A h \in Holder : t.bal[a][h]
              = s.bal[a][h] + (IF h = to THEN v ELSE 0) - (IF h = from THEN v ELSE 0)
<1> DEFINE f == s.bal[a]
           g == [f EXCEPT ![from] = @ - v]
           k == [g EXCEPT ![to] = @ + v]
           b == [s.bal EXCEPT ![a] = k]
<1>1. s \in Chain /\ s.bal \in [Asset -> [Holder -> Nat]] /\ f \in [Holder -> Nat]
  BY DEF Books, Chain
<1>2. v <= s.bal[a][from]
      /\ t = [s EXCEPT !.bal = [s.bal EXCEPT ![a] = moved(s.bal[a], from, to, v)]]
  BY TransferMoves
<1>3. t = [s EXCEPT !.bal = b]
  <2>1. moved(s.bal[a], from, to, v) = k
    BY <1>1 DEF moved
  <2>. HIDE DEF k
  <2>. QED BY <1>2, <2>1
<1>4. f[from] + (-v) \in Nat /\ -v \in Int /\ g = [f EXCEPT ![from] = @ + (-v)]
  <2>1. f[from] \in Nat /\ v \in Nat /\ v <= f[from]
    BY <1>1, <1>2
  <2>. HIDE DEF f
  <2>2. f[from] - v = f[from] + (-v) /\ f[from] - v \in Nat /\ -v \in Int
    BY <2>1
  <2>. QED BY <2>2
<1>5. g \in [Holder -> Nat]
  BY <1>1, <1>4
<1>6. k \in [Holder -> Nat] /\ g[to] + v \in Nat
  BY <1>5
<1>7. b \in [Asset -> [Holder -> Nat]]
  BY <1>1, <1>6
<1>8. \A h \in Holder : k[h] = f[h] + (IF h = to THEN v ELSE 0) - (IF h = from THEN v ELSE 0)
  BY <1>1, <1>5
<1>9. t \in Chain /\ t.bal = b /\ Moved(s, t) /\ t.allow = s.allow
  BY <1>1, <1>3, <1>7, NewBal
<1>10. \A p \in Pair : Backs(t.bal[p], t.supply[p])
  <2>. SUFFICES ASSUME NEW p \in Pair PROVE Backs(b[p], s.supply[p])
    BY <1>9 DEF Moved
  <2>1. s.supply[p] \in Nat /\ Backs(s.bal[p], s.supply[p]) /\ p \in Asset
    BY <1>1, Assets DEF Books, Chain
  <2>2. CASE p = a
    <3>1. Backs(f, s.supply[p])
      BY <2>1, <2>2
    <3>. HIDE DEF f
    <3>2. s.supply[p] + (-v) \in Nat /\ Backs(g, s.supply[p] + (-v))
      BY <1>1, <1>4, <2>1, <3>1, Gives
    <3>. HIDE DEF g
    <3>3. k = [g EXCEPT ![to] = @ + v]
      OBVIOUS
    <3>. HIDE DEF k
    <3>5. v \in Int /\ g[to] + v \in Nat
      BY <1>6
    <3>6. Backs([g EXCEPT ![to] = @ + v], (s.supply[p] + (-v)) + v)
      BY <1>5, <3>2, <3>5, Gives
    <3>7. Backs(k, (s.supply[p] + (-v)) + v)
      BY <3>3, <3>6
    <3>4. (s.supply[p] + (-v)) + v = s.supply[p]
      BY <2>1
    <3>. QED BY <1>1, <2>1, <2>2, <3>7, <3>4
  <2>3. CASE p # a
    BY <1>1, <2>1, <2>3
  <2>. QED BY <2>2, <2>3
<1>11. \A p \in Pair : t.reserve[p] \in [p -> Nat]
  BY <1>9 DEF Books, Moved, Frame
<1>12. t.bal[a] = k /\ \A x \in Asset : x # a => t.bal[x] = s.bal[x]
  BY <1>1, <1>9
<1>. QED BY <1>2, <1>8, <1>9, <1>10, <1>11, <1>12 DEF Books

\* It takes nothing from who is not the sender.
LEMMA TransferFeeds ==
  ASSUME NEW s, Books(s), NEW a \in Asset, NEW from \in Holder, NEW to \in Holder, NEW v \in Nat,
         NEW t \in transfer(s, a, from, to, v), NEW H \in SUBSET Holder, from \notin H \/ v = 0
  PROVE  Fed(s, t, H)
<1>. SUFFICES ASSUME NEW x \in Token, NEW h \in H PROVE s.bal[x][h] <= t.bal[x][h]
  BY DEF Fed
<1>1. x \in Asset /\ h \in Holder /\ s.bal[x][h] \in Nat /\ (h # from \/ v = 0)
  BY Assets DEF Books, Chain
<1>2. CASE x # a
  <2>1. t.bal[x] = s.bal[x]
    BY <1>1, <1>2, Transfers
  <2>. QED BY <1>1, <2>1
<1>3. CASE x = a
  <2>1. t.bal[a][h] = s.bal[a][h] + (IF h = to THEN v ELSE 0) - (IF h = from THEN v ELSE 0)
    BY <1>1, Transfers
  <2>. QED BY <1>1, <1>3, <2>1
<1>. QED BY <1>2, <1>3

\* An approval moves nothing.
LEMMA Approves ==
  ASSUME NEW s, Books(s), NEW a \in Token \cup Pair, NEW owner \in Account, NEW v \in Nat
  PROVE  LET t == [s EXCEPT !.allow[a][owner] = v]
         IN Books(t) /\ Moved(s, t) /\ t.bal = s.bal
<1> DEFINE w == [s.allow EXCEPT ![a] = [@ EXCEPT ![owner] = v]]
           t == [s EXCEPT !.allow[a][owner] = v]
<1>1. s \in Chain /\ s.allow \in [Token \cup Pair -> [Account -> Nat]]
  BY DEF Books, Chain
<1>2. w \in [Token \cup Pair -> [Account -> Nat]]
  BY <1>1
<1>3. t = [s EXCEPT !.allow = w]
  BY <1>1 DEF Chain
<1>. HIDE DEF w
<1>4. t \in Chain /\ Moved(s, t) /\ t.bal = s.bal
  BY <1>1, <1>2, <1>3 DEF Chain, Moved, Frame
<1>. HIDE DEF t
<1>5. Books(t)
  BY <1>4 DEF Books, Moved, Frame
<1>. QED BY <1>4, <1>5 DEF t

\* What is not taken from twice ...
LEMMA FedAgain ==
  ASSUME NEW s \in Chain, NEW t \in Chain, NEW u \in Chain, NEW H \in SUBSET Holder,
         Fed(s, t, H), Fed(t, u, H)
  PROVE  Fed(s, u, H)
<1>. SUFFICES ASSUME NEW a \in Token, NEW h \in H PROVE s.bal[a][h] <= u.bal[a][h]
  BY DEF Fed
<1>1. s.bal[a][h] \in Nat /\ t.bal[a][h] \in Nat /\ u.bal[a][h] \in Nat
  BY Assets DEF Chain
<1>2. s.bal[a][h] <= t.bal[a][h] /\ t.bal[a][h] <= u.bal[a][h]
  BY DEF Fed
<1>. QED BY <1>1, <1>2

\* ... or where no balance changes is not taken from.
LEMMA FedSame ==
  ASSUME NEW s \in Chain, NEW t, t.bal = s.bal, NEW H \in SUBSET Holder
  PROVE  Fed(s, t, H)
<1>1. \A a \in Token, h \in H : s.bal[a][h] \in Nat
  BY Assets DEF Chain
<1>. QED BY <1>1 DEF Fed

\* Moving twice is moving.
LEMMA MovedAgain ==
  ASSUME NEW s, NEW t, NEW u, Moved(s, t), Moved(t, u)
  PROVE  Moved(s, u)
BY DEF Moved, Frame

\* A transfer for an owner takes nothing from a pair.
LEMMA TransfersFrom ==
  ASSUME NEW s, Books(s), NEW a \in Token \cup Pair, NEW from \in Account, NEW to \in Holder,
         NEW v \in Nat, NEW t \in transferFrom(s, a, from, to, v),
         NEW H \in SUBSET Holder, from \notin H
  PROVE  /\ Books(t) /\ Moved(s, t) /\ Fed(s, t, H)
         /\ \A x \in Asset : x # a => t.bal[x] = s.bal[x]
<1>1. a \in Asset /\ from \in Holder
  BY Assets, Apart
<1>2. CASE t \in transfer(s, a, from, to, v)
  BY <1>1, <1>2, Transfers, TransferFeeds
<1>3. CASE s.allow[a][from] # Unlimited /\ ~(s.allow[a][from] < v)
           /\ t \in transfer([s EXCEPT !.allow[a][from] = @ - v], a, from, to, v)
  <2> DEFINE w == s.allow[a][from] - v
             r == [s EXCEPT !.allow[a][from] = w]
  <2>1. w \in Nat /\ s \in Chain
    BY <1>3 DEF Books, Chain
  <2>. HIDE DEF w
  <2>2. Books(r) /\ Moved(s, r) /\ r.bal = s.bal
    BY <2>1, Approves
  <2>3. t \in transfer(r, a, from, to, v)
    BY <1>3 DEF w
  <2>. HIDE DEF r
  <2>4. Books(t) /\ Moved(r, t) /\ Fed(r, t, H) /\ \A x \in Asset : x # a => t.bal[x] = r.bal[x]
    BY <1>1, <2>2, <2>3, Transfers, TransferFeeds
  <2>5. Moved(s, t)
    BY <2>2, <2>4, MovedAgain
  <2>6. Fed(s, t, H)
    BY <2>2, <2>4 DEF Fed
  <2>. QED BY <2>2, <2>4, <2>5, <2>6
<1>. QED BY <1>2, <1>3 DEF transferFrom

\* Balances are numbers.
LEMMA Balances ==
  ASSUME NEW s, Books(s), NEW x \in Asset, NEW h \in Holder
  PROVE  s.bal[x][h] \in Nat
BY DEF Books, Chain

\* The wrapped coin is a token, and holds coins itself.
LEMMA Wrapped == ECY \in Asset /\ WECY \in Token /\ WECY \in Holder
BY Assets

WithBalance(s, a, h, n) == [s EXCEPT !.bal[a][h] = n]

\* One balance of a token is set.
LEMMA SetsBalance ==
  ASSUME NEW s, Books(s), NEW a \in Token, NEW h \in Holder, NEW n \in Nat,
         NEW t, t = WithBalance(s, a, h, n)
  PROVE  /\ Books(t) /\ Moved(s, t) /\ t.allow = s.allow
         /\ \A x \in Asset : x # a => t.bal[x] = s.bal[x]
         /\ \A g \in Holder : t.bal[a][g] = IF g = h THEN n ELSE s.bal[a][g]
<1> DEFINE f == [s.bal[a] EXCEPT ![h] = n]
           b == [s.bal EXCEPT ![a] = f]
<1>1. s \in Chain /\ s.bal \in [Asset -> [Holder -> Nat]] /\ a \in Asset /\ a \notin Pair
  BY Assets, Apart DEF Books, Chain
<1>2. f \in [Holder -> Nat] /\ \A g \in Holder : f[g] = IF g = h THEN n ELSE s.bal[a][g]
  BY <1>1
<1>3. t = [s EXCEPT !.bal = b]
  <2>1. t = [s EXCEPT !.bal[a] = f]
    BY DEF WithBalance
  <2>. HIDE DEF f
  <2>. QED BY <2>1
<1>. HIDE DEF f
<1>4. b \in [Asset -> [Holder -> Nat]] /\ b[a] = f /\ \A x \in Asset : x # a => b[x] = s.bal[x]
  BY <1>1, <1>2
<1>. HIDE DEF b
<1>5. t \in Chain /\ t.bal = b /\ Moved(s, t) /\ t.allow = s.allow
  <2> DEFINE r == [s EXCEPT !.bal = b]
  <2>1. r \in Chain /\ r.bal = b /\ Moved(s, r) /\ r.allow = s.allow
    BY <1>1, <1>4, NewBal
  <2>2. t = r
    BY <1>3
  <2>. HIDE DEF r
  <2>. QED BY <2>1, <2>2
<1>6. \A p \in Pair : p \in Asset /\ p # a
  BY <1>1, Assets
<1>7. Books(t)
  BY <1>4, <1>5, <1>6 DEF Books, Moved, Frame
<1>. QED BY <1>2, <1>4, <1>5, <1>7

\* Wrapping takes no token from anybody, ...
LEMMA Deposits ==
  ASSUME NEW s, Books(s), NEW from \in Holder, NEW to \in Holder, NEW v \in Nat,
         NEW t \in deposit(s, from, to, v), NEW H \in SUBSET Holder
  PROVE  Books(t) /\ Moved(s, t) /\ Fed(s, t, H)
<1>1. PICK r \in transfer(s, ECY, from, WECY, v) : t = [r EXCEPT !.bal[WECY][to] = @ + v]
  BY DEF deposit
<1>2. Books(r) /\ Moved(s, r) /\ \A x \in Asset : x # ECY => r.bal[x] = s.bal[x]
  BY <1>1, Transfers, Wrapped
<1> DEFINE n == r.bal[WECY][to] + v
<1>3. r.bal[WECY][to] \in Nat /\ n \in Nat /\ n >= r.bal[WECY][to]
  <2>1. r.bal[WECY][to] \in Nat
    BY <1>2, Assets, Balances
  <2>. QED BY <2>1
<1>4. t = WithBalance(r, WECY, to, n)
  BY <1>1 DEF WithBalance
<1>. HIDE DEF n
<1>5. /\ Books(t) /\ Moved(r, t)
      /\ \A x \in Asset : x # WECY => t.bal[x] = r.bal[x]
      /\ \A g \in Holder : t.bal[WECY][g] = IF g = to THEN n ELSE r.bal[WECY][g]
  <2>1. WECY \in Token /\ Books(r) /\ n \in Nat /\ t = WithBalance(r, WECY, to, n)
    BY <1>2, <1>3, <1>4, Wrapped
  <2>. QED BY <2>1, SetsBalance
<1>6. Fed(s, t, H)
  <2>. SUFFICES ASSUME NEW x \in Token, NEW h \in H PROVE s.bal[x][h] <= t.bal[x][h]
    BY DEF Fed
  <2>1. x \in Asset /\ x # ECY /\ h \in Holder /\ s.bal[x][h] \in Nat /\ r.bal[x] = s.bal[x]
    BY <1>2, Assets, Apart, Balances
  <2>2. CASE x = WECY
    BY <1>3, <1>5, <2>1, <2>2
  <2>3. CASE x # WECY
    BY <1>5, <2>1, <2>3
  <2>. QED BY <2>2, <2>3
<1>. QED BY <1>2, <1>5, <1>6, MovedAgain

\* ... unwrapping only from who unwraps, ...
LEMMA Withdraws ==
  ASSUME NEW s, Books(s), NEW from \in Holder, NEW to \in Holder, NEW v \in Nat,
         NEW t \in withdraw(s, from, to, v), NEW H \in SUBSET Holder, from \notin H
  PROVE  Books(t) /\ Moved(s, t) /\ Fed(s, t, H)
<1>1. PICK n, r : /\ n = s.bal[WECY][from] - v /\ v <= s.bal[WECY][from]
                  /\ r = WithBalance(s, WECY, from, n) /\ t \in transfer(r, ECY, WECY, to, v)
  BY DEF withdraw, WithBalance
<1>2. n \in Nat
  <2>1. s.bal[WECY][from] \in Nat
    BY Balances, Assets
  <2>. QED BY <1>1, <2>1
<1>3. /\ Books(r) /\ Moved(s, r)
      /\ \A x \in Asset : x # WECY => r.bal[x] = s.bal[x]
      /\ \A g \in Holder : r.bal[WECY][g] = IF g = from THEN n ELSE s.bal[WECY][g]
  <2>1. WECY \in Token /\ n \in Nat /\ r = WithBalance(s, WECY, from, n)
    BY <1>1, <1>2, Wrapped
  <2>. QED BY <2>1, SetsBalance
<1>4. Books(t) /\ Moved(r, t) /\ \A x \in Asset : x # ECY => t.bal[x] = r.bal[x]
  <2>1. ECY \in Asset /\ WECY \in Holder /\ Books(r) /\ t \in transfer(r, ECY, WECY, to, v)
    BY <1>1, <1>3, Wrapped
  <2>. QED BY <2>1, Transfers
<1>5. Fed(s, t, H)
  <2>. SUFFICES ASSUME NEW x \in Token, NEW h \in H PROVE s.bal[x][h] <= t.bal[x][h]
    BY DEF Fed
  <2>1. x \in Asset /\ x # ECY /\ h \in Holder /\ h # from /\ s.bal[x][h] \in Nat /\ t.bal[x] = r.bal[x]
    BY <1>4, Assets, Apart, Balances
  <2>2. r.bal[x][h] = s.bal[x][h]
    BY <1>3, <2>1
  <2>. QED BY <2>1, <2>2
<1>. QED BY <1>3, <1>4, <1>5, MovedAgain

\* ... and a new token is given to who created it.
LEMMA CreatesToken ==
  ASSUME NEW s, Books(s), NEW a \in Token, NEW from \in Holder, NEW v \in Nat,
         NEW t \in createToken(s, a, from, v), NEW H \in SUBSET Holder
  PROVE  Books(t) /\ Moved(s, t) /\ Fed(s, t, H)
<1>1. t = WithBalance(s, a, from, v) /\ \A h \in Holder : s.bal[a][h] = 0
  BY DEF createToken, WithBalance
<1>2. /\ Books(t) /\ Moved(s, t)
      /\ \A x \in Asset : x # a => t.bal[x] = s.bal[x]
      /\ \A g \in Holder : t.bal[a][g] = IF g = from THEN v ELSE s.bal[a][g]
  BY <1>1, SetsBalance
<1>3. Fed(s, t, H)
  <2>. SUFFICES ASSUME NEW x \in Token, NEW h \in H PROVE s.bal[x][h] <= t.bal[x][h]
    BY DEF Fed
  <2>1. x \in Asset /\ h \in Holder /\ s.bal[x][h] \in Nat
    BY Assets, Balances
  <2>. QED BY <1>1, <1>2, <2>1
<1>. QED BY <1>2, <1>3

\* The amounts of both tokens of a pair move.
LEMMA MovesBoth ==
  ASSUME NEW s, Books(s), NEW p \in Pair, NEW from \in Holder, NEW to \in Holder,
         NEW v \in [p -> Nat],
         NEW t \in transferBoth(s, p, from, to, v)
  PROVE  /\ Books(t) /\ Moved(s, t)
         /\ \A x \in p : v[x] <= s.bal[x][from]
         /\ \A x \in Asset : x \notin p => t.bal[x] = s.bal[x]
         /\ \A x \in p, h \in Holder : t.bal[x][h]
              = s.bal[x][h] + (IF h = to THEN v[x] ELSE 0) - (IF h = from THEN v[x] ELSE 0)
<1> DEFINE a == OneOf(p)
           b == Other(p, a)
<1>1. a \in Token /\ b \in Token /\ a # b /\ p = {a, b} /\ Token \subseteq Asset /\ v[a] \in Nat /\ v[b] \in Nat
  BY PairOfTwo, Assets
<1>2. PICK r \in transfer(s, a, from, to, v[a]) : t \in transfer(r, b, from, to, v[b])
  BY DEF transferBoth
<1>. HIDE DEF a, b
<1>3. /\ Books(r) /\ Moved(s, r) /\ v[a] <= s.bal[a][from]
      /\ \A x \in Asset : x # a => r.bal[x] = s.bal[x]
      /\ \A h \in Holder : r.bal[a][h]
              = s.bal[a][h] + (IF h = to THEN v[a] ELSE 0) - (IF h = from THEN v[a] ELSE 0)
  BY <1>1, <1>2, Transfers
<1>4. /\ Books(t) /\ Moved(r, t) /\ v[b] <= r.bal[b][from]
      /\ \A x \in Asset : x # b => t.bal[x] = r.bal[x]
      /\ \A h \in Holder : t.bal[b][h]
              = r.bal[b][h] + (IF h = to THEN v[b] ELSE 0) - (IF h = from THEN v[b] ELSE 0)
  BY <1>1, <1>2, <1>3, Transfers
<1>5. r.bal[b] = s.bal[b] /\ t.bal[a] = r.bal[a]
  BY <1>1, <1>3, <1>4
<1>. QED BY <1>1, <1>3, <1>4, <1>5, MovedAgain

---------------------------------------------------------------------------
(* Pool tokens *)

WithBooks(s, b, u) == [[s EXCEPT !.supply = u] EXCEPT !.bal = b]

\* New balances and supplies leave the rest.
LEMMA NewBooks ==
  ASSUME NEW s \in Chain, NEW b \in [Asset -> [Holder -> Nat]], NEW u \in [Pair -> Nat],
         NEW t, t = WithBooks(s, b, u)
  PROVE  t \in Chain /\ t.bal = b /\ t.supply = u /\ Frame(s, t)
<1> DEFINE r == [s EXCEPT !.supply = u]
<1>1. r \in Chain /\ r.supply = u /\ Frame(s, r)
  BY DEF Chain, Frame
<1>. HIDE DEF r
<1>2. [r EXCEPT !.bal = b] \in Chain /\ [r EXCEPT !.bal = b].bal = b /\ Moved(r, [r EXCEPT !.bal = b])
  BY <1>1, NewBal
<1>3. Frame(s, [r EXCEPT !.bal = b]) /\ [r EXCEPT !.bal = b].supply = u
  BY <1>1, <1>2 DEF Moved, Frame
<1>4. t = [r EXCEPT !.bal = b]
  BY DEF r, WithBooks
<1>. QED BY <1>2, <1>3, <1>4

\* v of the pool tokens of p are made for a holder, or destroyed.
Issued(s, t, p, to, v) ==
  /\ Books(t) /\ Frame(s, t)
  /\ \A x \in Asset : x # p => t.bal[x] = s.bal[x]
  /\ t.bal[p][to] = s.bal[p][to] + v
  /\ t.supply[p] = s.supply[p] + v
  /\ \A q \in Pair : q # p => t.supply[q] = s.supply[q]

Changed(s, p, to, v) ==
  WithBooks(s, [s.bal EXCEPT ![p] = [s.bal[p] EXCEPT ![to] = @ + v]], [s.supply EXCEPT ![p] = @ + v])

\* Issuing keeps the supply and the balances together.
LEMMA Issues ==
  ASSUME NEW s, Books(s), NEW p \in Pair, NEW to \in Holder, NEW v \in Int,
         s.bal[p][to] + v \in Nat,
         NEW t, t = Changed(s, p, to, v)
  PROVE  Issued(s, t, p, to, v)
<1> DEFINE f == [s.bal[p] EXCEPT ![to] = @ + v]
           b == [s.bal EXCEPT ![p] = f]
           u == [s.supply EXCEPT ![p] = @ + v]
<1>1. /\ s \in Chain /\ s.bal \in [Asset -> [Holder -> Nat]] /\ s.supply \in [Pair -> Nat]
      /\ p \in Asset /\ Backs(s.bal[p], s.supply[p])
  BY Assets DEF Books, Chain
<1>2. f \in [Holder -> Nat] /\ f[to] = s.bal[p][to] + v
  BY <1>1
<1>3. s.bal[p] \in [Holder -> Nat] /\ s.supply[p] \in Nat
  BY <1>1
<1>4. s.supply[p] + v \in Nat /\ Backs(f, s.supply[p] + v)
  BY <1>1, <1>3, Gives
<1>5. t = WithBooks(s, b, u)
  BY DEF Changed
<1>. HIDE DEF f
<1>6. /\ b \in [Asset -> [Holder -> Nat]] /\ b[p] = f
      /\ \A x \in Asset : x # p => b[x] = s.bal[x]
  BY <1>1, <1>2
<1>7. /\ u \in [Pair -> Nat] /\ u[p] = s.supply[p] + v
      /\ \A q \in Pair : q # p => u[q] = s.supply[q]
  BY <1>1, <1>4
<1>. HIDE DEF b, u
<1>8. t \in Chain /\ t.bal = b /\ t.supply = u /\ Frame(s, t)
  BY <1>1, <1>5, <1>6, <1>7, NewBooks
<1>9. \A q \in Pair : Backs(t.bal[q], t.supply[q])
  <2>. SUFFICES ASSUME NEW q \in Pair PROVE Backs(b[q], u[q])
    BY <1>8
  <2>1. CASE q = p
    BY <1>4, <1>6, <1>7, <2>1
  <2>2. CASE q # p
    <3>1. q \in Asset /\ Backs(s.bal[q], s.supply[q])
      BY Assets DEF Books
    <3>. QED BY <1>6, <1>7, <2>2, <3>1
  <2>. QED BY <2>1, <2>2
<1>10. \A q \in Pair : t.reserve[q] \in [q -> Nat]
  BY <1>8 DEF Books, Frame
<1>11. Books(t)
  BY <1>8, <1>9, <1>10 DEF Books
<1>. QED BY <1>2, <1>6, <1>7, <1>8, <1>11 DEF Issued

\* _mint issues, ...
LEMMA Mints ==
  ASSUME NEW s, Books(s), NEW p \in Pair, NEW to \in Holder, NEW v \in Nat
  PROVE  Issued(s, _mint(s, p, to, v), p, to, v)
<1>1. s.bal[p][to] \in Nat
  BY Balances, Assets
<1>2. _mint(s, p, to, v) = Changed(s, p, to, v)
  BY DEF _mint, Changed, WithBooks, Books, Chain
<1>3. s.bal[p][to] + v \in Nat /\ v \in Int
  BY <1>1
<1>. QED BY <1>2, <1>3, Issues

\* ... and _burn takes back what the pair holds of its own tokens.
LEMMA Burns ==
  ASSUME NEW s, Books(s), NEW p \in Pair
  PROVE  Issued(s, _burn(s, p), p, p, -s.bal[p][p])
<1>1. s.bal[p][p] \in Nat /\ s.supply[p] \in Nat /\ p \in Holder
  BY Balances, Assets DEF Books, Chain
<1> DEFINE v == -s.bal[p][p]
<1>2. v \in Int /\ s.bal[p][p] + v = 0 /\ s.supply[p] + v = s.supply[p] - s.bal[p][p]
  BY <1>1
<1>3. _burn(s, p) = [[s EXCEPT !.bal = [s.bal EXCEPT ![p] = [s.bal[p] EXCEPT ![p] = 0]]]
                          EXCEPT !.supply = [s.supply EXCEPT ![p] = s.supply[p] - s.bal[p][p]]]
  BY DEF _burn, Books, Chain
<1>4. _burn(s, p) = [[s EXCEPT !.supply = [s.supply EXCEPT ![p] = s.supply[p] - s.bal[p][p]]]
                          EXCEPT !.bal = [s.bal EXCEPT ![p] = [s.bal[p] EXCEPT ![p] = 0]]]
  <2> DEFINE b == [s.bal EXCEPT ![p] = [s.bal[p] EXCEPT ![p] = 0]]
             u == [s.supply EXCEPT ![p] = s.supply[p] - s.bal[p][p]]
  <2>1. _burn(s, p) = [[s EXCEPT !.bal = b] EXCEPT !.supply = u]
    BY <1>3
  <2>. HIDE DEF b, u
  <2>2. [[s EXCEPT !.bal = b] EXCEPT !.supply = u] = [[s EXCEPT !.supply = u] EXCEPT !.bal = b]
    OBVIOUS
  <2>. QED BY <2>1, <2>2 DEF b, u
<1>5. _burn(s, p) = Changed(s, p, p, v)
  BY <1>2, <1>4 DEF Changed, WithBooks
<1>6. s.bal[p][p] + v \in Nat
  BY <1>2
<1>. HIDE DEF v
<1>7. Issued(s, _burn(s, p), p, p, v)
  BY <1>1, <1>2, <1>5, <1>6, Issues
<1>. QED BY <1>7 DEF v

---------------------------------------------------------------------------
(* What every call keeps *)

\* The product of the two amounts of a pair, ...
LEMMA Products ==
  ASSUME NEW p \in Pair, NEW f \in [p -> Nat]
  PROVE  /\ OneOf(p) \in p /\ Other(p, OneOf(p)) \in p /\ p = {OneOf(p), Other(p, OneOf(p))}
         /\ f[OneOf(p)] \in Nat /\ f[Other(p, OneOf(p))] \in Nat
         /\ Product(f) = f[OneOf(p)] * f[Other(p, OneOf(p))] /\ Product(f) \in Nat
<1> DEFINE a == OneOf(p)
           b == Other(p, a)
<1>1. a \in p /\ b \in p /\ p = {a, b}
  BY PairOfTwo
<1>2. Product(f) = f[a] * f[b]
  BY DEF Product
<1>. HIDE DEF a, b
<1>3. f[a] \in Nat /\ f[b] \in Nat
  BY <1>1
<1>4. f[a] * f[b] \in Nat
  BY <1>3
<1>. QED BY <1>1, <1>2, <1>3, <1>4 DEF a, b

\* ... which grows with either of them.
LEMMA ProductGrows ==
  ASSUME NEW p \in Pair, NEW f \in [p -> Nat], NEW g \in [p -> Nat], \A x \in p : f[x] <= g[x]
  PROVE  Product(f) <= Product(g)
<1> DEFINE a == OneOf(p)
           b == Other(p, a)
<1>1. /\ f[a] \in Nat /\ f[b] \in Nat /\ Product(f) = f[a] * f[b]
      /\ g[a] \in Nat /\ g[b] \in Nat /\ Product(g) = g[a] * g[b]
      /\ a \in p /\ b \in p
  BY Products
<1>. HIDE DEF a, b
<1>2. f[a] * f[b] <= g[a] * g[b]
  BY <1>1, Prod
<1>. QED BY <1>1, <1>2

\* The reserves of a pair are there.
Covered(s, p) == \A x \in p : s.reserve[p][x] <= s.bal[x][p]

\* The mark of a pair, taken when liquidity was last added or removed, has the
\* supply there still is; the square of the supply is within the product of
\* that time, and the product has not fallen since.  kLast is that product, or
\* 0 while the protocol has no fee.
Marked(s, p) ==
  /\ s.mark[p].supply = s.supply[p]
  /\ s.supply[p] * s.supply[p] <= s.mark[p].k
  /\ s.mark[p].k <= K(s, p)
  /\ s.kLast[p] = 0 \/ s.kLast[p] = s.mark[p].k

\* What every call keeps.
Good(s) == Books(s) /\ \A p \in Pair : Covered(s, p) /\ Marked(s, p)

\* No liquidity is added or removed, and no product falls.
Quiet(s, t) ==
  \A p \in Pair : t.mark[p] = s.mark[p] /\ t.supply[p] = s.supply[p] /\ K(s, p) <= K(t, p)

\* The product per square of the supply does not fall.
KeepsShare(s, t, p) ==
  s.mark[p].supply # 0 =>
     s.mark[p].k * (t.supply[p] * t.supply[p]) <= K(t, p) * (s.mark[p].supply * s.mark[p].supply)

SharesKept(s, t) == \A p \in Pair : KeepsShare(s, t, p)

\* A pair's own state is of numbers, ...
LEMMA Numbers ==
  ASSUME NEW s, Books(s), NEW p \in Pair
  PROVE  /\ s.supply[p] \in Nat /\ s.mark[p].k \in Nat /\ s.mark[p].supply \in Nat /\ s.kLast[p] \in Nat
         /\ s.reserve[p] \in [p -> Nat] /\ K(s, p) \in Nat
<1>1. s.supply[p] \in Nat /\ s.mark[p] \in [k : Nat, supply : Nat] /\ s.kLast[p] \in Nat
      /\ s.reserve[p] \in [p -> Nat]
  BY DEF Books, Chain
<1>2. K(s, p) \in Nat
  BY <1>1, Products DEF K
<1>. QED BY <1>1, <1>2

\* ... and so is what it holds.
LEMMA PairBalance ==
  ASSUME NEW s, Books(s), NEW p \in Pair, NEW x \in p, NEW q \in Pair
  PROVE  x \in Token /\ x \in Asset /\ s.bal[x][q] \in Nat
<1>1. x \in Token /\ x \in Asset /\ q \in Holder
  BY TwoOfPair, Assets
<1>. QED BY <1>1, Balances

\* Balances moved, none of a pair's taken: all stays good, and quiet.
LEMMA MovedGood ==
  ASSUME NEW s, Good(s), NEW t, Books(t), Moved(s, t), Fed(s, t, Pair)
  PROVE  Good(t) /\ Quiet(s, t)
<1>. SUFFICES ASSUME NEW p \in Pair
              PROVE  /\ Covered(t, p) /\ Marked(t, p)
                     /\ t.mark[p] = s.mark[p] /\ t.supply[p] = s.supply[p] /\ K(s, p) <= K(t, p)
  BY DEF Good, Quiet
<1>1. /\ t.reserve = s.reserve /\ t.mark = s.mark /\ t.supply = s.supply /\ t.kLast = s.kLast
      /\ Covered(s, p) /\ Marked(s, p) /\ Books(s)
  BY DEF Moved, Frame, Good
<1>2. K(t, p) = K(s, p) /\ K(s, p) \in Nat
  BY <1>1, Numbers DEF K
<1>3. Covered(t, p)
  <2>. SUFFICES ASSUME NEW x \in p PROVE s.reserve[p][x] <= t.bal[x][p]
    BY <1>1 DEF Covered
  <2>1. s.reserve[p][x] <= s.bal[x][p] /\ s.reserve[p][x] \in Nat
    BY <1>1, Numbers DEF Covered
  <2>2. x \in Token /\ s.bal[x][p] \in Nat /\ t.bal[x][p] \in Nat
    BY <1>1, PairBalance
  <2>3. s.bal[x][p] <= t.bal[x][p]
    BY <2>2 DEF Fed
  <2>. QED BY <2>1, <2>2, <2>3
<1>4. Marked(t, p)
  BY <1>1, <1>2 DEF Marked
<1>. QED BY <1>1, <1>2, <1>3, <1>4

\* A quiet step keeps the shares, ...
LEMMA QuietShare ==
  ASSUME NEW s, Good(s), NEW t, Good(t), Quiet(s, t)
  PROVE  SharesKept(s, t)
<1>. SUFFICES ASSUME NEW p \in Pair PROVE KeepsShare(s, t, p)
  BY DEF SharesKept
<1> DEFINE m == s.mark[p].k
           n == s.mark[p].supply
           S == n * n
<1>1. m \in Nat /\ n \in Nat /\ K(s, p) \in Nat /\ K(t, p) \in Nat
  BY Numbers DEF Good
<1>2. m <= K(s, p) /\ K(s, p) <= K(t, p) /\ t.supply[p] = n
  BY DEF Good, Marked, Quiet
<1>. HIDE DEF m, n
<1>3. S \in Nat /\ m <= K(t, p)
  BY <1>1, <1>2
<1>. HIDE DEF S
<1>4. m * S <= K(t, p) * S
  BY <1>1, <1>3, MulMono
<1>. QED BY <1>2, <1>4 DEF KeepsShare, S, m, n

\* ... also before another that does, ...
LEMMA QuietThenShare ==
  ASSUME NEW s, NEW t, NEW u, Quiet(s, t), SharesKept(t, u)
  PROVE  SharesKept(s, u)
BY DEF Quiet, SharesKept, KeepsShare

\* ... or after it, ...
LEMMA ShareThenQuiet ==
  ASSUME NEW s, Books(s), NEW t, Books(t), NEW u, Books(u), SharesKept(s, t), Quiet(t, u)
  PROVE  SharesKept(s, u)
<1>. SUFFICES ASSUME NEW p \in Pair, s.mark[p].supply # 0
              PROVE  s.mark[p].k * (u.supply[p] * u.supply[p])
                        <= K(u, p) * (s.mark[p].supply * s.mark[p].supply)
  BY DEF SharesKept, KeepsShare
<1> DEFINE S == s.mark[p].supply * s.mark[p].supply
           T == s.mark[p].k * (t.supply[p] * t.supply[p])
<1>1. s.mark[p].supply \in Nat /\ s.mark[p].k \in Nat /\ t.supply[p] \in Nat
      /\ K(t, p) \in Nat /\ K(u, p) \in Nat
  BY Numbers
<1>2. T <= K(t, p) * S /\ u.supply[p] = t.supply[p] /\ K(t, p) <= K(u, p)
  BY DEF SharesKept, KeepsShare, Quiet
<1>3. S \in Nat /\ T \in Nat
  BY <1>1
<1>4. SUFFICES T <= K(u, p) * S
  BY <1>2
<1>. HIDE DEF S, T
<1>5. K(t, p) * S <= K(u, p) * S
  BY <1>1, <1>2, <1>3, MulMono
<1>6. K(t, p) * S \in Nat /\ K(u, p) * S \in Nat
  BY <1>1, <1>3
<1>. QED BY <1>2, <1>3, <1>5, <1>6

\* ... and two quiet ones are quiet.
LEMMA QuietAgain ==
  ASSUME NEW s, Books(s), NEW t, Books(t), NEW u, Books(u), Quiet(s, t), Quiet(t, u)
  PROVE  Quiet(s, u)
<1>. SUFFICES ASSUME NEW p \in Pair
              PROVE  u.mark[p] = s.mark[p] /\ u.supply[p] = s.supply[p] /\ K(s, p) <= K(u, p)
  BY DEF Quiet
<1>1. K(s, p) \in Nat /\ K(t, p) \in Nat /\ K(u, p) \in Nat
  BY Numbers
<1>2. /\ t.mark[p] = s.mark[p] /\ t.supply[p] = s.supply[p] /\ K(s, p) <= K(t, p)
      /\ u.mark[p] = t.mark[p] /\ u.supply[p] = t.supply[p] /\ K(t, p) <= K(u, p)
  BY DEF Quiet
<1>. QED BY <1>1, <1>2

---------------------------------------------------------------------------
(* Swaps, sync and skim *)

\* What a pair has of its two tokens.
Holdings(s, p) == [x \in p |-> s.bal[x][p]]

\* A pair's holdings are numbers.
LEMMA HoldingsAre ==
  ASSUME NEW s, Books(s), NEW p \in Pair
  PROVE  Holdings(s, p) \in [p -> Nat] /\ \A x \in p : Holdings(s, p)[x] = s.bal[x][p]
BY PairBalance DEF Holdings

\* The reserves of p become what it holds, and nothing else changes.
Updated(s, t, p) ==
  /\ Books(t)
  /\ t.bal = s.bal /\ t.supply = s.supply
  /\ t.mark = s.mark /\ t.kLast = s.kLast
  /\ t.feeTo = s.feeTo
  /\ t.reserve[p] = Holdings(s, p)
  /\ \A q \in Pair : q # p => t.reserve[q] = s.reserve[q]

\* _update writes what the pair holds.
LEMMA Updates ==
  ASSUME NEW s, Books(s), NEW p \in Pair
  PROVE  Updated(s, _update(s, p), p)
<1> DEFINE r == [s.reserve EXCEPT ![p] = Holdings(s, p)]
           t == [s EXCEPT !.reserve = r]
<1>1. Holdings(s, p) \in [p -> Nat] /\ s \in Chain /\ s.reserve \in [Pair -> PairAmounts]
  BY HoldingsAre DEF Books, Chain
<1>2. _update(s, p) = t
  BY DEF _update, Holdings
<1>3. Holdings(s, p) \in PairAmounts
  BY <1>1 DEF PairAmounts
<1>4. r \in [Pair -> PairAmounts] /\ r[p] = Holdings(s, p) /\ \A q \in Pair : q # p => r[q] = s.reserve[q]
  BY <1>1, <1>3
<1>. HIDE DEF r
<1>5. /\ t \in Chain /\ t.bal = s.bal /\ t.supply = s.supply /\ t.mark = s.mark /\ t.kLast = s.kLast
      /\ t.feeTo = s.feeTo /\ t.reserve = r
  BY <1>1, <1>4 DEF Chain
<1>. HIDE DEF t
<1>6. \A q \in Pair : t.reserve[q] \in [q -> Nat]
  BY <1>1, <1>4, <1>5 DEF Books
<1>7. Books(t)
  BY <1>5, <1>6 DEF Books
<1>. QED BY <1>2, <1>4, <1>5, <1>7 DEF Updated

\* What is left of a balance after a payment, 0 at least.
LEMMA Max2 ==
  ASSUME NEW y \in Int, NEW b \in Nat, y <= b
  PROVE  Max({0, y}) \in 0..b
<1>1. \E x \in {0, y} : \A z \in {0, y} : x >= z
  <2>1. CASE y >= 0
    BY <2>1
  <2>2. CASE ~(y >= 0)
    BY <2>2
  <2>. QED BY <2>1, <2>2
<1>2. Max({0, y}) \in {0, y} /\ \A z \in {0, y} : Max({0, y}) >= z
  BY <1>1 DEF Max
<1>3. Max({0, y}) >= 0
  BY <1>2
<1>. QED BY <1>2, <1>3

\* The fee of a swap is a proper fraction.
LEMMA FeesAre ==
  /\ Fee \in Nat /\ FeeUnit \in Nat /\ FeeUnit # 0
  /\ Fee \in 0..FeeUnit /\ FeeUnit - Fee \in Nat \ {0}
BY ContractsAssumption

Logged(s, e) == [s EXCEPT !.swaps = Append(@, e)]

\* An event changes nothing that a pair depends on.
LEMMA Logs ==
  ASSUME NEW s, Books(s), NEW e \in SwapEvent, NEW t, t = Logged(s, e)
  PROVE  /\ Books(t) /\ t.bal = s.bal /\ t.supply = s.supply /\ t.mark = s.mark /\ t.kLast = s.kLast
         /\ t.feeTo = s.feeTo /\ t.reserve = s.reserve
<1> DEFINE l == Append(s.swaps, e)
<1>1. s \in Chain /\ s.swaps \in Seq(SwapEvent)
  BY DEF Books, Chain
<1>2. l \in Seq(SwapEvent)
  BY <1>1
<1>3. t = [s EXCEPT !.swaps = l]
  BY DEF Logged
<1>. HIDE DEF l
<1>4. t \in Chain /\ t.bal = s.bal /\ t.supply = s.supply /\ t.mark = s.mark /\ t.kLast = s.kLast
         /\ t.feeTo = s.feeTo /\ t.reserve = s.reserve
  BY <1>1, <1>2, <1>3 DEF Chain
<1>. QED BY <1>4 DEF Books

\* The end of a swap: the reserves are what the pair holds, and the product of
\* the reserves did not fall.
LEMMA Settles ==
  ASSUME NEW s, Books(s), NEW p \in Pair, NEW in \in [p -> Nat],
         \A x \in p : in[x] <= s.bal[x][p],
         NEW out \in [p -> Nat], NEW sender \in Holder, NEW to \in Holder,
         NEW t \in settle(s, p, in, out, sender, to)
  PROVE  Updated(s, t, p) /\ K(s, p) <= K(t, p)
<1> DEFINE e == [pair |-> p, in |-> in, out |-> out, sender |-> sender, to |-> to, block |-> s.block]
           u == _update(s, p)
<1>1. t = Logged(u, e)
      /\ Product([x \in p |-> s.bal[x][p] * FeeUnit - in[x] * Fee]) >= K(s, p) * FeeUnit * FeeUnit
  BY DEF settle, Logged
<1>2. e \in SwapEvent
  <2>1. in \in PairAmounts /\ out \in PairAmounts /\ s.block \in Nat
    BY DEF PairAmounts, Books, Chain
  <2>. QED BY <2>1 DEF SwapEvent
<1>3. Updated(s, u, p)
  BY Updates
<1>. HIDE DEF e, u
<1>4. /\ Books(t) /\ t.bal = u.bal /\ t.supply = u.supply /\ t.mark = u.mark /\ t.kLast = u.kLast
      /\ t.feeTo = u.feeTo /\ t.reserve = u.reserve
  BY <1>1, <1>2, <1>3, Logs DEF Updated
<1>5. Updated(s, t, p)
  BY <1>3, <1>4 DEF Updated
<1>6. K(s, p) <= K(t, p)
  <2> DEFINE h == Holdings(s, p)
             w == [x \in p |-> s.bal[x][p] * FeeUnit - in[x] * Fee]
             a == OneOf(p)
             b == Other(p, a)
  <2>1. h \in [p -> Nat] /\ \A x \in p : h[x] = s.bal[x][p]
    BY HoldingsAre
  <2>2. /\ a \in p /\ b \in p /\ p = {a, b} /\ h[a] \in Nat /\ h[b] \in Nat /\ Product(h) = h[a] * h[b]
        /\ in[a] \in Nat /\ in[b] \in Nat
    BY <2>1, Products
  <2>. HIDE DEF h
  <2>3. \A x \in p : w[x] = h[x] * FeeUnit - in[x] * Fee /\ in[x] \in 0..h[x]
    BY <2>1
  <2>4. \A x \in p : h[x] * FeeUnit - in[x] * Fee \in Nat
    <3>. SUFFICES ASSUME NEW x \in p PROVE h[x] * FeeUnit - in[x] * Fee \in Nat
      OBVIOUS
    <3>1. in[x] \in Nat /\ h[x] \in Nat /\ in[x] <= h[x] /\ Fee \in Nat /\ FeeUnit \in Nat /\ Fee <= FeeUnit
      BY <2>1, <2>3, FeesAre
    <3>2. in[x] * Fee <= h[x] * FeeUnit
      BY <3>1, Prod
    <3>. QED BY <3>1, <3>2
  <2>5. w \in [p -> Nat]
    BY <2>3, <2>4
  <2>6. Product(w) = w[a] * w[b]
    BY <2>5, Products
  <2>7. Product(w) >= K(s, p) * FeeUnit * FeeUnit
    BY <1>1
  <2>. HIDE DEF w, a, b
  <2>8. K(s, p) \in Nat
    BY Numbers
  <2>9. K(s, p) * FeeUnit * FeeUnit <= (h[a] * FeeUnit - in[a] * Fee) * (h[b] * FeeUnit - in[b] * Fee)
    <3>1. Product(w) = (h[a] * FeeUnit - in[a] * Fee) * (h[b] * FeeUnit - in[b] * Fee)
      BY <2>2, <2>3, <2>6
    <3>2. Product(w) \in Nat /\ K(s, p) * FeeUnit * FeeUnit \in Nat
      BY <2>5, <2>8, Products, FeesAre
    <3>. QED BY <2>7, <3>1, <3>2
  <2>10. K(s, p) <= h[a] * h[b]
    <3>1. in[a] \in 0..h[a] /\ in[b] \in 0..h[b]
      BY <2>2, <2>3
    <3>. QED BY <2>2, <2>8, <2>9, <3>1, FeesAre, SwapGrows
  <2>. QED BY <1>5, <2>2, <2>10 DEF Updated, K, h
<1>. QED BY <1>5, <1>6

\* Both tokens of a pair move: nobody but the sender has less.
LEMMA BothFeeds ==
  ASSUME NEW s, Books(s), NEW p \in Pair, NEW from \in Holder, NEW to \in Holder,
         NEW v \in [p -> Nat],
         NEW t \in transferBoth(s, p, from, to, v), NEW H \in SUBSET Holder,
         from \notin H \/ \A x \in p : v[x] = 0
  PROVE  Fed(s, t, H)
<1>. SUFFICES ASSUME NEW x \in Token, NEW h \in H PROVE s.bal[x][h] <= t.bal[x][h]
  BY DEF Fed
<1>1. x \in Asset /\ h \in Holder /\ s.bal[x][h] \in Nat
  BY Assets, Balances
<1>2. CASE x \notin p
  <2>1. t.bal[x] = s.bal[x]
    BY <1>1, <1>2, MovesBoth
  <2>. QED BY <1>1, <2>1
<1>3. CASE x \in p
  <2>1. t.bal[x][h] = s.bal[x][h] + (IF h = to THEN v[x] ELSE 0) - (IF h = from THEN v[x] ELSE 0)
    BY <1>1, <1>3, MovesBoth
  <2>2. v[x] \in Nat /\ (h # from \/ v[x] = 0)
    BY <1>3
  <2>. QED BY <1>1, <2>1, <2>2
<1>. QED BY <1>2, <1>3

\* Reserves that are not written stay covered.
LEMMA StillCovered ==
  ASSUME NEW s, Books(s), NEW q \in Pair, Covered(s, q), NEW t, Books(t),
         t.reserve[q] = s.reserve[q],
         Fed(s, t, {q})
  PROVE  Covered(t, q)
<1>. SUFFICES ASSUME NEW x \in q PROVE s.reserve[q][x] <= t.bal[x][q]
  BY DEF Covered
<1>1. s.reserve[q][x] <= s.bal[x][q] /\ s.reserve[q][x] \in Nat
  BY Numbers DEF Covered
<1>2. x \in Token /\ s.bal[x][q] \in Nat /\ t.bal[x][q] \in Nat
  BY PairBalance
<1>3. s.bal[x][q] <= t.bal[x][q]
  BY <1>2 DEF Fed
<1>. QED BY <1>1, <1>2, <1>3

\* The reserves of one pair are updated, and the others are not touched.
LEMMA UpdatedGood ==
  ASSUME NEW s, Good(s), NEW p \in Pair, NEW g, Books(g), Moved(s, g), Fed(s, g, Pair \ {p}),
         NEW t, Updated(g, t, p), K(s, p) <= K(t, p)
  PROVE  Good(t) /\ Quiet(s, t)
<1>. SUFFICES ASSUME NEW q \in Pair
              PROVE  /\ Covered(t, q) /\ Marked(t, q)
                     /\ t.mark[q] = s.mark[q] /\ t.supply[q] = s.supply[q] /\ K(s, q) <= K(t, q)
  BY DEF Good, Quiet, Updated
<1>1. /\ Books(t) /\ t.bal = g.bal /\ t.mark = s.mark /\ t.supply = s.supply /\ t.kLast = s.kLast
      /\ g.reserve = s.reserve
  BY DEF Updated, Moved, Frame
<1>2. Books(s) /\ Covered(s, q) /\ Marked(s, q) /\ K(s, q) \in Nat /\ K(t, q) \in Nat
  BY <1>1, Numbers DEF Good
<1>3. K(s, q) <= K(t, q)
  <2>1. CASE q = p
    BY <2>1
  <2>2. CASE q # p
    <3>1. t.reserve[q] = s.reserve[q]
      BY <1>1, <2>2 DEF Updated
    <3>. QED BY <1>2, <3>1 DEF K
  <2>. QED BY <2>1, <2>2
<1>4. Marked(t, q)
  <2>1. s.mark[q].k \in Nat
    BY <1>2, Numbers
  <2>. QED BY <1>1, <1>2, <1>3, <2>1 DEF Marked
<1>5. Covered(t, q)
  <2>1. CASE q = p
    <3>1. t.reserve[q] = Holdings(g, q) /\ \A x \in q : Holdings(g, q)[x] = g.bal[x][q] /\ g.bal[x][q] \in Nat
      BY <2>1, HoldingsAre, PairBalance DEF Updated
    <3>. QED BY <1>1, <3>1 DEF Covered
  <2>2. CASE q # p
    <3>1. t.reserve[q] = s.reserve[q] /\ Fed(s, t, {q})
      BY <1>1, <2>2 DEF Updated, Fed
    <3>. QED BY <1>1, <1>2, <3>1, StillCovered
  <2>. QED BY <2>1, <2>2
<1>. QED BY <1>1, <1>3, <1>4, <1>5

\* A swap keeps every pair good, also when it pays another pair of a path.
LEMMA SwapsGood ==
  ASSUME NEW s, Good(s), NEW p \in Pair, NEW out \in [p -> Nat], NEW sender \in Holder,
         NEW to \in Holder,
         NEW pay \in [p -> Nat], to \notin Pair \/ \A x \in p : pay[x] = 0,
         NEW t \in swap(s, p, out, sender, to, pay)
  PROVE  Good(t) /\ Quiet(s, t)
<1>1. PICK f, g : /\ f \in transferBoth(s, p, p, to, out) /\ g \in transferBoth(f, p, to, p, pay)
                  /\ t \in settle(g, p, [x \in p |-> Max({0, g.bal[x][p] - (s.reserve[p][x] - out[x])})],
                                  out, sender, to)
                  /\ \A x \in p : out[x] < s.reserve[p][x]
  <2> DEFINE got(g) == [x \in p |-> Max({0, g.bal[x][p] - (s.reserve[p][x] - out[x])})]
             S(g) == settle(g, p, got(g), out, sender, to)
  <2>1. /\ t \in UNION {S(g) : g \in UNION {transferBoth(f, p, to, p, pay) : f \in transferBoth(s, p, p, to, out)}}
        /\ \A x \in p : out[x] < s.reserve[p][x]
    BY DEF swap
  <2>. HIDE DEF S
  <2>2. PICK f, g : f \in transferBoth(s, p, p, to, out) /\ g \in transferBoth(f, p, to, p, pay) /\ t \in S(g)
    BY <2>1
  <2>. QED BY <2>1, <2>2 DEF S
<1>2. Books(s) /\ p \in Holder /\ Pair \ {p} \in SUBSET Holder
  BY Assets DEF Good
<1>3. Books(f) /\ Moved(s, f) /\ Fed(s, f, Pair \ {p})
  BY <1>1, <1>2, MovesBoth, BothFeeds
<1>4. Books(g) /\ Moved(f, g)
  BY <1>1, <1>2, <1>3, MovesBoth
<1>5. Fed(f, g, Pair \ {p})
  BY <1>1, <1>2, <1>3, BothFeeds
<1>6. Moved(s, g) /\ Fed(s, g, Pair \ {p})
  <2>1. s \in Chain /\ f \in Chain /\ g \in Chain
    BY <1>2, <1>3, <1>4 DEF Books
  <2>. QED BY <1>2, <1>3, <1>4, <1>5, <2>1, MovedAgain, FedAgain
<1> DEFINE in == [x \in p |-> Max({0, g.bal[x][p] - (s.reserve[p][x] - out[x])})]
<1>7. in \in [p -> Nat] /\ \A x \in p : in[x] <= g.bal[x][p]
  <2>. SUFFICES ASSUME NEW x \in p PROVE in[x] \in Nat /\ in[x] <= g.bal[x][p]
    OBVIOUS
  <2>1. g.bal[x][p] \in Nat /\ out[x] \in Nat /\ s.reserve[p][x] \in Nat /\ out[x] < s.reserve[p][x]
    BY <1>1, <1>2, <1>4, PairBalance, Numbers
  <2>2. in[x] = Max({0, g.bal[x][p] - (s.reserve[p][x] - out[x])})
    OBVIOUS
  <2>. HIDE DEF in
  <2>3. in[x] \in 0..g.bal[x][p]
    BY <2>1, <2>2, Max2
  <2>. QED BY <2>1, <2>3
<1>8. t \in settle(g, p, in, out, sender, to)
  BY <1>1
<1>. HIDE DEF in
<1>9. Updated(g, t, p) /\ K(g, p) <= K(t, p)
  BY <1>4, <1>7, <1>8, Settles
<1>10. K(g, p) = K(s, p)
  BY <1>6 DEF Moved, Frame, K
<1>. QED BY <1>4, <1>6, <1>9, <1>10, UpdatedGood

\* sync only takes up what is there already, ...
LEMMA SyncsGood ==
  ASSUME NEW s, Good(s), NEW p \in Pair, NEW t \in sync(s, p)
  PROVE  Good(t) /\ Quiet(s, t)
<1>1. Books(s) /\ s \in Chain /\ Moved(s, s) /\ Fed(s, s, Pair \ {p}) /\ Updated(s, t, p)
  <2>1. Books(s) /\ s \in Chain /\ t = _update(s, p) /\ Pair \ {p} \in SUBSET Holder
    BY Assets DEF Good, Books, sync
  <2>. QED BY <2>1, Updates, FedSame DEF Moved, Frame
<1>2. K(s, p) <= K(t, p)
  <2>1. Holdings(s, p) \in [p -> Nat] /\ s.reserve[p] \in [p -> Nat] /\ t.reserve[p] = Holdings(s, p)
    BY <1>1, HoldingsAre, Numbers DEF Updated
  <2>2. \A x \in p : s.reserve[p][x] <= Holdings(s, p)[x]
    BY <1>1, HoldingsAre DEF Good, Covered
  <2>. QED BY <2>1, <2>2, ProductGrows DEF K
<1>. QED BY <1>1, <1>2, UpdatedGood

\* ... and skim only pays out what is beyond the reserves.
LEMMA SkimsGood ==
  ASSUME NEW s, Good(s), NEW p \in Pair, NEW to \in Holder, NEW t \in skim(s, p, to)
  PROVE  Good(t) /\ Quiet(s, t)
<1> DEFINE v == Deposited(s, p)
<1>1. Books(s) /\ p \in Holder
  BY Assets DEF Good
<1>2. /\ v \in [p -> Nat]
      /\ \A x \in p : v[x] = s.bal[x][p] - s.reserve[p][x] /\ s.bal[x][p] \in Nat /\ s.reserve[p][x] \in Nat
  <2>. SUFFICES ASSUME NEW x \in p
                PROVE  /\ s.bal[x][p] - s.reserve[p][x] \in Nat
                       /\ s.bal[x][p] \in Nat /\ s.reserve[p][x] \in Nat
    BY DEF Deposited
  <2>1. s.bal[x][p] \in Nat /\ s.reserve[p][x] \in Nat /\ s.reserve[p][x] <= s.bal[x][p]
    BY <1>1, PairBalance, Numbers DEF Good, Covered
  <2>. QED BY <2>1
<1>3. t \in transferBoth(s, p, p, to, v)
  BY DEF skim
<1>. HIDE DEF v
<1>4. /\ Books(t) /\ Moved(s, t)
      /\ \A x \in p, h \in Holder : t.bal[x][h]
              = s.bal[x][h] + (IF h = to THEN v[x] ELSE 0) - (IF h = p THEN v[x] ELSE 0)
  BY <1>1, <1>2, <1>3, MovesBoth
<1>5. Covered(t, p)
  <2>. SUFFICES ASSUME NEW x \in p PROVE s.reserve[p][x] <= t.bal[x][p]
    BY <1>4 DEF Covered, Moved, Frame
  <2>1. t.bal[x][p] = s.bal[x][p] + (IF p = to THEN v[x] ELSE 0) - v[x]
    BY <1>1, <1>4
  <2>2. v[x] = s.bal[x][p] - s.reserve[p][x] /\ s.bal[x][p] \in Nat /\ s.reserve[p][x] \in Nat /\ v[x] \in Nat
    BY <1>2
  <2>. QED BY <2>1, <2>2
<1>6. Fed(s, t, Pair \ {p})
  <2>1. Pair \ {p} \in SUBSET Holder
    BY Assets
  <2>. QED BY <1>1, <1>2, <1>3, <2>1, BothFeeds
<1>7. \A q \in Pair : Covered(t, q)
  <2>. SUFFICES ASSUME NEW q \in Pair PROVE Covered(t, q)
    OBVIOUS
  <2>1. CASE q # p
    <3>1. Fed(s, t, {q}) /\ t.reserve[q] = s.reserve[q] /\ Covered(s, q)
      BY <1>4, <1>6, <2>1 DEF Fed, Moved, Frame, Good
    <3>. QED BY <1>1, <1>4, <3>1, StillCovered
  <2>. QED BY <1>5, <2>1
<1>8. \A q \in Pair : K(t, q) = K(s, q) /\ K(s, q) \in Nat /\ t.mark[q] = s.mark[q] /\ t.supply[q] = s.supply[q]
                      /\ t.kLast[q] = s.kLast[q]
  BY <1>1, <1>4, Numbers DEF Moved, Frame, K
<1>9. \A q \in Pair : Marked(t, q)
  BY <1>8 DEF Good, Marked
<1>. QED BY <1>4, <1>7, <1>8, <1>9 DEF Good, Quiet

---------------------------------------------------------------------------
(* The fee of the protocol *)

\* Division rounds down.
LEMMA DivDown ==
  ASSUME NEW a \in Nat, NEW b \in Nat, b # 0
  PROVE  a \div b \in Nat /\ (a \div b) * b <= a
OBVIOUS

\* The pair p is closed: its reserves and its mark are what it holds.
Closed(s, t, p) ==
  /\ Books(t)
  /\ t.bal = s.bal /\ t.supply = s.supply
  /\ t.reserve[p] = Holdings(s, p)
  /\ t.mark[p].k = Product(Holdings(s, p)) /\ t.mark[p].supply = s.supply[p]
  /\ t.kLast[p] = IF s.feeTo # Nobody THEN Product(Holdings(s, p)) ELSE s.kLast[p]
  /\ \A q \in Pair : q # p => /\ t.reserve[q] = s.reserve[q] /\ t.mark[q] = s.mark[q]
                              /\ t.kLast[q] = s.kLast[q]

\* Close writes the reserves, the mark and kLast.
LEMMA Closes ==
  ASSUME NEW s, Books(s), NEW p \in Pair
  PROVE  Closed(s, Close(s, p), p)
<1> DEFINE u == _update(s, p)
           n == Product(Holdings(s, p))
           l == [u.kLast EXCEPT ![p] = IF s.feeTo # Nobody THEN n ELSE @]
           m == [u.mark EXCEPT ![p] = [k |-> n, supply |-> s.supply[p]]]
           t == [[u EXCEPT !.kLast = l] EXCEPT !.mark = m]
<1>1. Updated(s, u, p)
  BY Updates
<1>2. Holdings(s, p) \in [p -> Nat] /\ n \in Nat
  BY HoldingsAre, Products
<1>3. Close(s, p) = t
  BY DEF Close, Holdings
<1>4. /\ u \in Chain /\ u.kLast \in [Pair -> Nat] /\ u.mark \in [Pair -> [k : Nat, supply : Nat]]
      /\ s.supply[p] \in Nat /\ u.kLast = s.kLast /\ u.mark = s.mark
  BY <1>1, Numbers DEF Updated, Books, Chain
<1>. HIDE DEF n, u
<1>5. l \in [Pair -> Nat] /\ l[p] = (IF s.feeTo # Nobody THEN n ELSE s.kLast[p])
      /\ \A q \in Pair : q # p => l[q] = s.kLast[q]
  BY <1>2, <1>4
<1>6. /\ m \in [Pair -> [k : Nat, supply : Nat]] /\ m[p] = [k |-> n, supply |-> s.supply[p]]
      /\ \A q \in Pair : q # p => m[q] = s.mark[q]
  BY <1>2, <1>4
<1>. HIDE DEF l, m
<1>7. /\ t \in Chain /\ t.bal = u.bal /\ t.supply = u.supply /\ t.reserve = u.reserve
      /\ t.kLast = l /\ t.mark = m
  BY <1>4, <1>5, <1>6 DEF Chain
<1>. HIDE DEF t
<1>8. Books(t)
  BY <1>1, <1>7 DEF Books, Updated
<1>9. m[p].k = n /\ m[p].supply = s.supply[p]
  BY <1>6
<1>. QED BY <1>1, <1>3, <1>5, <1>6, <1>7, <1>8, <1>9 DEF Closed, Updated, n

\* A pair may be closed after its tokens and its pool tokens have changed.
Opened(s, g, p) ==
  /\ Books(g)
  /\ g.reserve = s.reserve /\ g.mark = s.mark /\ g.feeTo = s.feeTo
  /\ g.feeTo = Nobody => g.kLast[p] = 0
  /\ \A q \in Pair : q # p => g.supply[q] = s.supply[q] /\ g.kLast[q] = s.kLast[q]
  /\ Fed(s, g, Pair \ {p})

\* A pair closes good when its supply squared is within the product of what it
\* holds, and that product per square of the supply is no less than the mark's.
LEMMA ClosedGood ==
  ASSUME NEW s, Good(s), NEW p \in Pair, NEW g, Opened(s, g, p),
         g.supply[p] * g.supply[p] <= Product(Holdings(g, p)),
         s.supply[p] # 0 => s.mark[p].k * (g.supply[p] * g.supply[p])
                              <= Product(Holdings(g, p)) * (s.supply[p] * s.supply[p]),
         NEW t, t = Close(g, p)
  PROVE  Good(t) /\ SharesKept(s, t) /\ t.bal = g.bal
<1>1. Books(g) /\ Closed(g, t, p) /\ Books(s)
  BY Closes DEF Opened, Good
<1>2. Books(t) /\ t.bal = g.bal
  BY <1>1 DEF Closed
<1>3. K(t, p) = Product(Holdings(g, p)) /\ K(t, p) \in Nat
  BY <1>1, HoldingsAre, Products DEF Closed, K
<1>4. Covered(t, p)
  <2>1. t.reserve[p] = Holdings(g, p) /\ \A x \in p : Holdings(g, p)[x] = g.bal[x][p] /\ g.bal[x][p] \in Nat
    BY <1>1, HoldingsAre, PairBalance DEF Closed
  <2>. QED BY <1>2, <2>1 DEF Covered
<1>5. Marked(t, p)
  <2>1. t.mark[p].k = K(t, p) /\ t.mark[p].supply = t.supply[p] /\ t.supply[p] = g.supply[p]
    BY <1>1, <1>3 DEF Closed
  <2>2. t.kLast[p] = 0 \/ t.kLast[p] = t.mark[p].k
    BY <1>1, <1>3, <2>1 DEF Closed, Opened
  <2>. QED BY <1>3, <2>1, <2>2 DEF Marked
<1>6. KeepsShare(s, t, p)
  <2>1. s.mark[p].supply = s.supply[p] /\ t.supply[p] = g.supply[p]
    BY <1>1 DEF Good, Marked, Closed
  <2>. QED BY <1>3, <2>1 DEF KeepsShare
<1>7. ASSUME NEW q \in Pair, q # p
      PROVE  Covered(t, q) /\ Marked(t, q) /\ KeepsShare(s, t, q)
  <2>1. /\ t.reserve[q] = s.reserve[q] /\ t.mark[q] = s.mark[q] /\ t.kLast[q] = s.kLast[q]
        /\ t.supply[q] = s.supply[q] /\ Fed(s, t, {q})
    BY <1>1, <1>7 DEF Closed, Opened, Fed
  <2>2. Covered(s, q) /\ Marked(s, q) /\ K(t, q) = K(s, q)
    BY <2>1 DEF Good, K
  <2>3. Covered(t, q)
    BY <1>1, <1>2, <2>1, <2>2, StillCovered
  <2>4. Marked(t, q)
    BY <2>1, <2>2 DEF Marked
  <2>5. KeepsShare(s, t, q)
    <3> DEFINE S == s.mark[q].supply * s.mark[q].supply
    <3>1. s.mark[q].k \in Nat /\ s.mark[q].supply \in Nat /\ K(s, q) \in Nat /\ s.mark[q].k <= K(s, q)
      BY <1>1, <2>2, Numbers DEF Marked
    <3>2. S \in Nat
      BY <3>1
    <3>3. t.supply[q] * t.supply[q] = S
      BY <2>1, <2>2 DEF Marked
    <3>. HIDE DEF S
    <3>4. s.mark[q].k * S <= K(s, q) * S
      BY <3>1, <3>2, MulMono
    <3>. QED BY <2>2, <3>3, <3>4 DEF KeepsShare, S
  <2>. QED BY <2>3, <2>4, <2>5
<1>8. \A q \in Pair : Covered(t, q) /\ Marked(t, q) /\ KeepsShare(s, t, q)
  BY <1>4, <1>5, <1>6, <1>7
<1>. QED BY <1>2, <1>8 DEF Good, SharesKept

\* The protocol's fee by the code's formula, from the two roots.
LEMMA FeesShare ==
  ASSUME NEW s \in Nat, NEW m \in Nat, NEW k \in Nat, s * s <= m, m <= k
  PROVE  LET f == FeeLiquidity(s, sqrt(k), sqrt(m))
         IN /\ f \in Nat /\ m * ((s + f) * (s + f)) <= k * (s * s) /\ (s = 0 => f = 0)
<1> DEFINE r == sqrt(k)
           q == sqrt(m)
           f == FeeLiquidity(s, r, q)
<1>1. r \in Nat /\ r * r <= k /\ q \in Nat /\ q * q <= m /\ m < (q + 1) * (q + 1)
  BY RootOf
<1>. HIDE DEF r, q
<1>2. CASE q < r
  <2> DEFINE d == r * 5 + q
             a == s * (r - q)
  <2>1. f = a \div d /\ r - q \in Nat /\ d \in Nat /\ d # 0
    BY <1>1, <1>2 DEF FeeLiquidity
  <2>2. a \in Nat /\ (s = 0 => a = 0)
    BY <2>1
  <2>. HIDE DEF d, a, f
  <2>3. f \in Nat /\ f * d <= a
    BY <2>1, <2>2, DivDown
  <2>4. m * ((s + f) * (s + f)) <= k * (s * s)
    BY <1>1, <1>2, <2>3, FeeShare DEF a, d
  <2>5. s = 0 => f = 0
    <3>1. ASSUME s = 0, f # 0 PROVE FALSE
      <4>1. 1 * d <= f * d
        BY <2>1, <2>3, <3>1, MulMono
      <4>. QED BY <2>1, <2>2, <2>3, <3>1, <4>1
    <3>. QED BY <3>1
  <2>. QED BY <2>3, <2>4, <2>5 DEF f, r, q
<1>3. CASE ~(q < r)
  <2>1. f = 0
    BY <1>1, <1>3 DEF FeeLiquidity
  <2>2. s * s \in Nat /\ (s + f) * (s + f) = s * s
    BY <2>1
  <2>3. m * (s * s) <= k * (s * s)
    BY <2>2, MulMono
  <2>. QED BY <2>1, <2>2, <2>3 DEF r, q
<1>. QED BY <1>2, <1>3

\* After the protocol has its fee: nothing but pool tokens has changed.
Charged(s, f, p) ==
  /\ Opened(s, f, p)
  /\ \A x \in Token : f.bal[x] = s.bal[x]
  /\ s.supply[p] = 0 <=> f.supply[p] = 0
  /\ s.mark[p].k * (f.supply[p] * f.supply[p]) <= K(s, p) * (s.supply[p] * s.supply[p])

\* _mintFee: with the fee off nothing changes but kLast, otherwise the receiver is
\* issued the fee, which the growth since the mark allows.
LEMMA Charges ==
  ASSUME NEW s, Good(s), NEW p \in Pair
  PROVE  Charged(s, _mintFee(s, p), p)
<1> DEFINE f == _mintFee(s, p)
           m == s.mark[p].k
           n == s.supply[p]
<1>1. /\ Books(s) /\ Marked(s, p) /\ s \in Chain /\ m \in Nat /\ n \in Nat /\ K(s, p) \in Nat
      /\ s.kLast[p] \in Nat
  BY Numbers DEF Good, Books
<1>2. n * n <= m /\ m <= K(s, p) /\ (s.kLast[p] = 0 \/ s.kLast[p] = m)
  BY <1>1 DEF Marked
<1>3. m * (n * n) <= K(s, p) * (n * n)
  <2>1. n * n \in Nat
    BY <1>1
  <2>. QED BY <1>1, <1>2, <2>1, MulMono
<1>4. CASE s.feeTo = Nobody
  <2> DEFINE l == [s.kLast EXCEPT ![p] = 0]
  <2>1. f = [s EXCEPT !.kLast = l]
    BY <1>4 DEF _mintFee
  <2>2. l \in [Pair -> Nat] /\ l[p] = 0 /\ \A q \in Pair : q # p => l[q] = s.kLast[q]
    BY <1>1 DEF Chain
  <2>. HIDE DEF l
  <2>3. /\ f \in Chain /\ f.bal = s.bal /\ f.supply = s.supply /\ f.reserve = s.reserve
        /\ f.mark = s.mark /\ f.feeTo = s.feeTo /\ f.kLast = l
    BY <1>1, <2>1, <2>2 DEF Chain
  <2>. HIDE DEF f
  <2>4. Books(f)
    BY <1>1, <2>3 DEF Books
  <2>5. Fed(s, f, Pair \ {p})
    <3>1. Pair \ {p} \in SUBSET Holder
      BY Assets
    <3>. QED BY <1>1, <2>3, <3>1, FedSame
  <2>6. Opened(s, f, p)
    BY <2>2, <2>3, <2>4, <2>5 DEF Opened
  <2>7. Charged(s, f, p)
    BY <1>3, <2>3, <2>6 DEF Charged
  <2>. QED BY <2>7 DEF f
<1>5. CASE s.feeTo # Nobody /\ s.kLast[p] = 0
  <2>1. f = s
    BY <1>5 DEF _mintFee
  <2>2. Fed(s, s, Pair \ {p})
    <3>1. Pair \ {p} \in SUBSET Holder
      BY Assets
    <3>. QED BY <1>1, <3>1, FedSame
  <2>. QED BY <1>1, <1>3, <1>5, <2>1, <2>2 DEF Opened, Charged
<1>6. CASE s.feeTo # Nobody /\ s.kLast[p] # 0
  <2> DEFINE v == FeeLiquidity(n, sqrt(K(s, p)), sqrt(m))
  <2>1. s.kLast[p] = m
    BY <1>2, <1>6
  <2>2. f = _mint(s, p, s.feeTo, v)
    BY <1>6, <2>1 DEF _mintFee
  <2>3. v \in Nat /\ m * ((n + v) * (n + v)) <= K(s, p) * (n * n) /\ (n = 0 => v = 0)
    BY <1>1, <1>2, FeesShare
  <2>. HIDE DEF v
  <2>4. s.feeTo \in Holder
    BY <1>1, Assets DEF Chain
  <2>5. Issued(s, f, p, s.feeTo, v)
    BY <1>1, <2>2, <2>3, <2>4, Mints
  <2>. HIDE DEF f
  <2>6. \A x \in Token : f.bal[x] = s.bal[x]
    <3>1. \A x \in Token : x \in Asset /\ x # p
      BY Assets, Apart
    <3>. QED BY <2>5, <3>1 DEF Issued
  <2>7. Fed(s, f, Pair \ {p})
    <3>1. \A x \in Token, h \in Pair : s.bal[x][h] \in Nat
      BY <1>1, Assets, Balances
    <3>. QED BY <2>6, <3>1 DEF Fed
  <2>8. Opened(s, f, p)
    BY <1>6, <2>5, <2>7 DEF Opened, Issued, Frame
  <2>9. f.supply[p] = n + v
    BY <2>5 DEF Issued
  <2>10. n = 0 <=> f.supply[p] = 0
    BY <1>1, <2>3, <2>9
  <2>. HIDE DEF n, m
  <2>11. Charged(s, f, p)
    BY <2>3, <2>6, <2>8, <2>9, <2>10 DEF Charged, m, n
  <2>. QED BY <2>11 DEF f
<1>. QED BY <1>4, <1>5, <1>6

---------------------------------------------------------------------------
(* Mints and burns *)

\* With the shares of a mint or a burn, what closes is good.
LEMMA Enough ==
  ASSUME NEW m \in Nat, NEW k \in Nat, NEW s \in Nat, NEW f \in Nat, NEW k2 \in Nat,
         NEW s2 \in Nat,
         s * s <= m, m * (f * f) <= k * (s * s), s # 0, f # 0, k * (s2 * s2) <= k2 * (f * f)
  PROVE  m * (s2 * s2) <= k2 * (s * s) /\ s2 * s2 <= k2
<1>1. m * (s2 * s2) <= k2 * (s * s)
  BY ShareAgain
<1> DEFINE F == f * f
           S == s * s
           T == s2 * s2
<1>2. F \in Nat /\ S \in Nat /\ T \in Nat /\ S # 0 /\ F # 0
  BY SquareUp
<1>3. S <= m /\ m * F <= k * S /\ k * T <= k2 * F
  OBVIOUS
<1>4. m * T <= k2 * S
  BY <1>1
<1>. HIDE DEF F, S, T
<1>5. S * T <= m * T
  BY <1>2, <1>3, MulMono
<1>6. T * S <= k2 * S
  <2>1. S * T \in Nat /\ m * T \in Nat /\ k2 * S \in Nat /\ T * S = S * T
    BY <1>2
  <2>. QED BY <1>4, <1>5, <2>1
<1>7. T <= k2
  BY <1>2, <1>6, Cancel
<1>. QED BY <1>1, <1>7 DEF T

\* The less of two amounts.
LEMMA MinOfPair ==
  ASSUME NEW p \in Pair, NEW f \in [p -> Nat]
  PROVE  LET n == Min({f[x] : x \in p}) IN n \in Nat /\ \A x \in p : n <= f[x]
<1> DEFINE a == f[OneOf(p)]
           b == f[Other(p, OneOf(p))]
           S == {f[x] : x \in p}
<1>1. a \in Nat /\ b \in Nat /\ p = {OneOf(p), Other(p, OneOf(p))}
  BY Products
<1>2. S = {a, b} /\ \A x \in p : f[x] \in S
  BY <1>1
<1>. HIDE DEF a, b, S
<1>3. \E n \in S : \A y \in S : n <= y
  <2>1. CASE a <= b
    BY <1>1, <1>2, <2>1
  <2>2. CASE ~(a <= b)
    BY <1>1, <1>2, <2>2
  <2>. QED BY <2>1, <2>2
<1>4. Min(S) \in S /\ \A y \in S : Min(S) <= y
  BY <1>3 DEF Min
<1>5. Min(S) \in Nat
  BY <1>1, <1>2, <1>4
<1>. QED BY <1>2, <1>4, <1>5 DEF S

\* What is kept of the pair while the tokens have not moved.
LEMMA ChargedPair ==
  ASSUME NEW s, Good(s), NEW p \in Pair, NEW f, Charged(s, f, p)
  PROVE  /\ Books(s) /\ Books(f) /\ f.supply[p] \in Nat /\ s.supply[p] \in Nat
         /\ s.mark[p].k \in Nat /\ K(s, p) \in Nat
         /\ s.supply[p] * s.supply[p] <= s.mark[p].k
         /\ f.supply[p] # 0 <=> s.supply[p] # 0
         /\ f.reserve[p] = s.reserve[p] /\ K(f, p) = K(s, p)
         /\ s.reserve[p] \in [p -> Nat]
         /\ \A x \in p : f.bal[x][p] = s.bal[x][p] /\ s.bal[x][p] \in Nat /\ s.reserve[p][x] <= s.bal[x][p]
<1>1. Books(s) /\ Books(f) /\ f.reserve = s.reserve /\ Covered(s, p) /\ Marked(s, p)
  BY DEF Good, Charged, Opened
<1>2. f.supply[p] \in Nat /\ s.supply[p] \in Nat /\ s.mark[p].k \in Nat /\ K(s, p) \in Nat /\ s.reserve[p] \in [p -> Nat]
  BY <1>1, Numbers
<1>3. \A x \in p : x \in Token /\ s.bal[x][p] \in Nat
  BY <1>1, PairBalance
<1>4. \A x \in p : f.bal[x][p] = s.bal[x][p]
  BY <1>3 DEF Charged
<1>. QED BY <1>1, <1>2, <1>3, <1>4 DEF Charged, Covered, Marked, K

\* Issuing pool tokens keeps a pair open.
LEMMA OpenedAgain ==
  ASSUME NEW s, Books(s), NEW p \in Pair, NEW f, Opened(s, f, p), NEW to \in Holder, NEW v,
         NEW g, Issued(f, g, p, to, v)
  PROVE  Opened(s, g, p) /\ \A x \in Token : g.bal[x] = f.bal[x]
<1>1. \A x \in Token : x \in Asset /\ x # p
  BY Assets, Apart
<1>2. \A x \in Token : g.bal[x] = f.bal[x]
  BY <1>1 DEF Issued
<1>3. Fed(s, g, Pair \ {p})
  BY <1>2 DEF Opened, Fed
<1>. QED BY <1>2, <1>3 DEF Opened, Issued, Frame

\* The shares a mint gives are no more than what is deposited is worth.
LEMMA MintsMore ==
  ASSUME NEW s, Good(s), NEW p \in Pair, NEW f, Charged(s, f, p), f.supply[p] # 0,
         NEW n, n = Shares(f, p, Deposited(f, p))
  PROVE  n \in Nat /\ K(s, p) * ((f.supply[p] + n) * (f.supply[p] + n))
                        <= Product(Holdings(s, p)) * (f.supply[p] * f.supply[p])
<1> DEFINE S == f.supply[p]
           a == OneOf(p)
           b == Other(p, a)
           r == s.reserve[p]
           h == Holdings(s, p)
           w == [x \in p |-> ((h[x] - r[x]) * S) \div r[x]]
<1>1. /\ Books(s) /\ Books(f) /\ S \in Nat /\ s.supply[p] \in Nat /\ s.mark[p].k \in Nat /\ K(s, p) \in Nat
      /\ S # 0 /\ s.supply[p] # 0 /\ s.supply[p] * s.supply[p] <= s.mark[p].k
      /\ f.reserve[p] = r /\ r \in [p -> Nat]
      /\ \A x \in p : f.bal[x][p] = s.bal[x][p] /\ s.bal[x][p] \in Nat /\ r[x] <= s.bal[x][p]
  BY ChargedPair
<1>2. h \in [p -> Nat] /\ \A x \in p : h[x] = s.bal[x][p]
  BY <1>1, HoldingsAre
<1>3. /\ a \in p /\ b \in p /\ p = {a, b} /\ r[a] \in Nat /\ r[b] \in Nat /\ K(s, p) = r[a] * r[b]
      /\ h[a] \in Nat /\ h[b] \in Nat /\ Product(h) = h[a] * h[b]
  BY <1>1, <1>2, Products DEF K
<1>. HIDE DEF a, b, h
<1>4. K(s, p) # 0
  <2>1. s.mark[p].k <= K(s, p)
    BY DEF Good, Marked
  <2>2. s.supply[p] <= s.supply[p] * s.supply[p] /\ s.supply[p] * s.supply[p] \in Nat
    BY <1>1, SquareUp
  <2>. QED BY <1>1, <2>1, <2>2
<1>5. r[a] # 0 /\ r[b] # 0
  BY <1>3, <1>4
<1>6. \A x \in p : Deposited(f, p)[x] = h[x] - r[x] /\ h[x] - r[x] \in Nat /\ r[x] \in Nat /\ r[x] # 0
  BY <1>1, <1>2, <1>3, <1>5 DEF Deposited
<1>7. \A x \in p : /\ w[x] = ((h[x] - r[x]) * S) \div r[x]
                   /\ w[x] \in Nat /\ w[x] * r[x] <= (h[x] - r[x]) * S
  <2>. SUFFICES ASSUME NEW x \in p
                PROVE  LET v == ((h[x] - r[x]) * S) \div r[x] IN v \in Nat /\ v * r[x] <= (h[x] - r[x]) * S
    OBVIOUS
  <2>1. (h[x] - r[x]) * S \in Nat /\ r[x] \in Nat /\ r[x] # 0
    BY <1>1, <1>6
  <2>. QED BY <2>1, DivDown
<1>8. {(Deposited(f, p)[t] * f.supply[p]) \div f.reserve[p][t] : t \in p} = {w[t] : t \in p}
  BY <1>1, <1>6
<1>9. w \in [p -> Nat]
  BY <1>7
<1>10. n = Min({w[t] : t \in p})
  BY <1>8 DEF Shares
<1>. HIDE DEF w, S, r
<1>11. n \in Nat /\ n <= w[a] /\ n <= w[b]
  BY <1>3, <1>9, <1>10, MinOfPair
<1>12. /\ n * r[a] <= (h[a] - r[a]) * S /\ n * r[b] <= (h[b] - r[b]) * S
  <2>1. w[a] \in Nat /\ w[b] \in Nat /\ w[a] * r[a] <= (h[a] - r[a]) * S /\ w[b] * r[b] <= (h[b] - r[b]) * S
        /\ h[a] - r[a] \in Nat /\ h[b] - r[b] \in Nat
    BY <1>3, <1>6, <1>7
  <2>2. n * r[a] <= w[a] * r[a] /\ n * r[b] <= w[b] * r[b]
    BY <1>3, <1>11, <2>1, MulMono
  <2>3. (h[a] - r[a]) * S \in Nat /\ (h[b] - r[b]) * S \in Nat /\ n * r[a] \in Nat /\ n * r[b] \in Nat
        /\ w[a] * r[a] \in Nat /\ w[b] * r[b] \in Nat
    BY <1>1, <1>3, <1>11, <2>1
  <2>. QED BY <2>1, <2>2, <2>3
<1>13. (r[a] * r[b]) * ((S + n) * (S + n)) <= ((r[a] + (h[a] - r[a])) * (r[b] + (h[b] - r[b]))) * (S * S)
  <2>1. h[a] - r[a] \in Nat /\ h[b] - r[b] \in Nat
    BY <1>3, <1>6
  <2>. QED BY <1>1, <1>3, <1>11, <1>12, <2>1, MintShare
<1>14. r[a] + (h[a] - r[a]) = h[a] /\ r[b] + (h[b] - r[b]) = h[b]
  BY <1>3
<1>. QED BY <1>3, <1>11, <1>13, <1>14 DEF S, h, r

\* A mint, the first of a pair or a later one, keeps every pair good and every
\* share of the product.
LEMMA MintsGood ==
  ASSUME NEW s, Good(s), NEW p \in Pair, NEW to \in Holder, NEW t \in mint(s, p, to)
  PROVE  Good(t) /\ SharesKept(s, t)
<1> DEFINE f == _mintFee(s, p)
           n == Liquidity(f, p)
           e == MintMinimum(f, p)
           g == _mint(e, p, to, n)
           h == Holdings(s, p)
<1>1. n > 0 /\ t = Close(g, p)
  BY DEF mint
<1>2. Charged(s, f, p)
  BY Charges
<1>. HIDE DEF f
<1>3. /\ Books(s) /\ Books(f) /\ f.supply[p] \in Nat /\ s.supply[p] \in Nat
      /\ s.mark[p].k \in Nat /\ K(s, p) \in Nat
      /\ s.supply[p] * s.supply[p] <= s.mark[p].k
      /\ f.supply[p] # 0 <=> s.supply[p] # 0
      /\ \A x \in p : f.bal[x][p] = s.bal[x][p] /\ s.bal[x][p] \in Nat /\ s.reserve[p][x] <= s.bal[x][p]
      /\ f.reserve[p] = s.reserve[p] /\ s.reserve[p] \in [p -> Nat]
  BY <1>2, ChargedPair
<1>4. h \in [p -> Nat] /\ Product(h) \in Nat /\ \A x \in p : h[x] = s.bal[x][p]
  BY <1>3, HoldingsAre, Products
<1>5. ASSUME NEW v, Opened(s, v, p), \A x \in Token : v.bal[x] = s.bal[x]
      PROVE  Holdings(v, p) = h
  <2>1. \A x \in p : x \in Token
    BY TwoOfPair
  <2>. QED BY <1>5, <2>1 DEF Holdings
<1>6. CASE f.supply[p] # 0
  <2>1. e = f /\ n = Shares(f, p, Deposited(f, p))
    BY <1>6 DEF MintMinimum, Liquidity
  <2>2. n \in Nat /\ K(s, p) * ((f.supply[p] + n) * (f.supply[p] + n)) <= Product(h) * (f.supply[p] * f.supply[p])
    BY <1>2, <1>6, <2>1, MintsMore
  <2>. HIDE DEF n, e
  <2>3. Issued(f, g, p, to, n)
    BY <1>3, <2>1, <2>2, Mints
  <2>. HIDE DEF g, h
  <2>4. Opened(s, g, p) /\ \A x \in Token : g.bal[x] = s.bal[x]
    BY <1>2, <1>3, <2>3, OpenedAgain DEF Charged
  <2>5. Holdings(g, p) = h
    BY <1>5, <2>4
  <2>6. g.supply[p] = f.supply[p] + n /\ g.supply[p] \in Nat
    <3>1. g.supply[p] = f.supply[p] + n
      BY <2>3 DEF Issued
    <3>2. f.supply[p] \in Nat /\ n \in Nat
      BY <1>3, <2>2
    <3>. QED BY <3>1, <3>2
  <2>7. s.mark[p].k * (f.supply[p] * f.supply[p]) <= K(s, p) * (s.supply[p] * s.supply[p])
    BY <1>2 DEF Charged
  <2>8. K(s, p) * (g.supply[p] * g.supply[p]) <= Product(h) * (f.supply[p] * f.supply[p])
    BY <2>2, <2>6
  <2>9. /\ s.mark[p].k * (g.supply[p] * g.supply[p]) <= Product(h) * (s.supply[p] * s.supply[p])
        /\ g.supply[p] * g.supply[p] <= Product(h)
    <3>1. /\ s.mark[p].k \in Nat /\ K(s, p) \in Nat /\ s.supply[p] \in Nat /\ f.supply[p] \in Nat
          /\ Product(h) \in Nat /\ g.supply[p] \in Nat
          /\ s.supply[p] # 0 /\ f.supply[p] # 0 /\ s.supply[p] * s.supply[p] <= s.mark[p].k
      BY <1>3, <1>4, <1>6, <2>6
    <3> DEFINE m == s.mark[p].k
               k == K(s, p)
               n1 == s.supply[p]
               n2 == f.supply[p]
               n3 == g.supply[p]
               k2 == Product(h)
    <3>2. /\ m \in Nat /\ k \in Nat /\ n1 \in Nat /\ n2 \in Nat /\ n3 \in Nat /\ k2 \in Nat
          /\ n1 # 0 /\ n2 # 0 /\ n1 * n1 <= m /\ m * (n2 * n2) <= k * (n1 * n1)
          /\ k * (n3 * n3) <= k2 * (n2 * n2)
      BY <2>7, <2>8, <3>1
    <3>. HIDE DEF m, k, n1, n2, n3, k2
    <3>3. m * (n3 * n3) <= k2 * (n1 * n1) /\ n3 * n3 <= k2
      BY <3>2, Enough
    <3>. QED BY <3>3 DEF m, n1, n3, k2
  <2>. QED BY <1>1, <2>4, <2>5, <2>9, ClosedGood
<1>7. CASE f.supply[p] = 0
  <2> DEFINE d == Deposited(f, p)
             root == sqrt(Product(d))
  <2>1. n = root - MinimumLiquidity /\ e = _mint(f, p, Nobody, MinimumLiquidity)
    BY <1>7 DEF Liquidity, MintMinimum
  <2>2. d \in [p -> Nat] /\ \A x \in p : d[x] <= h[x]
    <3>. SUFFICES ASSUME NEW x \in p
                  PROVE  f.bal[x][p] - f.reserve[p][x] \in Nat /\ f.bal[x][p] - f.reserve[p][x] <= h[x]
      BY DEF Deposited
    <3>1. f.bal[x][p] = h[x] /\ h[x] \in Nat /\ f.reserve[p][x] \in Nat /\ f.reserve[p][x] <= h[x]
      BY <1>3, <1>4
    <3>. QED BY <3>1
  <2>3. Product(d) \in Nat /\ Product(d) <= Product(h)
    BY <1>4, <2>2, Products, ProductGrows
  <2>. HIDE DEF d
  <2>4. root \in Nat /\ root * root <= Product(d)
    BY <2>3, RootOf
  <2>. HIDE DEF root
  <2>5. MinimumLiquidity \in Nat /\ n \in Nat
    BY <1>1, <2>1, <2>4, ContractsAssumption
  <2>. HIDE DEF n
  <2>6. Nobody \in Holder
    BY Assets
  <2>7. Issued(f, e, p, Nobody, MinimumLiquidity)
    BY <1>3, <2>1, <2>5, <2>6, Mints
  <2>. HIDE DEF e
  <2>8. Books(e) /\ Opened(s, e, p) /\ \A x \in Token : e.bal[x] = s.bal[x]
    <3>1. Opened(s, f, p) /\ \A x \in Token : f.bal[x] = s.bal[x]
      BY <1>2 DEF Charged
    <3>2. Opened(s, e, p) /\ \A x \in Token : e.bal[x] = f.bal[x]
      BY <1>3, <2>6, <2>7, <3>1, OpenedAgain
    <3>. QED BY <3>1, <3>2 DEF Opened
  <2>9. Issued(e, g, p, to, n)
    BY <2>5, <2>8, Mints
  <2>. HIDE DEF g, h
  <2>10. Opened(s, g, p) /\ \A x \in Token : g.bal[x] = s.bal[x]
    BY <1>3, <2>8, <2>9, OpenedAgain
  <2>11. g.supply[p] = root
    <3>1. e.supply[p] = 0 + MinimumLiquidity /\ g.supply[p] = e.supply[p] + n
      BY <1>7, <2>7, <2>9 DEF Issued
    <3>. QED BY <2>1, <2>4, <2>5, <3>1
  <2>12. g.supply[p] * g.supply[p] <= Product(h)
    <3>1. root * root \in Nat
      BY <2>4
    <3>. QED BY <1>4, <2>3, <2>4, <2>11, <3>1
  <2>13. s.supply[p] # 0 => s.mark[p].k * (g.supply[p] * g.supply[p]) <= Product(h) * (s.supply[p] * s.supply[p])
    BY <1>3, <1>7
  <2>. QED BY <1>1, <1>5, <2>10, <2>12, <2>13, ClosedGood
<1>. QED BY <1>6, <1>7

\* What a burn pays is its part of what the pair holds.
LEMMA BurnPays ==
  ASSUME NEW f, Books(f), NEW p \in Pair, f.supply[p] > 0
  PROVE  /\ BurnAmounts(f, p) \in [p -> Nat]
         /\ f.bal[p][p] \in 0..f.supply[p]
         /\ \A x \in p : BurnAmounts(f, p)[x] * f.supply[p] <= f.bal[p][p] * f.bal[x][p]
<1> DEFINE l == f.bal[p][p]
           n == f.supply[p]
<1>1. p \in Asset /\ p \in Holder /\ f.bal[p] \in [Holder -> Nat] /\ Backs(f.bal[p], n) /\ n \in Nat /\ n # 0
  <2>1. p \in Asset /\ p \in Holder
    BY Assets
  <2>2. f.bal \in [Asset -> [Holder -> Nat]] /\ Backs(f.bal[p], n) /\ n \in Nat
    BY DEF Books, Chain
  <2>. QED BY <2>1, <2>2
<1>2. l \in Nat /\ l <= n
  BY <1>1, HoldsNoMore
<1>. HIDE DEF l, n
<1>3. ASSUME NEW x \in p
      PROVE  (l * f.bal[x][p]) \div n \in Nat /\ ((l * f.bal[x][p]) \div n) * n <= l * f.bal[x][p]
  <2>1. f.bal[x][p] \in Nat
    BY PairBalance
  <2>2. l * f.bal[x][p] \in Nat
    BY <1>2, <2>1
  <2>. QED BY <1>1, <2>2, DivDown
<1>4. BurnAmounts(f, p) = [x \in p |-> (l * f.bal[x][p]) \div n]
  BY DEF BurnAmounts, l, n
<1>5. BurnAmounts(f, p) \in [p -> Nat] /\ \A x \in p : BurnAmounts(f, p)[x] * n <= l * f.bal[x][p]
  BY <1>3, <1>4
<1>6. l \in 0..n
  BY <1>1, <1>2
<1>. QED BY <1>5, <1>6 DEF l, n

\* What is left of a part.
LEMMA LeftOver ==
  ASSUME NEW h \in Nat, NEW n \in Nat, NEW l \in Nat, NEW v \in Nat, v * n <= l * h,
         NEW c \in Nat,
         c = h \/ c = h - v
  PROVE  (h - c) * n <= l * h
<1>1. CASE c = h
  <2>1. (h - c) * n = 0 /\ l * h \in Nat
    BY <1>1
  <2>. QED BY <2>1
<1>2. CASE c = h - v
  <2>1. h - c = v
    BY <1>2
  <2>. QED BY <2>1
<1>. QED BY <1>1, <1>2

\* A burn keeps every pair good and every share, and takes from its pair only.
LEMMA BurnsGood ==
  ASSUME NEW s, Good(s), NEW p \in Pair, NEW to \in Holder, NEW min, NEW t \in burn(s, p, to, min)
  PROVE  Good(t) /\ SharesKept(s, t) /\ \A H \in SUBSET Holder : p \notin H => Fed(s, t, H)
<1> DEFINE f == _mintFee(s, p)
           v == BurnAmounts(f, p)
           b == _burn(f, p)
           h == Holdings(s, p)
           l == f.bal[p][p]
           n == f.supply[p]
<1>1. n > 0 /\ \E g \in transferBoth(b, p, p, to, v) : t = Close(g, p)
  BY DEF burn
<1>2. PICK g \in transferBoth(b, p, p, to, v) : t = Close(g, p)
  BY <1>1
<1>3. Charged(s, f, p)
  BY Charges
<1>. HIDE DEF f
<1>4. /\ Books(s) /\ Books(f) /\ n \in Nat /\ s.supply[p] \in Nat
      /\ s.mark[p].k \in Nat /\ K(s, p) \in Nat
      /\ s.supply[p] * s.supply[p] <= s.mark[p].k
      /\ n # 0 /\ s.supply[p] # 0
      /\ \A x \in p : f.bal[x][p] = s.bal[x][p] /\ s.bal[x][p] \in Nat /\ s.reserve[p][x] <= s.bal[x][p]
      /\ s.reserve[p] \in [p -> Nat]
  BY <1>1, <1>3, ChargedPair
<1>5. h \in [p -> Nat] /\ Product(h) \in Nat /\ \A x \in p : h[x] = s.bal[x][p]
  BY <1>4, HoldingsAre, Products
<1>6. v \in [p -> Nat] /\ l \in 0..n /\ \A x \in p : v[x] * n <= l * h[x]
  <2>1. v \in [p -> Nat] /\ l \in 0..n /\ \A x \in p : v[x] * n <= l * f.bal[x][p]
    BY <1>1, <1>4, BurnPays
  <2>. QED BY <1>4, <1>5, <2>1
<1>7. Issued(f, b, p, p, -l)
  BY <1>4, Burns
<1>. HIDE DEF v, b, l, n
<1>8. Opened(s, b, p) /\ \A x \in Token : b.bal[x] = s.bal[x]
  <2>1. Opened(s, f, p) /\ (\A x \in Token : f.bal[x] = s.bal[x]) /\ p \in Holder
    BY <1>3, Assets DEF Charged
  <2>2. Opened(s, b, p) /\ \A x \in Token : b.bal[x] = f.bal[x]
    BY <1>4, <1>7, <2>1, OpenedAgain
  <2>. QED BY <2>1, <2>2
<1>9. Books(b) /\ p \in Holder
  BY <1>8, Assets DEF Opened
<1>10. /\ Books(g) /\ Moved(b, g)
       /\ \A x \in p : v[x] <= b.bal[x][p]
       /\ \A x \in p : g.bal[x][p] = b.bal[x][p] + (IF p = to THEN v[x] ELSE 0) - v[x]
  <2>1. /\ Books(g) /\ Moved(b, g)
        /\ \A x \in p : v[x] <= b.bal[x][p]
        /\ \A x \in p, q \in Holder : g.bal[x][q]
              = b.bal[x][q] + (IF q = to THEN v[x] ELSE 0) - (IF q = p THEN v[x] ELSE 0)
    BY <1>2, <1>6, <1>9, MovesBoth
  <2>. QED BY <1>9, <2>1
<1>11. ASSUME NEW H \in SUBSET Holder, p \notin H
       PROVE  Fed(s, g, H)
  <2>1. Fed(b, g, H)
    BY <1>2, <1>6, <1>9, <1>11, BothFeeds
  <2>. QED BY <1>8, <2>1 DEF Fed
<1>12. Opened(s, g, p)
  <2>1. Pair \ {p} \in SUBSET Holder /\ p \notin Pair \ {p}
    BY Assets
  <2>2. Fed(s, g, Pair \ {p})
    BY <1>11, <2>1
  <2>. QED BY <1>8, <1>10, <2>2 DEF Opened, Moved, Frame
<1> DEFINE c == Holdings(g, p)
<1>13. c \in [p -> Nat] /\ Product(c) \in Nat /\ \A x \in p : c[x] = g.bal[x][p]
  BY <1>10, HoldingsAre, Products
<1>14. \A x \in p : c[x] \in Nat /\ h[x] \in Nat /\ v[x] \in Nat /\ (c[x] = h[x] \/ c[x] = h[x] - v[x])
  <2>. SUFFICES ASSUME NEW x \in p
                PROVE  c[x] \in Nat /\ h[x] \in Nat /\ v[x] \in Nat /\ (c[x] = h[x] \/ c[x] = h[x] - v[x])
    OBVIOUS
  <2>1. x \in Token /\ v[x] \in Nat /\ h[x] \in Nat /\ c[x] \in Nat /\ h[x] = s.bal[x][p] /\ c[x] = g.bal[x][p]
    BY <1>5, <1>6, <1>13, TwoOfPair
  <2>2. b.bal[x][p] = h[x] /\ g.bal[x][p] = b.bal[x][p] + (IF p = to THEN v[x] ELSE 0) - v[x]
    BY <1>8, <1>10, <2>1
  <2>. HIDE DEF c, h
  <2>. QED BY <2>1, <2>2
<1>15. g.supply[p] = n - l
  <2>1. b.supply[p] = n + (-l)
    BY <1>7 DEF Issued, n
  <2>2. g.supply[p] = b.supply[p]
    BY <1>10 DEF Moved
  <2>. QED BY <1>4, <1>6, <2>1, <2>2
<1>16. Product(h) * (g.supply[p] * g.supply[p]) <= Product(c) * (n * n)
  <2> DEFINE x == OneOf(p)
             y == Other(p, x)
  <2>1. /\ x \in p /\ y \in p
        /\ h[x] \in Nat /\ h[y] \in Nat /\ Product(h) = h[x] * h[y]
        /\ c[x] \in Nat /\ c[y] \in Nat /\ Product(c) = c[x] * c[y]
    BY <1>5, <1>13, Products
  <2>. HIDE DEF x, y, h, c
  <2>2. (h[x] - c[x]) * n <= l * h[x] /\ (h[y] - c[y]) * n <= l * h[y]
    <3>1. l \in Nat /\ n \in Nat
      BY <1>4, <1>6
    <3>. QED BY <1>6, <1>14, <2>1, <3>1, LeftOver
  <2>3. (h[x] * h[y]) * ((n - l) * (n - l)) <= (c[x] * c[y]) * (n * n)
    BY <1>4, <1>6, <2>1, <2>2, BurnShare
  <2>. QED BY <1>15, <2>1, <2>3
<1>17. /\ s.mark[p].k * (g.supply[p] * g.supply[p]) <= Product(c) * (s.supply[p] * s.supply[p])
       /\ g.supply[p] * g.supply[p] <= Product(c)
  <2> DEFINE m == s.mark[p].k
             k0 == K(s, p)
             k == Product(h)
             n1 == s.supply[p]
             n3 == g.supply[p]
             k2 == Product(c)
  <2>1. k0 <= k
    <3>1. \A x \in p : s.reserve[p][x] <= h[x]
      BY <1>4, <1>5
    <3>. QED BY <1>4, <1>5, <3>1, ProductGrows DEF K
  <2>2. n3 \in Nat
    BY <1>4, <1>6, <1>15
  <2>3. m * (n * n) <= k0 * (n1 * n1)
    BY <1>3 DEF Charged, n
  <2>4. /\ m \in Nat /\ k0 \in Nat /\ k \in Nat /\ n1 \in Nat /\ n3 \in Nat /\ k2 \in Nat
        /\ n1 # 0 /\ n1 * n1 <= m /\ k * (n3 * n3) <= k2 * (n * n)
    BY <1>4, <1>5, <1>13, <1>16, <2>2
  <2>. HIDE DEF m, k0, k, n1, n3, k2
  <2>5. m * (n * n) <= k * (n1 * n1)
    <3>1. n1 * n1 \in Nat /\ n * n \in Nat
      BY <1>4, <2>4
    <3>2. k0 * (n1 * n1) <= k * (n1 * n1)
      BY <2>1, <2>4, <3>1, MulMono
    <3>3. m * (n * n) \in Nat /\ k0 * (n1 * n1) \in Nat /\ k * (n1 * n1) \in Nat
      BY <2>4, <3>1
    <3>. QED BY <2>3, <3>2, <3>3
  <2>6. m * (n3 * n3) <= k2 * (n1 * n1) /\ n3 * n3 <= k2
    BY <1>4, <2>4, <2>5, Enough
  <2>. QED BY <2>6 DEF m, n1, n3, k2
<1>. HIDE DEF h
<1>18. Good(t) /\ SharesKept(s, t) /\ t.bal = g.bal
  BY <1>2, <1>12, <1>17, ClosedGood
<1>19. ASSUME NEW H \in SUBSET Holder, p \notin H
       PROVE  Fed(s, t, H)
  BY <1>11, <1>18, <1>19 DEF Fed
<1>. QED BY <1>18, <1>19

---------------------------------------------------------------------------
(* The factory, and what accounts pay *)

\* A new pair has nothing yet.
LEMMA ListsGood ==
  ASSUME NEW s, Good(s), NEW a \in Token, NEW b \in Token, NEW t \in createPair(s, a, b)
  PROVE  Good(t) /\ Quiet(s, t) /\ a # b /\ t.reserve = s.reserve
<1> DEFINE l == Append(s.allPairs, {a, b})
<1>1. a # b /\ t = [s EXCEPT !.allPairs = l] /\ s \in Chain /\ s.allPairs \in Seq(Pair) /\ Books(s)
  BY DEF createPair, Good, Books, Chain
<1>2. l \in Seq(Pair)
  <2>1. {a, b} \in Pair
    BY <1>1, PairOf
  <2>. QED BY <1>1, <2>1
<1>. HIDE DEF l
<1>3. /\ t \in Chain /\ t.bal = s.bal /\ t.supply = s.supply /\ t.reserve = s.reserve
      /\ t.mark = s.mark /\ t.kLast = s.kLast
  BY <1>1, <1>2 DEF Chain
<1>4. Books(t)
  BY <1>1, <1>3 DEF Books
<1>5. \A p \in Pair : K(t, p) = K(s, p) /\ K(s, p) \in Nat
  BY <1>1, <1>3, Numbers DEF K
<1>6. Good(t) /\ Quiet(s, t)
  BY <1>3, <1>4, <1>5 DEF Good, Quiet, Covered, Marked
<1>. QED BY <1>1, <1>3, <1>6

\* A field that no pair depends on.
LEMMA RestGood ==
  ASSUME NEW s, Good(s), NEW t \in Chain,
         t.bal = s.bal, t.supply = s.supply, t.reserve = s.reserve, t.mark = s.mark, t.kLast = s.kLast
  PROVE  Good(t) /\ Quiet(s, t)
<1>1. Books(s)
  BY DEF Good
<1>2. Books(t)
  BY <1>1 DEF Books
<1>3. \A p \in Pair : K(t, p) = K(s, p) /\ K(s, p) \in Nat
  BY <1>1, Numbers DEF K
<1>. QED BY <1>2, <1>3 DEF Good, Quiet, Covered, Marked

\* Turning the fee of the protocol on or off touches no pair, ...
LEMMA FeeToGood ==
  ASSUME NEW s, Good(s), NEW from, NEW to \in Account \cup {Nobody}, NEW t \in setFeeTo(s, from,
         to)
  PROVE  Good(t) /\ Quiet(s, t)
<1>1. t = [s EXCEPT !.feeTo = to] /\ s \in Chain
  BY DEF setFeeTo, Good, Books
<1>2. t \in Chain /\ t.bal = s.bal /\ t.supply = s.supply /\ t.reserve = s.reserve /\ t.mark = s.mark
      /\ t.kLast = s.kLast
  BY <1>1 DEF Chain
<1>. QED BY <1>2, RestGood

\* ... nor does a new block.
LEMMA BlockGood ==
  ASSUME NEW s, Good(s), NEW t, t = [s EXCEPT !.block = @ + 1]
  PROVE  Good(t) /\ Quiet(s, t)
<1> DEFINE n == s.block + 1
<1>1. s \in Chain /\ t = [s EXCEPT !.block = n]
  BY DEF Good, Books
<1>2. n \in Nat
  BY <1>1 DEF Chain
<1>. HIDE DEF n
<1>3. t \in Chain /\ t.bal = s.bal /\ t.supply = s.supply /\ t.reserve = s.reserve /\ t.mark = s.mark
      /\ t.kLast = s.kLast
  BY <1>1, <1>2 DEF Chain
<1>. QED BY <1>3, RestGood

\* An account is not a pair.
LEMMA AccountNoPair == Account \cap Pair = {} /\ Account \subseteq Holder /\ Pair \in SUBSET Holder
BY Apart, Assets

\* What an account pays for itself, ...
LEMMA PaysGood ==
  ASSUME NEW s, Good(s), NEW a \in Token \cup Pair, NEW from \in Account, NEW to \in Holder,
         NEW v \in Nat, NEW t \in transferFrom(s, a, from, to, v)
  PROVE  Good(t) /\ Quiet(s, t) /\ t.reserve = s.reserve /\ Moved(s, t)
<1>1. Books(s) /\ from \notin Pair /\ Pair \in SUBSET Holder
  BY AccountNoPair DEF Good
<1>2. Books(t) /\ Moved(s, t) /\ Fed(s, t, Pair)
  BY <1>1, TransfersFrom
<1>. QED BY <1>2, MovedGood DEF Moved, Frame

\* ... wraps, ...
LEMMA WrapsGood ==
  ASSUME NEW s, Good(s), NEW from \in Account, NEW to \in Holder, NEW v \in Nat,
         NEW t \in deposit(s, from, to, v)
  PROVE  Good(t) /\ Quiet(s, t) /\ Moved(s, t)
<1>1. Books(s) /\ from \in Holder /\ Pair \in SUBSET Holder
  BY AccountNoPair DEF Good
<1>2. Books(t) /\ Moved(s, t) /\ Fed(s, t, Pair)
  BY <1>1, Deposits
<1>. QED BY <1>2, MovedGood

\* ... unwraps, ...
LEMMA UnwrapsGood ==
  ASSUME NEW s, Good(s), NEW from \in Holder \ Pair, NEW to \in Holder, NEW v \in Nat,
         NEW t \in withdraw(s, from, to, v)
  PROVE  Good(t) /\ Quiet(s, t)
<1>1. Books(s) /\ from \in Holder /\ from \notin Pair /\ Pair \in SUBSET Holder
  BY AccountNoPair DEF Good
<1>2. Books(t) /\ Moved(s, t) /\ Fed(s, t, Pair)
  BY <1>1, Withdraws
<1>. QED BY <1>2, MovedGood

\* ... or transfers takes nothing from a pair.
LEMMA TransfersGood ==
  ASSUME NEW s, Good(s), NEW a \in Asset, NEW from \in Holder \ Pair, NEW to \in Holder,
         NEW v \in Nat, NEW t \in transfer(s, a, from, to, v)
  PROVE  Good(t) /\ Quiet(s, t)
<1>1. Books(s) /\ from \in Holder /\ from \notin Pair /\ Pair \in SUBSET Holder
  BY AccountNoPair DEF Good
<1>2. Books(t) /\ Moved(s, t) /\ Fed(s, t, Pair)
  BY <1>1, Transfers, TransferFeeds
<1>. QED BY <1>2, MovedGood

---------------------------------------------------------------------------
(* What a call leaves alone *)

\* Whatever is in it.
IsList(l) == \E S : l \in Seq(S)

\* A list grows by one.
LEMMA ListGrows ==
  ASSUME NEW l, IsList(l), NEW e
  PROVE  Len(l) \in Nat /\ IsList(Append(l, e)) /\ Len(Append(l, e)) = Len(l) + 1
<1>1. PICK S : l \in Seq(S)
  BY DEF IsList
<1> DEFINE R == S \cup {e}
<1>2. l \in Seq(R) /\ e \in R
  BY <1>1
<1>. HIDE DEF R
<1>3. Append(l, e) \in Seq(R) /\ Len(Append(l, e)) = Len(l) + 1 /\ Len(l) \in Nat
  BY <1>2
<1>. QED BY <1>3 DEF IsList

\* What the calls below leave alone.
Listed(s) ==
  /\ {"allow", "swaps", "allPairs"} \subseteq DOMAIN s
  /\ s.allow \in [Token \cup Pair -> [Account -> Nat]]
  /\ s.allPairs \in Seq(Pair) /\ IsList(s.swaps)

Same(s, t) == DOMAIN t = DOMAIN s /\ t.allow = s.allow /\ t.swaps = s.swaps /\ t.allPairs = s.allPairs

With1(s, n, v) == [s EXCEPT ![n] = v]

\* Two steps that leave allowances, swaps and pairs leave them.
LEMMA SameAgain ==
  ASSUME NEW s, NEW t, NEW u, Same(s, t), Same(t, u)
  PROVE  Same(s, u)
BY DEF Same

\* What leaves them leaves them well-formed.
LEMMA SameListed ==
  ASSUME NEW s, Listed(s), NEW t, Same(s, t)
  PROVE  Listed(t)
BY DEF Same, Listed

\* A field other than these is set.
LEMMA FieldSame ==
  ASSUME NEW s, Listed(s), NEW n, n \notin {"allow", "swaps", "allPairs"}, NEW v
  PROVE  Same(s, With1(s, n, v)) /\ Listed(With1(s, n, v))
BY DEF Same, Listed, With1

\* A transfer leaves them, ...
LEMMA TransferSame ==
  ASSUME NEW s, Listed(s), NEW a, NEW from, NEW to, NEW v, NEW t \in transfer(s, a, from, to, v)
  PROVE  Same(s, t) /\ Listed(t)
<1> DEFINE b == [s.bal EXCEPT ![a] = moved(s.bal[a], from, to, v)]
<1>1. t = With1(s, "bal", b)
  BY TransferMoves DEF With1
<1>. HIDE DEF b
<1>. QED BY <1>1, FieldSame

\* ... so do wrapping ...
LEMMA DepositSame ==
  ASSUME NEW s, Listed(s), NEW from, NEW to, NEW v, NEW t \in deposit(s, from, to, v)
  PROVE  Same(s, t) /\ Listed(t)
<1>1. PICK r \in transfer(s, ECY, from, WECY, v) : t = [r EXCEPT !.bal[WECY][to] = @ + v]
  BY DEF deposit
<1>2. Same(s, r) /\ Listed(r)
  BY TransferSame
<1> DEFINE b == [r.bal EXCEPT ![WECY] = [r.bal[WECY] EXCEPT ![to] = @ + v]]
<1>3. t = With1(r, "bal", b)
  BY <1>1 DEF With1
<1>. HIDE DEF b
<1>4. Same(r, t) /\ Listed(t)
  BY <1>2, <1>3, FieldSame
<1>. QED BY <1>2, <1>4, SameAgain

\* ... and unwrapping, ...
LEMMA WithdrawSame ==
  ASSUME NEW s, Listed(s), NEW from, NEW to, NEW v, NEW t \in withdraw(s, from, to, v)
  PROVE  Same(s, t) /\ Listed(t)
<1> DEFINE b == [s.bal EXCEPT ![WECY] = [s.bal[WECY] EXCEPT ![from] = @ - v]]
           r == [s EXCEPT !.bal[WECY][from] = @ - v]
<1>1. t \in transfer(r, ECY, WECY, to, v)
  BY DEF withdraw
<1>2. r = With1(s, "bal", b)
  BY DEF With1
<1>. HIDE DEF b, r
<1>3. Same(s, r) /\ Listed(r)
  BY <1>2, FieldSame
<1>. QED BY <1>1, <1>3, TransferSame, SameAgain

\* ... the transfer of both tokens of a pair, ...
LEMMA BothSame ==
  ASSUME NEW s, Listed(s), NEW p, NEW from, NEW to, NEW v, NEW t \in transferBoth(s, p, from, to, v)
  PROVE  Same(s, t) /\ Listed(t)
<1>1. PICK g \in transfer(s, OneOf(p), from, to, v[OneOf(p)]) :
         t \in transfer(g, Other(p, OneOf(p)), from, to, v[Other(p, OneOf(p))])
  BY DEF transferBoth
<1>2. Same(s, g) /\ Listed(g)
  BY TransferSame
<1>3. Same(g, t) /\ Listed(t)
  BY <1>1, <1>2, TransferSame
<1>. QED BY <1>2, <1>3, SameAgain

\* ... an update of the reserves, ...
LEMMA UpdateSame ==
  ASSUME NEW s, Listed(s), NEW p
  PROVE  Same(s, _update(s, p)) /\ Listed(_update(s, p))
<1> DEFINE r == [s.reserve EXCEPT ![p] = [t \in p |-> s.bal[t][p]]]
<1>1. _update(s, p) = With1(s, "reserve", r)
  BY DEF _update, With1
<1>. HIDE DEF r
<1>. QED BY <1>1, FieldSame

\* ... every change of two other fields, ...
LEMMA TwoFieldsSame ==
  ASSUME NEW s, Listed(s), NEW m, m \notin {"allow", "swaps", "allPairs"}, NEW v,
         NEW n, n \notin {"allow", "swaps", "allPairs"}, NEW w
  PROVE  Same(s, With1(With1(s, m, v), n, w)) /\ Listed(With1(With1(s, m, v), n, w))
<1> DEFINE r == With1(s, m, v)
<1>1. Same(s, r) /\ Listed(r)
  BY FieldSame
<1>. HIDE DEF r
<1>2. Same(r, With1(r, n, w)) /\ Listed(With1(r, n, w))
  BY <1>1, FieldSame
<1>3. Same(s, With1(r, n, w))
  BY <1>1, <1>2, SameAgain
<1>. QED BY <1>2, <1>3 DEF r

\* ... pool tokens that are issued, ...
LEMMA IssueSame ==
  ASSUME NEW s, Listed(s), NEW p, NEW to, NEW v
  PROVE  /\ Same(s, _mint(s, p, to, v)) /\ Listed(_mint(s, p, to, v))
         /\ Same(s, _burn(s, p)) /\ Listed(_burn(s, p))
<1>1. Same(s, _mint(s, p, to, v)) /\ Listed(_mint(s, p, to, v))
  <2> DEFINE x == [s.supply EXCEPT ![p] = @ + v]
             y == [s.bal EXCEPT ![p] = [s.bal[p] EXCEPT ![to] = @ + v]]
  <2>1. _mint(s, p, to, v) = With1(With1(s, "supply", x), "bal", y)
    BY DEF _mint, With1
  <2>. HIDE DEF x, y
  <2>. QED BY <2>1, TwoFieldsSame
<1>2. Same(s, _burn(s, p)) /\ Listed(_burn(s, p))
  <2> DEFINE x == [s.supply EXCEPT ![p] = @ - s.bal[p][p]]
             y == [s.bal EXCEPT ![p] = [s.bal[p] EXCEPT ![p] = 0]]
  <2>1. _burn(s, p) = With1(With1(s, "bal", y), "supply", x)
    BY DEF _burn, With1
  <2>. HIDE DEF x, y
  <2>. QED BY <2>1, TwoFieldsSame
<1>. QED BY <1>1, <1>2

\* ... the end of a mint or a burn, ...
LEMMA CloseSame ==
  ASSUME NEW s, Listed(s), NEW p
  PROVE  Same(s, Close(s, p)) /\ Listed(Close(s, p))
<1> DEFINE u == _update(s, p)
           product == Product([t \in p |-> s.bal[t][p]])
           x == [u.kLast EXCEPT ![p] = IF s.feeTo # Nobody THEN product ELSE @]
           y == [u.mark EXCEPT ![p] = [k |-> product, supply |-> s.supply[p]]]
<1>1. Same(s, u) /\ Listed(u)
  BY UpdateSame
<1>2. Close(s, p) = With1(With1(u, "kLast", x), "mark", y)
  <2>. HIDE DEF u
  <2>. QED BY DEF Close, u, With1
<1>. HIDE DEF u, x, y
<1>3. Same(u, Close(s, p)) /\ Listed(Close(s, p))
  BY <1>1, <1>2, TwoFieldsSame
<1>. QED BY <1>1, <1>3, SameAgain

\* ... the protocol's fee, ...
LEMMA FeeSame ==
  ASSUME NEW s, Listed(s), NEW p
  PROVE  Same(s, _mintFee(s, p)) /\ Listed(_mintFee(s, p))
<1>1. CASE s.feeTo = Nobody
  <2> DEFINE x == [s.kLast EXCEPT ![p] = 0]
  <2>1. _mintFee(s, p) = With1(s, "kLast", x)
    BY <1>1 DEF _mintFee, With1
  <2>. HIDE DEF x
  <2>. QED BY <2>1, FieldSame
<1>2. CASE s.feeTo # Nobody /\ s.kLast[p] = 0
  BY <1>2 DEF _mintFee, Same
<1>3. CASE s.feeTo # Nobody /\ s.kLast[p] # 0
  <2> DEFINE l == FeeLiquidity(s.supply[p], sqrt(K(s, p)), sqrt(s.kLast[p]))
  <2>1. _mintFee(s, p) = _mint(s, p, s.feeTo, l)
    BY <1>3 DEF _mintFee
  <2>. HIDE DEF l
  <2>. QED BY <2>1, IssueSame
<1>. QED BY <1>1, <1>2, <1>3

\* ... a mint ...
LEMMA MintSame ==
  ASSUME NEW s, Listed(s), NEW p, NEW to, NEW t \in mint(s, p, to)
  PROVE  Same(s, t) /\ Listed(t)
<1> DEFINE f == _mintFee(s, p)
           m == MintMinimum(f, p)
           l == Liquidity(f, p)
           g == _mint(m, p, to, l)
<1>1. t = Close(g, p)
  BY DEF mint
<1>2. Same(s, f) /\ Listed(f)
  BY FeeSame
<1>. HIDE DEF f
<1>3. Same(f, m) /\ Listed(m)
  BY <1>2, IssueSame DEF MintMinimum, Same
<1>. HIDE DEF m, l
<1>4. Same(m, g) /\ Listed(g)
  BY <1>3, IssueSame
<1>. HIDE DEF g
<1>5. Same(g, t) /\ Listed(t)
  BY <1>1, <1>4, CloseSame
<1>. QED BY <1>2, <1>3, <1>4, <1>5, SameAgain

\* ... and a burn.
LEMMA BurnSame ==
  ASSUME NEW s, Listed(s), NEW p, NEW to, NEW min, NEW t \in burn(s, p, to, min)
  PROVE  Same(s, t) /\ Listed(t)
<1> DEFINE f == _mintFee(s, p)
           b == _burn(f, p)
           amount == BurnAmounts(f, p)
<1>1. PICK g \in transferBoth(b, p, p, to, amount) : t = Close(g, p)
  BY DEF burn
<1>2. Same(s, f) /\ Listed(f)
  BY FeeSame
<1>. HIDE DEF f
<1>3. Same(f, b) /\ Listed(b)
  BY <1>2, IssueSame
<1>. HIDE DEF b, amount
<1>4. Same(b, g) /\ Listed(g)
  BY <1>1, <1>3, BothSame
<1>5. Same(g, t) /\ Listed(t)
  BY <1>1, <1>4, CloseSame
<1>. QED BY <1>2, <1>3, <1>4, <1>5, SameAgain

\* Neither allowances nor pairs change, and no swap is taken away.
Kept(s, t) ==
  /\ Listed(s) /\ Listed(t)
  /\ t.allow = s.allow /\ t.allPairs = s.allPairs /\ Len(s.swaps) <= Len(t.swaps)

\* Two steps that keep allowances, pairs and the earlier swaps keep them.
LEMMA KeptAgain ==
  ASSUME NEW s, NEW t, NEW u, Kept(s, t), Kept(t, u)
  PROVE  Kept(s, u)
<1>1. Len(s.swaps) \in Nat /\ Len(t.swaps) \in Nat /\ Len(u.swaps) \in Nat
  BY ListGrows DEF Kept, Listed
<1>. QED BY <1>1 DEF Kept

\* What changes neither allowances, pairs nor swaps keeps all three.
LEMMA SameKept ==
  ASSUME NEW s, NEW t, Same(s, t), Listed(t)
  PROVE  Kept(s, t)
<1>1. Listed(s)
  BY DEF Same, Listed
<1>2. Len(s.swaps) \in Nat
  BY <1>1, ListGrows DEF Listed
<1>. QED BY <1>1, <1>2 DEF Same, Kept

\* The end of a swap adds one to the list of swaps, ...
LEMMA SettleKept ==
  ASSUME NEW s, Listed(s), NEW p, NEW in, NEW out, NEW sender, NEW to,
         NEW t \in settle(s, p, in, out, sender, to)
  PROVE  Kept(s, t) /\ \E e : e.out = out /\ t.swaps = Append(s.swaps, e)
<1> DEFINE u == _update(s, p)
           e == [pair |-> p, in |-> in, out |-> out, sender |-> sender, to |-> to, block |-> s.block]
           l == Append(u.swaps, e)
<1>1. t = [u EXCEPT !.swaps = l]
  BY DEF settle
<1>2. Same(s, u) /\ Listed(u)
  BY UpdateSame
<1>3. e.out = out
  OBVIOUS
<1>. HIDE DEF u, e
<1>4. l = Append(s.swaps, e)
  BY <1>2 DEF Same
<1>. HIDE DEF l
<1>5. t.allow = u.allow /\ t.allPairs = u.allPairs /\ t.swaps = l /\ DOMAIN t = DOMAIN u
  BY <1>1, <1>2 DEF Listed
<1>6. IsList(l) /\ Len(s.swaps) <= Len(l)
  <2>1. Len(s.swaps) \in Nat /\ IsList(l) /\ Len(l) = Len(s.swaps) + 1
    BY <1>4, ListGrows DEF Listed
  <2>. QED BY <2>1
<1>7. Listed(t) /\ Kept(s, t)
  BY <1>2, <1>5, <1>6 DEF Listed, Kept, Same
<1>. QED BY <1>3, <1>4, <1>5, <1>7

\* ... and so does a swap, which leaves the allowances.
LEMMA SwapKept ==
  ASSUME NEW s, Listed(s), NEW p, NEW out, NEW sender, NEW to, NEW pay,
         NEW t \in swap(s, p, out, sender, to, pay)
  PROVE  Kept(s, t) /\ \E e : e.out = out /\ t.swaps = Append(s.swaps, e)
<1> DEFINE in(g) == [x \in p |-> Max({0, g.bal[x][p] - (s.reserve[p][x] - out[x])})]
           S == UNION {transferBoth(f, p, to, p, pay) : f \in transferBoth(s, p, p, to, out)}
<1>1. t \in UNION {settle(g, p, in(g), out, sender, to) : g \in S}
  BY DEF swap
<1>. HIDE DEF in
<1>2. PICK f, g : f \in transferBoth(s, p, p, to, out) /\ g \in transferBoth(f, p, to, p, pay)
                    /\ t \in settle(g, p, in(g), out, sender, to)
  <2>1. PICK g \in S : t \in settle(g, p, in(g), out, sender, to)
    BY <1>1
  <2>. QED BY <2>1
<1>3. Same(s, f) /\ Listed(f)
  BY <1>2, BothSame
<1>4. Same(f, g) /\ Listed(g)
  BY <1>2, <1>3, BothSame
<1>5. Kept(g, t) /\ \E e : e.out = out /\ t.swaps = Append(g.swaps, e)
  BY <1>2, <1>4, SettleKept
<1>6. Same(s, g)
  BY <1>3, <1>4, SameAgain
<1>7. Kept(s, t)
  BY <1>4, <1>5, <1>6, SameKept, KeptAgain
<1>. QED BY <1>5, <1>6, <1>7 DEF Same

\* Whoever calls gives of what it has allowed; an allowance without a limit
\* stays, and those of everybody else; no pair and no swap is taken away.
Uses(s, t, from) ==
  /\ Listed(t) /\ Len(s.allPairs) <= Len(t.allPairs) /\ Len(s.swaps) <= Len(t.swaps)
  /\ \A x \in Token \cup Pair, a \in Account :
       \/ t.allow[x][a] = s.allow[x][a]
       \/ a = from /\ s.allow[x][a] # Unlimited /\ t.allow[x][a] <= s.allow[x][a]

\* A step that keeps the allowances uses none.
LEMMA KeptUses ==
  ASSUME NEW s, NEW t, Kept(s, t), NEW from
  PROVE  Uses(s, t, from)
<1>1. t.allPairs = s.allPairs /\ Len(t.allPairs) \in Nat
  BY DEF Kept, Listed
<1>2. Len(s.allPairs) <= Len(t.allPairs)
  BY <1>1
<1>. QED BY <1>2 DEF Kept, Uses

\* What uses allowances of an account and then uses more of them uses them.
LEMMA UsesAgain ==
  ASSUME NEW s, Listed(s), NEW t, NEW u, NEW from, Uses(s, t, from), Uses(t, u, from)
  PROVE  Uses(s, u, from)
<1>1. Listed(t) /\ Listed(u)
  BY DEF Uses
<1>2. Len(s.allPairs) <= Len(u.allPairs)
  <2>1. Len(s.allPairs) \in Nat /\ Len(t.allPairs) \in Nat /\ Len(u.allPairs) \in Nat
    BY <1>1 DEF Listed
  <2>2. Len(s.allPairs) <= Len(t.allPairs) /\ Len(t.allPairs) <= Len(u.allPairs)
    BY DEF Uses
  <2>. QED BY <2>1, <2>2
<1>3. Len(s.swaps) <= Len(u.swaps)
  <2>1. Len(s.swaps) \in Nat /\ Len(t.swaps) \in Nat /\ Len(u.swaps) \in Nat
    BY <1>1, ListGrows DEF Listed
  <2>2. Len(s.swaps) <= Len(t.swaps) /\ Len(t.swaps) <= Len(u.swaps)
    BY DEF Uses
  <2>. QED BY <2>1, <2>2
<1>4. ASSUME NEW x \in Token \cup Pair, NEW a \in Account
      PROVE  \/ u.allow[x][a] = s.allow[x][a]
             \/ a = from /\ s.allow[x][a] # Unlimited /\ u.allow[x][a] <= s.allow[x][a]
  <2>1. s.allow[x][a] \in Nat /\ t.allow[x][a] \in Nat /\ u.allow[x][a] \in Nat
    BY <1>1 DEF Listed
  <2>2. /\ \/ t.allow[x][a] = s.allow[x][a]
           \/ a = from /\ s.allow[x][a] # Unlimited /\ t.allow[x][a] <= s.allow[x][a]
        /\ \/ u.allow[x][a] = t.allow[x][a]
           \/ a = from /\ t.allow[x][a] # Unlimited /\ u.allow[x][a] <= t.allow[x][a]
    BY DEF Uses
  <2>. QED BY <2>1, <2>2
<1>. QED BY <1>1, <1>2, <1>3, <1>4 DEF Uses

\* transferFrom uses the sender's allowance, or leaves it when it is without a limit.
LEMMA FromUses ==
  ASSUME NEW s, Listed(s), NEW a \in Token \cup Pair, NEW from \in Account, NEW to, NEW v \in Nat,
         NEW t \in transferFrom(s, a, from, to, v)
  PROVE  Uses(s, t, from)
<1>1. CASE t \in transfer(s, a, from, to, v)
  BY <1>1, TransferSame, SameKept, KeptUses
<1>2. CASE s.allow[a][from] # Unlimited /\ ~(s.allow[a][from] < v)
           /\ t \in transfer([s EXCEPT !.allow[a][from] = @ - v], a, from, to, v)
  <2> DEFINE w == s.allow[a][from] - v
             l == [s.allow EXCEPT ![a] = [s.allow[a] EXCEPT ![from] = w]]
             r == [s EXCEPT !.allow = l]
  <2>1. s.allow \in [Token \cup Pair -> [Account -> Nat]] /\ w \in Nat /\ w <= s.allow[a][from]
    BY <1>2 DEF Listed
  <2>2. t \in transfer(r, a, from, to, v)
    BY <1>2
  <2>. HIDE DEF w
  <2>3. /\ l \in [Token \cup Pair -> [Account -> Nat]]
        /\ \A x \in Token \cup Pair, b \in Account :
             l[x][b] = IF x = a /\ b = from THEN w ELSE s.allow[x][b]
    BY <2>1
  <2>. HIDE DEF l
  <2>4. r.allow = l /\ r.allPairs = s.allPairs /\ r.swaps = s.swaps /\ Listed(r)
    BY <2>3 DEF Listed
  <2>. HIDE DEF r
  <2>5. Same(r, t) /\ Listed(t)
    BY <2>2, <2>4, TransferSame
  <2>6. t.allow = l /\ t.allPairs = s.allPairs /\ t.swaps = s.swaps
    BY <2>4, <2>5 DEF Same
  <2>7. Len(s.allPairs) <= Len(t.allPairs)
    <3>1. Len(t.allPairs) \in Nat
      BY <2>5 DEF Listed
    <3>. QED BY <2>6, <3>1
  <2>8. Len(s.swaps) <= Len(t.swaps)
    <3>1. Len(t.swaps) \in Nat
      BY <2>5, ListGrows DEF Listed
    <3>. QED BY <2>6, <3>1
  <2>. QED BY <1>2, <2>1, <2>3, <2>5, <2>6, <2>7, <2>8 DEF Uses
<1>. QED BY <1>1, <1>2 DEF transferFrom

\* The pair that a router creates where there is none uses no allowance.
LEMMA PairUses ==
  ASSUME NEW s, Listed(s), NEW a \in Token, NEW b \in Token, NEW t \in WithPair(s, a, b), NEW from
  PROVE  Uses(s, t, from)
<1>0. Len(s.swaps) \in Nat
  BY ListGrows DEF Listed
<1>1. CASE t = s
  BY <1>0, <1>1, KeptUses DEF Kept
<1>2. CASE a # b /\ t = [s EXCEPT !.allPairs = Append(@, {a, b})]
  <2> DEFINE l == Append(s.allPairs, {a, b})
  <2>1. s.allPairs \in Seq(Pair) /\ {a, b} \in Pair
    BY <1>2, PairOf DEF Listed
  <2>2. l \in Seq(Pair) /\ Len(s.allPairs) <= Len(l)
    BY <2>1
  <2>3. t = [s EXCEPT !.allPairs = l]
    BY <1>2
  <2>. HIDE DEF l
  <2>4. t.allPairs = l /\ t.allow = s.allow /\ t.swaps = s.swaps /\ DOMAIN t = DOMAIN s
    BY <2>3 DEF Listed
  <2>. QED BY <1>0, <2>2, <2>4 DEF Uses, Listed
<1>. QED BY <1>1, <1>2 DEF WithPair, createPair

\* The state of the contracts is such a state.
LEMMA GoodListed ==
  ASSUME NEW s, Good(s)
  PROVE  Listed(s) /\ Uses(s, s, s)
<1>1. Listed(s)
  BY DEF Good, Books, Chain, Listed, IsList
<1>2. Len(s.swaps) \in Nat
  BY <1>1, ListGrows DEF Listed
<1>. QED BY <1>1, <1>2, KeptUses DEF Kept

---------------------------------------------------------------------------
(* The router: liquidity *)

\* The library's quotes are numbers, ...
LEMMA QuoteIs ==
  ASSUME NEW x \in Nat, NEW y \in Nat, NEW z \in Nat
  PROVE  quote(x, y, z) \in Nat
<1>1. CASE y > 0
  <2>1. x * z \in Nat /\ y # 0
    BY <1>1
  <2>2. (x * z) \div y \in Nat
    BY <2>1, DivDown
  <2>. QED BY <2>2 DEF quote
<1>2. CASE ~(y > 0)
  BY <1>2 DEF quote
<1>. QED BY <1>1, <1>2

\* ... and so are the amounts the router adds.
LEMMA AmountsToAdd ==
  ASSUME NEW a, NEW b, NEW r \in [{a, b} -> Nat], NEW desired \in [{a, b} -> Nat], NEW min,
         NEW v \in LiquidityAmounts(r, a, b, desired, min)
  PROVE  v \in [{a, b} -> Nat]
<1> DEFINE x == quote(desired[b], r[b], r[a])
           y == quote(desired[a], r[a], r[b])
<1>1. x \in Nat /\ y \in Nat
  BY QuoteIs
<1>2. v = desired \/ v \in OptimalAmounts(a, b, desired, min, x, y)
  BY DEF LiquidityAmounts
<1>. HIDE DEF x, y
<1>3. v = desired \/ v = [desired EXCEPT ![b] = y] \/ v = [desired EXCEPT ![a] = x]
  BY <1>2 DEF OptimalAmounts
<1>. QED BY <1>1, <1>3

\* The router creates the pair when there is none.
LEMMA PairThere ==
  ASSUME NEW s, Good(s), NEW a \in Token, NEW b \in Token, NEW t \in WithPair(s, a, b)
  PROVE  Good(t) /\ Quiet(s, t) /\ {a, b} \in Pair /\ t.reserve[{a, b}] \in [{a, b} -> Nat]
<1>1. s \in Chain
  BY DEF Good, Books
<1>2. CASE Exists(s, {a, b})
  <2>1. t = s
    BY <1>2 DEF WithPair
  <2>2. PICK i \in 1..Len(s.allPairs) : s.allPairs[i] = {a, b}
    BY <1>2 DEF Exists
  <2>3. s.allPairs \in Seq(Pair)
    BY <1>1 DEF Chain
  <2>4. {a, b} \in Pair
    <3>1. s.allPairs[i] \in Pair
      BY <2>3
    <3>. QED BY <2>2, <3>1
  <2>5. Good(s) /\ Quiet(s, s)
    BY <1>1, RestGood
  <2>6. s.reserve[{a, b}] \in [{a, b} -> Nat]
    BY <2>4 DEF Good, Books
  <2>. QED BY <2>1, <2>4, <2>5, <2>6
<1>3. CASE ~Exists(s, {a, b})
  <2>1. t \in createPair(s, a, b)
    BY <1>3 DEF WithPair
  <2>2. Good(t) /\ Quiet(s, t) /\ a # b
    BY <2>1, ListsGood
  <2>3. {a, b} \in Pair
    BY <2>2, PairOf
  <2>4. t.reserve[{a, b}] \in [{a, b} -> Nat]
    BY <2>2, <2>3 DEF Good, Books
  <2>. QED BY <2>2, <2>3, <2>4
<1>. QED BY <1>2, <1>3

\* The router adds liquidity: two payments and a mint.
LEMMA AddsGood ==
  ASSUME NEW s, Good(s), NEW from \in Account, NEW c,
         {c.a, c.b} \subseteq Token, c.desired \in [{c.a, c.b} -> Nat], c.to \in Holder,
         NEW t \in addLiquidity(s, from, c)
  PROVE  Good(t) /\ SharesKept(s, t) /\ Uses(s, t, from)
<1> DEFINE p == {c.a, c.b}
           payB(u, v) == IF c.fn = "addLiquidityETH" THEN deposit(u, from, p, v)
                                                     ELSE transferFrom(u, c.b, from, p, v)
           Given(s1) == LiquidityAmounts(s1.reserve[p], c.a, c.b, c.desired, c.min)
<1>1. PICK s1, v, s2, s3 :
         /\ s1 \in WithPair(s, c.a, c.b) /\ v \in Given(s1)
         /\ s2 \in transferFrom(s1, c.a, from, p, v[c.a])
         /\ s3 \in payB(s2, v[c.b]) /\ t \in mint(s3, p, c.to)
  <2>1. t \in UNION {UNION {UNION {mint(s3, p, c.to) :
                s3 \in UNION {payB(s2, amount[c.b]) :
                    s2 \in transferFrom(s1, c.a, from, p, amount[c.a])}} :
                amount \in Given(s1)} :
                s1 \in WithPair(s, c.a, c.b)}
    BY DEF addLiquidity
  <2>. HIDE DEF p, payB, Given
  <2>2. PICK s1 \in WithPair(s, c.a, c.b) :
           t \in UNION {UNION {mint(s3, p, c.to) :
                s3 \in UNION {payB(s2, amount[c.b]) :
                    s2 \in transferFrom(s1, c.a, from, p, amount[c.a])}} :
                amount \in Given(s1)}
    BY <2>1
  <2>3. PICK v \in Given(s1) :
           t \in UNION {mint(s3, p, c.to) :
                s3 \in UNION {payB(s2, v[c.b]) : s2 \in transferFrom(s1, c.a, from, p, v[c.a])}}
    BY <2>2
  <2>4. PICK s3 : /\ s3 \in UNION {payB(s2, v[c.b]) : s2 \in transferFrom(s1, c.a, from, p, v[c.a])}
                  /\ t \in mint(s3, p, c.to)
    BY <2>3
  <2>5. PICK s2 \in transferFrom(s1, c.a, from, p, v[c.a]) : s3 \in payB(s2, v[c.b])
    BY <2>4
  <2>. QED BY <2>2, <2>3, <2>4, <2>5
<1>2. c.a \in Token /\ c.b \in Token
  OBVIOUS
<1>3. Good(s1) /\ Quiet(s, s1) /\ p \in Pair /\ s1.reserve[p] \in [p -> Nat]
  BY <1>1, <1>2, PairThere
<1>4. v[c.a] \in Nat /\ v[c.b] \in Nat /\ p \in Holder
  <2>1. v \in [p -> Nat]
    BY <1>1, <1>3, AmountsToAdd
  <2>. QED BY <1>3, <2>1, Assets
<1>. HIDE DEF p
<1>5. Good(s2) /\ Quiet(s1, s2)
  BY <1>1, <1>2, <1>3, <1>4, PaysGood
<1>6. Good(s3) /\ Quiet(s2, s3)
  <2>1. CASE c.fn = "addLiquidityETH"
    BY <1>1, <1>4, <1>5, <2>1, WrapsGood
  <2>2. CASE c.fn # "addLiquidityETH"
    BY <1>1, <1>2, <1>4, <1>5, <2>2, PaysGood
  <2>. QED BY <2>1, <2>2
<1>7. Good(t) /\ SharesKept(s3, t)
  BY <1>1, <1>3, <1>6, MintsGood
<1>8. Quiet(s, s3)
  <2>1. Books(s) /\ Books(s1) /\ Books(s2) /\ Books(s3)
    BY <1>3, <1>5, <1>6 DEF Good
  <2>2. Quiet(s, s2)
    BY <1>3, <1>5, <2>1, QuietAgain
  <2>. QED BY <1>6, <2>1, <2>2, QuietAgain
<1>9. Uses(s, t, from)
  <2>1. Uses(s, s1, from) /\ Listed(s) /\ Listed(s1)
    BY <1>1, <1>2, <1>3, GoodListed, PairUses
  <2>2. Uses(s1, s2, from) /\ Listed(s2)
    BY <1>1, <1>2, <1>4, <1>5, <2>1, GoodListed, FromUses
  <2>3. Uses(s2, s3, from) /\ Listed(s3)
    <3>1. CASE c.fn = "addLiquidityETH"
      BY <1>1, <1>6, <2>2, <3>1, DepositSame, SameKept, KeptUses
    <3>2. CASE c.fn # "addLiquidityETH"
      BY <1>1, <1>2, <1>4, <1>6, <2>2, <3>2, GoodListed, FromUses
    <3>. QED BY <3>1, <3>2
  <2>4. Uses(s3, t, from)
    BY <1>1, <2>3, MintSame, SameKept, KeptUses
  <2>5. Uses(s, s2, from)
    BY <2>1, <2>2, UsesAgain
  <2>6. Uses(s, s3, from)
    BY <2>1, <2>3, <2>5, UsesAgain
  <2>. QED BY <2>1, <2>4, <2>6, UsesAgain
<1>10. SharesKept(s, t)
  BY <1>7, <1>8, QuietThenShare
<1>. QED BY <1>7, <1>9, <1>10

\* The router removes it: a payment of pool tokens, a burn, and a way out for
\* the native coin.
LEMMA RemovesGood ==
  ASSUME NEW s, Good(s), NEW from \in Account, NEW c,
         c.pair \in Pair, c.amount \in Nat, c.to \in Holder,
         NEW t \in removeLiquidity(s, from, c)
  PROVE  Good(t) /\ SharesKept(s, t) /\ Uses(s, t, from)
<1> DEFINE native == c.fn = "removeLiquidityETH"
           p == c.pair
           x == Other(p, WECY)
           gone(r) == IF native
                      THEN UNION {withdraw(q, Router, c.to, q.bal[WECY][Router] - s.bal[WECY][Router]) :
                                    q \in transfer(r, x, Router, c.to, r.bal[x][Router] - s.bal[x][Router])}
                      ELSE {r}
           to == IF native THEN Router ELSE c.to
<1>1. PICK q, r : /\ q \in transferFrom(s, p, from, p, c.amount)
                  /\ r \in burn(q, p, to, c.min) /\ t \in gone(r)
  <2>1. t \in UNION {gone(r) : r \in UNION {burn(q, p, to, c.min) :
                                        q \in transferFrom(s, p, from, p, c.amount)}}
    BY DEF removeLiquidity
  <2>. HIDE DEF gone, to
  <2>2. PICK r : r \in UNION {burn(q, p, to, c.min) : q \in transferFrom(s, p, from, p, c.amount)}
                 /\ t \in gone(r)
    BY <2>1
  <2>3. PICK q \in transferFrom(s, p, from, p, c.amount) : r \in burn(q, p, to, c.min)
    BY <2>2
  <2>. QED BY <2>2, <2>3
<1>2. /\ p \in Token \cup Pair /\ p \in Holder /\ Router \in Holder /\ Router \notin Pair /\ from # Router
      /\ to \in Holder /\ Books(s) /\ from \notin {Router} /\ {Router} \in SUBSET Holder /\ p \notin {Router}
  BY Assets, ContractsAssumption DEF Good
<1>. HIDE DEF to
<1>3. Good(q) /\ Quiet(s, q)
  BY <1>1, <1>2, PaysGood
<1>4. Fed(s, q, {Router})
  BY <1>1, <1>2, TransfersFrom
<1>5. Good(r) /\ SharesKept(q, r) /\ Fed(q, r, {Router})
  BY <1>1, <1>2, <1>3, BurnsGood
<1>6. SharesKept(s, r)
  BY <1>3, <1>5, QuietThenShare
<1>9. Uses(s, r, from) /\ Listed(s) /\ Listed(r)
  <2>1. Listed(s) /\ Listed(q)
    BY <1>3, GoodListed
  <2>2. Uses(s, q, from)
    BY <1>1, <1>2, <2>1, FromUses
  <2>3. Uses(q, r, from) /\ Listed(r)
    BY <1>1, <2>1, BurnSame, SameKept, KeptUses
  <2>. QED BY <2>1, <2>2, <2>3, UsesAgain
<1>7. CASE ~native
  BY <1>1, <1>5, <1>6, <1>7, <1>9
<1>8. CASE native
  <2>1. PICK u \in transfer(r, x, Router, c.to, r.bal[x][Router] - s.bal[x][Router]) :
           t \in withdraw(u, Router, c.to, u.bal[WECY][Router] - s.bal[WECY][Router])
    BY <1>1, <1>8
  <2>2. x \in Token /\ x # WECY
    <3>1. \E y \in p : y # WECY
      BY PairOfTwo
    <3>2. x \in p /\ x # WECY
      BY <3>1 DEF Other
    <3>. QED BY <3>2, TwoOfPair
  <2>. HIDE DEF x
  <2>3. Books(r) /\ Books(q) /\ s \in Chain /\ q \in Chain /\ r \in Chain
    BY <1>2, <1>3, <1>5 DEF Good, Books
  <2>4. Fed(s, r, {Router})
    BY <1>2, <1>4, <1>5, <2>3, FedAgain
  <2>5. ASSUME NEW y \in Token
        PROVE  r.bal[y][Router] - s.bal[y][Router] \in Nat
    <3>1. r.bal[y][Router] \in Nat /\ s.bal[y][Router] \in Nat
      BY <1>2, <2>3, Assets, Balances
    <3>2. s.bal[y][Router] <= r.bal[y][Router]
      BY <2>4 DEF Fed
    <3>. QED BY <3>1, <3>2
  <2> DEFINE v == r.bal[x][Router] - s.bal[x][Router]
             w == u.bal[WECY][Router] - s.bal[WECY][Router]
  <2>6. v \in Nat /\ x \in Asset /\ Router \in Holder \ Pair
    BY <1>2, <2>2, <2>5, Assets
  <2>. HIDE DEF v
  <2>7. u \in transfer(r, x, Router, c.to, v)
    BY <2>1 DEF v
  <2>8. Good(u) /\ Quiet(r, u)
    BY <1>5, <2>6, <2>7, TransfersGood
  <2>9. u.bal[WECY] = r.bal[WECY]
    <3>1. WECY \in Asset
      BY Assets
    <3>. QED BY <1>2, <2>2, <2>3, <2>6, <2>7, <3>1, Transfers
  <2>10. w \in Nat
    BY <2>5, <2>9, Wrapped
  <2>. HIDE DEF w
  <2>11. t \in withdraw(u, Router, c.to, w)
    BY <2>1 DEF w
  <2>12. Good(t) /\ Quiet(u, t)
    BY <2>6, <2>8, <2>10, <2>11, UnwrapsGood
  <2>13. Books(u) /\ Books(t)
    BY <2>8, <2>12 DEF Good
  <2>14. Quiet(r, t)
    BY <2>3, <2>8, <2>12, <2>13, QuietAgain
  <2>15. SharesKept(s, t)
    BY <1>2, <1>6, <2>3, <2>13, <2>14, ShareThenQuiet
  <2>16. Uses(s, t, from)
    <3>1. Same(r, u) /\ Listed(u)
      BY <1>9, <2>7, TransferSame
    <3>2. Same(u, t) /\ Listed(t)
      BY <2>11, <3>1, WithdrawSame
    <3>3. Uses(r, t, from)
      BY <3>1, <3>2, SameAgain, SameKept, KeptUses
    <3>. QED BY <1>9, <3>3, UsesAgain
  <2>. QED BY <2>12, <2>15, <2>16
<1>. QED BY <1>7, <1>8

---------------------------------------------------------------------------
(* The router: paths *)

\* What a step keeps all steps keep, ...
LEMMA KeptByAll ==
  ASSUME NEW n \in Nat, NEW S, NEW f, f[0] \in S, \A i \in 1..n : f[i - 1] \in S => f[i] \in S
  PROVE  \A i \in 0..n : f[i] \in S
<1> DEFINE T == {i \in 0..n : f[i] \notin S}
<1>1. SUFFICES ASSUME T # {} PROVE FALSE
  OBVIOUS
<1>2. PICK k \in T : \A y \in T : k <= y
  <2>1. T \in SUBSET Nat
    OBVIOUS
  <2>. HIDE DEF T
  <2>. QED BY <1>1, <2>1, Least
<1>3. k \in 0..n /\ f[k] \notin S /\ k # 0
  BY <1>2
<1>4. k \in 1..n /\ k - 1 \in 0..n /\ k - 1 \notin T
  BY <1>2, <1>3
<1>. QED BY <1>3, <1>4

Stepping(n, S, z, G) == n \in Nat /\ z \in S /\ G \in [(1..n) \X S -> S]

Follows(n, S, z, G, f) ==
  f \in [0..n -> S] /\ f[0] = z /\ \A i \in 1..n : f[i] = G[<<i, f[i - 1]>>]

\* ... and there is a function of the steps.
LEMMA Recursion ==
  ASSUME NEW n, NEW S, NEW z, NEW G, Stepping(n, S, z, G)
  PROVE  \E f : Follows(n, S, z, G, f)
<1>. SUFFICES ASSUME n \in Nat, z \in S, G \in [(1..n) \X S -> S]
              PROVE  \E f \in [0..n -> S] : f[0] = z /\ \A i \in 1..n : f[i] = G[<<i, f[i - 1]>>]
  BY DEF Stepping, Follows
<1> DEFINE P(k) == \E f \in [0..k -> S] : f[0] = z /\ \A i \in 1..k : f[i] = G[<<i, f[i - 1]>>]
           T == {k \in 0..n : ~P(k)}
<1>1. SUFFICES ASSUME ~P(n) PROVE FALSE
  OBVIOUS
<1>2. PICK k \in T : \A y \in T : k <= y
  <2>. HIDE DEF P
  <2>1. T \in SUBSET Nat /\ n \in T
    BY <1>1
  <2>. HIDE DEF T
  <2>. QED BY <2>1, Least
<1>3. k \in 0..n /\ ~P(k) /\ k \in Nat
  BY <1>2
<1>4. P(0)
  <2>1. [i \in 0..0 |-> z] \in [0..0 -> S] /\ [i \in 0..0 |-> z][0] = z /\ 1..0 = {}
    OBVIOUS
  <2>. QED BY <2>1
<1>5. k # 0
  BY <1>3, <1>4
<1>6. k - 1 \in 0..n /\ k - 1 \notin T /\ k \in 1..n
  <2>1. ~(k <= k - 1) /\ k - 1 \in 0..n /\ k \in 1..n
    BY <1>3, <1>5
  <2>. HIDE DEF T
  <2>. QED BY <1>2, <2>1
<1>7. P(k - 1)
  <2>. HIDE DEF P
  <2>. QED BY <1>6
<1>8. PICK f \in [0..(k - 1) -> S] : f[0] = z /\ \A i \in 1..(k - 1) : f[i] = G[<<i, f[i - 1]>>]
  BY <1>7
<1> DEFINE g == [i \in 0..k |-> IF i = k THEN G[<<k, f[k - 1]>>] ELSE f[i]]
<1>9. f[k - 1] \in S /\ G[<<k, f[k - 1]>>] \in S
  <2>1. k - 1 \in 0..(k - 1)
    BY <1>3, <1>5
  <2>2. f[k - 1] \in S
    BY <2>1
  <2>. QED BY <1>6, <2>2
<1>10. g \in [0..k -> S]
  <2>. SUFFICES ASSUME NEW i \in 0..k PROVE (IF i = k THEN G[<<k, f[k - 1]>>] ELSE f[i]) \in S
    OBVIOUS
  <2>1. CASE i = k
    BY <1>9, <2>1
  <2>2. CASE i # k
    <3>1. i \in 0..(k - 1)
      BY <1>3, <2>2
    <3>. QED BY <2>2, <3>1
  <2>. QED BY <2>1, <2>2
<1>11. g[0] = z
  BY <1>3, <1>5, <1>8
<1>12. \A i \in 1..k : g[i] = G[<<i, g[i - 1]>>]
  <2>. SUFFICES ASSUME NEW i \in 1..k PROVE g[i] = G[<<i, g[i - 1]>>]
    OBVIOUS
  <2>1. i - 1 \in 0..k /\ i - 1 # k /\ i \in 0..k
    BY <1>3
  <2>2. g[i - 1] = f[i - 1]
    BY <2>1
  <2>3. CASE i = k
    BY <2>1, <2>2, <2>3
  <2>4. CASE i # k
    <3>1. i \in 1..(k - 1)
      BY <1>3, <2>4
    <3>2. g[i] = f[i]
      BY <2>1, <2>4
    <3>. QED BY <1>8, <2>2, <3>1, <3>2
  <2>. QED BY <2>3, <2>4
<1>13. P(k)
  <2>. HIDE DEF g
  <2>. QED BY <1>10, <1>11, <1>12
<1>. QED BY <1>3, <1>13

\* A reserve is a number, also of a pair there is not, ...
LEMMA ReserveIs ==
  ASSUME NEW s, Books(s), NEW a \in Token, NEW b \in Token
  PROVE  reserveOf(s, a, b) \in Nat
<1>1. CASE a = b
  BY <1>1 DEF reserveOf
<1>2. CASE a # b
  <2>1. {a, b} \in Pair
    BY <1>2, PairOf
  <2>2. s.reserve[{a, b}] \in [{a, b} -> Nat]
    BY <2>1, Numbers
  <2>3. s.reserve[{a, b}][a] \in Nat
    BY <2>2
  <2>. QED BY <1>2, <2>3 DEF reserveOf
<1>. QED BY <1>1, <1>2

\* ... an amount out is, ...
LEMMA OutIs ==
  ASSUME NEW x \in Nat, NEW y \in Nat, NEW z \in Nat
  PROVE  getAmountOut(x, y, z) \in Nat
<1> DEFINE w == x * (FeeUnit - Fee)
           v == (w * z) \div (y * FeeUnit + w)
<1>1. w \in Nat /\ FeeUnit \in Nat /\ FeeUnit # 0
  BY FeesAre
<1>2. getAmountOut(x, y, z) = IF x > 0 /\ y > 0 THEN v ELSE 0
  BY DEF getAmountOut
<1>3. ASSUME y > 0 PROVE v \in Nat
  <2>. HIDE DEF w
  <2> DEFINE d == y * FeeUnit
             n == w * z
  <2>1. d \in Nat /\ n \in Nat
    BY <1>1
  <2>2. d # 0
    <3>1. 1 * FeeUnit <= y * FeeUnit
      BY <1>1, <1>3, MulMono
    <3>. QED BY <1>1, <3>1
  <2>. HIDE DEF d, n
  <2>3. d + w \in Nat /\ d + w # 0
    BY <1>1, <2>1, <2>2
  <2>4. n \div (d + w) \in Nat
    BY <2>1, <2>3, DivDown
  <2>. QED BY <2>4 DEF d, n
<1>. HIDE DEF v
<1>. QED BY <1>2, <1>3

\* ... an amount in is, ...
LEMMA InIs ==
  ASSUME NEW x \in Nat, NEW y \in Nat, NEW z \in Nat
  PROVE  getAmountIn(x, y, z) \in Nat
<1> DEFINE n == y * x * FeeUnit
           d == (z - x) * (FeeUnit - Fee)
<1>1. getAmountIn(x, y, z) = IF 0 < x /\ x < z THEN n \div d + 1 ELSE 0
  BY DEF getAmountIn
<1>2. ASSUME x < z PROVE n \div d \in Nat
  <2>1. n \in Nat /\ z - x \in Nat /\ z - x >= 1 /\ FeeUnit - Fee \in Nat /\ FeeUnit - Fee # 0
    BY <1>2, FeesAre
  <2> DEFINE e == FeeUnit - Fee
             u == z - x
  <2>2. e \in Nat /\ e # 0 /\ u \in Nat /\ u >= 1 /\ d = u * e
    BY <2>1
  <2>. HIDE DEF e, u, d, n
  <2>3. 1 * e <= u * e
    BY <2>2, MulMono
  <2>4. d \in Nat /\ d # 0
    BY <2>2, <2>3
  <2>. QED BY <2>1, <2>4, DivDown DEF n
<1>. HIDE DEF n, d
<1>. QED BY <1>1, <1>2

\* ... and so are all amounts of a path, from the first ...
LEMMA AmountsOutAre ==
  ASSUME NEW s, Books(s), NEW x \in Nat, NEW path \in Seq(Token), Len(path) >= 2
  PROVE  getAmountsOut(s, x, path) \in [1..Len(path) -> Nat]
<1> DEFINE n == Len(path) - 1
           next(i, y) == getAmountOut(y, reserveOf(s, path[i - 1], path[i]), reserveOf(s, path[i], path[i - 1]))
           Eq(f) == f = [i \in 1..Len(path) |-> IF i = 1 THEN x ELSE next(i, f[i - 1])]
           a == getAmountsOut(s, x, path)
<1>1. a = CHOOSE f : Eq(f)
  BY DEF getAmountsOut
<1>2. n \in Nat /\ \A i \in 1..Len(path) : path[i] \in Token
  OBVIOUS
<1>3. ASSUME NEW i \in 2..Len(path), NEW y \in Nat
      PROVE  next(i, y) \in Nat
  <2>1. path[i - 1] \in Token /\ path[i] \in Token
    BY <1>2
  <2>. QED BY <2>1, ReserveIs, OutIs
<1>. HIDE DEF next
<1>4. \E f : Eq(f)
  <2> DEFINE G == [w \in (1..n) \X Nat |-> next(w[1] + 1, w[2])]
  <2>1. G \in [(1..n) \X Nat -> Nat]
    <3>. SUFFICES ASSUME NEW i \in 1..n, NEW y \in Nat PROVE next(i + 1, y) \in Nat
      OBVIOUS
    <3>1. i + 1 \in 2..Len(path)
      OBVIOUS
    <3>. QED BY <1>3, <3>1
  <2>2. \A i \in 1..n, y \in Nat : G[<<i, y>>] = next(i + 1, y)
    OBVIOUS
  <2>. HIDE DEF G
  <2>3. PICK h \in [0..n -> Nat] : h[0] = x /\ \A i \in 1..n : h[i] = G[<<i, h[i - 1]>>]
    <3>1. Stepping(n, Nat, x, G)
      BY <1>2, <2>1 DEF Stepping
    <3>2. PICK h : Follows(n, Nat, x, G, h)
      BY <3>1, Recursion
    <3>. QED BY <3>2 DEF Follows
  <2> DEFINE f == [i \in 1..Len(path) |-> h[i - 1]]
  <2>4. \A i \in 1..Len(path) : f[i] = IF i = 1 THEN x ELSE next(i, f[i - 1])
    <3>. SUFFICES ASSUME NEW i \in 1..Len(path) PROVE f[i] = IF i = 1 THEN x ELSE next(i,
         f[i - 1])
      OBVIOUS
    <3>1. CASE i = 1
      BY <2>3, <3>1
    <3>2. CASE i # 1
      <4>1. i - 1 \in 1..n /\ i - 1 \in 1..Len(path) /\ (i - 1) - 1 \in 0..n /\ (i - 1) + 1 = i
        BY <3>2
      <4>2. f[i] = h[i - 1] /\ f[i - 1] = h[(i - 1) - 1] /\ h[(i - 1) - 1] \in Nat
        BY <2>3, <4>1
      <4>3. h[i - 1] = next((i - 1) + 1, h[(i - 1) - 1])
        BY <2>2, <2>3, <4>1, <4>2
      <4>. QED BY <3>2, <4>1, <4>2, <4>3
    <3>. QED BY <3>1, <3>2
  <2>5. f = [i \in 1..Len(path) |-> f[i]]
    OBVIOUS
  <2>. HIDE DEF f
  <2>6. Eq(f)
    BY <2>4, <2>5
  <2>. QED BY <2>6
<1>5. Eq(a)
  <2>. HIDE DEF Eq, a
  <2>. QED BY <1>1, <1>4
<1>. HIDE DEF a
<1>6. a[1] = x /\ \A i \in 2..Len(path) : a[i] = next(i, a[i - 1])
  <2>1. \A i \in 1..Len(path) : a[i] = IF i = 1 THEN x ELSE next(i, a[i - 1])
    BY <1>5
  <2>. QED BY <2>1
<1>7. \A i \in 1..Len(path) : a[i] \in Nat
  <2> DEFINE g == [i \in 0..n |-> a[i + 1]]
  <2>1. g[0] \in Nat
    BY <1>2, <1>6
  <2>2. \A i \in 1..n : g[i - 1] \in Nat => g[i] \in Nat
    <3>. SUFFICES ASSUME NEW i \in 1..n, g[i - 1] \in Nat PROVE g[i] \in Nat
      OBVIOUS
    <3>1. i + 1 \in 2..Len(path) /\ i \in 0..n /\ i - 1 \in 0..n /\ (i + 1) - 1 = i /\ (i - 1) + 1 = i
      OBVIOUS
    <3>2. g[i] = a[i + 1] /\ g[i - 1] = a[i]
      BY <3>1
    <3>3. a[i + 1] = next(i + 1, a[i])
      BY <1>6, <3>1
    <3>. QED BY <1>3, <3>1, <3>2, <3>3
  <2>3. \A i \in 0..n : g[i] = a[i + 1]
    OBVIOUS
  <2>. HIDE DEF g
  <2>4. \A i \in 0..n : g[i] \in Nat
    BY <1>2, <2>1, <2>2, KeptByAll
  <2>. SUFFICES ASSUME NEW i \in 1..Len(path) PROVE a[i] \in Nat
    OBVIOUS
  <2>5. i - 1 \in 0..n /\ (i - 1) + 1 = i
    OBVIOUS
  <2>. QED BY <2>3, <2>4, <2>5
<1>8. a = [i \in 1..Len(path) |-> a[i]]
  BY <1>5
<1>9. a \in [1..Len(path) -> Nat]
  BY <1>7, <1>8
<1>. QED BY <1>9 DEF a

\* ... and from the last.
LEMMA AmountsInAre ==
  ASSUME NEW s, Books(s), NEW x \in Nat, NEW path \in Seq(Token), Len(path) >= 2
  PROVE  getAmountsIn(s, x, path) \in [1..Len(path) -> Nat]
<1> DEFINE n == Len(path) - 1
           m == Len(path)
           next(i, y) == getAmountIn(y, reserveOf(s, path[i], path[i + 1]), reserveOf(s, path[i + 1], path[i]))
           Eq(f) == f = [i \in 1..m |-> IF i = m THEN x ELSE next(i, f[i + 1])]
           a == getAmountsIn(s, x, path)
<1>1. a = CHOOSE f : Eq(f)
  BY DEF getAmountsIn
<1>2. n \in Nat /\ m \in Nat /\ m = n + 1 /\ \A i \in 1..m : path[i] \in Token
  OBVIOUS
<1>. HIDE DEF n, m
<1>3. ASSUME NEW i \in 1..n, NEW y \in Nat
      PROVE  next(i, y) \in Nat
  <2>1. path[i + 1] \in Token /\ path[i] \in Token
    BY <1>2
  <2>. QED BY <2>1, ReserveIs, InIs
<1>. HIDE DEF next
<1>4. \E f : Eq(f)
  <2> DEFINE G == [w \in (1..n) \X Nat |-> next(m - w[1], w[2])]
  <2>1. G \in [(1..n) \X Nat -> Nat]
    <3>. SUFFICES ASSUME NEW i \in 1..n, NEW y \in Nat PROVE next(m - i, y) \in Nat
      OBVIOUS
    <3>1. m - i \in 1..n
      BY <1>2
    <3>. QED BY <1>3, <3>1
  <2>2. \A i \in 1..n, y \in Nat : G[<<i, y>>] = next(m - i, y)
    OBVIOUS
  <2>. HIDE DEF G
  <2>3. PICK h \in [0..n -> Nat] : h[0] = x /\ \A i \in 1..n : h[i] = G[<<i, h[i - 1]>>]
    <3>1. Stepping(n, Nat, x, G)
      BY <1>2, <2>1 DEF Stepping
    <3>2. PICK h : Follows(n, Nat, x, G, h)
      BY <3>1, Recursion
    <3>. QED BY <3>2 DEF Follows
  <2> DEFINE f == [i \in 1..m |-> h[m - i]]
  <2>4. \A i \in 1..m : f[i] = IF i = m THEN x ELSE next(i, f[i + 1])
    <3>. SUFFICES ASSUME NEW i \in 1..m PROVE f[i] = IF i = m THEN x ELSE next(i, f[i + 1])
      OBVIOUS
    <3>1. CASE i = m
      <4>1. m - i = 0
        BY <1>2, <3>1
      <4>. QED BY <2>3, <3>1, <4>1
    <3>2. CASE i # m
      <4>1. /\ m - i \in 1..n /\ i + 1 \in 1..m /\ (m - i) - 1 \in 0..n /\ (m - i) - 1 = m - (i + 1)
            /\ m - (m - i) = i
        BY <1>2, <3>2
      <4>2. f[i] = h[m - i] /\ f[i + 1] = h[(m - i) - 1] /\ h[(m - i) - 1] \in Nat
        BY <2>3, <4>1
      <4>3. h[m - i] = next(m - (m - i), h[(m - i) - 1])
        BY <2>2, <2>3, <4>1, <4>2
      <4>. QED BY <3>2, <4>1, <4>2, <4>3
    <3>. QED BY <3>1, <3>2
  <2>5. f = [i \in 1..m |-> f[i]]
    OBVIOUS
  <2>. HIDE DEF f
  <2>6. Eq(f)
    BY <2>4, <2>5
  <2>. QED BY <2>6
<1>5. Eq(a)
  <2>. HIDE DEF Eq, a
  <2>. QED BY <1>1, <1>4
<1>. HIDE DEF a
<1>6. a[m] = x /\ \A i \in 1..n : a[i] = next(i, a[i + 1])
  <2>1. \A i \in 1..m : a[i] = IF i = m THEN x ELSE next(i, a[i + 1])
    BY <1>5
  <2>2. m \in 1..m /\ \A i \in 1..n : i \in 1..m /\ i # m
    BY <1>2
  <2>. QED BY <2>1, <2>2
<1>7. \A i \in 1..m : a[i] \in Nat
  <2> DEFINE g == [i \in 0..n |-> a[m - i]]
  <2>1. g[0] \in Nat
    BY <1>2, <1>6
  <2>2. \A i \in 1..n : g[i - 1] \in Nat => g[i] \in Nat
    <3>. SUFFICES ASSUME NEW i \in 1..n, g[i - 1] \in Nat PROVE g[i] \in Nat
      OBVIOUS
    <3>1. m - i \in 1..n /\ i \in 0..n /\ i - 1 \in 0..n /\ m - (i - 1) = (m - i) + 1
      BY <1>2
    <3>2. g[i] = a[m - i] /\ g[i - 1] = a[(m - i) + 1]
      BY <3>1
    <3>3. a[m - i] = next(m - i, a[(m - i) + 1])
      BY <1>6, <3>1
    <3>. QED BY <1>3, <3>1, <3>2, <3>3
  <2>3. \A i \in 0..n : g[i] = a[m - i]
    OBVIOUS
  <2>. HIDE DEF g
  <2>4. \A i \in 0..n : g[i] \in Nat
    BY <1>2, <2>1, <2>2, KeptByAll
  <2>. SUFFICES ASSUME NEW i \in 1..m PROVE a[i] \in Nat
    OBVIOUS
  <2>5. m - i \in 0..n /\ m - (m - i) = i
    BY <1>2
  <2>. QED BY <2>3, <2>4, <2>5
<1>8. a = [i \in 1..m |-> a[i]]
  BY <1>5
<1>9. a \in [1..m -> Nat]
  BY <1>7, <1>8
<1>. QED BY <1>9 DEF a, m

\* One pair of a path swaps for the next one, or for the receiver.
LEMMA HopsGood ==
  ASSUME NEW s, Good(s), NEW path \in Seq(Token), NEW v \in [1..Len(path) -> Nat],
         NEW to \in Holder,
         \A j \in 1..(Len(path) - 1) : path[j] # path[j + 1],
         NEW i \in 1..(Len(path) - 1), NEW t \in hop(s, v, path, to, i)
  PROVE  /\ Good(t) /\ Quiet(s, t) /\ Kept(s, t)
         /\ \E e : e.out[path[i + 1]] = v[i + 1] /\ t.swaps = Append(s.swaps, e)
<1> DEFINE p == {path[i], path[i + 1]}
           out == [x \in p |-> IF x = path[i + 1] THEN v[i + 1] ELSE 0]
           none == [x \in p |-> 0]
           next == IF i < Len(path) - 1 THEN {path[i + 1], path[i + 2]} ELSE to
<1>1. \A j \in 1..(Len(path) - 1) : {path[j], path[j + 1]} \in Pair
  <2>. SUFFICES ASSUME NEW j \in 1..(Len(path) - 1) PROVE {path[j], path[j + 1]} \in Pair
    OBVIOUS
  <2>1. path[j] \in Token /\ path[j + 1] \in Token /\ path[j] # path[j + 1]
    OBVIOUS
  <2>. QED BY <2>1, PairOf
<1>2. p \in Pair
  BY <1>1
<1>3. next \in Holder
  <2>1. CASE i < Len(path) - 1
    <3>1. i + 1 \in 1..(Len(path) - 1) /\ (i + 1) + 1 = i + 2
      BY <2>1
    <3>2. {path[i + 1], path[i + 2]} \in Pair
      BY <1>1, <3>1
    <3>. QED BY <2>1, <3>2, Assets
  <2>2. CASE ~(i < Len(path) - 1)
    BY <2>2
  <2>. QED BY <2>1, <2>2
<1>4. out \in [p -> Nat]
  <2>1. v[i + 1] \in Nat
    OBVIOUS
  <2>. QED BY <2>1
<1>5. none \in [p -> Nat] /\ \A x \in p : none[x] = 0
  OBVIOUS
<1>6. t \in swap(s, p, out, Router, next, none)
  BY DEF hop
<1>8. out[path[i + 1]] = v[i + 1]
  OBVIOUS
<1>. HIDE DEF p, out, next, none
<1>7. Router \in Holder
  BY Assets
<1>9. Kept(s, t) /\ \E e : e.out = out /\ t.swaps = Append(s.swaps, e)
  BY <1>6, GoodListed, SwapKept
<1>10. Good(t) /\ Quiet(s, t)
  BY <1>2, <1>3, <1>4, <1>5, <1>6, <1>7, SwapsGood
<1>. QED BY <1>8, <1>9, <1>10

---------------------------------------------------------------------------
(* Each call has one outcome *)

\* A call has one outcome at most.
One(S) == \A x, y \in S : x = y

\* The calls, each with one outcome at most.
LEMMA TransferOnce == \A s, a, from, to, v : One(transfer(s, a, from, to, v))
BY DEF One, transfer

\* transferFrom has one outcome at most, ...
LEMMA TransferFromOnce == \A s, a, from, to, v : One(transferFrom(s, a, from, to, v))
<1>. SUFFICES ASSUME NEW s, NEW a, NEW from, NEW to, NEW v
              PROVE  One(transferFrom(s, a, from, to, v))
  OBVIOUS
<1>1. \/ transferFrom(s, a, from, to, v) = {}
      \/ \E r : transferFrom(s, a, from, to, v) = transfer(r, a, from, to, v)
  BY DEF transferFrom
<1>2. One({})
  BY DEF One
<1>. QED BY <1>1, <1>2, TransferOnce

\* ... as wrapping ...
LEMMA DepositOnce == \A s, from, to, v : One(deposit(s, from, to, v))
BY TransferOnce DEF One, deposit

\* ... and unwrapping have, ...
LEMMA WithdrawOnce == \A s, from, to, v : One(withdraw(s, from, to, v))
<1>. SUFFICES ASSUME NEW s, NEW from, NEW to, NEW v
              PROVE  One(withdraw(s, from, to, v))
  OBVIOUS
<1>1. withdraw(s, from, to, v) = {} \/ \E r : withdraw(s, from, to, v) = transfer(r, ECY, WECY, to, v)
  BY DEF withdraw
<1>2. One({})
  BY DEF One
<1>. QED BY <1>1, <1>2, TransferOnce

\* ... the transfer of both tokens, ...
LEMMA BothOnce == \A s, p, from, to, v : One(transferBoth(s, p, from, to, v))
<1>. SUFFICES ASSUME NEW s, NEW p, NEW from, NEW to, NEW v
              PROVE  One(transferBoth(s, p, from, to, v))
  OBVIOUS
<1> DEFINE a == OneOf(p)
           b == Other(p, a)
           S == transfer(s, a, from, to, v[a])
           F(g) == transfer(g, b, from, to, v[b])
<1>1. transferBoth(s, p, from, to, v) = UNION {F(g) : g \in S}
  BY DEF transferBoth
<1>2. One(S) /\ \A g : One(F(g))
  BY TransferOnce
<1>. HIDE DEF S, F
<1>. QED BY <1>1, <1>2 DEF One

\* ... a mint, ...
LEMMA MintOnce == \A s, p, to : One(mint(s, p, to))
<1>. SUFFICES ASSUME NEW s, NEW p, NEW to PROVE One(mint(s, p, to))
  OBVIOUS
<1>1. \A x \in mint(s, p, to) :
        x = Close(_mint(MintMinimum(_mintFee(s, p), p), p, to, Liquidity(_mintFee(s, p), p)), p)
  BY DEF mint
<1>. QED BY <1>1 DEF One

\* ... a burn, ...
LEMMA BurnOnce == \A s, p, to, min : One(burn(s, p, to, min))
<1>. SUFFICES ASSUME NEW s, NEW p, NEW to, NEW min PROVE One(burn(s, p, to, min))
  OBVIOUS
<1> DEFINE f == _mintFee(s, p)
           S == transferBoth(_burn(f, p), p, p, to, BurnAmounts(f, p))
<1>1. \A x \in burn(s, p, to, min) : \E g \in S : x = Close(g, p)
  BY DEF burn
<1>2. One(S)
  BY BothOnce
<1>. HIDE DEF S
<1>. QED BY <1>1, <1>2 DEF One

\* ... a swap, ...
LEMMA SwapOnce == \A s, p, out, sender, to, pay : One(swap(s, p, out, sender, to, pay))
<1>. SUFFICES ASSUME NEW s, NEW p, NEW out, NEW sender, NEW to, NEW pay
              PROVE  One(swap(s, p, out, sender, to, pay))
  OBVIOUS
<1> DEFINE F(g) == settle(g, p, [t \in p |-> Max({0, g.bal[t][p] - (s.reserve[p][t] - out[t])})],
                          out, sender, to)
           S == transferBoth(s, p, p, to, out)
           R(f) == transferBoth(f, p, to, p, pay)
<1>1. swap(s, p, out, sender, to, pay) \subseteq UNION {F(g) : g \in UNION {R(f) : f \in S}}
  BY DEF swap
<1>2. One(S) /\ \A f : One(R(f))
  BY BothOnce
<1>3. \A g : One(F(g))
  BY DEF settle, One
<1>. HIDE DEF F, S, R
<1>. QED BY <1>1, <1>2, <1>3 DEF One

\* ... each swap of a path, ...
LEMMA HopOnce == \A s, v, path, to, i : One(hop(s, v, path, to, i))
BY SwapOnce DEF hop

\* ... the pair that is made when it is missing, ...
LEMMA PairOnce == \A s, a, b : One(WithPair(s, a, b))
BY DEF WithPair, createPair, One

\* ... the amounts that are taken, ...
LEMMA AmountsOnce == \A r, a, b, desired, min : One(LiquidityAmounts(r, a, b, desired, min))
BY DEF LiquidityAmounts, OptimalAmounts, One

\* ... an addition ...
LEMMA AddOnce == \A s, from, c : One(addLiquidity(s, from, c))
<1>. SUFFICES ASSUME NEW s, NEW from, NEW c PROVE One(addLiquidity(s, from, c))
  OBVIOUS
<1> DEFINE p == {c.a, c.b}
           payB(u, v) == IF c.fn = "addLiquidityETH" THEN deposit(u, from, p, v)
                                                     ELSE transferFrom(u, c.b, from, p, v)
           Given(s1) == LiquidityAmounts(s1.reserve[p], c.a, c.b, c.desired, c.min)
           P == WithPair(s, c.a, c.b)
           A(s1, v) == transferFrom(s1, c.a, from, p, v[c.a])
           B(s2, v) == payB(s2, v[c.b])
           M(s3) == mint(s3, p, c.to)
           Paid(s1, v) == UNION {B(s2, v) : s2 \in A(s1, v)}
           Minted(s1, v) == UNION {M(s3) : s3 \in Paid(s1, v)}
           Added(s1) == UNION {Minted(s1, v) : v \in Given(s1)}
<1>1. addLiquidity(s, from, c) \subseteq UNION {Added(s1) : s1 \in P}
  BY DEF addLiquidity
<1>2. /\ One(P) /\ \A s1 : One(Given(s1)) /\ \A v : One(A(s1, v)) /\ One(B(s1, v))
      /\ \A s3 : One(M(s3))
  BY PairOnce, AmountsOnce, TransferFromOnce, DepositOnce, MintOnce
<1>. HIDE DEF P, Given, A, B, M
<1>3. \A s1, v : One(Paid(s1, v))
  BY <1>2 DEF One
<1>. HIDE DEF Paid
<1>4. \A s1, v : One(Minted(s1, v))
  BY <1>2, <1>3 DEF One
<1>. HIDE DEF Minted
<1>5. \A s1 : One(Added(s1))
  BY <1>2, <1>4 DEF One
<1>. HIDE DEF Added
<1>. QED BY <1>1, <1>2, <1>5 DEF One

\* ... and a removal.
LEMMA RemoveOnce == \A s, from, c : One(removeLiquidity(s, from, c))
<1>. SUFFICES ASSUME NEW s, NEW from, NEW c PROVE One(removeLiquidity(s, from, c))
  OBVIOUS
<1> DEFINE native == c.fn = "removeLiquidityETH"
           x == Other(c.pair, WECY)
           T(r) == transfer(r, x, Router, c.to, r.bal[x][Router] - s.bal[x][Router])
           W(q) == withdraw(q, Router, c.to, q.bal[WECY][Router] - s.bal[WECY][Router])
           gone(r) == IF native THEN UNION {W(q) : q \in T(r)} ELSE {r}
           B(q) == burn(q, c.pair, IF native THEN Router ELSE c.to, c.min)
           S == transferFrom(s, c.pair, from, c.pair, c.amount)
<1>1. removeLiquidity(s, from, c) = UNION {gone(r) : r \in UNION {B(q) : q \in S}}
  BY DEF removeLiquidity
<1>2. One(S) /\ (\A q : One(B(q))) /\ (\A r : One(T(r))) /\ (\A q : One(W(q)))
  BY TransferFromOnce, TransferOnce, WithdrawOnce, BurnOnce
<1>. HIDE DEF S, B, T, W, native
<1>3. \A r : One(gone(r))
  BY <1>2 DEF One
<1>. HIDE DEF gone
<1>. QED BY <1>1, <1>2, <1>3 DEF One

---------------------------------------------------------------------------
(* Calls *)

\* The pairs of a path swap in turn.
LEMMA PathGood ==
  ASSUME NEW s, Good(s), NEW path \in Seq(Token), Len(path) >= 2, NEW v \in [1..Len(path) -> Nat],
         NEW to \in Holder, NEW t \in _swap(s, v, path, to)
  PROVE  /\ Good(t) /\ Quiet(s, t) /\ Kept(s, t)
         /\ Last(t.swaps).out[Last(path)] = Last(v)
         /\ \A u \in _swap(s, v, path, to) : u = t
<1> DEFINE n == Len(path) - 1
           next(i, T) == UNION {hop(u, v, path, to, i) : u \in T}
           Eq(f) == f = [i \in 0..n |-> IF i = 0 THEN {s} ELSE next(i, f[i - 1])]
           after == CHOOSE f : Eq(f)
           Calm == {u \in Chain : Good(u) /\ Quiet(s, u) /\ Kept(s, u)}
           Sole == {T \in SUBSET Calm : One(T)}
<1>1. (\A j \in 1..n : path[j] # path[j + 1]) /\ t \in after[n] /\ _swap(s, v, path, to) = after[n]
  <2>1. _swap(s, v, path, to) = IF \A j \in 1..n : path[j] # path[j + 1] THEN after[n] ELSE {}
    BY DEF _swap
  <2>. HIDE DEF after
  <2>. QED BY <2>1
<1>2. n \in Nat
  OBVIOUS
<1>3. ASSUME NEW i \in 1..n, NEW T \in Sole
      PROVE  next(i, T) \in Sole
  <2>0. One(next(i, T))
    <3> DEFINE F(u) == hop(u, v, path, to, i)
    <3>1. One(T) /\ \A u : One(F(u))
      BY HopOnce
    <3>2. next(i, T) = UNION {F(u) : u \in T}
      OBVIOUS
    <3>. HIDE DEF F, next
    <3>. QED BY <3>1, <3>2 DEF One
  <2>. SUFFICES ASSUME NEW u \in T, NEW w \in hop(u, v, path, to, i) PROVE w \in Calm
    BY <2>0
  <2>1. Good(u) /\ Quiet(s, u) /\ Kept(s, u)
    OBVIOUS
  <2>2. Good(w) /\ Quiet(u, w) /\ Kept(u, w)
    BY <1>1, <2>1, HopsGood
  <2>5. Kept(s, w)
    BY <2>1, <2>2, KeptAgain
  <2>3. Books(s) /\ Books(u) /\ Books(w) /\ w \in Chain
    BY <2>1, <2>2 DEF Good, Books
  <2>4. Quiet(s, w)
    BY <2>1, <2>2, <2>3, QuietAgain
  <2>. QED BY <2>2, <2>3, <2>4, <2>5
<1>4. {s} \in Sole
  <2>1. s \in Chain
    BY DEF Good, Books
  <2>2. Quiet(s, s) /\ Kept(s, s)
    BY <2>1, RestGood, GoodListed DEF Kept
  <2>. QED BY <2>1, <2>2 DEF One
<1>. HIDE DEF next, Sole, n
<1>5. \E f : Eq(f)
  <2> DEFINE S == Sole
             G == [w \in (1..n) \X S |-> next(w[1], w[2])]
  <2>1. G \in [(1..n) \X S -> S]
    <3>. SUFFICES ASSUME NEW i \in 1..n, NEW T \in S PROVE next(i, T) \in S
      OBVIOUS
    <3>. QED BY <1>3
  <2>2. \A i \in 1..n, T \in S : G[<<i, T>>] = next(i, T)
    OBVIOUS
  <2>3. {s} \in S
    BY <1>4
  <2>. HIDE DEF G, S
  <2>4. PICK h \in [0..n -> S] : h[0] = {s} /\ \A i \in 1..n : h[i] = G[<<i, h[i - 1]>>]
    <3>1. Stepping(n, S, {s}, G)
      BY <1>2, <2>1, <2>3 DEF Stepping
    <3>2. PICK h : Follows(n, S, {s}, G, h)
      BY <3>1, Recursion
    <3>. QED BY <3>2 DEF Follows
  <2>5. \A i \in 0..n : h[i] = IF i = 0 THEN {s} ELSE next(i, h[i - 1])
    <3>. SUFFICES ASSUME NEW i \in 0..n, i # 0 PROVE h[i] = next(i, h[i - 1])
      BY <2>4
    <3>1. i \in 1..n /\ i - 1 \in 0..n
      BY <1>2
    <3>2. h[i - 1] \in S
      BY <2>4, <3>1
    <3>. QED BY <2>2, <2>4, <3>1, <3>2
  <2>6. h = [i \in 0..n |-> h[i]]
    BY <2>4
  <2>7. Eq(h)
    BY <2>5, <2>6
  <2>. QED BY <2>7
<1>6. Eq(after)
  <2>. HIDE DEF Eq
  <2>. QED BY <1>5
<1>. HIDE DEF after
<1>7. after[0] = {s} /\ \A i \in 1..n : after[i] = next(i, after[i - 1])
  <2>1. \A i \in 0..n : after[i] = IF i = 0 THEN {s} ELSE next(i, after[i - 1])
    BY <1>6
  <2>2. 0 \in 0..n /\ \A i \in 1..n : i \in 0..n /\ i # 0
    BY <1>2
  <2>. QED BY <2>1, <2>2
<1>8. \A i \in 0..n : after[i] \in Sole
  <2> DEFINE S == Sole
  <2>1. after[0] \in S /\ \A i \in 1..n : after[i - 1] \in S => after[i] \in S
    BY <1>3, <1>4, <1>7
  <2>. HIDE DEF S
  <2>2. \A i \in 0..n : after[i] \in S
    BY <1>2, <2>1, KeptByAll
  <2>. QED BY <2>2 DEF S
<1>9. after[n] \in Sole
  <2>1. n \in 0..n
    BY <1>2
  <2>. QED BY <1>8, <2>1
<1>10. Last(t.swaps).out[Last(path)] = Last(v)
  <2>1. n \in 1..n /\ n - 1 \in 0..n /\ n = Len(path) - 1 /\ n + 1 = Len(path)
    BY DEF n
  <2>2. after[n - 1] \in Sole
    BY <1>8, <2>1
  <2>3. PICK u \in after[n - 1] : t \in hop(u, v, path, to, n)
    <3>1. t \in next(n, after[n - 1])
      BY <1>1, <1>7, <2>1
    <3>. QED BY <3>1 DEF next
  <2>4. Good(u)
    BY <2>2, <2>3 DEF Sole
  <2>5. PICK e : e.out[path[n + 1]] = v[n + 1] /\ t.swaps = Append(u.swaps, e)
    <3>1. n \in 1..(Len(path) - 1) /\ \A j \in 1..(Len(path) - 1) : path[j] # path[j + 1]
      BY <1>1, <2>1
    <3>. HIDE DEF n
    <3>. QED BY <2>3, <2>4, <3>1, HopsGood
  <2>6. u.swaps \in Seq(SwapEvent)
    BY <2>4 DEF Good, Books, Chain
  <2>7. Last(t.swaps) = e
    <3> DEFINE l == u.swaps
    <3>1. l \in Seq(SwapEvent) /\ t.swaps = Append(l, e)
      BY <2>5, <2>6
    <3>. HIDE DEF l
    <3>2. Len(t.swaps) = Len(l) + 1 /\ t.swaps[Len(l) + 1] = e
      BY <3>1
    <3>. QED BY <3>2 DEF Last
  <2>8. Last(path) = path[n + 1]
    BY <2>1 DEF Last
  <2>9. Last(v) = v[n + 1]
    <3>1. v \in Seq(Nat) /\ Len(v) = Len(path)
      OBVIOUS
    <3>. QED BY <2>1, <3>1 DEF Last
  <2>. QED BY <2>5, <2>7, <2>8, <2>9
<1>. QED BY <1>1, <1>9, <1>10 DEF Sole, One

\* The router swaps the amounts it has found, for tokens or the native coin.
LEMMA SwapAmountsGood ==
  ASSUME NEW s, Good(s), NEW from \in Account, NEW c, c.path \in Seq(Token), Len(c.path) >= 2,
         c.to \in Holder, NEW v \in [1..Len(c.path) -> Nat], NEW t \in SwapAmounts(s, from, c, v)
  PROVE  /\ Good(t) /\ Quiet(s, t) /\ One(SwapAmounts(s, from, c, v)) /\ Uses(s, t, from)
         /\ Last(t.swaps).out[Last(c.path)] = Last(v)
         /\ c.exact = "in" => Last(v) >= c.limit
<1> DEFINE first == {c.path[1], c.path[2]}
           native == c.fn = "swapTokensForETH"
           paid == IF c.fn = "swapETHForTokens" THEN deposit(s, from, first, v[1])
                                                ELSE transferFrom(s, c.path[1], from, first, v[1])
           to == IF native THEN Router ELSE c.to
           gone(r) == IF native THEN withdraw(r, Router, c.to, Last(v)) ELSE {r}
<1>1. PICK q, r : q \in paid /\ r \in _swap(q, v, c.path, to) /\ t \in gone(r)
  <2>1. t \in UNION {gone(r) : r \in UNION {_swap(q, v, c.path, to) : q \in paid}}
    BY DEF SwapAmounts
  <2>. HIDE DEF gone, paid, to
  <2>2. PICK r : r \in UNION {_swap(q, v, c.path, to) : q \in paid} /\ t \in gone(r)
    BY <2>1
  <2>3. PICK q \in paid : r \in _swap(q, v, c.path, to)
    BY <2>2
  <2>. QED BY <2>2, <2>3
<1>2. /\ c.path[1] \in Token /\ c.path[2] \in Token /\ v[1] \in Nat /\ to \in Holder
      /\ Router \in Holder \ Pair
  BY Assets, Apart
<1>3. first \in Holder
  <2>1. c.path[1] # c.path[2]
    <3>1. \A i \in 1..(Len(c.path) - 1) : c.path[i] # c.path[i + 1]
      BY <1>1 DEF _swap
    <3>2. 1 \in 1..(Len(c.path) - 1) /\ 1 + 1 = 2
      OBVIOUS
    <3>. QED BY <3>1, <3>2
  <2>2. first \in Pair
    BY <1>2, <2>1, PairOf
  <2>. QED BY <2>2, Assets
<1>. HIDE DEF first, to
<1>4. Good(q) /\ Quiet(s, q)
  <2>1. CASE c.fn = "swapETHForTokens"
    BY <1>1, <1>2, <1>3, <2>1, WrapsGood
  <2>2. CASE c.fn # "swapETHForTokens"
    BY <1>1, <1>2, <1>3, <2>2, PaysGood
  <2>. QED BY <2>1, <2>2
<1>5. /\ Good(r) /\ Quiet(q, r) /\ \A u \in _swap(q, v, c.path, to) : u = r
      /\ Kept(q, r) /\ Last(r.swaps).out[Last(c.path)] = Last(v)
  BY <1>1, <1>2, <1>4, PathGood
<1>6. Good(t) /\ Quiet(r, t)
  <2>1. CASE native
    <3>1. Last(v) \in Nat
      <4>1. v \in Seq(Nat) /\ Len(v) = Len(c.path) /\ Len(v) \in 1..Len(c.path)
        OBVIOUS
      <4>. QED BY <4>1 DEF Last
    <3>. QED BY <1>1, <1>2, <1>5, <2>1, <3>1, UnwrapsGood
  <2>2. CASE ~native
    <3>1. t = r
      BY <1>1, <2>2
    <3>2. r \in Chain
      BY <1>5 DEF Good, Books
    <3>. QED BY <1>5, <3>1, <3>2, RestGood
  <2>. QED BY <2>1, <2>2
<1>7. Quiet(s, t)
  <2>1. Books(s) /\ Books(q) /\ Books(r) /\ Books(t)
    BY <1>4, <1>5, <1>6 DEF Good
  <2>2. Quiet(s, r)
    BY <1>4, <1>5, <2>1, QuietAgain
  <2>. QED BY <1>6, <2>1, <2>2, QuietAgain
<1>8. One(SwapAmounts(s, from, c, v))
  <2> DEFINE R(x) == _swap(x, v, c.path, to)
  <2>1. SwapAmounts(s, from, c, v) \subseteq UNION {gone(x) : x \in UNION {R(y) : y \in paid}}
    BY DEF SwapAmounts, first, to
  <2>2. One(paid)
    BY DepositOnce, TransferFromOnce
  <2>3. \A x : One(gone(x))
    <3>1. \A x : One({x})
      BY DEF One
    <3>. QED BY <3>1, WithdrawOnce
  <2>4. One(R(q)) /\ q \in paid
    BY <1>1, <1>5 DEF One
  <2>. HIDE DEF R, paid, gone
  <2>5. \A x \in UNION {R(y) : y \in paid} : x \in R(q)
    BY <2>2, <2>4 DEF One
  <2>. SUFFICES ASSUME NEW x \in SwapAmounts(s, from, c, v), NEW y \in SwapAmounts(s, from, c, v)
                PROVE  x = y
    BY DEF One
  <2>6. PICK x1 \in R(q) : x \in gone(x1)
    BY <2>1, <2>5
  <2>7. PICK y1 \in R(q) : y \in gone(y1)
    BY <2>1, <2>5
  <2>8. x1 = y1
    BY <2>4 DEF One
  <2>. QED BY <2>3, <2>6, <2>7, <2>8 DEF One
<1>9. Uses(s, q, from)
  <2>1. Listed(s)
    BY GoodListed
  <2>2. CASE c.fn = "swapETHForTokens"
    BY <1>1, <2>1, <2>2, DepositSame, SameKept, KeptUses
  <2>3. CASE c.fn # "swapETHForTokens"
    BY <1>1, <1>2, <2>1, <2>3, FromUses
  <2>. QED BY <2>2, <2>3
<1>10. Same(r, t) /\ Listed(t)
  <2>1. Listed(r)
    BY <1>5, GoodListed
  <2>2. CASE native
    BY <1>1, <2>1, <2>2, WithdrawSame
  <2>3. CASE ~native
    BY <1>1, <2>1, <2>3 DEF Same
  <2>. QED BY <2>2, <2>3
<1>11. Uses(s, t, from)
  <2>1. Uses(q, t, from)
    BY <1>5, <1>10, SameKept, KeptAgain, KeptUses
  <2>. QED BY <1>9, <2>1, GoodListed, UsesAgain
<1>12. Last(t.swaps).out[Last(c.path)] = Last(v)
  BY <1>5, <1>10 DEF Same
<1>13. c.exact = "in" => Last(v) >= c.limit
  BY DEF SwapAmounts
<1>. QED BY <1>6, <1>7, <1>8, <1>11, <1>12, <1>13

\* A swap by the router, for an exact amount in or out.
LEMMA SwapCallsGood ==
  ASSUME NEW s, Good(s), NEW from \in Account, NEW c, c.path \in Seq(Token), Len(c.path) >= 2,
         c.amount \in Nat, c.to \in Holder, NEW t \in Swap(s, from, c)
  PROVE  /\ Good(t) /\ Quiet(s, t) /\ One(Swap(s, from, c)) /\ Uses(s, t, from)
         /\ c.exact = "in" => /\ Last(t.swaps).out[Last(c.path)] \in Nat
                             /\ Last(t.swaps).out[Last(c.path)] >= c.limit
<1> DEFINE v == IF c.exact = "in" THEN getAmountsOut(s, c.amount, c.path)
                                  ELSE getAmountsIn(s, c.amount, c.path)
<1>1. v \in [1..Len(c.path) -> Nat]
  <2>1. Books(s)
    BY DEF Good
  <2>2. getAmountsOut(s, c.amount, c.path) \in [1..Len(c.path) -> Nat]
    BY <2>1, AmountsOutAre
  <2>3. getAmountsIn(s, c.amount, c.path) \in [1..Len(c.path) -> Nat]
    BY <2>1, AmountsInAre
  <2>. QED BY <2>2, <2>3
<1>2. Swap(s, from, c) = SwapAmounts(s, from, c, v)
  BY DEF Swap
<1>. HIDE DEF v
<1>3. Last(v) \in Nat
  <2>1. v \in Seq(Nat) /\ Len(v) = Len(c.path) /\ Len(v) \in 1..Len(c.path)
    BY <1>1
  <2>. QED BY <2>1 DEF Last
<1>. QED BY <1>1, <1>2, <1>3, SwapAmountsGood

\* Whatever call an account makes, the pairs stay good and keep their shares.
LEMMA CallsGood ==
  ASSUME NEW s, Good(s), NEW from \in Account, NEW c, ValidCall(c), NEW t \in Call(s, from, c)
  PROVE  Good(t) /\ SharesKept(s, t)
<1>1. Books(s) /\ from \in Holder \ Pair /\ from \in Holder /\ Pair \in SUBSET Holder
  BY AccountNoPair DEF Good
<1>2. ASSUME Good(t) /\ Quiet(s, t) PROVE Good(t) /\ SharesKept(s, t)
  BY <1>2, QuietShare
<1>3. CASE c.fn \in Swaps
  <2>1. c.path \in Seq(Token) /\ Len(c.path) >= 2 /\ c.amount \in Nat /\ c.to \in Holder /\ t \in Swap(s, from, c)
    BY <1>3 DEF ValidCall, Call, Swaps
  <2>. QED BY <1>2, <2>1, SwapCallsGood
<1>4. CASE c.fn = "approve"
  <2>1. c.asset \in Token \cup Pair /\ c.amount \in Nat /\ t \in approve(s, c.asset, from, c.amount)
    BY <1>4 DEF ValidCall, Call, Swaps
  <2>2. Books(t) /\ Moved(s, t) /\ t.bal = s.bal
    <3> DEFINE u == [s EXCEPT !.allow[c.asset][from] = c.amount]
    <3>1. t = u
      BY <2>1 DEF approve
    <3>2. Books(u) /\ Moved(s, u) /\ u.bal = s.bal
      BY <1>1, <2>1, Approves
    <3>. HIDE DEF u
    <3>. QED BY <3>1, <3>2
  <2>3. Good(t) /\ Quiet(s, t)
    BY <2>2, RestGood DEF Moved, Frame, Books
  <2>. QED BY <1>2, <2>3
<1>5. CASE c.fn = "transfer"
  <2>1. /\ c.asset \in Asset /\ c.amount \in Nat /\ c.to \in Holder
        /\ t \in transfer(s, c.asset, from, c.to, c.amount)
    BY <1>5 DEF ValidCall, Call, Swaps
  <2>. QED BY <1>1, <1>2, <2>1, TransfersGood
<1>6. CASE c.fn = "deposit"
  <2>1. c.amount \in Nat /\ t \in deposit(s, from, from, c.amount)
    BY <1>6 DEF ValidCall, Call, Swaps
  <2>. QED BY <1>1, <1>2, <2>1, WrapsGood
<1>7. CASE c.fn = "withdraw"
  <2>1. c.amount \in Nat /\ t \in withdraw(s, from, from, c.amount)
    BY <1>7 DEF ValidCall, Call, Swaps
  <2>. QED BY <1>1, <1>2, <2>1, UnwrapsGood
<1>8. CASE c.fn = "createToken"
  <2>1. c.asset \in Token /\ c.amount \in Nat /\ t \in createToken(s, c.asset, from, c.amount)
    BY <1>8 DEF ValidCall, Call, Swaps
  <2>2. Books(t) /\ Moved(s, t) /\ Fed(s, t, Pair)
    BY <1>1, <2>1, CreatesToken
  <2>. QED BY <1>2, <2>2, MovedGood
<1>9. CASE c.fn = "setFeeTo"
  <2>1. c.to \in Account \cup {Nobody} /\ t \in setFeeTo(s, from, c.to)
    BY <1>9 DEF ValidCall, Call, Swaps
  <2>. QED BY <1>2, <2>1, FeeToGood
<1>10. CASE c.fn \in {"addLiquidity", "addLiquidityETH"}
  <2>1. /\ {c.a, c.b} \subseteq Token /\ c.desired \in [{c.a, c.b} -> Nat] /\ c.to \in Holder
        /\ t \in addLiquidity(s, from, c)
    BY <1>10 DEF ValidCall, Call, Swaps
  <2>. QED BY <2>1, AddsGood
<1>11. CASE c.fn \in {"removeLiquidity", "removeLiquidityETH"}
  <2>1. c.pair \in Pair /\ c.amount \in Nat /\ c.to \in Holder /\ t \in removeLiquidity(s, from, c)
    BY <1>11 DEF ValidCall, Call, Swaps
  <2>. QED BY <2>1, RemovesGood
<1>12. CASE c.fn = "pairSwap"
  <2>1. /\ c.pair \in Pair /\ c.out \in [c.pair -> Nat] /\ c.pay \in [c.pair -> Nat]
        /\ t \in swap(s, c.pair, c.out, from, from, c.pay)
    BY <1>12 DEF ValidCall, Call, Swaps
  <2>2. from \notin Pair
    BY <1>1
  <2>. QED BY <1>1, <1>2, <2>1, <2>2, SwapsGood
<1>13. CASE c.fn = "skim"
  <2>1. c.pair \in Pair /\ t \in skim(s, c.pair, from)
    BY <1>13 DEF ValidCall, Call, Swaps
  <2>. QED BY <1>1, <1>2, <2>1, SkimsGood
<1>14. CASE c.fn = "sync"
  <2>1. c.pair \in Pair /\ t \in sync(s, c.pair)
    BY <1>14 DEF ValidCall, Call, Swaps
  <2>. QED BY <1>2, <2>1, SyncsGood
<1>15. CASE c.fn = "revert"
  BY <1>15 DEF Call, Swaps
<1>16. \/ c.fn \in Swaps \/ c.fn = "approve" \/ c.fn = "transfer" \/ c.fn = "deposit"
       \/ c.fn = "withdraw" \/ c.fn = "createToken" \/ c.fn = "setFeeTo"
       \/ c.fn \in {"addLiquidity", "addLiquidityETH"}
       \/ c.fn \in {"removeLiquidity", "removeLiquidityETH"}
       \/ c.fn = "pairSwap" \/ c.fn = "skim" \/ c.fn = "sync" \/ c.fn = "revert"
  BY DEF ValidCall
<1>. QED BY <1>3, <1>4, <1>5, <1>6, <1>7, <1>8, <1>9, <1>10, <1>11, <1>12, <1>13, <1>14, <1>15,
     <1>16

\* Whoever makes a call other than an approval gives of what it has allowed.
LEMMA CallsUse ==
  ASSUME NEW s, Good(s), NEW from \in Account, NEW c, ValidCall(c), c.fn # "approve",
         NEW t \in Call(s, from, c)
  PROVE  Uses(s, t, from)
<1>1. Listed(s)
  BY GoodListed
<1>2. ASSUME Same(s, t), Listed(t) PROVE Uses(s, t, from)
  BY <1>2, SameKept, KeptUses
<1>3. CASE c.fn \in Swaps
  <2>1. c.path \in Seq(Token) /\ Len(c.path) >= 2 /\ c.amount \in Nat /\ c.to \in Holder /\ t \in Swap(s, from, c)
    BY <1>3 DEF ValidCall, Call, Swaps
  <2>. QED BY <2>1, SwapCallsGood
<1>4. CASE c.fn = "transfer"
  <2>1. t \in transfer(s, c.asset, from, c.to, c.amount)
    BY <1>4 DEF Call, Swaps
  <2>. QED BY <1>1, <1>2, <2>1, TransferSame
<1>5. CASE c.fn = "deposit"
  <2>1. t \in deposit(s, from, from, c.amount)
    BY <1>5 DEF Call, Swaps
  <2>. QED BY <1>1, <1>2, <2>1, DepositSame
<1>6. CASE c.fn = "withdraw"
  <2>1. t \in withdraw(s, from, from, c.amount)
    BY <1>6 DEF Call, Swaps
  <2>. QED BY <1>1, <1>2, <2>1, WithdrawSame
<1>7. CASE c.fn = "createToken"
  <2> DEFINE b == [s.bal EXCEPT ![c.asset] = [s.bal[c.asset] EXCEPT ![from] = c.amount]]
  <2>1. t \in createToken(s, c.asset, from, c.amount)
    BY <1>7 DEF Call, Swaps
  <2>2. t = With1(s, "bal", b)
    BY <2>1 DEF createToken, With1
  <2>. HIDE DEF b
  <2>. QED BY <1>1, <1>2, <2>2, FieldSame
<1>8. CASE c.fn = "setFeeTo"
  <2> DEFINE to == c.to
  <2>1. t \in setFeeTo(s, from, c.to)
    BY <1>8 DEF Call, Swaps
  <2>2. t = With1(s, "feeTo", to)
    BY <2>1 DEF setFeeTo, With1
  <2>. HIDE DEF to
  <2>. QED BY <1>1, <1>2, <2>2, FieldSame
<1>9. CASE c.fn \in {"addLiquidity", "addLiquidityETH"}
  <2>1. /\ {c.a, c.b} \subseteq Token /\ c.desired \in [{c.a, c.b} -> Nat] /\ c.to \in Holder
        /\ t \in addLiquidity(s, from, c)
    BY <1>9 DEF ValidCall, Call, Swaps
  <2>. QED BY <2>1, AddsGood
<1>10. CASE c.fn \in {"removeLiquidity", "removeLiquidityETH"}
  <2>1. c.pair \in Pair /\ c.amount \in Nat /\ c.to \in Holder /\ t \in removeLiquidity(s, from, c)
    BY <1>10 DEF ValidCall, Call, Swaps
  <2>. QED BY <2>1, RemovesGood
<1>11. CASE c.fn = "pairSwap"
  <2>1. t \in swap(s, c.pair, c.out, from, from, c.pay)
    BY <1>11 DEF Call, Swaps
  <2>. QED BY <1>1, <2>1, SwapKept, KeptUses
<1>12. CASE c.fn = "skim"
  <2> DEFINE v == Deposited(s, c.pair)
  <2>1. t \in transferBoth(s, c.pair, c.pair, from, v)
    BY <1>12 DEF Call, Swaps, skim
  <2>. HIDE DEF v
  <2>. QED BY <1>1, <1>2, <2>1, BothSame
<1>13. CASE c.fn = "sync"
  <2>1. t = _update(s, c.pair)
    BY <1>13 DEF Call, Swaps, sync
  <2>. QED BY <1>1, <1>2, <2>1, UpdateSame
<1>14. CASE c.fn = "revert"
  BY <1>14 DEF Call, Swaps
<1>15. \/ c.fn \in Swaps \/ c.fn = "transfer" \/ c.fn = "deposit"
       \/ c.fn = "withdraw" \/ c.fn = "createToken" \/ c.fn = "setFeeTo"
       \/ c.fn \in {"addLiquidity", "addLiquidityETH"}
       \/ c.fn \in {"removeLiquidity", "removeLiquidityETH"}
       \/ c.fn = "pairSwap" \/ c.fn = "skim" \/ c.fn = "sync" \/ c.fn = "revert"
  BY DEF ValidCall
<1>. QED BY <1>3, <1>4, <1>5, <1>6, <1>7, <1>8, <1>9, <1>10, <1>11, <1>12, <1>13, <1>14, <1>15

\* An approval sets one allowance.
Sets(s, t, a, from, v) ==
  /\ Listed(t) /\ t.allPairs = s.allPairs /\ t.swaps = s.swaps
  /\ t.allow[a][from] = v
  /\ \A x \in Token \cup Pair, b \in Account : x # a \/ b # from => t.allow[x][b] = s.allow[x][b]

\* An approval sets the one allowance, and nothing else.
LEMMA ApprovesOne ==
  ASSUME NEW s, Listed(s), NEW a \in Token \cup Pair, NEW from \in Account, NEW v \in Nat,
         NEW t \in approve(s, a, from, v)
  PROVE  Sets(s, t, a, from, v)
<1> DEFINE l == [s.allow EXCEPT ![a] = [s.allow[a] EXCEPT ![from] = v]]
<1>1. t = [s EXCEPT !.allow = l]
  BY DEF approve
<1>2. s.allow \in [Token \cup Pair -> [Account -> Nat]]
  BY DEF Listed
<1>3. /\ l \in [Token \cup Pair -> [Account -> Nat]] /\ l[a][from] = v
      /\ \A x \in Token \cup Pair, b \in Account : x # a \/ b # from => l[x][b] = s.allow[x][b]
  BY <1>2
<1>. HIDE DEF l
<1>4. t.allow = l /\ t.allPairs = s.allPairs /\ t.swaps = s.swaps /\ DOMAIN t = DOMAIN s
  BY <1>1 DEF Listed
<1>. QED BY <1>3, <1>4 DEF Listed, Sets

\* A call has one outcome at most, ...
LEMMA CallOnce ==
  ASSUME NEW s, Good(s), NEW from \in Account, NEW c, ValidCall(c)
  PROVE  One(Call(s, from, c))
<1>1. CASE c.fn \in Swaps
  <2>. SUFFICES ASSUME NEW t \in Swap(s, from, c) PROVE One(Swap(s, from, c))
    BY <1>1 DEF Call, Swaps, One
  <2>1. c.path \in Seq(Token) /\ Len(c.path) >= 2 /\ c.amount \in Nat /\ c.to \in Holder
    BY <1>1 DEF ValidCall, Swaps
  <2>. QED BY <2>1, SwapCallsGood
<1>2. CASE c.fn = "approve"
  BY <1>2 DEF Call, Swaps, approve, One
<1>3. CASE c.fn = "transfer"
  BY <1>3, TransferOnce DEF Call, Swaps
<1>4. CASE c.fn = "deposit"
  BY <1>4, DepositOnce DEF Call, Swaps
<1>5. CASE c.fn = "withdraw"
  BY <1>5, WithdrawOnce DEF Call, Swaps
<1>6. CASE c.fn = "createToken"
  BY <1>6 DEF Call, Swaps, createToken, One
<1>7. CASE c.fn = "setFeeTo"
  BY <1>7 DEF Call, Swaps, setFeeTo, One
<1>8. CASE c.fn \in {"addLiquidity", "addLiquidityETH"}
  BY <1>8, AddOnce DEF Call, Swaps
<1>9. CASE c.fn \in {"removeLiquidity", "removeLiquidityETH"}
  BY <1>9, RemoveOnce DEF Call, Swaps
<1>10. CASE c.fn = "pairSwap"
  BY <1>10, SwapOnce DEF Call, Swaps
<1>11. CASE c.fn = "skim"
  BY <1>11, BothOnce DEF Call, Swaps, skim
<1>12. CASE c.fn = "sync"
  BY <1>12 DEF Call, Swaps, sync, One
<1>13. CASE c.fn = "revert"
  BY <1>13 DEF Call, Swaps, One
<1>14. \/ c.fn \in Swaps \/ c.fn = "approve" \/ c.fn = "transfer" \/ c.fn = "deposit"
       \/ c.fn = "withdraw" \/ c.fn = "createToken" \/ c.fn = "setFeeTo"
       \/ c.fn \in {"addLiquidity", "addLiquidityETH"}
       \/ c.fn \in {"removeLiquidity", "removeLiquidityETH"}
       \/ c.fn = "pairSwap" \/ c.fn = "skim" \/ c.fn = "sync" \/ c.fn = "revert"
  BY DEF ValidCall
<1>. QED BY <1>1, <1>2, <1>3, <1>4, <1>5, <1>6, <1>7, <1>8, <1>9, <1>10, <1>11, <1>12, <1>13,
     <1>14

\* ... so that a transaction has exactly one: that of the call or the revert.
LEMMA ExecutedOnce ==
  ASSUME NEW s, Good(s), NEW from, NEW c
  PROVE  \E e : Executed(s, from, c) = {e}
<1> DEFINE T == IF from \in Account /\ ValidCall(c) THEN Call(s, from, c) ELSE {}
<1>1. Executed(s, from, c) = Outcomes(s, T)
  BY DEF Executed
<1>2. One(T)
  BY CallOnce DEF One
<1>. HIDE DEF T
<1>3. CASE T = {}
  BY <1>1, <1>3 DEF Outcomes
<1>4. CASE T # {}
  <2>1. PICK t : T = {t}
    BY <1>2, <1>4 DEF One
  <2>. QED BY <1>1, <1>4, <2>1 DEF Outcomes
<1>. QED BY <1>3, <1>4

\* A transaction, also one that reverts.
LEMMA ExecutedGood ==
  ASSUME NEW s, Good(s), NEW from, NEW c, NEW e \in Executed(s, from, c)
  PROVE  Good(e.chain) /\ SharesKept(s, e.chain)
<1> DEFINE T == IF from \in Account /\ ValidCall(c) THEN Call(s, from, c) ELSE {}
<1>1. PICK t : /\ t = s \/ t \in T
               /\ e.chain = [t EXCEPT !.block = @ + 1]
  <2>1. e \in Outcomes(s, T)
    BY DEF Executed
  <2>. HIDE DEF T
  <2>. QED BY <2>1 DEF Outcomes
<1>2. Good(t) /\ SharesKept(s, t)
  <2>1. CASE t = s
    <3>1. s \in Chain
      BY DEF Good, Books
    <3>2. Quiet(s, s)
      BY <3>1, RestGood
    <3>. QED BY <2>1, <3>2, QuietShare
  <2>2. CASE t \in T
    BY <2>2, CallsGood
  <2>. QED BY <1>1, <2>1, <2>2
<1>3. Good(e.chain) /\ Quiet(t, e.chain)
  BY <1>1, <1>2, BlockGood
<1>4. Books(s) /\ Books(t) /\ Books(e.chain)
  BY <1>2, <1>3 DEF Good
<1>. QED BY <1>2, <1>3, <1>4, ShareThenQuiet

\* What a transaction does to the allowances and to the list of pairs, and what
\* a swap for an exact amount yields.
LEMMA ExecutedUses ==
  ASSUME NEW s, Good(s), NEW from, NEW c, NEW e \in Executed(s, from, c)
  PROVE  /\ c.fn # "approve" => Uses(s, e.chain, from)
         /\ c.fn = "approve" => Sets(s, e.chain, c.asset, from, c.amount) \/ Uses(s, e.chain, from)
         /\ c.fn = "approve" /\ e.ok =>
              /\ Sets(s, e.chain, c.asset, from, c.amount)
              /\ c.asset \in Token \cup Pair /\ c.amount \in Nat /\ from \in Account
         /\ e.ok /\ c.fn \in Swaps /\ c.exact = "in" =>
              /\ Last(e.chain.swaps).out[Last(c.path)] \in Nat
              /\ Last(e.chain.swaps).out[Last(c.path)] >= c.limit
<1> DEFINE T == IF from \in Account /\ ValidCall(c) THEN Call(s, from, c) ELSE {}
           after(t) == With1(t, "block", t.block + 1)
<1>1. \/ ~e.ok /\ e.chain = after(s)
      \/ e.ok /\ \E t \in T : e.chain = after(t)
  <2>1. e \in Outcomes(s, T)
    BY DEF Executed
  <2>. HIDE DEF T
  <2>2. after(s) = [s EXCEPT !.block = @ + 1] /\ \A t \in T : after(t) = [t EXCEPT !.block = @ + 1]
    BY DEF With1
  <2>. HIDE DEF after
  <2>3. CASE T = {}
    <3>1. e = [ok |-> FALSE, chain |-> [s EXCEPT !.block = @ + 1]]
      BY <2>1, <2>3 DEF Outcomes
    <3>. QED BY <2>2, <3>1
  <2>4. CASE T # {}
    <3>1. PICK t \in T : e = [ok |-> TRUE, chain |-> [t EXCEPT !.block = @ + 1]]
      BY <2>1, <2>4 DEF Outcomes
    <3>2. e.ok /\ e.chain = after(t)
      BY <2>2, <3>1
    <3>. QED BY <3>2
  <2>. QED BY <2>3, <2>4
<1>2. Listed(s)
  BY GoodListed
<1>3. ASSUME NEW t, Listed(t) PROVE Same(t, after(t)) /\ Listed(after(t))
  <2> DEFINE n == t.block + 1
  <2>. HIDE DEF n
  <2>1. Same(t, With1(t, "block", n)) /\ Listed(With1(t, "block", n))
    BY <1>3, FieldSame
  <2>. QED BY <2>1 DEF n
<1>. HIDE DEF after
<1>4. CASE ~e.ok /\ e.chain = after(s)
  <2>1. Uses(s, e.chain, from)
    BY <1>2, <1>3, <1>4, SameKept, KeptUses
  <2>. QED BY <1>4, <2>1
<1>5. ASSUME NEW t \in T, e.ok, e.chain = after(t)
      PROVE  /\ c.fn # "approve" => Uses(s, e.chain, from)
             /\ c.fn = "approve" =>
                  /\ Sets(s, e.chain, c.asset, from, c.amount)
                  /\ c.asset \in Token \cup Pair /\ c.amount \in Nat /\ from \in Account
             /\ c.fn \in Swaps /\ c.exact = "in" =>
                  /\ Last(e.chain.swaps).out[Last(c.path)] \in Nat
                  /\ Last(e.chain.swaps).out[Last(c.path)] >= c.limit
  <2>1. from \in Account /\ ValidCall(c) /\ t \in Call(s, from, c)
    OBVIOUS
  <2>. HIDE DEF T
  <2>2. Good(t) /\ Listed(t)
    BY <2>1, CallsGood, GoodListed
  <2>3. Same(t, e.chain) /\ Listed(e.chain)
    BY <1>3, <1>5, <2>2
  <2>4. CASE c.fn # "approve"
    <3>1. Uses(s, t, from) /\ Uses(t, e.chain, from)
      BY <2>1, <2>3, <2>4, CallsUse, SameKept, KeptUses
    <3>2. Uses(s, e.chain, from)
      BY <1>2, <3>1, UsesAgain
    <3>3. ASSUME c.fn \in Swaps, c.exact = "in"
          PROVE  /\ Last(t.swaps).out[Last(c.path)] \in Nat
                 /\ Last(t.swaps).out[Last(c.path)] >= c.limit
      <4>1. c.path \in Seq(Token) /\ Len(c.path) >= 2 /\ c.amount \in Nat /\ c.to \in Holder /\ t \in Swap(s, from, c)
        BY <2>1, <3>3 DEF ValidCall, Call, Swaps
      <4>. QED BY <2>1, <3>3, <4>1, SwapCallsGood
    <3>. QED BY <2>3, <2>4, <3>2, <3>3 DEF Same
  <2>5. CASE c.fn = "approve"
    <3>1. c.asset \in Token \cup Pair /\ c.amount \in Nat /\ t \in approve(s, c.asset, from, c.amount)
      BY <2>1, <2>5 DEF ValidCall, Call, Swaps
    <3>2. Sets(s, t, c.asset, from, c.amount)
      BY <1>2, <2>1, <3>1, ApprovesOne
    <3>3. Sets(s, e.chain, c.asset, from, c.amount)
      BY <2>3, <3>2 DEF Sets, Same
    <3>4. c.fn \notin Swaps
      BY <2>5 DEF Swaps
    <3>. QED BY <2>1, <2>5, <3>1, <3>3, <3>4
  <2>. QED BY <2>4, <2>5
<1>. HIDE DEF T
<1>. QED BY <1>1, <1>4, <1>5

---------------------------------------------------------------------------
(* The programs *)

\* The contracts after their deployment, ...
LEMMA DeploymentGood ==
  Good(Deployed(Deployer, Balance0))
<1> DEFINE s == Deployed(Deployer, Balance0)
           b == [a \in Asset |-> [h \in Holder |-> IF h \in Account /\ a \in {ECY} \cup Token
                                                   THEN Balance0[a][h] ELSE 0]]
<1>1. Balance0 \in [{ECY} \cup Token -> [Account -> Nat]] /\ Deployer \in Account
  BY AppAssumption
<1>2. b \in [Asset -> [Holder -> Nat]]
  BY <1>1
<1>3. /\ s.bal = b
      /\ s.reserve = [p \in Pair |-> [t \in p |-> 0]]
      /\ s.supply = [p \in Pair |-> 0] /\ s.kLast = [p \in Pair |-> 0]
      /\ s.mark = [p \in Pair |-> [k |-> 0, supply |-> 0]]
  BY DEF Deployed
<1>4. \A p \in Pair, h \in Holder : b[p][h] = 0 /\ p \in Asset
  <2>1. \A p \in Pair : p \in Asset /\ p \notin {ECY} \cup Token
    BY Assets, Apart
  <2>. QED BY <2>1
<1>5. s \in Chain
  <2>1. s.allow \in [Token \cup Pair -> [Account -> Nat]]
    BY DEF Deployed
  <2>2. s.reserve \in [Pair -> PairAmounts]
    BY <1>3 DEF PairAmounts
  <2>3. s.supply \in [Pair -> Nat] /\ s.kLast \in [Pair -> Nat] /\ s.mark \in [Pair -> [k : Nat, supply : Nat]]
    BY <1>3
  <2>4. s.feeTo \in Account \cup {Nobody} /\ s.feeToSetter \in Account /\ s.block \in Nat
    BY <1>1 DEF Deployed
  <2>5. s.allPairs \in Seq(Pair) /\ s.swaps \in Seq(SwapEvent)
    BY DEF Deployed
  <2>6. s = [bal |-> s.bal, allow |-> s.allow, reserve |-> s.reserve, supply |-> s.supply,
             kLast |-> s.kLast, feeTo |-> s.feeTo, feeToSetter |-> s.feeToSetter,
             allPairs |-> s.allPairs, swaps |-> s.swaps, block |-> s.block, mark |-> s.mark]
    BY DEF Deployed
  <2>. HIDE DEF s, b
  <2>. QED BY <1>2, <1>3, <2>1, <2>2, <2>3, <2>4, <2>5, <2>6 DEF Chain
<1>. HIDE DEF s, b
<1>6. Books(s)
  <2>1. \A p \in Pair : s.reserve[p] \in [p -> Nat]
    BY <1>3
  <2>2. ASSUME NEW p \in Pair PROVE Backs(s.bal[p], s.supply[p])
    <3>0. p \in Asset
      BY Assets
    <3>1. b[p] \in [Holder -> Nat]
      BY <1>2, <3>0
    <3>2. \A h \in Holder : b[p][h] = 0
      BY <1>4
    <3>3. s.supply[p] = 0 /\ s.bal[p] = b[p]
      BY <1>3
    <3>4. Backs(b[p], 0)
      BY <3>1, <3>2, NothingBacks
    <3>. QED BY <3>3, <3>4
  <2>. QED BY <1>5, <2>1, <2>2 DEF Books
<1>7. ASSUME NEW p \in Pair PROVE Covered(s, p) /\ Marked(s, p)
  <2>1. \A x \in p : s.bal[x][p] \in Nat /\ s.reserve[p][x] = 0
    BY <1>3, <1>6, PairBalance
  <2>2. K(s, p) \in Nat
    BY <1>6, Numbers
  <2>3. s.supply[p] = 0 /\ s.kLast[p] = 0 /\ s.mark[p].k = 0 /\ s.mark[p].supply = 0
    BY <1>3
  <2>. QED BY <2>1, <2>2, <2>3 DEF Covered, Marked
<1>. QED BY <1>6, <1>7 DEF Good, s

\* Where only pages send, an allowance is none or without a limit.
Level(s) == \A x \in Token \cup Pair, a \in Account : s.allow[x][a] \in {0, Unlimited}

\* A call that leaves them so.
Calm(c) == c.fn = "approve" => c.amount \in {0, Unlimited}

\* A transaction of an account that approves all or nothing.
LEMMA CalmLevel ==
  ASSUME NEW s, Good(s), Level(s), NEW from, NEW c, Calm(c), NEW e \in Executed(s, from, c)
  PROVE  Level(e.chain) /\ Len(s.allPairs) <= Len(e.chain.allPairs)
<1>1. CASE Uses(s, e.chain, from)
  <2>1. ASSUME NEW x \in Token \cup Pair, NEW a \in Account PROVE e.chain.allow[x][a] \in {0, Unlimited}
    <3>1. e.chain.allow[x][a] \in Nat /\ s.allow[x][a] \in {0, Unlimited} /\ Unlimited \in Nat
      BY <1>1, ContractsAssumption DEF Uses, Listed, Level
    <3>2. \/ e.chain.allow[x][a] = s.allow[x][a]
          \/ s.allow[x][a] # Unlimited /\ e.chain.allow[x][a] <= s.allow[x][a]
      BY <1>1 DEF Uses
    <3>. QED BY <3>1, <3>2
  <2>. QED BY <1>1, <2>1 DEF Level, Uses
<1>2. CASE c.fn = "approve" /\ Sets(s, e.chain, c.asset, from, c.amount)
  <2>1. ASSUME NEW x \in Token \cup Pair, NEW a \in Account PROVE e.chain.allow[x][a] \in {0, Unlimited}
    BY <1>2 DEF Sets, Level, Calm
  <2>2. e.chain.allPairs = s.allPairs /\ Len(s.allPairs) \in Nat
    BY <1>2, GoodListed DEF Sets, Listed
  <2>. QED BY <2>1, <2>2 DEF Level
<1>. QED BY <1>1, <1>2, ExecutedUses

\* What the calls that come before a program begins keep, ...
LEMMA AfterCallsKeep ==
  ASSUME NEW S, \A u \in S : Good(u), NEW s \in S, NEW calls, Len(calls) \in Nat,
         \A i \in 1..Len(calls), u \in S : \A e \in Executed(u, calls[i][1], calls[i][2]) : e.chain \in S
  PROVE  AfterCalls(s, calls) \in S
<1> DEFINE n == Len(calls)
           next(i, u) == Only({e.chain : e \in Executed(u, calls[i][1], calls[i][2])})
           Eq(f) == f = [i \in 0..n |-> IF i = 0 THEN s ELSE next(i, f[i - 1])]
           after == CHOOSE f : Eq(f)
<1>1. AfterCalls(s, calls) = after[n]
  BY DEF AfterCalls
<1>2. n \in Nat
  OBVIOUS
<1>3. ASSUME NEW i \in 1..n, NEW u \in S
      PROVE  next(i, u) \in S
  <2>1. PICK e : Executed(u, calls[i][1], calls[i][2]) = {e}
    BY ExecutedOnce
  <2>2. e.chain \in S
    BY <2>1
  <2>3. next(i, u) = e.chain
    <3>1. next(i, u) = Only({e.chain})
      BY <2>1
    <3>2. Only({e.chain}) = e.chain
      BY DEF Only
    <3>. QED BY <3>1, <3>2
  <2>. HIDE DEF next
  <2>. QED BY <2>2, <2>3
<1>4. s \in S
  OBVIOUS
<1>. HIDE DEF next, n
<1>5. \E f : Eq(f)
  <2> DEFINE G == [w \in (1..n) \X S |-> next(w[1], w[2])]
  <2>1. G \in [(1..n) \X S -> S]
    <3>. SUFFICES ASSUME NEW i \in 1..n, NEW u \in S PROVE next(i, u) \in S
      OBVIOUS
    <3>. QED BY <1>3
  <2>2. \A i \in 1..n, u \in S : G[<<i, u>>] = next(i, u)
    OBVIOUS
  <2>. HIDE DEF G
  <2>4. PICK h \in [0..n -> S] : h[0] = s /\ \A i \in 1..n : h[i] = G[<<i, h[i - 1]>>]
    <3>1. Stepping(n, S, s, G)
      BY <1>2, <1>4, <2>1 DEF Stepping
    <3>2. PICK h : Follows(n, S, s, G, h)
      BY <3>1, Recursion
    <3>. QED BY <3>2 DEF Follows
  <2>5. \A i \in 0..n : h[i] = IF i = 0 THEN s ELSE next(i, h[i - 1])
    <3>. SUFFICES ASSUME NEW i \in 0..n, i # 0 PROVE h[i] = next(i, h[i - 1])
      BY <2>4
    <3>1. i \in 1..n /\ i - 1 \in 0..n
      BY <1>2
    <3>2. h[i - 1] \in S
      BY <2>4, <3>1
    <3>. QED BY <2>2, <2>4, <3>1, <3>2
  <2>6. h = [i \in 0..n |-> h[i]]
    BY <2>4
  <2>7. Eq(h)
    BY <2>5, <2>6
  <2>. QED BY <2>7
<1>6. Eq(after)
  <2>. HIDE DEF Eq
  <2>. QED BY <1>5
<1>. HIDE DEF after
<1>7. after[0] = s /\ \A i \in 1..n : after[i] = next(i, after[i - 1])
  <2>1. \A i \in 0..n : after[i] = IF i = 0 THEN s ELSE next(i, after[i - 1])
    BY <1>6
  <2>2. 0 \in 0..n /\ \A i \in 1..n : i \in 0..n /\ i # 0
    BY <1>2
  <2>. QED BY <2>1, <2>2
<1>8. after[0] \in S /\ \A i \in 1..n : after[i - 1] \in S => after[i] \in S
  BY <1>3, <1>4, <1>7
<1>9. \A i \in 0..n : after[i] \in S
  BY <1>2, <1>8, KeptByAll
<1>10. after[n] \in S
  BY <1>2, <1>9
<1>. QED BY <1>1, <1>10

\* These calls are a sequence of calm ones.
LEMMA CallsInARow ==
  ASSUME NEW p, NEW calls \in Before(p)
  PROVE  \E S : calls \in Seq(S) /\ \A w \in S : Calm(w[2])
<1> DEFINE IsCalm(s) == \E S : s \in Seq(S) /\ \A w \in S : Calm(w[2])
<1>1. \A x, v : v \in {0, Unlimited} => Calm(Approve(x, v))
  BY DEF Approve, Calm
<1>2. /\ \A t, v, w : Calm(AddETH(t, v, w))
      /\ \A x, a, v : Calm(Send(x, a, v))
      /\ \A a, m : Calm(MarketCall(a, m))
  BY DEF AddETH, Send, MarketCall, Calm
<1>0. ASSUME NEW s, NEW S, s \in Seq(S), \A w \in S : Calm(w[2]) PROVE IsCalm(s)
  BY <1>0
<1>3. ASSUME NEW s, NEW t, IsCalm(s), IsCalm(t) PROVE IsCalm(s \o t)
  <2>1. PICK S : s \in Seq(S) /\ \A w \in S : Calm(w[2])
    BY <1>3
  <2>2. PICK T : t \in Seq(T) /\ \A w \in T : Calm(w[2])
    BY <1>3
  <2>3. s \o t \in Seq(S \cup T)
    BY <2>1, <2>2
  <2>. QED BY <2>1, <2>2, <2>3
<1>4. ASSUME NEW s, IsCalm(s), NEW x, Calm(x[2]) PROVE IsCalm(Append(s, x))
  <2>1. PICK S : s \in Seq(S) /\ \A w \in S : Calm(w[2])
    BY <1>4
  <2>2. s \in Seq(S \cup {x})
    BY <2>1
  <2>3. Append(s, x) \in Seq(S \cup {x})
    BY <2>2
  <2>. QED BY <1>4, <2>1, <2>3
<1>5. ASSUME NEW x, NEW y, Calm(x[2]), Calm(y[2]) PROVE IsCalm(<<x, y>>)
  <2> DEFINE q == <<x, y>>
             S == {x, y}
  <2>1. q \in Seq(S)
    OBVIOUS
  <2>2. \A w \in S : Calm(w[2])
    BY <1>5
  <2>. HIDE DEF q, S, IsCalm
  <2>3. IsCalm(q)
    BY <1>0, <2>1, <2>2
  <2>. QED BY <2>3 DEF q
<1>6. ASSUME NEW x, NEW y, NEW z, Calm(x[2]), Calm(y[2]), Calm(z[2]) PROVE IsCalm(<<x, y, z>>)
  <2> DEFINE q == <<x, y, z>>
             S == {x, y, z}
  <2>1. q \in Seq(S)
    OBVIOUS
  <2>2. \A w \in S : Calm(w[2])
    BY <1>6
  <2>. HIDE DEF q, S, IsCalm
  <2>3. IsCalm(q)
    BY <1>0, <2>1, <2>2
  <2>. QED BY <2>3 DEF q
<1>7. ASSUME NEW x, NEW y, NEW z, NEW u, Calm(x[2]), Calm(y[2]), Calm(z[2]), Calm(u[2])
      PROVE  IsCalm(<<x, y, z, u>>)
  <2> DEFINE q == <<x, y, z, u>>
             S == {x, y, z, u}
  <2>1. q \in Seq(S)
    OBVIOUS
  <2>2. \A w \in S : Calm(w[2])
    BY <1>7
  <2>. HIDE DEF q, S, IsCalm
  <2>3. IsCalm(q)
    BY <1>0, <2>1, <2>2
  <2>. QED BY <2>3 DEF q
<1>8. IsCalm(<< >>)
  <2> DEFINE q == << >>
  <2>1. q \in Seq({}) /\ \A w \in {} : Calm(w[2])
    OBVIOUS
  <2>. HIDE DEF q, IsCalm
  <2>2. IsCalm(q)
    BY <1>0, <2>1
  <2>. QED BY <2>2 DEF q
<1>. HIDE DEF IsCalm
<1>9. \A a, c : <<a, c>>[2] = c
  OBVIOUS
<1>10. IsCalm(OpenMarket)
  BY <1>1, <1>2, <1>5, <1>9 DEF OpenMarket
<1>11. IsCalm(Everything(Trader))
  BY <1>1, <1>7, <1>9 DEF Everything
<1>12. IsCalm(Opening)
  BY <1>3, <1>10, <1>11 DEF Opening
<1>13. ASSUME NEW a, NEW n \in {0, Unlimited} PROVE IsCalm(Opening \o WithPosition(a, n))
  <2>1. IsCalm(WithPosition(a, n))
    BY <1>1, <1>2, <1>6, <1>9 DEF WithPosition
  <2>. QED BY <1>3, <1>12, <2>1
<1>14. \/ calls = << >> \/ calls = Opening
       \/ \E m : calls = Append(Opening, <<Trader, MarketCall(Trader, m)>>)
       \/ \E a : \E n \in {0, Unlimited} : calls = Opening \o WithPosition(a, n)
  <2>1. CASE p \in {"pool", "positions"}
    BY <2>1 DEF Before
  <2>2. CASE p \in {"farm", "tokens", "portfolio"}
    BY <2>2 DEF Before
  <2>3. CASE p = "scripts"
    BY <2>3 DEF Before
  <2>4. CASE p = "charts"
    <3> DEFINE m == <<"Sell", Depth \div 3>>
    <3>1. Before(p) = {Append(Opening, <<Trader, MarketCall(Trader, m)>>)}
      BY <2>4 DEF Before
    <3>. HIDE DEF m
    <3>. QED BY <3>1
  <2>5. CASE p \notin {"pool", "positions", "farm", "tokens", "portfolio", "scripts", "charts"}
    <3>1. Before(p) = {Opening}
      BY <2>5 DEF Before
    <3>. QED BY <3>1
  <2>. QED BY <2>1, <2>2, <2>3, <2>4, <2>5
<1>15. IsCalm(calls)
  <2>1. ASSUME NEW m, calls = Append(Opening, <<Trader, MarketCall(Trader, m)>>) PROVE IsCalm(calls)
    BY <1>2, <1>4, <1>9, <1>12, <2>1
  <2>2. ASSUME NEW a, NEW n \in {0, Unlimited}, calls = Opening \o WithPosition(a, n) PROVE IsCalm(calls)
    BY <1>13, <2>2
  <2>. QED BY <1>8, <1>12, <1>14, <2>1, <2>2
<1>. QED BY <1>15 DEF IsCalm

\* The chain a program begins with.
LEMMA InitGood ==
  Init => Good(chain) /\ Level(chain)
<1>. SUFFICES ASSUME Init PROVE Good(chain) /\ Level(chain)
  OBVIOUS
<1> DEFINE S == {u \in Chain : Good(u) /\ Level(u)}
           s == Deployed(Deployer, Balance0)
<1>1. PICK calls \in Before(program) : chain = AfterCalls(s, calls)
  BY DEF Init, Chains
<1>2. PICK C : calls \in Seq(C) /\ \A w \in C : Calm(w[2])
  BY CallsInARow
<1>3. Len(calls) \in Nat /\ \A i \in 1..Len(calls) : Calm(calls[i][2])
  BY <1>2
<1>4. s \in S
  <2>1. Good(s)
    BY DeploymentGood
  <2>2. \A x \in Token \cup Pair, a \in Account : s.allow[x][a] = 0
    BY DEF Deployed
  <2>. QED BY <2>1, <2>2 DEF Level, Good, Books
<1>. HIDE DEF s
<1>5. ASSUME NEW i \in 1..Len(calls), NEW u \in S, NEW e \in Executed(u, calls[i][1], calls[i][2])
      PROVE  e.chain \in S
  <2>1. Good(e.chain) /\ Level(e.chain)
    BY <1>3, ExecutedGood, CalmLevel
  <2>. QED BY <2>1 DEF Good, Books
<1>6. AfterCalls(s, calls) \in S
  <2>1. \A u \in S : Good(u)
    OBVIOUS
  <2>. HIDE DEF S
  <2>. QED BY <1>3, <1>4, <1>5, <2>1, AfterCallsKeep
<1>. QED BY <1>1, <1>6

OneCall(s, t) == s = t \/ \E from, c : \E e \in Executed(s, from, c) : t = e.chain

\* The pages, and the price service, only read the chain.
LEMMA PagesOnlyRead ==
  /\ SwapCardStep => UNCHANGED chain
  /\ AddingStep => UNCHANGED chain
  /\ RemovingStep => UNCHANGED chain
  /\ TransferStep => UNCHANGED chain
<1>1. \A keys : Answer(keys) => UNCHANGED chain
  BY DEF Answer
<1>2. SwapCardStep => UNCHANGED chain
  <2>1. \A c : SetCard(c) => UNCHANGED chain
    BY DEF SetCard
  <2>2. TypeAmount \/ UseBalance \/ flip \/ PickIn \/ PickOut => UNCHANGED chain
    BY <2>1 DEF TypeAmount, UseBalance, flip, PickIn, PickOut
  <2>3. handleApprove \/ handleSwap \/ SwapConfirmed => UNCHANGED chain
    BY DEF handleApprove, handleSwap, SwapConfirmed
  <2>4. setSlippagePreset \/ setCustomSlippage \/ setDeadlineMinutes => UNCHANGED chain
    BY DEF setSlippagePreset, setCustomSlippage, setDeadlineMinutes, SetSettings, hookVars
  <2>. QED BY <1>1, <2>2, <2>3, <2>4 DEF SwapCardStep
<1>3. AddingStep => UNCHANGED chain
  <2>1. handleAmountAChange \/ handleAmountBChange \/ UsePoolBalance \/ PickToken => UNCHANGED chain
    BY DEF handleAmountAChange, handleAmountBChange, UsePoolBalance, PickToken, FormOnly
  <2>2. handlePoolApprove \/ handleAddLiquidity \/ PoolConfirmed => UNCHANGED chain
    BY DEF handlePoolApprove, handleAddLiquidity, PoolConfirmed
  <2>. QED BY <1>1, <2>1, <2>2 DEF AddingStep, hookVars
<1>4. RemovingStep => UNCHANGED chain
  <2>1. OpenPosition \/ MoveSlider \/ handleRemoveLiquidity \/ lpAllowanceCheckFails => UNCHANGED chain
    BY DEF OpenPosition, MoveSlider, handleRemoveLiquidity, lpAllowanceCheckFails, hookVars
  <2>2. lpAllowanceCheck \/ PoolConfirmed => UNCHANGED chain
    BY DEF lpAllowanceCheck, PoolConfirmed
  <2>. QED BY <2>1, <2>2 DEF RemovingStep, hookVars
<1>5. TransferStep => UNCHANGED chain
  <2>1. \A f : SetForm(f) => UNCHANGED chain
    BY DEF SetForm
  <2>2. SetTab \/ TypeTransfer => UNCHANGED chain
    BY <2>1 DEF SetTab, TypeTransfer
  <2>3. handleSend \/ TransferConfirmed \/ copyAddress \/ CopiedEnds => UNCHANGED chain
    BY DEF handleSend, TransferConfirmed, copyAddress, CopiedEnds, hookVars
  <2>. QED BY <1>1, <2>2, <2>3 DEF TransferStep
<1>. QED BY <1>2, <1>3, <1>4, <1>5

\* So do the lists.
LEMMA ListsOnlyRead ==
  FarmStep \/ TokensStep \/ PortfolioStep \/ ChartsStep => UNCHANGED chain
<1>1. FarmStep => UNCHANGED chain
  BY DEF FarmStep, fetchFarms, hookVars
<1>2. \A f : FailSweep(f) => UNCHANGED chain
  BY DEF FailSweep, hookVars
<1>3. TokensStep => UNCHANGED chain
  <2>1. fetchTokens => UNCHANGED chain
    BY DEF fetchTokens, hookVars
  <2>2. \A f : FinishTokens(f) => UNCHANGED chain
    BY DEF FinishTokens, hookVars
  <2>. QED BY <1>2, <2>1, <2>2 DEF TokensStep, hookVars
<1>4. PortfolioStep => UNCHANGED chain
  <2>1. fetchAll => UNCHANGED chain
    BY DEF fetchAll, hookVars
  <2>2. \A f : ShowBalances(f) \/ ShowSwaps(f) => UNCHANGED chain
    BY DEF ShowBalances, ShowSwaps, hookVars
  <2>3. \A keys : Answer(keys) => UNCHANGED chain
    BY DEF Answer
  <2>. QED BY <1>2, <2>1, <2>2, <2>3 DEF PortfolioStep, hookVars
<1>5. ChartsStep => UNCHANGED chain
  <2>1. KnowPair \/ Tick \/ selectInterval => UNCHANGED chain
    BY DEF KnowPair, Tick, selectInterval, hookVars
  <2>2. \A n : fetchReserves(n) \/ fetchTrades(n) => UNCHANGED chain
    BY DEF fetchReserves, fetchTrades, hookVars
  <2>. QED BY <2>1, <2>2 DEF ChartsStep
<1>. QED BY <1>1, <1>3, <1>4, <1>5

\* Whatever step is taken, of a page, a script or a trader: the chain stays as it
\* is, or one transaction is executed.
LEMMA OnlyCalls ==
  ASSUME [Next]_vars
  PROVE  OneCall(chain, chain')
<1>1. CASE SwapPage
  BY <1>1, PagesOnlyRead DEF SwapPage, OneCall
<1>2. CASE PoolPageRuns
  BY <1>2, PagesOnlyRead DEF PoolPageRuns, OneCall
<1>3. CASE TransferPageRuns
  BY <1>3, PagesOnlyRead DEF TransferPageRuns, OneCall
<1>4. CASE ListPage
  BY <1>4, ListsOnlyRead DEF ListPage, OneCall
<1>5. CASE ChartsPageRuns
  BY <1>5, ListsOnlyRead DEF ChartsPageRuns, OneCall
<1>6. CASE PriceServiceRuns
  BY <1>6 DEF PriceServiceRuns, hookVars, OneCall
<1>7. CASE ScriptRuns
  <2>1. SendStep => UNCHANGED chain
    BY DEF SendStep
  <2>2. MineStep => OneCall(chain, chain')
    BY DEF MineStep, OneCall
  <2>. QED BY <1>7, <2>1, <2>2 DEF ScriptRuns, ScriptStep, OneCall
<1>8. CASE WalletRuns
  <2>1. UserSigns \/ UserRejects \/ (\E h \in Hook : SeeRevert(h)) => UNCHANGED chain
    BY DEF UserSigns, UserRejects, SeeRevert
  <2>2. Mine => OneCall(chain, chain')
    BY DEF Mine, OneCall
  <2>. QED BY <1>8, <2>1, <2>2 DEF WalletRuns, WalletStep, OneCall
<1>9. CASE SwitchAccount
  BY <1>9 DEF SwitchAccount, OneCall
<1>10. CASE OthersTrade
  BY <1>10 DEF OthersTrade, OneCall
<1>11. CASE UNCHANGED vars
  BY <1>11 DEF vars, hookVars, OneCall
<1>. QED BY <1>1, <1>2, <1>3, <1>4, <1>5, <1>6, <1>7, <1>8, <1>9, <1>10, <1>11 DEF Next

\* One transaction, or none.
LEMMA CallsKeepShares ==
  ASSUME NEW s, Good(s), NEW t, OneCall(s, t)
  PROVE  Good(t) /\ SharesKept(s, t)
<1>1. CASE s = t
  <2>1. s \in Chain
    BY DEF Good, Books
  <2>2. Quiet(s, s)
    BY <2>1, RestGood
  <2>. QED BY <1>1, <2>2, QuietShare
<1>2. ASSUME NEW from, NEW c, NEW e \in Executed(s, from, c), t = e.chain
      PROVE  Good(t) /\ SharesKept(s, t)
  BY <1>2, ExecutedGood
<1>. QED BY <1>1, <1>2 DEF OneCall

\* What is proved to hold in every state.
PoolsSound == Good(chain)

\* Every step of every program keeps the pools sound.
LEMMA PoolsStaySound ==
  PoolsSound /\ [Next]_vars => PoolsSound'
<1>. SUFFICES ASSUME Good(chain), [Next]_vars PROVE Good(chain')
  BY DEF PoolsSound
<1>. QED BY OnlyCalls, CallsKeepShares

\* The pools are sound, in every state: the pool tokens of a pair are backed by
\* its supply, its reserves by what it holds of the two tokens, and the square
\* of its supply by the product of the reserves.
THEOREM Soundness ==
  Spec => []PoolsSound
<1>1. Init => PoolsSound
  BY InitGood DEF PoolsSound
<1>. QED BY <1>1, PoolsStaySound, PTL DEF Spec

\* What a pool token stands for never falls: whatever is called, with the
\* protocol's fee on or off, the product of the reserves per square of the
\* supply of a pair is no less than when liquidity was last added or removed
\* (mint, burn, swap and _mintFee of the pair, with all their rounding).
THEOREM ShareNeverFalls ==
  Spec => PoolShareNeverFalls
<1> DEFINE Dear == \A p \in Pair :
              LET mark == chain.mark[p]
              IN mark.supply > 0 =>
                   K(chain', p) * mark.supply * mark.supply >= mark.k * chain'.supply[p] * chain'.supply[p]
<1>2. PoolsSound /\ [Next]_vars => [Dear]_chain
  <2>. SUFFICES ASSUME Good(chain), [Next]_vars, NEW p \in Pair, chain.mark[p].supply > 0
                PROVE  K(chain', p) * chain.mark[p].supply * chain.mark[p].supply
                          >= chain.mark[p].k * chain'.supply[p] * chain'.supply[p]
    BY DEF PoolsSound
  <2> DEFINE m == chain.mark[p].k
             n == chain.mark[p].supply
             k == K(chain', p)
             l == chain'.supply[p]
  <2>1. KeepsShare(chain, chain', p) /\ Good(chain')
    BY OnlyCalls, CallsKeepShares DEF SharesKept
  <2>2. m \in Nat /\ n \in Nat /\ k \in Nat /\ l \in Nat /\ n > 0
    BY <2>1, Numbers DEF Good
  <2>3. n # 0 => m * (l * l) <= k * (n * n)
    BY <2>1 DEF KeepsShare
  <2>. HIDE DEF m, n, k, l
  <2>4. m * (l * l) = m * l * l /\ k * (n * n) = k * n * n
    BY <2>2
  <2>5. k * n * n >= m * l * l
    BY <2>2, <2>3, <2>4
  <2>. QED BY <2>5 DEF m, n, k, l
<1>. QED BY <1>2, Soundness, PTL DEF Spec, PoolShareNeverFalls

---------------------------------------------------------------------------
(* What the pages know and what they ask for *)

\* A transaction that leaves allowances or raises them.
Steady(s, t) ==
  \A x \in Token \cup Pair, a \in Account :
    t.allow[x][a] = s.allow[x][a] \/ t.allow[x][a] = Unlimited

\* The allowances that a call needs.
Covers(s, a, c) ==
  \A w \in Spends(c) : w[1] \in Token \cup Pair /\ AtLeast(s.allow[w[1]][a], w[2])

Removes(c) == c.fn \in {"removeLiquidity", "removeLiquidityETH"}

\* An answer is a number, and an allowance that was read is the one there is
\* or was none.
Read(s, k, v) ==
  /\ v \in Nat
  /\ k.kind = "allowance" =>
       k.asset \in Token /\ k.of \in Account /\ v \in {0, s.allow[k.asset][k.of]}

Answered(s, known) == \A k \in DOMAIN known : Read(s, k, known[k])

\* The least share of a quote that a slippage leaves.
LeastShare(slippage) == ((Whole - slippage) \div Fine) - 1

\* The least output of a swap is a share of what was shown.
Bound(c, shown) ==
  /\ c.exact = "in" /\ shown.quote \in Nat /\ shown.slippage \in Int
  /\ shown.quote > 0 =>
       \E share \in Int : /\ share >= LeastShare(shown.slippage)
                          /\ c.limit = (shown.quote * share) \div SlippageUnit

\* What a page asks the wallet for: an approval without a limit, a swap that is
\* bound, and what needs no other allowance than there is, unless it is a
\* removal for another account.
Proper(s, a, c, shown) ==
  /\ c.fn = "approve" => c.amount = Unlimited
  /\ c.fn \in Swaps => Bound(c, shown)
  /\ Covers(s, a, c) \/ (Removes(c) /\ c.to # a)

Request(s, r) ==
  r.from \in Wallet /\ r.hook \in Hook /\ Proper(s, r.from, r.call, r.shown)

\* A transaction that approves everything or does not approve.
LEMMA SteadyCall ==
  ASSUME NEW s, Good(s), Level(s), NEW from, NEW c, c.fn = "approve" => c.amount = Unlimited,
         NEW e \in Executed(s, from, c)
  PROVE  Level(e.chain) /\ Steady(s, e.chain) /\ Len(s.allPairs) <= Len(e.chain.allPairs)
<1>1. Level(e.chain) /\ Len(s.allPairs) <= Len(e.chain.allPairs)
  BY CalmLevel DEF Calm
<1>2. CASE Uses(s, e.chain, from)
  <2>1. ASSUME NEW x \in Token \cup Pair, NEW a \in Account
        PROVE  e.chain.allow[x][a] = s.allow[x][a] \/ e.chain.allow[x][a] = Unlimited
    <3>1. e.chain.allow[x][a] \in Nat /\ s.allow[x][a] \in {0, Unlimited}
      BY <1>2 DEF Uses, Listed, Level
    <3>2. \/ e.chain.allow[x][a] = s.allow[x][a]
          \/ s.allow[x][a] # Unlimited /\ e.chain.allow[x][a] <= s.allow[x][a]
      BY <1>2 DEF Uses
    <3>. QED BY <3>1, <3>2
  <2>. QED BY <1>1, <2>1 DEF Steady
<1>3. CASE c.fn = "approve" /\ Sets(s, e.chain, c.asset, from, c.amount)
  BY <1>1, <1>3 DEF Sets, Steady
<1>. QED BY <1>2, <1>3, ExecutedUses

\* After it, the answers are what they were.
LEMMA SteadyAnswers ==
  ASSUME NEW s, NEW t, Level(s), Steady(s, t), NEW known, Answered(s, known)
  PROVE  Answered(t, known)
<1>. SUFFICES ASSUME NEW k \in DOMAIN known PROVE Read(t, k, known[k])
  BY DEF Answered
<1>1. Read(s, k, known[k])
  BY DEF Answered
<1>2. CASE k.kind = "allowance"
  <2>1. k.asset \in Token /\ k.of \in Account /\ known[k] \in {0, s.allow[k.asset][k.of]}
    BY <1>1, <1>2 DEF Read
  <2>2. /\ s.allow[k.asset][k.of] \in {0, Unlimited}
        /\ t.allow[k.asset][k.of] = s.allow[k.asset][k.of] \/ t.allow[k.asset][k.of] = Unlimited
    BY <2>1 DEF Level, Steady
  <2>. QED BY <1>1, <2>1, <2>2 DEF Read
<1>. QED BY <1>1, <1>2 DEF Read

\* ... and the requests.
LEMMA SteadyRequest ==
  ASSUME NEW s, NEW t, Steady(s, t), NEW r, Request(s, r)
  PROVE  Request(t, r)
<1>. SUFFICES ASSUME Covers(s, r.from, r.call) PROVE Covers(t, r.from, r.call)
  BY DEF Request, Proper
<1>1. r.from \in Account
  BY AppAssumption DEF Request, Proper
<1>. QED BY <1>1 DEF Covers, Steady, AtLeast

---------------------------------------------------------------------------
(* Answers *)

\* What a page may ask for.
Readable(k) ==
  \/ k.kind = "balance" /\ k.asset \in Asset /\ k.of \in Holder
  \/ k.kind = "allowance" /\ k.asset \in Token /\ k.of \in Account
  \/ k.kind = "quote" /\ k.amount \in Nat /\ k.path \in Seq(Token) /\ Len(k.path) >= 2

\* The answer of the chain, ...
LEMMA AnswerRead ==
  ASSUME Good(chain), NEW k, Readable(k)
  PROVE  Read(chain, k, ValueNow(k))
<1>0. chain \in Chain /\ Books(chain)
  BY DEF Good, Books
<1>1. CASE k.kind = "balance" /\ k.asset \in Asset /\ k.of \in Holder
  <2>1. ValueNow(k) = chain.bal[k.asset][k.of]
    BY <1>1 DEF ValueNow
  <2>. QED BY <1>0, <1>1, <2>1 DEF Chain, Read
<1>2. CASE k.kind = "allowance" /\ k.asset \in Token /\ k.of \in Account
  <2>1. ValueNow(k) = chain.allow[k.asset][k.of]
    BY <1>2 DEF ValueNow
  <2>. QED BY <1>0, <1>2, <2>1 DEF Chain, Read
<1>3. CASE k.kind = "quote" /\ k.amount \in Nat /\ k.path \in Seq(Token) /\ Len(k.path) >= 2
  <2>1. ValueNow(k) = Last(getAmountsOut(chain, k.amount, k.path))
    BY <1>3 DEF ValueNow
  <2>2. getAmountsOut(chain, k.amount, k.path) \in [1..Len(k.path) -> Nat]
    BY <1>0, <1>3, AmountsOutAre
  <2>. QED BY <1>3, <2>1, <2>2 DEF Read, Last
<1>. QED BY <1>1, <1>2, <1>3 DEF Readable

\* ... among those that are kept.
LEMMA AnswerAnswered ==
  ASSUME Good(chain), Answered(chain, answers), NEW watched, \A k \in watched : Readable(k),
         Answer(watched)
  PROVE  Answered(chain, answers')
<1>1. PICK k \in watched :
        answers' = [x \in DOMAIN answers \cup {k} |-> IF x = k THEN ValueNow(k) ELSE answers[x]]
  BY DEF Answer
<1>2. Read(chain, k, ValueNow(k))
  BY AnswerRead
<1>. QED BY <1>1, <1>2 DEF Answered

\* What is kept of the answers is answered.
LEMMA KeepAnswered ==
  ASSUME NEW s, Answered(s, answers), NEW watched, Keep(watched)
  PROVE  Answered(s, answers')
BY DEF Keep, Restrict, Answered

\* What is shown of an allowance decides as the allowance itself.
LEMMA ShownAllowance ==
  ASSUME Level(chain), Answered(chain, answers), NEW x \in Token, NEW a \in Account, NEW v \in Nat, v > 0,
         AtLeast(Shown(AllowanceOf(x, a), 0), v)
  PROVE  AtLeast(chain.allow[x][a], v)
<1> DEFINE k == AllowanceOf(x, a)
           n == Shown(k, 0)
<1>1. k.kind = "allowance" /\ k.asset = x /\ k.of = a
  BY DEF AllowanceOf
<1>. HIDE DEF k
<1>2. n = 0 \/ n = chain.allow[x][a]
  BY <1>1 DEF Shown, Known, Answered, Read
<1>3. chain.allow[x][a] \in {0, Unlimited}
  BY DEF Level
<1>4. n = Unlimited \/ n >= v
  BY DEF AtLeast, k
<1>. HIDE DEF n
<1>. QED BY <1>2, <1>3, <1>4 DEF AtLeast

\* A quote, or a balance, that is shown is a number.
LEMMA ShownNumber ==
  ASSUME NEW s, Answered(s, answers), NEW k, NEW v \in Nat
  PROVE  Shown(k, v) \in Nat
BY DEF Answered, Read, Shown, Known

\* The tokens of the pages.
LEMMA PageTokens ==
  /\ ECY \notin Token /\ PageToken \subseteq Asset
  /\ \A t \in PageToken : getTokenAddr(t) \in Token /\ (t # ECY => t \in Token /\ getTokenAddr(t) = t)
<1>1. WECY \in Token /\ USDT \in Token /\ ECY \notin Token
  BY Wrapped, AppAssumption, ContractsAssumption
<1>. QED BY <1>1 DEF PageToken, getTokenAddr, Asset

\* The accounts of the wallet can hold assets.
LEMMA WalletAccounts == Wallet \subseteq Account /\ Account \subseteq Holder
BY AppAssumption DEF Holder

---------------------------------------------------------------------------
(* The steps of the pages *)

\* The hooks, typed.
HooksIn == hook \in [Hook -> [stage : Stages, id : Nat]] /\ sends \in Nat

\* What a page stands on, ...
Knows ==
  /\ Good(chain) /\ Level(chain)
  /\ account \in Wallet \cup {Nobody}
  /\ Answered(chain, answers)
  /\ HooksIn

\* ... and what it does.
Acts ==
  /\ UNCHANGED <<chain, account, outbox, fills>>
  /\ Answered(chain, answers')
  /\ HooksIn'
  /\ \A r \in wallet' : r \in wallet \/ Request(chain, r)

\* Without a request.
LEMMA ActsAlone ==
  ASSUME Knows, UNCHANGED <<chain, account, fills, sendVars>>, Answered(chain, answers')
  PROVE  Acts
BY DEF Knows, Acts, HooksIn, sendVars

\* Without any change of what the hooks keep.
LEMMA ActsNot ==
  ASSUME Knows, UNCHANGED hookVars
  PROVE  Acts
BY ActsAlone DEF Knows, hookVars, sendVars

\* With an answer of what the page shows.
LEMMA ActsOnAnswer ==
  ASSUME Knows, NEW watched, \A k \in watched : Readable(k), Answer(watched)
  PROVE  Acts
<1>1. Answered(chain, answers')
  BY AnswerAnswered DEF Knows
<1>. QED BY <1>1, ActsAlone DEF Answer

\* With one.
LEMMA ActsOnWrite ==
  ASSUME Knows, NEW h \in Hook, NEW c, NEW shown, Write(h, c, shown),
         account \in Wallet => Proper(chain, account, c, shown),
         UNCHANGED <<chain, account, answers, fills>>
  PROVE  Acts
<1>1. CASE account = Nobody
  BY <1>1, ActsAlone DEF Write, Knows
<1>2. CASE account # Nobody
  <2> DEFINE r == [id |-> sends, hook |-> h, from |-> account, call |-> c, shown |-> shown]
  <2>1. /\ sends > 0 /\ sends' = sends - 1 /\ wallet' = wallet \cup {r}
        /\ hook' = [hook EXCEPT ![h] = [stage |-> "signing", id |-> sends]] /\ outbox' = outbox
    BY <1>2 DEF Write
  <2>2. HooksIn'
    BY <2>1 DEF Knows, HooksIn, Stages
  <2>3. r.from = account /\ r.hook = h /\ r.call = c /\ r.shown = shown
    OBVIOUS
  <2>. HIDE DEF r
  <2>4. account \in Wallet /\ Request(chain, r)
    BY <1>2, <2>3 DEF Request, Knows
  <2>. QED BY <2>1, <2>2, <2>4 DEF Acts, Knows
<1>. QED BY <1>1, <1>2

\* At a receipt.
LEMMA HooksReceive ==
  ASSUME HooksIn, NEW h \in Hook, NEW stage, Receipt(h, stage), UNCHANGED sends
  PROVE  HooksIn'
BY DEF HooksIn, Receipt, Idle, Stages

\* The two hooks.
LEMMA OwnHooks == WriteHook \in Hook /\ SendHook \in Hook
BY DEF Hook

---------------------------------------------------------------------------
(* The page that swaps *)

\* What the card reads can be read.
LEMMA SwapReads ==
  ASSUME account \in Wallet \cup {Nobody}, NEW c \in [in : PageToken, out : PageToken, amount : Nat]
  PROVE  \A k \in SwapKeys(c) : Readable(k)
<1>1. account # Nobody => account \in Account /\ account \in Holder
  BY WalletAccounts
<1>2. c.in \in Asset /\ (c.in # ECY => c.in \in Token) /\ c.amount \in Nat
  BY PageTokens
<1>3. Path(c) \in Seq(Token) /\ Len(Path(c)) = 2
  BY PageTokens DEF Path
<1>4. account # Nobody => Readable(BalanceOf(c.in, account))
  BY <1>1, <1>2 DEF Readable, BalanceOf
<1>5. account # Nobody /\ c.in # ECY => Readable(AllowanceOf(c.in, account))
  BY <1>1, <1>2 DEF Readable, AllowanceOf
<1>6. Readable(AmountsOut(c.amount, Path(c)))
  <2> DEFINE path == Path(c)
  <2>1. path \in Seq(Token) /\ Len(path) >= 2
    BY <1>3
  <2>. HIDE DEF path
  <2>2. Readable(AmountsOut(c.amount, path))
    BY <1>2, <2>1 DEF Readable, AmountsOut
  <2>. QED BY <2>2 DEF path
<1>. QED BY <1>4, <1>5, <1>6 DEF SwapKeys

\* The card is changed, and what is not shown any more is dropped.
LEMMA SetsCard ==
  ASSUME Knows, SwapCardTypeOK, NEW c \in [in : PageToken, out : PageToken, amount : Nat], SetCard(c)
  PROVE  Acts /\ SwapCardTypeOK'
<1>1. Answered(chain, answers')
  BY KeepAnswered DEF SetCard, Knows
<1>. QED BY <1>1, ActsAlone DEF SetCard, SwapCardTypeOK

\* A deadline is between one minute and three hours.
LEMMA Clamped ==
  ASSUME NEW n \in Nat
  PROVE  Max({1, Min({180, n})}) \in 1..180
<1> DEFINE m == Min({180, n})
<1>1. m \in {180, n} /\ m <= 180
  <2>1. \E x \in {180, n} : \A y \in {180, n} : x <= y
    OBVIOUS
  <2>2. m \in {180, n} /\ \A y \in {180, n} : m <= y
    BY <2>1 DEF Min
  <2>. QED BY <2>2
<1>. HIDE DEF m
<1>2. m \in Nat
  BY <1>1
<1>3. \E x \in {1, m} : \A y \in {1, m} : x >= y
  BY <1>2
<1>4. Max({1, m}) \in {1, m} /\ \A y \in {1, m} : Max({1, m}) >= y
  BY <1>3 DEF Max
<1>. QED BY <1>1, <1>2, <1>4 DEF m

\* What the settings take off is a number of parts, ...
LEMMA SlippageNumber ==
  ASSUME SwapCardTypeOK
  PROVE  getSlippagePercent \in Slippages /\ getSlippagePercent \in Int
<1>1. /\ settings.preset \in Preset \cup {Own, DefaultSlippage} /\ settings.custom \in Custom \cup {0}
      /\ Preset \subseteq Int /\ DefaultSlippage \in Int /\ Custom \subseteq Int
  BY SwapCardAssumption DEF SwapCardTypeOK
<1>2. getSlippagePercent \in Slippages
  BY <1>1 DEF getSlippagePercent, parseSlippage, Slippages
<1>. QED BY <1>1, <1>2 DEF Slippages

\* A minimum that can be encoded is a share of the quote that the slippage leaves.
LEMMA ShareIsLeft ==
  ASSUME NEW s \in Slippages, s \in Int, NEW q \in Nat, q > 0,
         (q * ShareLeft[s]) \div SlippageUnit >= 0
  PROVE  ShareLeft[s] \in Int /\ ShareLeft[s] >= LeastShare(s)
<1>1. /\ ShareLeft[s] \in Int /\ SlippageUnit \in Nat \ {0} /\ Fine \in Nat \ {0} /\ Whole \in Int
      /\ IF s <= Whole THEN ShareLeft[s] - ((Whole - s) \div Fine) \in {-1, 0, 1} ELSE ShareLeft[s] < 0
  BY SwapCardAssumption, ShareAssumption DEF Whole
<1> DEFINE x == ShareLeft[s]
           f == (Whole - s) \div Fine
<1>2. f \in Int
  BY <1>1
<1>3. CASE s <= Whole
  <2>1. x - f \in {-1, 0, 1} /\ x \in Int
    BY <1>1, <1>3
  <2>. HIDE DEF x, f
  <2>2. x >= f - 1
    BY <1>2, <2>1
  <2>. QED BY <2>1, <2>2 DEF x, f, LeastShare
<1>4. CASE ~(s <= Whole)
  <2>1. x \in Int /\ x <= -1
    BY <1>1, <1>4
  <2>. HIDE DEF x, f
  <2>2. q * x \in Int /\ q * x <= -q
    <3>1. q * (-1 - x) \in Nat
      BY <2>1
    <3>2. q * (-1 - x) = -q - q * x
      BY <2>1
    <3>. QED BY <2>1, <3>1, <3>2
  <2> DEFINE p == q * x
             d == p \div SlippageUnit
  <2>3. p \in Int /\ p < 0
    BY <2>2
  <2>. HIDE DEF p
  <2>4. d \in Int /\ p = SlippageUnit * d + (p % SlippageUnit) /\ p % SlippageUnit \in Nat
    BY <1>1, <2>3
  <2>5. d >= 0
    BY DEF p, x
  <2>. HIDE DEF d
  <2>6. SlippageUnit * d >= 0
    BY <1>1, <2>4, <2>5
  <2>. QED BY <1>1, <2>3, <2>4, <2>6
<1>. QED BY <1>3, <1>4

\* ... and a swap that the page sends is bound by them and covered.
LEMMA SwapProper ==
  ASSUME Knows, SwapCardTypeOK, account \in Wallet, SwapAction = "swap", minReceived >= 0
  PROVE  Proper(chain, account,
                [fn |-> SwapFunction, exact |-> "in", amount |-> card.amount,
                 limit |-> minReceived, path |-> Path(card), to |-> account],
                [quote |-> amountOutRaw, slippage |-> getSlippagePercent])
<1> DEFINE c == [fn |-> SwapFunction, exact |-> "in", amount |-> card.amount,
                 limit |-> minReceived, path |-> Path(card), to |-> account]
           shown == [quote |-> amountOutRaw, slippage |-> getSlippagePercent]
<1>1. SwapFunction \in Swaps /\ (card.in = ECY => SwapFunction = "swapETHForTokens")
  BY DEF SwapFunction, Swaps
<1>2. amountOutRaw \in Nat /\ getSlippagePercent \in Int /\ getSlippagePercent \in Slippages
  BY ShownNumber, SlippageNumber DEF amountOutRaw, Knows
<1>3. ASSUME amountOutRaw > 0
      PROVE  \E share \in Int : /\ share >= LeastShare(getSlippagePercent)
                                /\ minReceived = (amountOutRaw * share) \div SlippageUnit
  <2>1. minReceived = (amountOutRaw * ShareLeft[getSlippagePercent]) \div SlippageUnit
    BY <1>3 DEF minReceived
  <2>2. (amountOutRaw * ShareLeft[getSlippagePercent]) \div SlippageUnit >= 0
    BY <2>1
  <2>3. ShareLeft[getSlippagePercent] \in Int /\ ShareLeft[getSlippagePercent] >= LeastShare(getSlippagePercent)
    BY <1>2, <1>3, <2>2, ShareIsLeft
  <2>. QED BY <2>1, <2>3
<1>4. Bound(c, shown)
  <2>1. /\ c.exact = "in" /\ c.limit = minReceived /\ shown.quote = amountOutRaw
        /\ shown.slippage = getSlippagePercent
    OBVIOUS
  <2>. HIDE DEF c, shown
  <2>. QED BY <1>2, <1>3, <2>1 DEF Bound
<1>5. /\ account # Nobody /\ card.amount # 0 /\ card.amount \in Nat /\ card.in \in PageToken
      /\ ~needsApproval
  <2>1. account # Nobody /\ account \in Account
    BY WalletAccounts, ContractsAssumption
  <2>2. card.amount \in Nat /\ card.in \in PageToken
    BY DEF SwapCardTypeOK
  <2>3. card.amount # 0 /\ ~needsApproval
    BY <2>1 DEF SwapAction
  <2>. QED BY <2>1, <2>2, <2>3
<1>6. Spends(c) \subseteq {<<card.in, card.amount>>} /\ (card.in = ECY => Spends(c) = {})
  <2>1. c.fn = SwapFunction /\ c.path[1] = getTokenAddr(card.in) /\ c.amount = card.amount
    BY DEF Path
  <2>2. card.in # ECY => getTokenAddr(card.in) = card.in
    BY DEF getTokenAddr
  <2>. HIDE DEF c
  <2>3. CASE c.fn = "swapETHForTokens"
    BY <2>3 DEF Spends
  <2>4. CASE c.fn # "swapETHForTokens"
    <3>1. c.fn \in {"swapTokensForTokens", "swapTokensForETH"} /\ card.in # ECY
      BY <1>1, <2>1, <2>4 DEF Swaps
    <3>2. Spends(c) = {<<c.path[1], c.amount>>}
      BY <3>1 DEF Spends
    <3>. QED BY <2>1, <2>2, <3>1, <3>2
  <2>. QED BY <2>3, <2>4
<1>7. ASSUME card.in # ECY
      PROVE  card.in \in Token /\ AtLeast(chain.allow[card.in][account], card.amount)
  <2>1. card.in \in Token /\ account \in Account /\ card.amount > 0
    BY <1>5, <1>7, PageTokens, WalletAccounts
  <2>2. AtLeast(Shown(AllowanceOf(card.in, account), 0), card.amount)
    BY <1>5, <1>7, <2>1 DEF needsApproval
  <2>. QED BY <1>5, <2>1, <2>2, ShownAllowance DEF Knows
<1>8. Covers(chain, account, c)
  BY <1>6, <1>7 DEF Covers
<1>9. c.fn = SwapFunction /\ c.fn # "approve"
  BY <1>1 DEF Swaps
<1>. HIDE DEF c, shown
<1>10. Proper(chain, account, c, shown)
  BY <1>4, <1>8, <1>9 DEF Proper
<1>. QED BY <1>10 DEF c, shown

\* An approval of a page.
LEMMA ApprovalProper ==
  ASSUME NEW s, NEW a, NEW x, NEW shown
  PROVE  Proper(s, a, [fn |-> "approve", asset |-> x, amount |-> Unlimited], shown)
<1> DEFINE c == [fn |-> "approve", asset |-> x, amount |-> Unlimited]
<1>1. c.fn = "approve" /\ c.amount = Unlimited
  OBVIOUS
<1>. HIDE DEF c
<1>2. Spends(c) = {} /\ c.fn \notin Swaps
  BY <1>1 DEF Spends, Swaps
<1>3. Proper(s, a, c, shown)
  BY <1>1, <1>2 DEF Proper, Covers
<1>. QED BY <1>3 DEF c

\* Every step of the page that swaps.
LEMMA SwapPageActs ==
  ASSUME Knows, SwapCardTypeOK, SwapCardStep
  PROVE  Acts /\ SwapCardTypeOK'
<1>0. /\ card \in [in : PageToken, out : PageToken, amount : Nat]
      /\ settings \in [preset : Preset \cup {Own, DefaultSlippage}, custom : Custom \cup {0}, deadline : 1..180]
      /\ account \in Wallet \cup {Nobody}
  BY DEF SwapCardTypeOK, Knows
<1>1. CASE Answer(SwapKeys(card)) /\ UNCHANGED swapCardVars
  <2>1. Acts
    BY <1>0, <1>1, SwapReads, ActsOnAnswer
  <2>. QED BY <1>0, <1>1, <2>1 DEF swapCardVars, SwapCardTypeOK
<1>2. CASE TypeAmount
  <2>1. PICK v \in Amounts \cup {0} : SetCard([card EXCEPT !.amount = v])
    BY <1>2 DEF TypeAmount
  <2>2. [card EXCEPT !.amount = v] \in [in : PageToken, out : PageToken, amount : Nat]
    BY <1>0, SwapCardAssumption
  <2>. QED BY <2>1, <2>2, SetsCard
<1>3. CASE UseBalance
  <2>1. answers[BalanceOf(card.in, account)] \in Nat
    BY <1>3 DEF UseBalance, Known, Knows, Answered, Read
  <2>2. [card EXCEPT !.amount = answers[BalanceOf(card.in, account)]]
           \in [in : PageToken, out : PageToken, amount : Nat]
    BY <1>0, <2>1
  <2>. QED BY <1>3, <2>2, SetsCard DEF UseBalance
<1>4. CASE flip
  <2>1. [in |-> card.out, out |-> card.in, amount |-> 0] \in [in : PageToken, out : PageToken, amount : Nat]
    BY <1>0
  <2>. QED BY <1>4, <2>1, SetsCard DEF flip
<1>5. CASE PickIn
  <2>1. PICK t \in PageToken \ {card.out} : SetCard([card EXCEPT !.in = t])
    BY <1>5 DEF PickIn
  <2>2. [card EXCEPT !.in = t] \in [in : PageToken, out : PageToken, amount : Nat]
    BY <1>0
  <2>. QED BY <2>1, <2>2, SetsCard
<1>6. CASE PickOut
  <2>1. PICK t \in PageToken \ {card.in} : SetCard([card EXCEPT !.out = t])
    BY <1>6 DEF PickOut
  <2>2. [card EXCEPT !.out = t] \in [in : PageToken, out : PageToken, amount : Nat]
    BY <1>0
  <2>. QED BY <2>1, <2>2, SetsCard
<1>7. CASE handleApprove
  <2>1. /\ Write(WriteHook, [fn |-> "approve", asset |-> card.in, amount |-> Unlimited], NothingShown)
        /\ UNCHANGED <<chain, account, answers, fills, swapCardVars>>
    BY <1>7 DEF handleApprove
  <2>2. Acts
    BY <2>1, OwnHooks, ApprovalProper, ActsOnWrite
  <2>. QED BY <1>0, <2>1, <2>2 DEF swapCardVars, SwapCardTypeOK
<1>8. CASE handleSwap
  <2>1. SwapAction = "swap" /\ UNCHANGED <<chain, account, answers, fills, swapCardVars>>
    BY <1>8 DEF handleSwap
  <2>2. CASE minReceived >= 0
    <3> DEFINE c == [fn |-> SwapFunction, exact |-> "in", amount |-> card.amount,
                     limit |-> minReceived, path |-> Path(card), to |-> account]
               shown == [quote |-> amountOutRaw, slippage |-> getSlippagePercent]
    <3>1. Write(WriteHook, c, shown)
      BY <1>8, <2>2 DEF handleSwap
    <3>2. account \in Wallet => Proper(chain, account, c, shown)
      BY <2>1, <2>2, SwapProper
    <3>. HIDE DEF c, shown
    <3>. QED BY <2>1, <3>1, <3>2, OwnHooks, ActsOnWrite, <1>0 DEF swapCardVars, SwapCardTypeOK
  <2>3. CASE ~(minReceived >= 0)
    <3>1. UNCHANGED sendVars
      BY <1>8, <2>3 DEF handleSwap
    <3>2. Acts
      BY <2>1, <3>1, ActsAlone DEF Knows
    <3>. QED BY <1>0, <2>1, <3>2 DEF swapCardVars, SwapCardTypeOK
  <2>. QED BY <2>2, <2>3
<1>9. CASE SwapConfirmed
  <2>1. /\ card' = [card EXCEPT !.amount = 0] /\ Receipt(WriteHook, "mined") /\ Keep(SwapKeys(card'))
        /\ UNCHANGED <<chain, account, wallet, outbox, sends, fills, settings>>
    BY <1>9 DEF SwapConfirmed
  <2>2. HooksIn'
    BY <2>1, OwnHooks, HooksReceive DEF Knows
  <2>3. Answered(chain, answers')
    BY <2>1, KeepAnswered DEF Knows
  <2>4. SwapCardTypeOK'
    BY <1>0, <2>1 DEF SwapCardTypeOK
  <2>. QED BY <2>1, <2>2, <2>3, <2>4 DEF Acts
<1>10. CASE setSlippagePreset \/ setCustomSlippage \/ setDeadlineMinutes
  <2>1. \E s \in [preset : Preset \cup {Own, DefaultSlippage}, custom : Custom \cup {0}, deadline : 1..180] : SetSettings(s)
    <3>1. CASE setSlippagePreset
      BY <1>0, <3>1 DEF setSlippagePreset
    <3>2. CASE setCustomSlippage
      BY <1>0, <3>2, SwapCardAssumption DEF setCustomSlippage
    <3>3. CASE setDeadlineMinutes
      <4>1. PICK n \in Deadlines :
              SetSettings([settings EXCEPT !.deadline = Max({1, Min({180, IF n = 0 THEN 20 ELSE n})})])
        BY <3>3 DEF setDeadlineMinutes
      <4>2. (IF n = 0 THEN 20 ELSE n) \in Nat
        BY SwapCardAssumption
      <4>3. Max({1, Min({180, IF n = 0 THEN 20 ELSE n})}) \in 1..180
        BY <4>2, Clamped
      <4>. QED BY <1>0, <4>1, <4>3
    <3>. QED BY <1>10, <3>1, <3>2, <3>3
  <2>2. UNCHANGED hookVars /\ SwapCardTypeOK'
    BY <1>0, <2>1 DEF SetSettings, SwapCardTypeOK
  <2>. QED BY <2>2, ActsNot
<1>. QED BY <1>1, <1>2, <1>3, <1>4, <1>5, <1>6, <1>7, <1>8, <1>9, <1>10 DEF SwapCardStep

---------------------------------------------------------------------------
(* The page that sends *)

\* What the page that transfers reads can be read.
LEMMA TransferReads ==
  ASSUME account \in Wallet \cup {Nobody}, NEW f, f.token \in PageToken
  PROVE  \A k \in TransferKeys(f) : Readable(k)
<1>1. account # Nobody => account \in Holder
  BY WalletAccounts
<1>2. f.token \in Asset
  BY PageTokens
<1>3. account # Nobody => Readable(BalanceOf(f.token, account))
  BY <1>1, <1>2 DEF Readable, BalanceOf
<1>. QED BY <1>3 DEF TransferKeys

\* Every step of the page that transfers.
LEMMA TransferPageActs ==
  ASSUME Knows, TransferTypeOK, TransferStep
  PROVE  Acts /\ TransferTypeOK'
<1> DEFINE T == [tab : {"send", "receive"}, token : PageToken, amount : Nat, recipient : Recipients]
<1>0. transferForm \in T /\ copied \in BOOLEAN /\ account \in Wallet \cup {Nobody}
  BY DEF TransferTypeOK, Knows
<1>1. ASSUME NEW f \in T, SetForm(f) PROVE Acts /\ TransferTypeOK'
  <2>1. Answered(chain, answers')
    BY <1>1, KeepAnswered DEF SetForm, Knows
  <2>. QED BY <1>0, <1>1, <2>1, ActsAlone DEF SetForm, TransferTypeOK
<1>2. CASE Answer(TransferKeys(transferForm)) /\ UNCHANGED transferVars
  <2>1. Acts
    BY <1>0, <1>2, TransferReads, ActsOnAnswer
  <2>. QED BY <1>0, <1>2, <2>1 DEF transferVars, TransferTypeOK
<1>3. CASE SetTab
  <2>1. PICK t \in {"send", "receive"} : SetForm([transferForm EXCEPT !.tab = t])
    BY <1>3 DEF SetTab
  <2>2. [transferForm EXCEPT !.tab = t] \in T
    BY <1>0
  <2>. QED BY <1>1, <2>1, <2>2
<1>4. CASE TypeTransfer
  <2>1. \E f \in T : SetForm(f)
    <3>1. ASSUME NEW v \in TransferAmounts \cup {0} PROVE [transferForm EXCEPT !.amount = v] \in T
      BY <1>0, TransferAssumption
    <3>2. ASSUME NEW r \in Recipients PROVE [transferForm EXCEPT !.recipient = r] \in T
      BY <1>0
    <3>3. ASSUME NEW t \in PageToken PROVE [transferForm EXCEPT !.token = t] \in T
      BY <1>0
    <3>4. ASSUME Known(BalanceOf(transferForm.token, account))
          PROVE  [transferForm EXCEPT !.amount = answers[BalanceOf(transferForm.token, account)]] \in T
      <4>1. answers[BalanceOf(transferForm.token, account)] \in Nat
        BY <3>4 DEF Known, Knows, Answered, Read
      <4>. QED BY <1>0, <4>1
    <3>. HIDE DEF T
    <3>. QED BY <1>4, <3>1, <3>2, <3>3, <3>4 DEF TypeTransfer
  <2>. QED BY <1>1, <2>1
<1>5. CASE handleSend
  <2> DEFINE h == IF transferForm.token = ECY THEN SendHook ELSE WriteHook
             c == [fn |-> "transfer", asset |-> transferForm.token, to |-> transferForm.recipient,
                   amount |-> transferForm.amount]
  <2>1. Write(h, c, NothingShown) /\ UNCHANGED <<chain, account, answers, fills, transferVars>>
    BY <1>5 DEF handleSend
  <2>2. h \in Hook /\ c.fn = "transfer"
    BY OwnHooks
  <2>. HIDE DEF h, c
  <2>3. Proper(chain, account, c, NothingShown)
    BY <2>2 DEF Proper, Spends, Swaps, Covers
  <2>4. Acts
    BY <2>1, <2>2, <2>3, ActsOnWrite
  <2>. QED BY <1>0, <2>1, <2>4 DEF transferVars, TransferTypeOK
<1>6. CASE TransferConfirmed
  <2>1. /\ hook' = [hook EXCEPT ![SendHook] = Idle, ![WriteHook] = Idle]
        /\ transferForm' = [transferForm EXCEPT !.amount = 0, !.recipient = NoAddress]
        /\ UNCHANGED <<chain, account, answers, wallet, outbox, sends, fills, copied>>
    BY <1>6 DEF TransferConfirmed
  <2>2. HooksIn'
    BY <2>1 DEF Knows, HooksIn, Idle, Stages
  <2>3. TransferTypeOK'
    BY <1>0, <2>1, TransferAssumption DEF TransferTypeOK
  <2>. QED BY <2>1, <2>2, <2>3 DEF Acts, Knows
<1>7. CASE copyAddress \/ CopiedEnds
  <2>1. UNCHANGED <<hookVars, transferForm>> /\ copied' \in BOOLEAN
    BY <1>7 DEF copyAddress, CopiedEnds
  <2>. QED BY <1>0, <2>1, ActsNot DEF TransferTypeOK
<1>. QED BY <1>2, <1>3, <1>4, <1>5, <1>6, <1>7 DEF TransferStep

---------------------------------------------------------------------------
(* The lists of pairs *)

Row == [pair : Pair, reserve : PairAmounts, supply : Nat, userLp : Nat]

FetchOf == [for : Wallet \cup {Nobody}, len : Int, got : Seq(Row), row : Seq(Row)]

\* No fetch expects more pairs than there are.
Fetched(s, F) == F \subseteq FetchOf /\ \A f \in F : f.len <= Len(s.allPairs)

RowsIn == rows \in Seq(Row) /\ loading \in BOOLEAN

Lists == RowsIn /\ Fetched(chain, fetches)

\* Pairs are only added.
LEMMA FetchedLater ==
  ASSUME NEW s, NEW t, Good(s), Good(t), Len(s.allPairs) <= Len(t.allPairs), NEW F, Fetched(s, F)
  PROVE  Fetched(t, F)
<1>1. Len(s.allPairs) \in Nat /\ Len(t.allPairs) \in Nat
  BY GoodListed DEF Listed
<1>2. ASSUME NEW f \in F PROVE f.len <= Len(t.allPairs)
  <2>1. f.len \in Int /\ f.len <= Len(s.allPairs)
    BY DEF Fetched, FetchOf
  <2>. QED BY <1>1, <2>1
<1>. QED BY <1>2 DEF Fetched

\* A fetch begins.
LEMMA Started ==
  ASSUME Good(chain), Lists, NEW a \in Wallet \cup {Nobody}, StartFetch(a)
  PROVE  RowsIn' /\ Fetched(chain, fetches')
<1>1. Len(chain.allPairs) \in Nat
  BY GoodListed DEF Listed
<1>2. NewFetch(a) \in FetchOf /\ NewFetch(a).len <= Len(chain.allPairs)
  BY <1>1 DEF NewFetch, FetchOf
<1>. QED BY <1>2 DEF StartFetch, Lists, RowsIn, Fetched

\* A read of a fetch.
LEMMA Advanced ==
  ASSUME Lists, NEW f, NEW g \in FetchOf, g.len <= Len(chain.allPairs), Advance(f, g),
         UNCHANGED <<rows, loading>>
  PROVE  RowsIn' /\ Fetched(chain, fetches')
BY DEF Advance, Lists, RowsIn, Fetched

\* Every step of a fetch.
LEMMA FetchesOn ==
  ASSUME Good(chain), Lists, FetchStep
  PROVE  RowsIn' /\ Fetched(chain, fetches')
<1>0. PICK f \in fetches :
        ReadLength(f) \/ ReadPair(f) \/ ReadBalance(f) \/ FinishFetch(f) \/ FailFetch(f)
  BY DEF FetchStep
<1>1. /\ f \in FetchOf /\ f.len <= Len(chain.allPairs) /\ rows \in Seq(Row)
      /\ f.for \in Wallet \cup {Nobody} /\ f.len \in Int /\ f.got \in Seq(Row) /\ f.row \in Seq(Row)
  BY DEF Lists, RowsIn, Fetched, FetchOf
<1>2. chain \in Chain /\ chain.allPairs \in Seq(Pair) /\ Len(chain.allPairs) \in Nat
  BY GoodListed DEF Good, Books, Listed
<1>3. CASE ReadLength(f)
  <2> DEFINE n == Len(chain.allPairs)
             g == [f EXCEPT !.len = n]
  <2>. HIDE DEF n
  <2>1. n \in Nat
    BY <1>2 DEF n
  <2>2. g \in FetchOf /\ g.len = n
    BY <1>1, <2>1 DEF FetchOf
  <2>3. Advance(f, g) /\ UNCHANGED <<rows, loading>>
    BY <1>3 DEF ReadLength, n
  <2>4. g.len <= Len(chain.allPairs)
    BY <2>1, <2>2 DEF n
  <2>. HIDE DEF g
  <2>. QED BY <2>2, <2>3, <2>4, Advanced
<1>4. CASE ReadPair(f)
  <2> DEFINE p == chain.allPairs[Len(f.got) + 1]
             r == [pair |-> p, reserve |-> chain.reserve[p], supply |-> chain.supply[p], userLp |-> 0]
             g == [f EXCEPT !.row = <<r>>]
  <2>1. Len(f.got) < f.len /\ Len(f.got) \in Nat
    BY <1>1, <1>4 DEF ReadPair
  <2>2. p \in Pair
    BY <1>1, <1>2, <2>1
  <2>3. r \in Row
    BY <1>2, <2>2 DEF Row, Chain
  <2>4. Advance(f, g) /\ UNCHANGED <<rows, loading>>
    BY <1>4 DEF ReadPair
  <2>. HIDE DEF r
  <2>5. <<r>> \in Seq(Row)
    BY <2>3
  <2>6. g \in FetchOf /\ g.len = f.len
    BY <1>1, <2>5 DEF FetchOf
  <2>. HIDE DEF g
  <2>. QED BY <1>1, <2>4, <2>6, Advanced
<1>5. CASE ReadBalance(f)
  <2> DEFINE lp == IF f.for = Nobody THEN 0 ELSE chain.bal[f.row[1].pair][f.for]
             r == [f.row[1] EXCEPT !.userLp = lp]
             g == [f EXCEPT !.got = Append(@, r), !.row = << >>]
  <2>1. f.row[1] \in Row
    BY <1>1, <1>5 DEF ReadBalance
  <2>2. lp \in Nat
    <3>1. f.row[1].pair \in Asset /\ (f.for # Nobody => f.for \in Holder)
      BY <1>1, <2>1, WalletAccounts, Assets DEF Row
    <3>. QED BY <1>2, <3>1 DEF Chain
  <2>. HIDE DEF lp
  <2>3. r \in Row
    BY <2>1, <2>2 DEF Row
  <2>4. Advance(f, g) /\ UNCHANGED <<rows, loading>>
    BY <1>5 DEF ReadBalance, lp
  <2>. HIDE DEF r
  <2>5. g \in FetchOf /\ g.len = f.len
    <3>1. Append(f.got, r) \in Seq(Row) /\ << >> \in Seq(Row)
      BY <1>1, <2>3
    <3>. QED BY <1>1, <3>1 DEF FetchOf
  <2>. HIDE DEF g
  <2>. QED BY <1>1, <2>4, <2>5, Advanced
<1>6. CASE FinishFetch(f)
  BY <1>1, <1>6 DEF FinishFetch, Lists, RowsIn, Fetched
<1>7. CASE FailFetch(f)
  BY <1>1, <1>7 DEF FailFetch, Lists, RowsIn, Fetched
<1>. QED BY <1>0, <1>3, <1>4, <1>5, <1>6, <1>7

---------------------------------------------------------------------------
(* The page that adds and removes *)

Form == [a : PageToken, b : PageToken, amountA : Nat, amountB : Nat]

CheckOf == [by : Wallet, pair : Pair, lp : Nat]

\* The form, the reads of its reserves, and the removals that wait.
PoolSound ==
  /\ form \in Form
  /\ pairReserves = Unknown \/ pairReserves \in Nat \X Nat
  /\ reserveFetches \subseteq Token \X Token
  /\ removal \in [open : Nat, percent : 1..100]
  /\ checks \subseteq (1..2) \X CheckOf

\* The addresses of the form's tokens are tokens of the chain.
LEMMA FormTokens ==
  ASSUME NEW f \in Form
  PROVE  Addresses(f) \in Token \X Token
BY PageTokens DEF Form, Addresses

\* What the form reads can be read.
LEMMA PoolReads ==
  ASSUME account \in Wallet \cup {Nobody}, NEW f \in Form
  PROVE  \A k \in PoolKeys(f) : Readable(k)
<1>1. account # Nobody => account \in Account /\ account \in Holder
  BY WalletAccounts
<1>2. f.a \in Asset /\ f.b \in Asset /\ \A t \in {f.a, f.b} \ {ECY} : t \in Token
  BY PageTokens DEF Form
<1>3. account # Nobody => Readable(BalanceOf(f.a, account)) /\ Readable(BalanceOf(f.b, account))
  BY <1>1, <1>2 DEF Readable, BalanceOf
<1>4. account # Nobody => \A t \in {f.a, f.b} \ {ECY} : Readable(AllowanceOf(t, account))
  BY <1>1, <1>2 DEF Readable, AllowanceOf
<1>. QED BY <1>3, <1>4 DEF PoolKeys

\* The other amount.
LEMMA MatchingNumber ==
  ASSUME NEW v \in Nat, NEW x \in Nat, NEW y \in Nat, x > 0
  PROVE  Matching(v, x, y) \in Nat
<1> DEFINE n == 2 * v * y + x
           d == 2 * x
<1>1. n \in Nat /\ d \in Nat /\ d > 0
  OBVIOUS
<1>2. Matching(v, x, y) = n \div d
  BY DEF Matching
<1>. HIDE DEF n, d
<1>. QED BY <1>1, <1>2, DivDown

\* An amount is typed.
LEMMA AmountSet ==
  ASSUME PoolSound, NEW side \in {"amountA", "amountB"}, NEW v \in Nat, SetAmount(side, v)
  PROVE  form' \in Form
<1> DEFINE other == IF side = "amountA" THEN "amountB" ELSE "amountA"
           x == IF side = "amountA" THEN pairReserves[1] ELSE pairReserves[2]
           y == IF side = "amountA" THEN pairReserves[2] ELSE pairReserves[1]
           w == IF v > 0 THEN Matching(v, x, y) ELSE 0
<1>1. form \in Form
  BY DEF PoolSound
<1>2. CASE pairReserves # Unknown /\ x > 0
  <2>1. x \in Nat /\ y \in Nat
    BY <1>2 DEF PoolSound
  <2>2. form' = [form EXCEPT ![side] = v, ![other] = w]
    BY <1>2 DEF SetAmount
  <2>. HIDE DEF x, y
  <2>3. w \in Nat
    <3>1. Matching(v, x, y) \in Nat
      BY <1>2, <2>1, MatchingNumber
    <3>. QED BY <3>1
  <2>. HIDE DEF w
  <2>. QED BY <1>1, <2>2, <2>3 DEF Form
<1>3. CASE ~(pairReserves # Unknown /\ x > 0)
  <2>1. form' = [form EXCEPT ![side] = v]
    BY <1>3 DEF SetAmount
  <2>. QED BY <1>1, <2>1 DEF Form
<1>. QED BY <1>2, <1>3

\* What is not in need of an approval is covered.
LEMMA NoApprovalNeeded ==
  ASSUME Knows, account \in Wallet, NEW t \in PageToken, t # ECY, NEW v \in Nat, v # 0,
         ~needsPoolApproval(t, v)
  PROVE  t \in Token /\ AtLeast(chain.allow[t][account], v)
<1>1. t \in Token /\ account \in Account /\ v > 0
  BY PageTokens, WalletAccounts
<1>2. AtLeast(Shown(AllowanceOf(t, account), 0), v)
  BY <1>1 DEF needsPoolApproval
<1>. QED BY <1>1, <1>2, ShownAllowance DEF Knows

\* When the page adds, ...
LEMMA ReadyToAdd ==
  ASSUME Knows, PoolSound, account \in Wallet, PoolAction = "add"
  PROVE  /\ form.a # ECY => form.a \in Token /\ AtLeast(chain.allow[form.a][account], form.amountA)
         /\ form.b # ECY => form.b \in Token /\ AtLeast(chain.allow[form.b][account], form.amountB)
<1>1. /\ form.a \in PageToken /\ form.b \in PageToken /\ form.amountA \in Nat /\ form.amountB \in Nat
      /\ account # Nobody
  BY WalletAccounts, ContractsAssumption DEF PoolSound, Form
<1>2. form.amountA # 0 /\ form.amountB # 0
  BY <1>1 DEF PoolAction
<1>3. ~needsPoolApproval(form.a, form.amountA)
  BY <1>1, <1>2 DEF PoolAction
<1>4. ~needsPoolApproval(form.b, form.amountB)
  BY <1>1, <1>2, <1>3 DEF PoolAction
<1>5. form.a # ECY => form.a \in Token /\ AtLeast(chain.allow[form.a][account], form.amountA)
  BY <1>1, <1>2, <1>3, NoApprovalNeeded
<1>6. form.b # ECY => form.b \in Token /\ AtLeast(chain.allow[form.b][account], form.amountB)
  BY <1>1, <1>2, <1>4, NoApprovalNeeded
<1>. QED BY <1>5, <1>6

\* ... what it sends is covered.
LEMMA AddProper ==
  ASSUME Knows, PoolSound, account \in Wallet, PoolAction = "add",
         NEW a, NEW b, a = getTokenAddr(form.a), b = getTokenAddr(form.b), a # b,
         NEW c, c.fn = (IF ECY \in {form.a, form.b} THEN "addLiquidityETH" ELSE "addLiquidity"),
         c.a = (IF form.a = ECY THEN b ELSE a), c.b = Other({a, b}, c.a),
         c.desired[a] = form.amountA, c.desired[b] = form.amountB
  PROVE  Proper(chain, account, c, NothingShown)
<1>1. a \in Token /\ b \in Token /\ c.b \in {a, b} /\ c.a \in {a, b} /\ c.b # c.a
  <2>1. a \in Token /\ b \in Token
    BY PageTokens DEF PoolSound, Form
  <2>2. \E u \in {a, b} : u # c.a
    OBVIOUS
  <2>. QED BY <2>1, <2>2 DEF Other
<1>2. /\ form.a # ECY => a = form.a /\ AtLeast(chain.allow[a][account], form.amountA)
      /\ form.b # ECY => b = form.b /\ AtLeast(chain.allow[b][account], form.amountB)
  BY ReadyToAdd DEF getTokenAddr
<1>3. c.desired[a] = form.amountA /\ c.desired[b] = form.amountB
  OBVIOUS
<1>4. CASE ECY \in {form.a, form.b}
  <2>1. c.fn = "addLiquidityETH"
    BY <1>4
  <2>2. Spends(c) = {<<c.a, c.desired[c.a]>>}
    BY <2>1 DEF Spends
  <2>3. CASE form.a = ECY
    <3>1. form.b # ECY /\ c.a = b
      BY <2>3
    <3>. QED BY <1>1, <1>2, <1>3, <2>1, <2>2, <3>1 DEF Proper, Covers, Swaps
  <2>4. CASE form.a # ECY
    <3>1. c.a = a
      BY <2>4
    <3>. QED BY <1>1, <1>2, <1>3, <2>1, <2>2, <2>4, <3>1 DEF Proper, Covers, Swaps
  <2>. QED BY <2>3, <2>4
<1>5. CASE ECY \notin {form.a, form.b}
  <2>1. c.fn = "addLiquidity"
    BY <1>5
  <2>2. Spends(c) = {<<t, c.desired[t]>> : t \in {c.a, c.b}}
    BY <2>1 DEF Spends
  <2>3. Spends(c) = {<<a, form.amountA>>, <<b, form.amountB>>}
    BY <1>1, <1>3, <2>2
  <2>. QED BY <1>1, <1>2, <1>5, <2>1, <2>3 DEF Proper, Covers, Swaps
<1>. QED BY <1>4, <1>5

\* A success has everything read anew.
LEMMA PoolConfirms ==
  ASSUME Knows, PoolSound, Lists, PoolConfirmed
  PROVE  Acts /\ PoolSound' /\ RowsIn' /\ Fetched(chain, fetches')
<1>1. /\ form' = [form EXCEPT !.amountA = 0, !.amountB = 0] /\ StartFetch(account)
      /\ reserveFetches' = reserveFetches \cup {Addresses(form)} /\ Receipt(WriteHook, "mined")
      /\ UNCHANGED <<chain, account, answers, wallet, outbox, sends, fills, pairReserves, removal, checks>>
  BY DEF PoolConfirmed
<1>2. HooksIn'
  BY <1>1, OwnHooks, HooksReceive DEF Knows
<1>3. Acts
  BY <1>1, <1>2 DEF Knows, Acts
<1>4. PoolSound'
  BY <1>1, FormTokens DEF PoolSound, Form
<1>5. account \in Wallet \cup {Nobody} /\ Good(chain)
  BY DEF Knows
<1>. QED BY <1>1, <1>3, <1>4, <1>5, Started

\* The part of the page that adds.
LEMMA AddingActs ==
  ASSUME Knows, PoolSound, Lists, AddingStep
  PROVE  Acts /\ PoolSound' /\ RowsIn' /\ Fetched(chain, fetches')
<1>0. /\ form \in Form /\ account \in Wallet \cup {Nobody}
      /\ Lists /\ RowsIn /\ Fetched(chain, fetches) /\ Good(chain)
  BY DEF PoolSound, Knows, Lists
<1>1. CASE Answer(PoolKeys(form)) /\ UNCHANGED poolVars
  <2>1. Acts
    BY <1>0, <1>1, PoolReads, ActsOnAnswer
  <2>. QED BY <1>0, <1>1, <2>1 DEF poolVars, fetchVars, PoolSound, RowsIn
<1>2. CASE fetchPairReserves /\ UNCHANGED <<hookVars, fetchVars, removal, checks>>
  <2>1. PICK path \in reserveFetches :
          /\ reserveFetches' = reserveFetches \ {path}
          /\ pairReserves' \in {ReservesOf(path), Unknown}
          /\ form' = form
    BY <1>2 DEF fetchPairReserves
  <2>2. path \in Token \X Token
    BY DEF PoolSound
  <2>3. ReservesOf(path) = Unknown \/ ReservesOf(path) \in Nat \X Nat
    <3>1. CASE path[1] # path[2]
      <4>1. {path[1], path[2]} \in Pair
        BY <2>2, <3>1, PairOf
      <4>2. chain.reserve[{path[1], path[2]}] \in [{path[1], path[2]} -> Nat]
        BY <4>1 DEF Knows, Good, Books
      <4>. QED BY <4>2 DEF ReservesOf
    <3>2. CASE path[1] = path[2]
      BY <3>2 DEF ReservesOf
    <3>. QED BY <3>1, <3>2
  <2>4. PoolSound'
    BY <1>2, <2>1, <2>3 DEF PoolSound
  <2>. QED BY <1>0, <1>2, <2>4, ActsNot DEF fetchVars, RowsIn
<1>3. ASSUME form' \in Form, UNCHANGED <<answers, pairReserves, reserveFetches>>, FormOnly
      PROVE  Acts /\ PoolSound' /\ RowsIn' /\ Fetched(chain, fetches')
  <2>1. Acts
    BY <1>3, ActsAlone DEF FormOnly, Knows
  <2>. QED BY <1>0, <1>3, <2>1 DEF FormOnly, PoolSound, fetchVars, RowsIn
<1>4. CASE handleAmountAChange
  <2>1. PICK v \in PoolAmounts \cup {0} : SetAmount("amountA", v)
    BY <1>4 DEF handleAmountAChange
  <2>2. v \in Nat
    BY PoolAssumption
  <2>. QED BY <1>3, <1>4, <2>1, <2>2, AmountSet DEF handleAmountAChange
<1>5. CASE handleAmountBChange
  <2>1. PICK v \in PoolAmounts \cup {0} : SetAmount("amountB", v)
    BY <1>5 DEF handleAmountBChange
  <2>2. v \in Nat
    BY PoolAssumption
  <2>. QED BY <1>3, <1>5, <2>1, <2>2, AmountSet DEF handleAmountBChange
<1>6. CASE UsePoolBalance
  <2>1. \A k : Known(k) => answers[k] \in Nat
    BY DEF Known, Knows, Answered, Read
  <2>2. form' \in Form
    BY <1>6, <2>1, AmountSet DEF UsePoolBalance
  <2>. QED BY <1>3, <1>6, <2>2 DEF UsePoolBalance
<1>7. CASE PickToken
  <2>1. PICK t \in PageToken, side \in {"a", "b"} :
          form' = [form EXCEPT ![side] = t, !.amountA = 0, !.amountB = 0]
    BY <1>7 DEF PickToken
  <2>2. form' \in Form
    BY <1>0, <2>1 DEF Form
  <2>3. Addresses(form') \in Token \X Token
    BY <2>2, FormTokens
  <2>4. Answered(chain, answers')
    BY <1>7, KeepAnswered DEF PickToken, Knows
  <2>5. Acts
    BY <1>7, <2>4, ActsAlone DEF PickToken, FormOnly
  <2>6. PoolSound'
    BY <1>7, <2>2, <2>3 DEF PickToken, FormOnly, PoolSound
  <2>. QED BY <1>0, <1>7, <2>5, <2>6 DEF PickToken, FormOnly, fetchVars, RowsIn
<1>8. ASSUME UNCHANGED poolVars
      PROVE  PoolSound' /\ RowsIn' /\ Fetched(chain, fetches')
  BY <1>0, <1>8 DEF poolVars, fetchVars, PoolSound, RowsIn
<1>9. CASE handlePoolApprove
  <2> DEFINE x == IF PoolAction = "approveA" THEN form.a ELSE form.b
  <2>1. /\ Write(WriteHook, Approval(x), NothingShown)
        /\ UNCHANGED <<chain, account, answers, fills, poolVars>>
    BY <1>9 DEF handlePoolApprove
  <2>. HIDE DEF x
  <2>2. Acts
    BY <2>1, OwnHooks, ApprovalProper, ActsOnWrite DEF Approval
  <2>. QED BY <1>8, <2>1, <2>2
<1>10. CASE handleAddLiquidity
  <2> DEFINE a == getTokenAddr(form.a)
             b == getTokenAddr(form.b)
             t == IF form.a = ECY THEN b ELSE a
             amounts == [x \in {a, b} |-> IF x = a THEN form.amountA ELSE form.amountB]
             c == [fn |-> IF ECY \in {form.a, form.b} THEN "addLiquidityETH" ELSE "addLiquidity",
                   a |-> t, b |-> Other({a, b}, t), desired |-> amounts,
                   min |-> [x \in {a, b} |-> MinOf(amounts[x])], to |-> account]
  <2>1. /\ PoolAction = "add" /\ UNCHANGED <<chain, account, answers, fills, poolVars>>
        /\ IF a = b THEN Write(WriteHook, [fn |-> "revert"], NothingShown)
                    ELSE Write(WriteHook, c, NothingShown)
    BY <1>10 DEF handleAddLiquidity
  <2>2. CASE a = b
    <3> DEFINE r == [fn |-> "revert"]
    <3>1. r.fn = "revert"
      OBVIOUS
    <3>2. Write(WriteHook, r, NothingShown)
      BY <2>1, <2>2
    <3>. HIDE DEF r
    <3>3. Proper(chain, account, r, NothingShown)
      BY <3>1 DEF Proper, Covers, Spends, Swaps
    <3>4. Acts
      BY <2>1, <3>2, <3>3, OwnHooks, ActsOnWrite
    <3>. QED BY <1>8, <2>1, <3>4
  <2>3. CASE a # b
    <3>1. /\ c.fn = (IF ECY \in {form.a, form.b} THEN "addLiquidityETH" ELSE "addLiquidity")
          /\ c.a = (IF form.a = ECY THEN b ELSE a) /\ c.b = Other({a, b}, c.a)
          /\ c.desired[a] = form.amountA /\ c.desired[b] = form.amountB
      BY <2>3
    <3>2. Write(WriteHook, c, NothingShown) /\ a = getTokenAddr(form.a) /\ b = getTokenAddr(form.b)
      BY <2>1, <2>3
    <3>. HIDE DEF c, t, amounts, a, b
    <3>3. account \in Wallet => Proper(chain, account, c, NothingShown)
      BY <2>1, <2>3, <3>1, <3>2, AddProper
    <3>4. Acts
      BY <2>1, <3>2, <3>3, OwnHooks, ActsOnWrite
    <3>. QED BY <1>8, <2>1, <3>4
  <2>. QED BY <2>2, <2>3
<1>11. CASE PoolConfirmed
  BY <1>11, PoolConfirms
<1>. QED BY <1>1, <1>2, <1>4, <1>5, <1>6, <1>7, <1>9, <1>10, <1>11 DEF AddingStep

\* The number of a position.
LEMMA NumberIs ==
  ASSUME RowsIn, NEW j
  PROVE  Number(j) \in Nat
<1>1. Len(rows) \in Nat
  BY DEF RowsIn
<1>2. IsFiniteSet(1..Len(rows))
  BY <1>1, FS_Interval
<1>3. {i \in Positions : i <= j} \subseteq 1..Len(rows)
  BY DEF Positions
<1>4. IsFiniteSet({i \in Positions : i <= j})
  BY <1>2, <1>3, FS_Subset
<1>. QED BY <1>4, FS_CardinalityType DEF Number

\* A removal is sent when the allowance that was asked for covers it, from
\* whatever account is connected then.
LEMMA RemovalProper ==
  ASSUME Knows, account \in Wallet, NEW k \in CheckOf, AtLeast(chain.allow[k.pair][k.by], k.lp)
  PROVE  Proper(chain, account, RemoveCall(k), NothingShown)
<1> DEFINE c == RemoveCall(k)
<1>1. /\ c.fn \in {"removeLiquidity", "removeLiquidityETH"}
      /\ c.pair = k.pair /\ c.amount = k.lp /\ c.to = k.by
  BY DEF RemoveCall
<1>. HIDE DEF c
<1>2. Spends(c) = {<<k.pair, k.lp>>}
  BY <1>1 DEF Spends
<1>3. k.pair \in Pair
  BY DEF CheckOf
<1>4. c.fn # "approve" /\ c.fn \notin Swaps
  BY <1>1 DEF Swaps
<1>5. Covers(chain, account, c) \/ (Removes(c) /\ c.to # account)
  BY <1>1, <1>2, <1>3 DEF Covers, Removes
<1>6. Proper(chain, account, c, NothingShown)
  BY <1>2, <1>3, <1>4, <1>5 DEF Proper
<1>. QED BY <1>6 DEF c

\* The part that removes.
LEMMA RemovingActs ==
  ASSUME Knows, PoolSound, Lists, RemovingStep
  PROVE  Acts /\ PoolSound' /\ RowsIn' /\ Fetched(chain, fetches')
<1>0. /\ removal \in [open : Nat, percent : 1..100] /\ checks \subseteq (1..2) \X CheckOf
      /\ account \in Wallet \cup {Nobody} /\ rows \in Seq(Row)
      /\ RowsIn /\ Fetched(chain, fetches) /\ Good(chain)
  BY DEF PoolSound, Knows, Lists, RowsIn
<1>1. ASSUME UNCHANGED fetchVars PROVE RowsIn' /\ Fetched(chain, fetches')
  BY <1>0, <1>1 DEF fetchVars, RowsIn
<1>2. ASSUME UNCHANGED formVars, removal' \in [open : Nat, percent : 1..100],
             checks' \subseteq (1..2) \X CheckOf
      PROVE  PoolSound'
  BY <1>2 DEF formVars, PoolSound
<1>3. CASE FetchStep /\ UNCHANGED <<hookVars, formVars, removal, checks>>
  BY <1>0, <1>2, <1>3, FetchesOn, ActsNot
<1>4. CASE OpenPosition
  <2>1. PICK j \in Positions : removal' = [removal EXCEPT !.open = IF @ = Number(j) THEN 0 ELSE Number(j)]
    BY <1>4 DEF OpenPosition
  <2>2. Number(j) \in Nat
    BY <1>0, NumberIs
  <2>3. removal' \in [open : Nat, percent : 1..100]
    BY <1>0, <2>1, <2>2
  <2>. QED BY <1>0, <1>1, <1>2, <1>4, <2>3, ActsNot DEF OpenPosition
<1>5. CASE MoveSlider
  <2>1. PICK v \in Percents : removal' = [removal EXCEPT !.percent = v]
    BY <1>5 DEF MoveSlider
  <2>2. removal' \in [open : Nat, percent : 1..100]
    BY <1>0, <2>1, PoolAssumption
  <2>. QED BY <1>0, <1>1, <1>2, <1>5, <2>2, ActsNot DEF MoveSlider
<1>6. CASE handleRemoveLiquidity
  <2>1. PICK j \in Positions, n \in 1..2 :
          checks' = checks \cup {<<n, [by |-> account, pair |-> rows[j].pair,
                                       lp |-> (rows[j].userLp * removal.percent) \div 100]>>}
    BY <1>6 DEF handleRemoveLiquidity
  <2>2. account \in Wallet /\ rows[j] \in Row
    BY <1>0, <1>6 DEF handleRemoveLiquidity, Positions
  <2>3. rows[j].pair \in Pair /\ rows[j].userLp \in Nat /\ removal.percent \in Nat
    <3>1. \A v \in 1..100 : v \in Nat
      OBVIOUS
    <3>2. removal.percent \in 1..100
      BY <1>0
    <3>3. rows[j].pair \in Pair /\ rows[j].userLp \in Nat
      BY <2>2 DEF Row
    <3>. QED BY <3>1, <3>2, <3>3
  <2>4. (rows[j].userLp * removal.percent) \div 100 \in Nat
    <3>1. rows[j].userLp * removal.percent \in Nat
      BY <2>3
    <3>. QED BY <3>1, DivDown
  <2>5. checks' \subseteq (1..2) \X CheckOf
    BY <1>0, <2>1, <2>2, <2>3, <2>4 DEF CheckOf
  <2>. QED BY <1>0, <1>1, <1>2, <1>6, <2>5, ActsNot DEF handleRemoveLiquidity
<1>7. CASE lpAllowanceCheck
  <2>1. PICK k \in checks :
          /\ checks' = checks \ {k}
          /\ IF AtLeast(chain.allow[k[2].pair][k[2].by], k[2].lp)
             THEN Write(WriteHook, RemoveCall(k[2]), NothingShown)
             ELSE Write(WriteHook, Approval(k[2].pair), NothingShown)
          /\ UNCHANGED <<chain, account, answers, fills, fetchVars, formVars, removal>>
    BY <1>7 DEF lpAllowanceCheck
  <2>2. k[2] \in CheckOf
    BY <1>0
  <2>3. CASE AtLeast(chain.allow[k[2].pair][k[2].by], k[2].lp)
    <3>1. account \in Wallet => Proper(chain, account, RemoveCall(k[2]), NothingShown)
      BY <2>2, <2>3, RemovalProper
    <3>2. Write(WriteHook, RemoveCall(k[2]), NothingShown)
      BY <2>1, <2>3
    <3>3. Acts
      BY <2>1, <3>1, <3>2, OwnHooks, ActsOnWrite
    <3>. QED BY <1>0, <1>1, <1>2, <2>1, <3>3
  <2>4. CASE ~AtLeast(chain.allow[k[2].pair][k[2].by], k[2].lp)
    <3>1. Write(WriteHook, Approval(k[2].pair), NothingShown)
      BY <2>1, <2>4
    <3>2. Acts
      BY <2>1, <3>1, OwnHooks, ApprovalProper, ActsOnWrite DEF Approval
    <3>. QED BY <1>0, <1>1, <1>2, <2>1, <3>2
  <2>. QED BY <2>3, <2>4
<1>8. CASE lpAllowanceCheckFails
  <2>1. checks' \subseteq (1..2) \X CheckOf
    BY <1>0, <1>8 DEF lpAllowanceCheckFails
  <2>. QED BY <1>0, <1>1, <1>2, <1>8, <2>1, ActsNot DEF lpAllowanceCheckFails
<1>9. CASE PoolConfirmed
  BY <1>9, PoolConfirms
<1>. QED BY <1>3, <1>4, <1>5, <1>6, <1>7, <1>8, <1>9 DEF RemovingStep

---------------------------------------------------------------------------
(* The pages that list *)

\* Every step of the pages that list.
LEMMA ListsAct ==
  ASSUME Knows, Lists, FarmStep \/ TokensStep \/ PortfolioStep
  PROVE  Acts /\ RowsIn' /\ Fetched(chain, fetches')
<1>0. account \in Wallet \cup {Nobody} /\ RowsIn /\ Fetched(chain, fetches) /\ Good(chain)
  BY DEF Knows, Lists
<1>1. ASSUME UNCHANGED hookVars, UNCHANGED <<fetches, rows>>, loading' \in BOOLEAN
      PROVE  Acts /\ RowsIn' /\ Fetched(chain, fetches')
  <2>1. Acts
    BY <1>1, ActsNot
  <2>. QED BY <1>0, <1>1, <2>1 DEF RowsIn
<1>2. loading \in BOOLEAN
  BY <1>0 DEF RowsIn
<1>3. CASE FarmStep
  <2>1. CASE fetchFarms
    BY <1>0, <2>1, Started, ActsNot DEF fetchFarms
  <2>2. CASE FetchStep /\ UNCHANGED <<hookVars, sweeps, tokens, tokenBals, txs>>
    BY <1>0, <2>2, FetchesOn, ActsNot
  <2>. QED BY <1>3, <2>1, <2>2 DEF FarmStep
<1>4. ASSUME NEW f, FailSweep(f) PROVE Acts /\ RowsIn' /\ Fetched(chain, fetches')
  BY <1>1, <1>4 DEF FailSweep
<1>5. CASE TokensStep
  <2>1. CASE fetchTokens
    BY <1>1, <2>1 DEF fetchTokens, StartSweep
  <2>2. ASSUME NEW f \in sweeps, FinishTokens(f) PROVE Acts /\ RowsIn' /\ Fetched(chain, fetches')
    BY <1>1, <2>2 DEF FinishTokens
  <2>3. ASSUME UNCHANGED <<hookVars, fetchVars, tokens, tokenBals, txs>>
        PROVE  Acts /\ RowsIn' /\ Fetched(chain, fetches')
    BY <1>1, <1>2, <2>3 DEF fetchVars
  <2>. QED BY <1>4, <1>5, <2>1, <2>2, <2>3 DEF TokensStep
<1>6. CASE PortfolioStep
  <2>1. CASE fetchAll
    BY <1>1, <2>1 DEF fetchAll, StartSweep
  <2>2. CASE Answer(IF account = Nobody THEN {} ELSE {BalanceOf(ECY, account)}) /\ UNCHANGED listVars
    <3> DEFINE keys == IF account = Nobody THEN {} ELSE {BalanceOf(ECY, account)}
    <3>1. \A k \in keys : Readable(k)
      <4>1. account # Nobody => account \in Holder /\ ECY \in Asset
        BY <1>0, WalletAccounts, Assets
      <4>. QED BY <4>1 DEF Readable, BalanceOf
    <3>2. Answer(keys) /\ UNCHANGED listVars
      BY <2>2
    <3>. HIDE DEF keys
    <3>3. Acts
      BY <3>1, <3>2, ActsOnAnswer
    <3>. QED BY <1>0, <3>2, <3>3 DEF listVars, fetchVars, RowsIn
  <2>3. ASSUME NEW f \in sweeps, ShowBalances(f) \/ ShowSwaps(f)
        PROVE  Acts /\ RowsIn' /\ Fetched(chain, fetches')
    BY <1>1, <1>2, <2>3 DEF ShowBalances, ShowSwaps, fetchVars
  <2>4. ASSUME UNCHANGED <<hookVars, fetchVars, tokens, tokenBals, txs>>
        PROVE  Acts /\ RowsIn' /\ Fetched(chain, fetches')
    BY <1>1, <1>2, <2>4 DEF fetchVars
  <2>. QED BY <1>4, <1>6, <2>1, <2>2, <2>3, <2>4 DEF PortfolioStep
<1>. QED BY <1>3, <1>5, <1>6

---------------------------------------------------------------------------
(* The whole state *)

\* Every request that waits is a proper one.
Waiting == \E R : outbox \in Seq(R) /\ \A r \in wallet \cup R : Request(chain, r)

\* The hooks, ...
HooksSound ==
  /\ Good(chain) /\ account \in Wallet \cup {Nobody} /\ HooksIn
  /\ Answered(chain, answers) /\ Waiting /\ SwapWithinSlippage

\* ... which nothing but the pages uses, ...
Aside ==
  IF program \in {"scripts", "traders"}
  THEN answers = << >> /\ wallet = {} /\ outbox = << >>
  ELSE Level(chain)

\* ... the pages, ...
PagesSound ==
  SwapCardTypeOK /\ TransferTypeOK /\ PoolSound /\ RowsIn /\ Fetched(chain, fetches)

\* ... and the scripts: what a script sends next is covered by what it has
\* approved before.
ScriptRunsSound ==
  /\ script \in Scripts /\ pc \in Nat
  /\ script # "simulate_trades" => pc <= Len(Steps)
  /\ script = "simulate_trades" /\ pc \notin {0, 1} => chain.allow[USDT][Deployer] = Unlimited
  /\ pc # 0 => \A c \in Calls : Covers(chain, Deployer, c)
  /\ scriptTx # NoCall => pc # 0 /\ scriptTx \in Calls

ScriptSound == IF program = "scripts" THEN ScriptRunsSound ELSE scriptTx = NoCall

AppSound == program \in Programs /\ HooksSound /\ Aside /\ PagesSound /\ ScriptSound

\* What is left when one is mined.
LEMMA SentLess ==
  ASSUME NEW S, NEW o \in Seq(S), NEW i \in 1..Len(o)
  PROVE  SubSeq(o, 1, i - 1) \o SubSeq(o, i + 1, Len(o)) \in Seq(S)
<1>1. SubSeq(o, 1, i - 1) \in Seq(S) /\ SubSeq(o, i + 1, Len(o)) \in Seq(S)
  OBVIOUS
<1>. QED BY <1>1

\* The next stage of a request.
LEMMA StageSet ==
  ASSUME HooksIn, NEW r, r.hook \in Hook, NEW stage \in Stages, SetStage(r, stage), UNCHANGED sends
  PROVE  HooksIn'
BY DEF HooksIn, SetStage

\* What a page does leaves the hooks sound.
LEMMA ActsSound ==
  ASSUME HooksSound, Aside, program \notin {"scripts", "traders"}, UNCHANGED program, Acts
  PROVE  HooksSound' /\ Aside'
<1>1. Waiting'
  BY DEF Acts, HooksSound, Waiting
<1>2. SwapWithinSlippage'
  BY DEF Acts, HooksSound, SwapWithinSlippage
<1>3. Level(chain)
  BY DEF Aside
<1>. QED BY <1>1, <1>2, <1>3 DEF Acts, HooksSound, Aside

\* A page knows what the application does.
LEMMA PageKnows ==
  ASSUME HooksSound, Aside, program \notin {"scripts", "traders"}
  PROVE  Knows
BY DEF HooksSound, Aside, Knows

\* What does not change.
LEMMA StaysSound ==
  /\ SwapCardTypeOK /\ UNCHANGED swapCardVars => SwapCardTypeOK'
  /\ TransferTypeOK /\ UNCHANGED transferVars => TransferTypeOK'
  /\ PoolSound /\ UNCHANGED pageVars => PoolSound'
  /\ RowsIn /\ UNCHANGED fetchVars => RowsIn'
  /\ scriptTx = NoCall /\ UNCHANGED scriptVars => scriptTx' = NoCall
<1>1. SwapCardTypeOK /\ UNCHANGED swapCardVars => SwapCardTypeOK'
  BY DEF swapCardVars, SwapCardTypeOK
<1>2. TransferTypeOK /\ UNCHANGED transferVars => TransferTypeOK'
  BY DEF transferVars, TransferTypeOK
<1>3. PoolSound /\ UNCHANGED pageVars => PoolSound'
  BY DEF pageVars, PoolSound
<1>4. RowsIn /\ UNCHANGED fetchVars => RowsIn'
  BY DEF fetchVars, RowsIn
<1>. QED BY <1>1, <1>2, <1>3, <1>4 DEF scriptVars

\* The steps of the pages, and of the price service, leave all sound.
LEMMA PagesStaySound ==
  ASSUME AppSound, SwapPage \/ PoolPageRuns \/ TransferPageRuns \/ ListPage \/ ChartsPageRuns \/ PriceServiceRuns
  PROVE  AppSound'
<1>0. /\ HooksSound /\ Aside /\ program \in Programs /\ ScriptSound
      /\ SwapCardTypeOK /\ TransferTypeOK /\ PoolSound /\ RowsIn /\ Fetched(chain, fetches)
  BY DEF AppSound, PagesSound
<1>1. /\ program \notin {"scripts", "traders"} /\ UNCHANGED <<program, scriptVars>>
  BY DEF SwapPage, PoolPageRuns, TransferPageRuns, ListPage, ChartsPageRuns, PriceServiceRuns
<1>2. Knows /\ Lists
  BY <1>0, <1>1, PageKnows DEF Lists
<1>3. ScriptSound'
  BY <1>0, <1>1, StaysSound DEF ScriptSound
<1>4. ASSUME Acts, SwapCardTypeOK', TransferTypeOK', PoolSound', RowsIn', Fetched(chain, fetches')
      PROVE  AppSound'
  <2>1. HooksSound' /\ Aside'
    BY <1>0, <1>1, <1>4, ActsSound
  <2>2. PagesSound'
    BY <1>4 DEF Acts, PagesSound
  <2>. QED BY <1>0, <1>1, <1>3, <2>1, <2>2 DEF AppSound
<1>5. ASSUME UNCHANGED fetchVars PROVE RowsIn' /\ Fetched(chain, fetches')
  BY <1>0, <1>5, StaysSound DEF fetchVars
<1>6. CASE SwapPage
  BY <1>0, <1>2, <1>4, <1>5, <1>6, SwapPageActs, StaysSound DEF SwapPage
<1>7. CASE PoolPageRuns
  BY <1>0, <1>2, <1>4, <1>7, AddingActs, RemovingActs, StaysSound DEF PoolPageRuns
<1>8. CASE TransferPageRuns
  BY <1>0, <1>2, <1>4, <1>5, <1>8, TransferPageActs, StaysSound DEF TransferPageRuns
<1>9. CASE ListPage
  BY <1>0, <1>2, <1>4, <1>9, ListsAct, StaysSound DEF ListPage
<1>10. CASE ChartsPageRuns
  <2>1. UNCHANGED hookVars
    BY <1>10 DEF ChartsPageRuns, ChartsStep, KnowPair, Tick, selectInterval, fetchReserves, fetchTrades
  <2>2. Acts
    BY <1>2, <2>1, ActsNot
  <2>. QED BY <1>0, <1>4, <1>5, <1>10, <2>2, StaysSound DEF ChartsPageRuns
<1>11. CASE PriceServiceRuns
  <2>1. Acts
    BY <1>2, <1>11, ActsNot DEF PriceServiceRuns
  <2>. QED BY <1>0, <1>4, <1>5, <1>11, <2>1, StaysSound DEF PriceServiceRuns
<1>. QED BY <1>6, <1>7, <1>8, <1>9, <1>10, <1>11

\* What is bought for no less than the least output is within the slippage.
LEMMA WithinFloor ==
  ASSUME NEW p \in Int, NEW u \in Nat \ {0}, NEW n \in Int, n >= p \div u
  PROVE  (n + 1) * u > p
<1> DEFINE d == p \div u
           r == p % u
<1>1. d \in Int /\ r \in 0..(u - 1) /\ p = u * d + r
  OBVIOUS
<1>. HIDE DEF d, r
<1>2. n >= d
  BY DEF d
<1>3. n - d \in Nat
  BY <1>1, <1>2
<1>4. (n - d) * u >= 0
  BY <1>3
<1>5. (n + 1) * u = (n - d) * u + d * u + u
  BY <1>1, <1>3
<1>. QED BY <1>1, <1>4, <1>5

\* What is signed, rejected, mined or seen to have reverted.
LEMMA WalletStaysSound ==
  ASSUME AppSound, WalletRuns
  PROVE  AppSound'
<1>0. /\ HooksSound /\ Aside /\ program \in Programs /\ scriptTx = NoCall /\ Level(chain)
      /\ SwapCardTypeOK /\ TransferTypeOK /\ PoolSound /\ RowsIn /\ Fetched(chain, fetches)
      /\ program \notin {"scripts", "traders"} /\ program # "scripts"
      /\ UNCHANGED <<program, traded, swapCardVars, fetchVars, pageVars, transferVars, sweepVars,
                     chartVars, priceVars, scriptVars>>
  BY DEF AppSound, PagesSound, ScriptSound, Aside, WalletRuns
<1>1. /\ Good(chain) /\ account \in Wallet \cup {Nobody} /\ HooksIn
      /\ Answered(chain, answers) /\ SwapWithinSlippage
  BY <1>0 DEF HooksSound
<1>2. PICK R : outbox \in Seq(R) /\ \A r \in wallet \cup R : Request(chain, r)
  BY <1>0 DEF HooksSound, Waiting
<1>3. SwapCardTypeOK' /\ TransferTypeOK' /\ PoolSound' /\ RowsIn' /\ scriptTx' = NoCall /\ fetches' = fetches
  BY <1>0, StaysSound DEF fetchVars
<1>4. ASSUME UNCHANGED <<chain, account, answers, fills>>, HooksIn', Waiting'
      PROVE  AppSound'
  <2>1. SwapWithinSlippage'
    BY <1>1, <1>4 DEF SwapWithinSlippage
  <2>2. HooksSound'
    BY <1>1, <1>4, <2>1 DEF HooksSound
  <2>. QED BY <1>0, <1>3, <1>4, <2>2 DEF AppSound, PagesSound, ScriptSound, Aside
<1>5. CASE UserSigns
  <2>1. PICK r \in wallet :
          /\ wallet' = wallet \ {r} /\ outbox' = Append(outbox, r) /\ SetStage(r, "confirming")
          /\ UNCHANGED <<chain, account, answers, sends, fills>>
    BY <1>5 DEF UserSigns
  <2>2. r.hook \in Hook
    BY <1>2 DEF Request
  <2>3. HooksIn'
    BY <1>1, <2>1, <2>2, StageSet DEF Stages
  <2>4. outbox' \in Seq(R \cup {r}) /\ \A x \in wallet' \cup R \cup {r} : Request(chain', x)
    BY <1>2, <2>1
  <2>. QED BY <1>4, <2>1, <2>3, <2>4 DEF Waiting
<1>6. CASE UserRejects
  <2>1. PICK r \in wallet :
          /\ wallet' = wallet \ {r} /\ SetStage(r, "idle")
          /\ UNCHANGED <<chain, account, answers, outbox, sends, fills>>
    BY <1>6 DEF UserRejects
  <2>2. r.hook \in Hook
    BY <1>2 DEF Request
  <2>3. HooksIn'
    BY <1>1, <2>1, <2>2, StageSet DEF Stages
  <2>4. outbox' \in Seq(R) /\ \A x \in wallet' \cup R : Request(chain', x)
    BY <1>2, <2>1
  <2>. QED BY <1>4, <2>1, <2>3, <2>4 DEF Waiting
<1>7. ASSUME NEW h \in Hook, SeeRevert(h) PROVE AppSound'
  <2>1. HooksIn'
    BY <1>1, <1>7, HooksReceive DEF SeeRevert
  <2>2. Waiting'
    BY <1>2, <1>7 DEF SeeRevert, Waiting
  <2>. QED BY <1>4, <1>7, <2>1, <2>2 DEF SeeRevert
<1>8. CASE Mine
  <2>1. PICK i \in 1..Len(outbox) :
          /\ outbox' = SubSeq(outbox, 1, i - 1) \o SubSeq(outbox, i + 1, Len(outbox))
          /\ \E e \in Executed(chain, outbox[i].from, outbox[i].call) :
              /\ chain' = e.chain
              /\ SetStage(outbox[i], IF e.ok THEN "mined" ELSE "reverted")
              /\ fills' = IF outbox[i].call.fn \in Swaps /\ e.ok
                          THEN fills \cup {[shown |-> outbox[i].shown,
                                            got |-> Last(e.chain.swaps).out[Last(outbox[i].call.path)]]}
                          ELSE fills
          /\ UNCHANGED <<account, answers, wallet, sends>>
    BY <1>8 DEF Mine
  <2> DEFINE r == outbox[i]
  <2>2. PICK e \in Executed(chain, r.from, r.call) :
          /\ chain' = e.chain
          /\ SetStage(r, IF e.ok THEN "mined" ELSE "reverted")
          /\ fills' = IF r.call.fn \in Swaps /\ e.ok
                      THEN fills \cup {[shown |-> r.shown, got |-> Last(e.chain.swaps).out[Last(r.call.path)]]}
                      ELSE fills
    BY <2>1
  <2>3. Request(chain, r)
    BY <1>2
  <2>4. outbox' \in Seq(R)
    BY <1>2, <2>1, SentLess
  <2>. HIDE DEF r
  <2>5. r.hook \in Hook /\ Proper(chain, r.from, r.call, r.shown)
    BY <2>3 DEF Request
  <2>6. Good(chain')
    BY <1>1, <2>2, ExecutedGood
  <2>7. Level(chain') /\ Steady(chain, chain') /\ Len(chain.allPairs) <= Len(chain'.allPairs)
    BY <1>0, <1>1, <2>2, <2>5, SteadyCall DEF Proper
  <2>8. HooksIn'
    BY <1>1, <2>1, <2>2, <2>5, StageSet DEF Stages
  <2>9. Answered(chain', answers')
    BY <1>0, <1>1, <2>1, <2>7, SteadyAnswers
  <2>10. Waiting'
    <3>1. \A x \in wallet' \cup R : Request(chain', x)
      BY <1>2, <2>1, <2>7, SteadyRequest
    <3>. QED BY <2>4, <3>1 DEF Waiting
  <2>11. SwapWithinSlippage'
    <3>1. ASSUME NEW f \in fills', f \notin fills, f.shown.quote > 0
          PROVE  (f.got + 1) * SlippageUnit > f.shown.quote * LeastShare(f.shown.slippage)
      <4>1. /\ r.call.fn \in Swaps /\ e.ok /\ f.shown = r.shown
            /\ f.got = Last(e.chain.swaps).out[Last(r.call.path)]
        BY <2>2, <3>1
      <4>2. Bound(r.call, r.shown)
        BY <2>5, <4>1 DEF Proper
      <4>3. PICK share \in Int :
              /\ f.shown.quote \in Nat /\ f.shown.slippage \in Int
              /\ share >= LeastShare(f.shown.slippage)
              /\ r.call.limit = (f.shown.quote * share) \div SlippageUnit
        BY <3>1, <4>1, <4>2 DEF Bound
      <4>4. f.got \in Nat /\ f.got >= r.call.limit
        BY <1>1, <4>1, <4>2, ExecutedUses DEF Bound
      <4> DEFINE q == f.shown.quote
                 least == LeastShare(f.shown.slippage)
                 n == f.got
                 p == q * share
      <4>5. SlippageUnit \in Nat \ {0} /\ q \in Nat /\ least \in Int /\ n \in Nat
        BY <4>3, <4>4, SwapCardAssumption DEF LeastShare, Whole
      <4>6. n >= p \div SlippageUnit /\ share >= least
        BY <4>3, <4>4
      <4>. HIDE DEF q, least, n
      <4>7. p \in Int /\ p >= q * least
        <5>1. q * (share - least) \in Nat /\ q * (share - least) = q * share - q * least
          BY <4>5, <4>6
        <5>. QED BY <4>5, <5>1
      <4>9. q * least \in Int
        BY <4>5
      <4>. HIDE DEF p
      <4>8. (n + 1) * SlippageUnit > p
        BY <4>5, <4>6, <4>7, WithinFloor
      <4>10. (n + 1) * SlippageUnit \in Int
        BY <4>5
      <4>11. (n + 1) * SlippageUnit > q * least
        BY <4>7, <4>8, <4>9, <4>10
      <4>. QED BY <4>11 DEF q, least, n
    <3>. QED BY <1>1, <3>1 DEF SwapWithinSlippage, LeastShare
  <2>12. Fetched(chain', fetches')
    BY <1>0, <1>1, <1>3, <2>6, <2>7, FetchedLater
  <2>13. HooksSound'
    BY <1>1, <2>1, <2>6, <2>8, <2>9, <2>10, <2>11 DEF HooksSound
  <2>. QED BY <1>0, <1>3, <2>7, <2>12, <2>13 DEF AppSound, PagesSound, ScriptSound, Aside
<1>. QED BY <1>5, <1>6, <1>7, <1>8 DEF WalletRuns, WalletStep

\* Another account is connected, or none.
LEMMA SwitchStaysSound ==
  ASSUME AppSound, SwitchAccount
  PROVE  AppSound'
<1>0. /\ HooksSound /\ Aside /\ program \in Programs /\ scriptTx = NoCall
      /\ SwapCardTypeOK /\ TransferTypeOK /\ PoolSound /\ RowsIn /\ Fetched(chain, fetches)
      /\ program \notin {"scripts", "traders"} /\ program # "scripts" /\ Lists /\ Good(chain)
  BY DEF AppSound, PagesSound, ScriptSound, SwitchAccount, Pages, Lists, HooksSound
<1>1. /\ account' \in Wallet \cup {Nobody}
      /\ answers' = Restrict(answers, {k \in DOMAIN answers : k.kind = "quote"})
      /\ UNCHANGED <<program, traded, chain, sendVars, fills, swapCardVars, pageVars, transferVars, chartVars,
                     priceVars, scriptVars>>
  BY DEF SwitchAccount, SwitchTo
<1>2. RowsIn' /\ Fetched(chain, fetches')
  <2>1. \/ StartFetch(account')
        \/ StartSweep(account') /\ UNCHANGED <<fetches, rows>>
        \/ UNCHANGED fetchVars
    BY DEF SwitchAccount
  <2>2. CASE StartFetch(account')
    BY <1>0, <1>1, <2>2, Started
  <2>3. CASE StartSweep(account') /\ UNCHANGED <<fetches, rows>>
    BY <1>0, <2>3 DEF StartSweep, RowsIn
  <2>4. CASE UNCHANGED fetchVars
    BY <1>0, <2>4 DEF fetchVars, RowsIn
  <2>. QED BY <2>1, <2>2, <2>3, <2>4
<1>3. Answered(chain, answers')
  BY <1>0, <1>1 DEF HooksSound, Answered, Restrict
<1>4. HooksSound'
  BY <1>0, <1>1, <1>3 DEF HooksSound, HooksIn, sendVars, Waiting, SwapWithinSlippage
<1>5. SwapCardTypeOK' /\ TransferTypeOK' /\ PoolSound' /\ scriptTx' = NoCall
  BY <1>0, <1>1, StaysSound
<1>. QED BY <1>0, <1>1, <1>2, <1>4, <1>5 DEF AppSound, PagesSound, ScriptSound, Aside

\* However it ends, a transaction takes no pair away and no swap.
LEMMA CallAdds ==
  ASSUME NEW s, Good(s), NEW t, OneCall(s, t)
  PROVE  Len(s.allPairs) <= Len(t.allPairs) /\ Len(s.swaps) <= Len(t.swaps)
<1>1. Len(s.allPairs) \in Nat /\ Len(s.swaps) \in Nat
  BY GoodListed, ListGrows DEF Listed
<1>2. ASSUME NEW from, NEW c, NEW e \in Executed(s, from, c), t = e.chain
      PROVE  Len(s.allPairs) <= Len(t.allPairs) /\ Len(s.swaps) <= Len(t.swaps)
  BY <1>1, <1>2, ExecutedUses DEF Uses, Sets
<1>. QED BY <1>1, <1>2 DEF OneCall

\* Where nothing is asked of the wallet, the chain may do what it wants.
LEMMA AsideSound ==
  ASSUME HooksSound, Aside, program \in {"scripts", "traders"}, Good(chain'),
         UNCHANGED <<program, account, answers, hook, wallet, outbox, fills>>, sends' \in Nat
  PROVE  HooksSound' /\ Aside'
<1>1. answers' = << >> /\ wallet' = {} /\ outbox' = << >>
  BY DEF Aside
<1>2. Answered(chain', answers')
  BY <1>1 DEF Answered
<1>3. outbox' \in Seq({}) /\ \A r \in wallet' \cup {} : Request(chain', r)
  BY <1>1
<1>4. Waiting'
  BY <1>3 DEF Waiting
<1>5. HooksIn' /\ SwapWithinSlippage' /\ account' \in Wallet \cup {Nobody}
  BY DEF HooksSound, HooksIn, SwapWithinSlippage
<1>. QED BY <1>1, <1>2, <1>4, <1>5 DEF HooksSound, Aside

\* What others call does not touch what a script has approved.
LEMMA OthersLeaveScripts ==
  ASSUME ScriptRunsSound, NEW m, NEW e \in Executed(chain, Trader, MarketCall(Trader, m)), Good(chain),
         chain' = e.chain, UNCHANGED scriptVars
  PROVE  ScriptRunsSound'
<1>1. MarketCall(Trader, m).fn # "approve"
  BY DEF MarketCall
<1>2. Uses(chain, chain', Trader)
  BY <1>1, ExecutedUses
<1>3. Deployer \in Account /\ Trader # Deployer /\ USDT \in Token
  BY AppAssumption
<1>4. \A x \in Token \cup Pair : chain'.allow[x][Deployer] = chain.allow[x][Deployer]
  BY <1>2, <1>3 DEF Uses
<1>5. \A c : Covers(chain, Deployer, c) => Covers(chain', Deployer, c)
  BY <1>4 DEF Covers
<1>6. script' = script /\ pc' = pc /\ scriptTx' = scriptTx /\ lpBalance' = lpBalance
  BY DEF scriptVars
<1>7. Steps' = Steps /\ Calls' = Calls
  BY <1>6 DEF Steps, Calls, TestAllDexScript
<1>. QED BY <1>3, <1>4, <1>5, <1>6, <1>7 DEF ScriptRunsSound

\* Others trade.
LEMMA OthersStaySound ==
  ASSUME AppSound, OthersTrade
  PROVE  AppSound'
<1>0. /\ HooksSound /\ Aside /\ program \in Programs /\ ScriptSound
      /\ SwapCardTypeOK /\ TransferTypeOK /\ PoolSound /\ RowsIn /\ Fetched(chain, fetches)
      /\ Good(chain)
  BY DEF AppSound, PagesSound, HooksSound
<1>1. PICK c, e : c \in OthersCalls /\ e \in Executed(chain, c[1], c[2]) /\ chain' = e.chain
  BY DEF OthersTrade
<1>2. UNCHANGED <<program, account, answers, sendVars, fills, swapCardVars, fetchVars, pageVars,
                  transferVars, sweepVars, chartVars, priceVars, scriptVars>>
  BY DEF OthersTrade
<1>3. Good(chain') /\ Len(chain.allPairs) <= Len(chain'.allPairs)
  BY <1>0, <1>1, ExecutedGood, CallAdds DEF OneCall
<1>4. PagesSound'
  <2>1. SwapCardTypeOK' /\ TransferTypeOK' /\ PoolSound' /\ RowsIn'
    BY <1>0, <1>2, StaysSound
  <2>2. Fetched(chain', fetches')
    BY <1>0, <1>2, <1>3, FetchedLater DEF fetchVars
  <2>. QED BY <2>1, <2>2 DEF PagesSound
<1>5. program # "traders" => \E m : c = <<Trader, MarketCall(Trader, m)>>
  BY <1>1 DEF OthersCalls
<1>6. CASE program \in {"scripts", "traders"}
  <2>1. HooksSound' /\ Aside'
    <3>1. sends' \in Nat
      BY <1>0, <1>2 DEF HooksSound, HooksIn, sendVars
    <3>. QED BY <1>0, <1>2, <1>3, <1>6, <3>1, AsideSound DEF sendVars
  <2>2. ScriptSound'
    <3>1. CASE program = "scripts"
      <4>1. PICK m : c = <<Trader, MarketCall(Trader, m)>>
        BY <1>5, <3>1
      <4>2. e \in Executed(chain, Trader, MarketCall(Trader, m))
        BY <1>1, <4>1
      <4>3. ScriptRunsSound'
        BY <1>0, <1>1, <1>2, <3>1, <4>2, OthersLeaveScripts DEF ScriptSound
      <4>. QED BY <1>2, <3>1, <4>3 DEF ScriptSound
    <3>2. CASE program = "traders"
      BY <1>0, <1>2, <3>2, StaysSound DEF ScriptSound
    <3>. QED BY <1>6, <3>1, <3>2
  <2>. QED BY <1>0, <1>2, <1>4, <2>1, <2>2 DEF AppSound
<1>7. CASE program \notin {"scripts", "traders"}
  <2>1. Level(chain) /\ c[2].fn # "approve"
    BY <1>0, <1>5, <1>7 DEF Aside, MarketCall
  <2>2. Level(chain') /\ Steady(chain, chain')
    BY <1>0, <1>1, <2>1, SteadyCall
  <2>3. Answered(chain', answers')
    BY <1>0, <1>2, <2>1, <2>2, SteadyAnswers DEF HooksSound
  <2>4. Waiting'
    <3>1. PICK R : outbox \in Seq(R) /\ \A r \in wallet \cup R : Request(chain, r)
      BY <1>0 DEF HooksSound, Waiting
    <3>2. outbox' \in Seq(R) /\ \A r \in wallet' \cup R : Request(chain', r)
      BY <1>2, <2>2, <3>1, SteadyRequest DEF sendVars
    <3>. QED BY <3>2 DEF Waiting
  <2>5. HooksSound'
    BY <1>0, <1>2, <1>3, <2>3, <2>4 DEF HooksSound, HooksIn, sendVars, SwapWithinSlippage
  <2>6. ScriptSound'
    BY <1>0, <1>2, <1>7, StaysSound DEF ScriptSound
  <2>. QED BY <1>0, <1>2, <1>4, <1>7, <2>2, <2>5, <2>6 DEF AppSound, Aside
<1>. QED BY <1>6, <1>7

---------------------------------------------------------------------------
(* The scripts *)

\* Every step that spends comes right after its approval.
Prepared(calls) ==
  \A i \in 1..Len(calls) :
    \/ Spends(calls[i]) = {}
    \/ /\ i > 1 /\ calls[i - 1].fn = "approve"
       /\ Spends(calls[i]) = {<<calls[i - 1].asset, calls[i - 1].amount>>}

\* What the calls of the scripts spend.
LEMMA SpendsOf ==
  /\ \A x, v : Spends(Approve(x, v)) = {} /\ Approve(x, v).fn = "approve"
               /\ Approve(x, v).asset = x /\ Approve(x, v).amount = v
  /\ \A t, v, w : Spends(AddETH(t, v, w)) = {<<t, v>>}
  /\ \A v, path : Spends(SwapAll("swapETHForTokens", v, path)) = {}
  /\ \A v, path, fn : fn \in {"swapTokensForTokens", "swapTokensForETH"} =>
                        Spends(SwapAll(fn, v, path)) = {<<path[1], v>>}
  /\ \A x, a, v : Spends(Send(x, a, v)) = {}
  /\ \A v : Spends([fn |-> "deposit", amount |-> v]) = {}
  /\ \A v : Spends([fn |-> "withdraw", amount |-> v]) = {}
  /\ \A x, v : Spends([fn |-> "createToken", asset |-> x, amount |-> v]) = {}
  /\ \A p, v, m, a : Spends([fn |-> "removeLiquidityETH", pair |-> p, amount |-> v, min |-> m, to |-> a])
                       = {<<p, v>>}
<1>1. \A x, v : Spends(Approve(x, v)) = {} /\ Approve(x, v).fn = "approve"
               /\ Approve(x, v).asset = x /\ Approve(x, v).amount = v
  BY DEF Spends, Approve
<1>2. ASSUME NEW t, NEW v, NEW w PROVE Spends(AddETH(t, v, w)) = {<<t, v>>}
  <2> DEFINE c == AddETH(t, v, w)
  <2>1. c.fn = "addLiquidityETH" /\ c.a = t /\ c.desired[t] = v
    BY DEF AddETH
  <2>. HIDE DEF c
  <2>2. Spends(c) = {<<t, v>>}
    BY <2>1 DEF Spends
  <2>. QED BY <2>2 DEF c
<1>3. \A v, path : Spends(SwapAll("swapETHForTokens", v, path)) = {}
  BY DEF Spends, SwapAll
<1>4. ASSUME NEW v, NEW path, NEW fn \in {"swapTokensForTokens", "swapTokensForETH"}
      PROVE  Spends(SwapAll(fn, v, path)) = {<<path[1], v>>}
  <2> DEFINE c == SwapAll(fn, v, path)
  <2>1. c.fn = fn /\ c.path = path /\ c.amount = v
    BY DEF SwapAll
  <2>. HIDE DEF c
  <2>2. Spends(c) = {<<path[1], v>>}
    BY <2>1 DEF Spends
  <2>. QED BY <2>2 DEF c
<1>5. \A x, a, v : Spends(Send(x, a, v)) = {}
  BY DEF Spends, Send
<1>6. /\ \A v : Spends([fn |-> "deposit", amount |-> v]) = {}
      /\ \A v : Spends([fn |-> "withdraw", amount |-> v]) = {}
      /\ \A x, v : Spends([fn |-> "createToken", asset |-> x, amount |-> v]) = {}
  BY DEF Spends
<1>7. ASSUME NEW p, NEW v, NEW m, NEW a
      PROVE  Spends([fn |-> "removeLiquidityETH", pair |-> p, amount |-> v, min |-> m, to |-> a]) = {<<p, v>>}
  BY DEF Spends
<1>. QED BY <1>1, <1>2, <1>3, <1>4, <1>5, <1>6, <1>7

\* The short scripts approve what they spend just before, ...
LEMMA StepsPrepared ==
  /\ Prepared(AddLiquidityScript) /\ Len(AddLiquidityScript) = 3
  /\ Prepared(TestSwapScript) /\ Len(TestSwapScript) = 4 /\ Spends(TestSwapScript[2]) = {}
  /\ Prepared(FundDev0Script) /\ Len(FundDev0Script) = 2
<1>1. Prepared(AddLiquidityScript) /\ Len(AddLiquidityScript) = 3
  <2> DEFINE q == AddLiquidityScript
  <2>1. /\ Len(q) = 3 /\ q[1] = Approve(USDT, Sum["usdt"])
        /\ q[2] = AddETH(USDT, Sum["usdt"], Sum["ecy"])
        /\ q[3] = SwapAll("swapETHForTokens", Sum["swap"], <<WECY, USDT>>)
    BY DEF AddLiquidityScript
  <2>. HIDE DEF q
  <2>2. 1..Len(q) = {1, 2, 3}
    BY <2>1
  <2>3. Prepared(q)
    BY <2>1, <2>2, SpendsOf DEF Prepared
  <2>. QED BY <2>1, <2>3 DEF q
<1>2. Prepared(TestSwapScript) /\ Len(TestSwapScript) = 4 /\ Spends(TestSwapScript[2]) = {}
  <2> DEFINE q == TestSwapScript
  <2>1. /\ Len(q) = 4 /\ q[1] = SwapAll("swapETHForTokens", Sum["swap"], <<WECY, USDT>>)
        /\ q[2] = [fn |-> "deposit", amount |-> Sum["swap"]]
        /\ q[3] = Approve(WECY, Sum["swap"])
        /\ q[4] = SwapAll("swapTokensForTokens", Sum["swap"], <<WECY, USDT>>)
    BY DEF TestSwapScript
  <2>. HIDE DEF q
  <2>2. 1..Len(q) = {1, 2, 3, 4}
    BY <2>1
  <2>3. Spends(q[4]) = {<<WECY, Sum["swap"]>>}
    <3> DEFINE path == <<WECY, USDT>>
    <3>1. path[1] = WECY
      OBVIOUS
    <3>2. q[4] = SwapAll("swapTokensForTokens", Sum["swap"], path)
      BY <2>1
    <3>. HIDE DEF path
    <3>. QED BY <3>1, <3>2, SpendsOf
  <2>4. Prepared(q) /\ Spends(q[2]) = {}
    BY <2>1, <2>2, <2>3, SpendsOf DEF Prepared
  <2>. QED BY <2>1, <2>4 DEF q
<1>3. Prepared(FundDev0Script) /\ Len(FundDev0Script) = 2
  <2> DEFINE q == FundDev0Script
  <2>1. Len(q) = 2 /\ q[1] = Send(ECY, Dev0, Sum["ecy"]) /\ q[2] = Send(USDT, Dev0, Sum["usdt"])
    BY DEF FundDev0Script
  <2>. HIDE DEF q
  <2>2. 1..Len(q) = {1, 2}
    BY <2>1
  <2>3. Prepared(q)
    BY <2>1, <2>2, SpendsOf DEF Prepared
  <2>. QED BY <2>1, <2>3 DEF q
<1>. QED BY <1>1, <1>2, <1>3

\* ... and so does test_all_dex, which approves the pool tokens it has read.
LEMMA LongScriptPrepared ==
  Prepared(TestAllDexScript) /\ Len(TestAllDexScript) = 13 /\ Spends(TestAllDexScript[11]) = {}
<1> DEFINE q == TestAllDexScript
           p1 == <<GET, WECY>>
           p2 == <<USDT, WECY, GET>>
<1>1. /\ Len(q) = 13
      /\ q[1] = [fn |-> "deposit", amount |-> Sum["swap"]]
      /\ q[2] = [fn |-> "withdraw", amount |-> Sum["swap"] \div 2]
      /\ q[3] = [fn |-> "createToken", asset |-> GET, amount |-> Sum["supply"]]
      /\ q[4] = Approve(GET, Sum["usdt"])
      /\ q[5] = AddETH(GET, Sum["usdt"], Sum["ecy"])
      /\ q[6] = SwapAll("swapETHForTokens", Sum["swap"], <<WECY, GET>>)
      /\ q[7] = Approve(GET, Sum["swap"])
      /\ q[8] = SwapAll("swapTokensForETH", Sum["swap"], p1)
      /\ q[9] = Approve(USDT, Sum["swap"])
      /\ q[10] = SwapAll("swapTokensForTokens", Sum["swap"], p2)
      /\ q[11] = Approve(MainPair, RemovedPart(lpBalance))
      /\ q[12] = [fn |-> "removeLiquidityETH", pair |-> MainPair, amount |-> RemovedPart(lpBalance),
                  min |-> [t \in MainPair |-> 0], to |-> Deployer]
      /\ q[13] = Send(GET, Dev0, Sum["swap"])
  BY DEF TestAllDexScript
<1>2. p1[1] = GET /\ p2[1] = USDT
  OBVIOUS
<1>. HIDE DEF q, p1, p2
<1>3. Spends(q[8]) = {<<GET, Sum["swap"]>>}
  <2>1. Spends(SwapAll("swapTokensForETH", Sum["swap"], p1)) = {<<p1[1], Sum["swap"]>>}
    BY SpendsOf
  <2>. QED BY <1>1, <1>2, <2>1
<1>4. Spends(q[10]) = {<<USDT, Sum["swap"]>>}
  <2>1. Spends(SwapAll("swapTokensForTokens", Sum["swap"], p2)) = {<<p2[1], Sum["swap"]>>}
    BY SpendsOf
  <2>. QED BY <1>1, <1>2, <2>1
<1>5. Spends(q[12]) = {<<MainPair, RemovedPart(lpBalance)>>}
  BY <1>1, SpendsOf
<1>6. Spends(q[5]) = {<<GET, Sum["usdt"]>>}
  BY <1>1, SpendsOf
<1>7. \A i \in {1, 2, 3, 4, 6, 7, 9, 11, 13} : Spends(q[i]) = {}
  BY <1>1, SpendsOf
<1>8. /\ q[4].fn = "approve" /\ q[4].asset = GET /\ q[4].amount = Sum["usdt"]
      /\ q[7].fn = "approve" /\ q[7].asset = GET /\ q[7].amount = Sum["swap"]
      /\ q[9].fn = "approve" /\ q[9].asset = USDT /\ q[9].amount = Sum["swap"]
      /\ q[11].fn = "approve" /\ q[11].asset = MainPair /\ q[11].amount = RemovedPart(lpBalance)
  BY <1>1, SpendsOf
<1>9. \A i \in 1..13 : i \in {1, 2, 3, 4, 6, 7, 9, 11, 13} \/ i = 5 \/ i = 8 \/ i = 10 \/ i = 12
  OBVIOUS
<1>10. ASSUME NEW i \in 1..13
       PROVE  \/ Spends(q[i]) = {}
              \/ /\ i > 1 /\ q[i - 1].fn = "approve"
                 /\ Spends(q[i]) = {<<q[i - 1].asset, q[i - 1].amount>>}
  BY <1>3, <1>4, <1>5, <1>6, <1>7, <1>8, <1>9
<1>11. Prepared(q)
  BY <1>1, <1>10 DEF Prepared
<1>. QED BY <1>1, <1>7, <1>11 DEF q

\* The steps of the script that runs.
LEMMA StepsAre ==
  ASSUME script \in Scripts
  PROVE  /\ Prepared(Steps) /\ Len(Steps) \in Nat /\ Len(Steps) > 0
         /\ script = "simulate_trades" => Len(Steps) = 1 /\ Steps[1] = Approve(USDT, Unlimited)
         /\ script = "test_swap" => Len(Steps) = 4 /\ Spends(Steps[2]) = {}
<1>1. CASE script = "add_liquidity"
  <2>1. Steps = AddLiquidityScript
    BY <1>1 DEF Steps
  <2>. QED BY <1>1, <2>1, StepsPrepared
<1>2. CASE script = "test_swap"
  <2>1. Steps = TestSwapScript
    BY <1>2 DEF Steps
  <2>. QED BY <1>2, <2>1, StepsPrepared
<1>3. CASE script = "fund_dev0"
  <2>1. Steps = FundDev0Script
    BY <1>3 DEF Steps
  <2>. QED BY <1>3, <2>1, StepsPrepared
<1>4. CASE script = "test_all_dex"
  <2>1. Steps = TestAllDexScript
    BY <1>4 DEF Steps
  <2>. QED BY <1>4, <2>1, LongScriptPrepared
<1>5. CASE script = "simulate_trades"
  <2> DEFINE q == <<Approve(USDT, Unlimited)>>
  <2>1. Steps = q
    BY <1>5 DEF Steps
  <2>2. Len(q) = 1 /\ q[1] = Approve(USDT, Unlimited)
    OBVIOUS
  <2>. HIDE DEF q
  <2>3. Prepared(q)
    <3>1. 1..Len(q) = {1}
      BY <2>2
    <3>. QED BY <2>2, <3>1, SpendsOf DEF Prepared
  <2>. QED BY <1>5, <2>1, <2>2, <2>3
<1>. QED BY <1>1, <1>2, <1>3, <1>4, <1>5 DEF Scripts

\* What the bot trades, its approval covers.
LEMMA BotCovered ==
  ASSUME NEW s, s.allow[USDT][Deployer] = Unlimited, NEW c \in BotCalls
  PROVE  Covers(s, Deployer, c) /\ c.fn # "approve"
<1> DEFINE p1 == <<USDT, WECY>>
           p2 == <<WECY, USDT>>
<1>1. \E v \in BotAmounts : c = SwapAll("swapTokensForETH", v, p1) \/ c = SwapAll("swapETHForTokens", v, p2)
  BY DEF BotCalls
<1>2. p1[1] = USDT /\ USDT \in Token
  BY AppAssumption
<1>. HIDE DEF p1, p2
<1>3. PICK v : c = SwapAll("swapTokensForETH", v, p1) \/ c = SwapAll("swapETHForTokens", v, p2)
  BY <1>1
<1>4. Spends(c) = {} \/ Spends(c) = {<<USDT, v>>}
  BY <1>2, <1>3, SpendsOf
<1>5. c.fn # "approve"
  BY <1>3 DEF SwapAll
<1>. QED BY <1>2, <1>4, <1>5 DEF Covers, AtLeast

\* What comes after an approval is covered by it.
LEMMA ApprovedNext ==
  ASSUME NEW s, Good(s), NEW a, a.fn = "approve", NEW e \in Executed(s, Deployer, a), e.ok,
         NEW c, Spends(c) = {<<a.asset, a.amount>>}
  PROVE  Covers(e.chain, Deployer, c)
<1>1. a.asset \in Token \cup Pair /\ a.amount \in Nat /\ e.chain.allow[a.asset][Deployer] = a.amount
  BY ExecutedUses DEF Sets
<1>. QED BY <1>1 DEF Covers, AtLeast

\* The script sends, ends, or reads its pool tokens.
LEMMA SendStaysSound ==
  ASSUME ScriptRunsSound, SendStep
  PROVE  ScriptRunsSound'
<1>0. /\ script \in Scripts /\ pc \in Nat /\ pc # 0 /\ scriptTx = NoCall
      /\ script # "simulate_trades" => pc <= Len(Steps)
      /\ script = "simulate_trades" /\ pc \notin {0, 1} => chain.allow[USDT][Deployer] = Unlimited
      /\ \A c \in Calls : Covers(chain, Deployer, c)
      /\ chain' = chain /\ script' = script
  BY DEF ScriptRunsSound, SendStep
<1>1. CASE script = "test_all_dex" /\ pc = 11 /\ lpBalance = -1
  <2>1. pc' = pc /\ scriptTx' = scriptTx
    BY <1>1 DEF SendStep
  <2> DEFINE q == TestAllDexScript'
  <2>2. Len(q) = 13 /\ q[11] = Approve(MainPair, RemovedPart(lpBalance'))
    BY DEF TestAllDexScript
  <2>3. Steps' = q
    BY <1>0, <1>1 DEF Steps
  <2>. HIDE DEF q
  <2>4. pc' = 11 /\ 1..Len(Steps') = 1..13 /\ (Steps')[pc'] = Approve(MainPair, RemovedPart(lpBalance'))
    BY <1>1, <2>1, <2>2, <2>3
  <2>5. Calls' = IF pc' \in 1..Len(Steps') THEN {(Steps')[pc']} ELSE BotCalls'
    BY DEF Calls
  <2>6. 11 \in 1..13
    OBVIOUS
  <2>7. Calls' = {Approve(MainPair, RemovedPart(lpBalance'))}
    BY <2>4, <2>5, <2>6
  <2>8. \A c \in Calls' : Covers(chain', Deployer, c)
    BY <2>7, SpendsOf DEF Covers
  <2>9. pc' \in Nat /\ pc' <= Len(Steps')
    <3>1. Len(Steps') = 13
      BY <2>2, <2>3
    <3>2. pc' = 11
      BY <2>4
    <3>3. 11 \in Nat /\ 11 <= 13
      OBVIOUS
    <3>. QED BY <3>1, <3>2, <3>3
  <2>10. script' \in Scripts /\ script' # "simulate_trades" /\ scriptTx' = NoCall
    <3>1. script' = "test_all_dex"
      BY <1>0, <1>1
    <3>. QED BY <1>0, <2>1, <3>1 DEF Scripts
  <2>. QED BY <2>8, <2>9, <2>10 DEF ScriptRunsSound
<1>2. CASE ~(script = "test_all_dex" /\ pc = 11 /\ lpBalance = -1)
  <2>1. lpBalance' = lpBalance
    BY <1>2 DEF SendStep
  <2>2. Steps' = Steps
    BY <1>0, <2>1 DEF Steps, TestAllDexScript
  <2>3. PICK c \in Calls : \/ pc' \in {pc, 0} /\ scriptTx' = scriptTx
                           \/ pc' = pc /\ scriptTx' = c
    BY <1>2 DEF SendStep
  <2>4. pc' = pc => Calls' = Calls
    BY <2>2 DEF Calls
  <2>. QED BY <1>0, <2>2, <2>3, <2>4 DEF ScriptRunsSound
<1>. QED BY <1>1, <1>2

\* The script goes on where its next call is covered.
LEMMA MineStaysSound ==
  ASSUME ScriptRunsSound, Good(chain), MineStep
  PROVE  ScriptRunsSound'
<1>0. /\ script \in Scripts /\ pc \in Nat /\ pc # 0 /\ scriptTx \in Calls
      /\ script # "simulate_trades" => pc <= Len(Steps)
      /\ script = "simulate_trades" /\ pc \notin {0, 1} => chain.allow[USDT][Deployer] = Unlimited
  BY DEF ScriptRunsSound, MineStep
<1>1. PICK e \in Executed(chain, Deployer, scriptTx) : chain' = e.chain /\ pc' = After(e.ok)
  BY DEF MineStep
<1>2. scriptTx' = NoCall /\ script' = script /\ lpBalance' = lpBalance
  BY DEF MineStep
<1>3. Steps' = Steps
  BY <1>2 DEF Steps, TestAllDexScript
<1>4. Prepared(Steps) /\ Len(Steps) \in Nat /\ Len(Steps) > 0
  BY <1>0, StepsAre
<1>5. CASE script = "simulate_trades"
  <2>1. Len(Steps) = 1 /\ Steps[1] = Approve(USDT, Unlimited)
    BY <1>0, <1>5, StepsAre
  <2>2. pc' = IF pc = 1 THEN (IF e.ok THEN 2 ELSE 0) ELSE pc
    BY <1>1, <1>5 DEF After
  <2>3. ASSUME pc' # 0 PROVE chain'.allow[USDT][Deployer] = Unlimited
    <3>1. CASE pc = 1
      <4>1. scriptTx = Approve(USDT, Unlimited) /\ e.ok
        BY <1>0, <2>1, <2>2, <2>3, <3>1 DEF Calls
      <4>2. scriptTx.fn = "approve" /\ scriptTx.asset = USDT /\ scriptTx.amount = Unlimited
        BY <4>1, SpendsOf
      <4>. QED BY <1>1, <4>1, <4>2, ExecutedUses DEF Sets
    <3>2. CASE pc # 1
      <4>1. scriptTx \in BotCalls /\ chain.allow[USDT][Deployer] = Unlimited
        BY <1>0, <1>5, <2>1, <3>2 DEF Calls
      <4>2. Uses(chain, chain', Deployer)
        BY <1>1, <4>1, BotCovered, ExecutedUses
      <4>3. USDT \in Token /\ Deployer \in Account
        BY AppAssumption
      <4>. QED BY <4>1, <4>2, <4>3 DEF Uses
    <3>. QED BY <3>1, <3>2
  <2>4. ASSUME pc' # 0 PROVE pc' \in Nat /\ pc' # 1 /\ Calls' = BotCalls
    <3>1. pc' \in Nat /\ pc' # 1
      BY <1>0, <2>2, <2>4
    <3>2. pc' \notin 1..Len(Steps)
      BY <2>1, <2>4, <3>1
    <3>3. BotCalls' = BotCalls
      BY DEF BotCalls
    <3>. QED BY <1>3, <3>1, <3>2, <3>3 DEF Calls
  <2>5. pc' # 0 => \A c \in Calls' : Covers(chain', Deployer, c)
    BY <2>3, <2>4, BotCovered
  <2>. QED BY <1>0, <1>2, <1>5, <2>3, <2>4, <2>5 DEF ScriptRunsSound
<1>6. CASE script # "simulate_trades"
  <2>1. pc \in 1..Len(Steps) /\ scriptTx = Steps[pc]
    <3>1. pc \in 1..Len(Steps)
      BY <1>0, <1>4, <1>6
    <3>. QED BY <1>0, <3>1 DEF Calls
  <2>2. \/ pc' = 0
        \/ script = "test_swap" /\ pc' = 2
        \/ e.ok /\ pc' = pc + 1 /\ pc < Len(Steps)
    BY <1>1, <1>6 DEF After
  <2>3. CASE pc' = 0
    BY <1>0, <1>2, <1>3, <1>4, <1>6, <2>3 DEF ScriptRunsSound
  <2>4. CASE script = "test_swap" /\ pc' = 2
    <3>1. Len(Steps) = 4 /\ Spends(Steps[2]) = {}
      BY <1>0, <2>4, StepsAre
    <3>2. Calls' = {Steps[2]}
      BY <1>3, <2>4, <3>1 DEF Calls
    <3>3. \A c \in Calls' : Covers(chain', Deployer, c)
      BY <3>1, <3>2 DEF Covers
    <3>. QED BY <1>0, <1>2, <1>3, <1>6, <2>4, <3>1, <3>3 DEF ScriptRunsSound
  <2>5. CASE e.ok /\ pc' = pc + 1 /\ pc < Len(Steps)
    <3>1. pc' \in 1..Len(Steps) /\ pc' - 1 = pc /\ pc' <= Len(Steps) /\ pc' \in Nat
      BY <1>0, <1>4, <2>1, <2>5
    <3>2. Calls' = {Steps[pc']}
      BY <1>3, <3>1 DEF Calls
    <3>3. \/ Spends(Steps[pc']) = {}
          \/ scriptTx.fn = "approve" /\ Spends(Steps[pc']) = {<<scriptTx.asset, scriptTx.amount>>}
      BY <1>4, <2>1, <3>1 DEF Prepared
    <3>4. Covers(chain', Deployer, Steps[pc'])
      <4>1. CASE Spends(Steps[pc']) = {}
        BY <4>1 DEF Covers
      <4>2. CASE scriptTx.fn = "approve" /\ Spends(Steps[pc']) = {<<scriptTx.asset, scriptTx.amount>>}
        BY <1>1, <2>5, <4>2, ApprovedNext
      <4>. QED BY <3>3, <4>1, <4>2
    <3>. QED BY <1>0, <1>2, <1>3, <1>6, <3>1, <3>2, <3>4 DEF ScriptRunsSound
  <2>. QED BY <2>2, <2>3, <2>4, <2>5
<1>. QED BY <1>5, <1>6

\* The steps of the scripts leave all sound.
LEMMA ScriptsStaySound ==
  ASSUME AppSound, ScriptRuns
  PROVE  AppSound'
<1>0. /\ HooksSound /\ Aside /\ program \in Programs /\ program = "scripts" /\ ScriptRunsSound
      /\ SwapCardTypeOK /\ TransferTypeOK /\ PoolSound /\ RowsIn /\ Fetched(chain, fetches)
      /\ Good(chain)
      /\ UNCHANGED <<program, traded, swapCardVars, fetchVars, pageVars, transferVars, sweepVars, chartVars,
                     priceVars>>
  BY DEF AppSound, PagesSound, HooksSound, ScriptSound, ScriptRuns
<1>1. OneCall(chain, chain')
  BY DEF ScriptRuns, ScriptStep, SendStep, MineStep, OneCall
<1>2. Good(chain') /\ Len(chain.allPairs) <= Len(chain'.allPairs)
  BY <1>0, <1>1, CallsKeepShares, CallAdds
<1>3. UNCHANGED <<account, answers, hook, wallet, outbox, fills>> /\ sends' \in Nat
  <2>1. sends \in Nat
    BY <1>0 DEF HooksSound, HooksIn
  <2>. QED BY <2>1 DEF ScriptRuns, ScriptStep, SendStep, MineStep, sendVars
<1>4. HooksSound' /\ Aside'
  BY <1>0, <1>2, <1>3, AsideSound
<1>5. PagesSound'
  <2>1. SwapCardTypeOK' /\ TransferTypeOK' /\ PoolSound' /\ RowsIn'
    BY <1>0, StaysSound
  <2>2. Fetched(chain', fetches')
    BY <1>0, <1>2, FetchedLater DEF fetchVars
  <2>. QED BY <2>1, <2>2 DEF PagesSound
<1>6. ScriptRunsSound'
  BY <1>0, SendStaysSound, MineStaysSound DEF ScriptRuns, ScriptStep
<1>. QED BY <1>0, <1>4, <1>5, <1>6 DEF AppSound, ScriptSound

\* The first step of a script spends nothing.
LEMMA ScriptBegins ==
  ASSUME ScriptInit
  PROVE  ScriptRunsSound
<1>1. script \in Scripts /\ pc = 1 /\ scriptTx = NoCall
  BY DEF ScriptInit
<1>2. Prepared(Steps) /\ Len(Steps) \in Nat /\ Len(Steps) > 0
  BY <1>1, StepsAre
<1>3. 1 \in 1..Len(Steps) /\ 1 <= Len(Steps)
  BY <1>2
<1>4. Calls = {Steps[1]}
  BY <1>1, <1>3 DEF Calls
<1>5. Spends(Steps[1]) = {}
  BY <1>2, <1>3 DEF Prepared
<1>6. \A c \in Calls : Covers(chain, Deployer, c)
  BY <1>4, <1>5 DEF Covers
<1>. QED BY <1>1, <1>3, <1>6 DEF ScriptRunsSound

\* Every program begins so.
LEMMA InitSound ==
  Init => AppSound
<1>. SUFFICES ASSUME Init PROVE AppSound
  OBVIOUS
<1>1. Good(chain) /\ Level(chain)
  BY InitGood
<1>2. program \in Programs /\ HooksInit /\ sends = MaxSends[program] /\ SwapCardInit /\ PoolInit
      /\ TransferInit /\ ScriptInit
  BY DEF Init
<1>3. HooksSound
  <2>1. HooksIn
    BY <1>2, AppAssumption DEF HooksInit, HooksIn, Idle, Stages
  <2>2. answers = << >> /\ wallet = {} /\ outbox = << >> /\ fills = {} /\ account \in Wallet \cup {Nobody}
    BY <1>2 DEF HooksInit
  <2>3. Answered(chain, answers)
    BY <2>2 DEF Answered
  <2>4. outbox \in Seq({}) /\ \A r \in wallet \cup {} : Request(chain, r)
    BY <2>2
  <2>5. Waiting
    BY <2>4 DEF Waiting
  <2>6. SwapWithinSlippage
    BY <2>2 DEF SwapWithinSlippage
  <2>. QED BY <1>1, <2>1, <2>2, <2>3, <2>5, <2>6 DEF HooksSound
<1>4. Aside
  BY <1>1, <1>2 DEF Aside, HooksInit
<1>5. SwapCardTypeOK
  BY <1>2, SwapCardAssumption DEF SwapCardInit, SwapCardTypeOK, PageToken
<1>6. TransferTypeOK
  BY <1>2, TransferAssumption DEF TransferInit, TransferTypeOK, PageToken
<1>7. PoolSound
  <2>1. form = [a |-> ECY, b |-> USDT, amountA |-> 0, amountB |-> 0]
    BY <1>2 DEF PoolInit
  <2>2. form \in Form
    BY <2>1 DEF Form, PageToken
  <2>3. Addresses(form) \in Token \X Token
    BY <2>2, FormTokens
  <2>4. removal = [open |-> 0, percent |-> 100] /\ 100 \in 1..100
    BY <1>2 DEF PoolInit
  <2>. QED BY <1>2, <2>2, <2>3, <2>4 DEF PoolInit, PoolSound
<1>8. RowsIn /\ Fetched(chain, fetches)
  <2>1. fetches = {NewFetch(account)} /\ rows = << >> /\ loading = TRUE /\ account \in Wallet \cup {Nobody}
    BY <1>2 DEF PoolInit, FetchInit, HooksInit
  <2>2. Len(chain.allPairs) \in Nat
    BY <1>1, GoodListed DEF Listed
  <2>3. NewFetch(account) \in FetchOf /\ NewFetch(account).len <= Len(chain.allPairs)
    BY <2>1, <2>2 DEF NewFetch, FetchOf
  <2>. QED BY <2>1, <2>3 DEF RowsIn, Fetched
<1>9. ScriptSound
  BY <1>2, ScriptBegins DEF ScriptSound, ScriptInit
<1>. QED BY <1>2, <1>3, <1>4, <1>5, <1>6, <1>7, <1>8, <1>9 DEF AppSound, PagesSound

\* Every step leaves it so.
LEMMA NextSound ==
  AppSound /\ [Next]_vars => AppSound'
<1>. SUFFICES ASSUME AppSound, [Next]_vars PROVE AppSound'
  OBVIOUS
<1>1. CASE Next
  BY <1>1, PagesStaySound, WalletStaysSound, SwitchStaysSound, OthersStaySound, ScriptsStaySound DEF Next
<1>2. CASE UNCHANGED vars
  <2>1. UNCHANGED <<program, hookVars, swapCardVars, fetchVars, pageVars, transferVars, scriptVars>>
    BY <1>2 DEF vars
  <2>2. SwapCardTypeOK' /\ TransferTypeOK' /\ PoolSound' /\ RowsIn' /\ Fetched(chain', fetches')
    BY <2>1, StaysSound DEF AppSound, PagesSound, fetchVars, hookVars
  <2>3. HooksSound' /\ Aside'
    BY <2>1 DEF AppSound, HooksSound, Aside, hookVars, HooksIn, Waiting, SwapWithinSlippage
  <2>4. ScriptSound'
    <3>1. UNCHANGED <<script, pc, scriptTx, lpBalance, chain, program>>
      BY <2>1 DEF scriptVars, hookVars
    <3>2. Steps' = Steps
      BY <3>1 DEF Steps, TestAllDexScript
    <3>3. Calls' = Calls
      BY <3>1, <3>2 DEF Calls
    <3>. QED BY <3>1, <3>2, <3>3 DEF AppSound, ScriptSound, ScriptRunsSound
  <2>. QED BY <2>1, <2>2, <2>3, <2>4 DEF AppSound, PagesSound
<1>. QED BY <1>1, <1>2

\* What the pages, the scripts and the wallet rely on holds in every state:
\* what is read of an allowance is the one there is or none, what waits for the
\* wallet is covered, and what a script sends next is what it has approved.
THEOREM Reliance ==
  Spec => []AppSound
<1>. QED BY InitSound, NextSound, PTL DEF Spec

\* A swap of the page yields no less than the quote it showed, less the slippage
\* rounded up to a hundredth of a percent and one hundredth more for the error of
\* the doubles, whatever was traded before it was mined (handleSwap's amountOutMin
\* and the router's check of it); a swap clicked before its quote was known is not
\* spoken of.
THEOREM SlippageKept ==
  Spec => []SwapWithinSlippage
<1>1. AppSound => SwapWithinSlippage
  BY DEF AppSound, HooksSound
<1>. QED BY <1>1, Reliance, PTL

\* No call that a page or a script has sent lacks an allowance, although the
\* page decided by an answer that was old (the needsApproval of the pages, the
\* lpAllowanceCheck of a removal, the approvals of the scripts).  One kind of
\* call may lack it and is not spoken of: a removal that was clicked with one
\* account and, after a switch, is sent from another.
THEOREM AllowancesSuffice ==
  Spec => []NeverShortOfAllowance
<1>1. AppSound => NeverShortOfAllowance
  <2>. SUFFICES ASSUME AppSound PROVE NeverShortOfAllowance
    OBVIOUS
  <2>1. PICK R : outbox \in Seq(R) /\ \A r \in wallet \cup R : Request(chain, r)
    BY DEF AppSound, HooksSound, Waiting
  <2>2. Pending \subseteq wallet \cup R
    BY <2>1 DEF Pending
  <2>3. ASSUME NEW r \in Pending
        PROVE  \/ \A s \in Spends(r.call) : AtLeast(chain.allow[s[1]][r.from], s[2])
               \/ r.call.fn \in {"removeLiquidity", "removeLiquidityETH"} /\ r.call.to # r.from
    BY <2>1, <2>2 DEF Request, Proper, Covers, Removes
  <2>4. ASSUME scriptTx # NoCall
        PROVE  \A s \in Spends(scriptTx) : AtLeast(chain.allow[s[1]][Deployer], s[2])
    <3>1. ScriptRunsSound
      BY <2>4 DEF AppSound, ScriptSound
    <3>2. Covers(chain, Deployer, scriptTx)
      BY <2>4, <3>1 DEF ScriptRunsSound
    <3>. QED BY <3>2 DEF Covers
  <2>. QED BY <2>3, <2>4 DEF NeverShortOfAllowance
<1>. QED BY <1>1, Reliance, PTL

---------------------------------------------------------------------------
(* Times and candles *)

\* A time divided by a length.
LEMMA Divided ==
  ASSUME NEW t \in Nat, NEW l \in Nat \ {0}
  PROVE  /\ t \div l \in Nat /\ t % l \in 0..(l - 1)
         /\ t = l * (t \div l) + (t % l)
OBVIOUS

\* The multiples of a length are that length apart.
LEMMA MultiplesApart ==
  ASSUME NEW p \in Nat, NEW q \in Nat, NEW l \in Nat \ {0}, l * p < l * q
  PROVE  l * p + l <= l * q
<1>1. p + 1 <= q
  <2>. SUFFICES ASSUME q <= p PROVE FALSE
    OBVIOUS
  <2>1. q * l <= p * l
    BY MulMono
  <2>. QED BY <2>1
<1>2. (p + 1) * l <= q * l
  BY <1>1, MulMono
<1>. QED BY <1>2

\* The starts of candles of a length.
LEMMA StartsApart ==
  ASSUME NEW b \in Nat, NEW c \in Nat, NEW l \in Nat \ {0}, b % l = 0, c % l = 0, b < c
  PROVE  b + l <= c
<1> DEFINE p == b \div l
           q == c \div l
<1>1. p \in Nat /\ q \in Nat /\ b = l * p /\ c = l * q
  BY Divided
<1>. HIDE DEF p, q
<1>. QED BY <1>1, MultiplesApart

\* The start of the candle of a time.
LEMMA BucketIs ==
  ASSUME NEW t \in Nat, NEW l \in Nat \ {0}
  PROVE  /\ Bucket(t, l) \in 0..t /\ Bucket(t, l) % l = 0 /\ t < Bucket(t, l) + l
         /\ \A b \in 0..t : b % l = 0 => b <= Bucket(t, l)
<1> DEFINE q == t \div l
           w == Bucket(t, l)
<1>6. q \in Nat /\ t % l \in 0..(l - 1) /\ t = l * q + (t % l)
  BY Divided
<1>7. w = q * l
  BY DEF Bucket
<1>. HIDE DEF q, w
<1>1. q \in Nat /\ t % l \in 0..(l - 1) /\ t = l * q + (t % l) /\ w = l * q
  BY <1>6, <1>7
<1>2. l * q \in Nat
  BY <1>1
<1>3. w \in 0..t /\ t < w + l
  <2> DEFINE d == t % l
  <2>1. d \in 0..(l - 1) /\ t = w + d /\ w \in Nat
    BY <1>1, <1>2
  <2>. HIDE DEF d
  <2>. QED BY <2>1
<1>4. w % l = 0
  BY <1>1
<1>5. ASSUME NEW b \in 0..t, b % l = 0 PROVE b <= w
  <2>. SUFFICES ASSUME w < b PROVE FALSE
    BY <1>3
  <2>2. w \in Nat /\ b \in Nat
    BY <1>3
  <2>1. w + l <= b
    BY <1>4, <1>5, <2>2, StartsApart
  <2>. QED BY <1>3, <2>1
<1>. QED BY <1>3, <1>4, <1>5 DEF w

\* A bounded set of numbers has a greatest one.
LEMMA Greatest ==
  ASSUME NEW S \in SUBSET Nat, S # {}, NEW n \in Nat, \A x \in S : x <= n
  PROVE  Max(S) \in S /\ \A y \in S : y <= Max(S)
<1> DEFINE D == {n - x : x \in S}
<1>1. \A x \in S : n - x \in Nat
  OBVIOUS
<1>6. D \in SUBSET Nat /\ D # {}
  BY <1>1
<1>2. PICK d \in D : \A e \in D : d <= e
  BY <1>6, Least
<1>3. PICK x \in S : d = n - x
  BY <1>2
<1>4. \A y \in S : n - y \in D
  OBVIOUS
<1>5. \A y \in S : x >= y
  <2>. SUFFICES ASSUME NEW y \in S PROVE x >= y
    OBVIOUS
  <2>1. n - x <= n - y
    BY <1>2, <1>3, <1>4
  <2>. QED BY <2>1
<1>. QED BY <1>5 DEF Max

\* A set of numbers has a minimum.
LEMMA Smallest ==
  ASSUME NEW S \in SUBSET Nat, S # {}
  PROVE  Min(S) \in S /\ \A y \in S : Min(S) <= y
<1>1. PICK x \in S : \A y \in S : x <= y
  BY Least
<1>. QED BY <1>1 DEF Min

---------------------------------------------------------------------------
(* The price service: what it keeps *)

\* A swap as the price service finds it stored.
StoredSwap == [time : Nat, amounts : RowAmounts]

\* The swaps of a candle's time among the first ones that are stored: those
\* after its start among the first m, those at its start among the first n.
Within(swaps, b, l, n, m) ==
  {i \in 1..m : Bucket(swaps[i].time, l) = b /\ swaps[i].time > b} \cup {i \in 1..n : swaps[i].time = b}

\* A candle of some swaps of its time.
Counts(x, swaps, b, l, n, m) ==
  Within(swaps, b, l, n, m) # {} /\ x \in CandlesOf(Restrict(swaps, Within(swaps, b, l, n, m)))

\* The first m swaps are all that were stored before one of a later time.
Due(m, swaps, b, l) == \A i \in 1..Len(swaps) : (\A h \in 1..i : Bucket(swaps[h].time, l) <= b) => i <= m

\* A candle that may miss swaps, ...
Partial(x, swaps, b, l) == \E n, m \in 0..Len(swaps) : Counts(x, swaps, b, l, n, m)

\* ... or only such as are at its start or were stored late.
Complete(x, swaps, b, l) == \E n, m \in 0..Len(swaps) : Due(m, swaps, b, l) /\ Counts(x, swaps, b, l, n, m)

\* One more swap leaves a candle what it is, and complete if one of a later time
\* is stored already.
LEMMA LaterSwap ==
  ASSUME NEW swaps \in Seq(StoredSwap), NEW s \in StoredSwap,
         NEW b \in Nat, NEW l \in Nat \ {0}, NEW x
  PROVE  /\ Partial(x, swaps, b, l) => Partial(x, Append(swaps, s), b, l)
         /\ (\E h \in 1..Len(swaps) : ~(Bucket(swaps[h].time, l) <= b)) /\ Complete(x, swaps, b, l)
              => Complete(x, Append(swaps, s), b, l)
<1> DEFINE more == Append(swaps, s)
           N == Len(swaps)
<1>1. more \in Seq(StoredSwap) /\ Len(more) = N + 1 /\ more[N + 1] = s /\ \A i \in 1..N : more[i] = swaps[i]
  OBVIOUS
<1>2. N \in Nat /\ DOMAIN swaps = 1..N /\ DOMAIN more = 1..(N + 1)
  BY <1>1
<1>. HIDE DEF more, N
<1>3. ASSUME NEW n \in 0..N, NEW m \in 0..N
      PROVE  Within(more, b, l, n, m) = Within(swaps, b, l, n, m)
  <2>1. \A i \in 1..m : more[i] = swaps[i]
    BY <1>1, <1>2
  <2>2. \A i \in 1..n : more[i] = swaps[i]
    BY <1>1, <1>2
  <2>. QED BY <2>1, <2>2 DEF Within
<1>4. ASSUME NEW n \in 0..N, NEW m \in 0..N
      PROVE  Restrict(more, Within(swaps, b, l, n, m)) = Restrict(swaps, Within(swaps, b, l, n, m))
  <2>1. Within(swaps, b, l, n, m) \subseteq 1..N
    BY <1>2 DEF Within
  <2>. HIDE DEF Within
  <2>. QED BY <1>1, <2>1 DEF Restrict
<1>5. ASSUME NEW n \in 0..N, NEW m \in 0..N, Counts(x, swaps, b, l, n, m)
      PROVE  Counts(x, more, b, l, n, m)
  BY <1>3, <1>4, <1>5 DEF Counts
<1>8. \A n \in 0..N : n \in 0..Len(more)
  BY <1>1, <1>2
<1>6. Partial(x, swaps, b, l) => Partial(x, more, b, l)
  <2>. SUFFICES ASSUME Partial(x, swaps, b, l) PROVE Partial(x, more, b, l)
    OBVIOUS
  <2>1. PICK n \in 0..N, m \in 0..N : Counts(x, swaps, b, l, n, m)
    BY DEF Partial, N
  <2>. QED BY <1>5, <1>8, <2>1 DEF Partial
<1>7. ASSUME NEW h \in 1..N, ~(Bucket(swaps[h].time, l) <= b), Complete(x, swaps, b, l)
      PROVE  Complete(x, more, b, l)
  <2>1. PICK n \in 0..N, m \in 0..N : Due(m, swaps, b, l) /\ Counts(x, swaps, b, l, n, m)
    BY <1>7 DEF Complete, N
  <2>2. ASSUME NEW i \in 1..Len(more), \A g \in 1..i : Bucket(more[g].time, l) <= b
        PROVE  i <= m
    <3>1. CASE i = N + 1
      <4>1. h \in 1..i /\ more[h] = swaps[h]
        BY <1>1, <1>2, <3>1
      <4>. QED BY <1>7, <2>2, <4>1
    <3>2. CASE i \in 1..N
      <4>1. \A g \in 1..i : more[g] = swaps[g]
        BY <1>1, <1>2, <3>2
      <4>2. \A g \in 1..i : Bucket(swaps[g].time, l) <= b
        BY <2>2, <4>1
      <4>. QED BY <2>1, <3>2, <4>2 DEF Due, N
    <3>. QED BY <1>1, <1>2, <3>1, <3>2
  <2>3. Due(m, more, b, l)
    BY <2>2 DEF Due
  <2>4. Counts(x, more, b, l, n, m)
    BY <1>5, <2>1
  <2>. QED BY <1>8, <2>3, <2>4 DEF Complete
<1>. QED BY <1>6, <1>7 DEF more, N

\* The starts of the candles of a length.
Starts(l) == {t \in 0..now : t % l = 0}

\* The types of what the service keeps.
PriceTyped ==
  /\ now \in 0..MaxTime
  /\ stored \in Seq(StoredSwap) /\ Len(stored) <= MaxStored
  /\ \A i \in 1..Len(stored) : stored[i].time <= now
  /\ \A k \in DOMAIN ohlcv : \E l \in Range(CandleLengths) : \E b \in Starts(l) : k = <<l, b>>
  /\ IsFiniteSet(runs) /\ Cardinality(runs) <= MaxRuns
  /\ \A r \in runs :
       /\ r = [id |-> r.id, next |-> r.next, upserts |-> r.upserts]
       /\ r.next \in 0..(Len(CandleLengths) + 1)
       /\ r.upserts = << >> \/ DOMAIN r.upserts # {}
       /\ DOMAIN r.upserts # {} =>
            r.next \in 1..Len(CandleLengths) /\ DOMAIN r.upserts \subseteq Starts(CandleLengths[r.next])

\* The candles a run has yet to write: the first of them and those of earlier
\* times are complete, if a later one is to come.
RunGood(r) ==
  LET l == CandleLengths[r.next]
      U == r.upserts
  IN \A c \in DOMAIN U :
       /\ \A d \in DOMAIN U : d < c => Complete(U[d], stored, d, l)
       /\ \A k \in DOMAIN ohlcv : k[1] = l =>
            /\ k[2] <= c
            /\ (\A d \in DOMAIN U : c <= d) /\ k[2] < c => Complete(ohlcv[k], stored, k[2], l)

\* No candle counts anything but swaps of its time, whatever runs overlap.
CandlesHold ==
  /\ \A k \in DOMAIN ohlcv : Partial(ohlcv[k], stored, k[2], k[1])
  /\ \A r \in runs : \A c \in DOMAIN r.upserts : Partial(r.upserts[c], stored, c, CandleLengths[r.next])

\* While no two runs have overlapped there is one at most, and all but the last
\* candle of a length are complete: the last one may miss swaps until the next
\* run counts it again.
CandlesGood ==
  ~overlapped =>
    /\ \A r, q \in runs : r = q
    /\ \A j, k \in DOMAIN ohlcv : j[1] = k[1] /\ k[2] < j[2] => Complete(ohlcv[k], stored, k[2], k[1])
    /\ \A r \in runs : RunGood(r)

\* The lengths of candles.
LEMMA Lengths ==
  /\ CandleLengths \in Seq(Nat \ {0}) /\ DOMAIN CandleLengths = 1..Len(CandleLengths)
  /\ Len(CandleLengths) \in Nat
  /\ \A i \in 1..Len(CandleLengths) : CandleLengths[i] \in Range(CandleLengths)
  /\ Range(CandleLengths) \subseteq Nat \ {0}
BY PriceAssumption DEF Range

\* The key of a candle.
LEMMA Keys ==
  ASSUME PriceTyped, NEW k \in DOMAIN ohlcv
  PROVE  /\ k = <<k[1], k[2]>> /\ k[1] \in Range(CandleLengths) /\ k[1] \in Nat \ {0}
         /\ k[2] \in Starts(k[1]) /\ k[2] \in Nat /\ k[2] <= now /\ k[2] % k[1] = 0
<1>1. PICK l \in Range(CandleLengths) : \E b \in Starts(l) : k = <<l, b>>
  BY DEF PriceTyped
<1>2. PICK b \in Starts(l) : k = <<l, b>>
  BY <1>1
<1>3. l \in Nat \ {0}
  BY Lengths
<1>4. b \in 0..now /\ b % l = 0 /\ now \in 0..MaxTime /\ MaxTime \in Nat
  BY <1>2, PriceAssumption DEF Starts, PriceTyped
<1>5. b \in Nat /\ b <= now
  BY <1>4
<1>6. k[1] = l /\ k[2] = b
  BY <1>2
<1>. QED BY <1>2, <1>3, <1>4, <1>5, <1>6

\* The last candle of a length, if there is one.
LEMMA SinceIs ==
  ASSUME PriceTyped, NEW l \in Range(CandleLengths)
  PROVE  \/ Since(l) = -1 /\ \A k \in DOMAIN ohlcv : k[1] # l
         \/ /\ <<l, Since(l)>> \in DOMAIN ohlcv /\ Since(l) \in Starts(l)
            /\ \A k \in DOMAIN ohlcv : k[1] = l => k[2] <= Since(l)
<1> DEFINE S == {k[2] : k \in {x \in DOMAIN ohlcv : x[1] = l}}
<1>1. CASE S = {}
  BY <1>1 DEF Since
<1>2. CASE S # {}
  <2>1. Since(l) = Max(S)
    BY <1>2 DEF Since
  <2>2. S \in SUBSET Nat /\ \A x \in S : x <= now
    BY Keys
  <2>3. now \in Nat
    BY PriceAssumption DEF PriceTyped
  <2>4. \A k \in DOMAIN ohlcv : k[1] = l => k[2] \in S
    OBVIOUS
  <2>5. \A x \in S : \E k \in DOMAIN ohlcv : k[1] = l /\ k[2] = x
    OBVIOUS
  <2>. HIDE DEF S
  <2>6. Max(S) \in S /\ \A x \in S : x <= Max(S)
    BY <1>2, <2>2, <2>3, Greatest
  <2>7. PICK k \in DOMAIN ohlcv : k[1] = l /\ k[2] = Max(S)
    BY <2>5, <2>6
  <2>8. k = <<l, Max(S)>> /\ Max(S) \in Starts(l)
    BY <2>7, Keys
  <2>. QED BY <2>1, <2>4, <2>6, <2>7, <2>8
<1>. QED BY <1>1, <1>2

---------------------------------------------------------------------------
(* The candles that a run computes *)

\* The time of a swap.
LEMMA Times ==
  ASSUME PriceTyped, NEW i \in 1..Len(stored)
  PROVE  stored[i].time \in Nat /\ stored[i].time <= now /\ stored[i] \in StoredSwap
<1>1. stored[i] \in StoredSwap
  BY DEF PriceTyped
<1>. QED BY <1>1 DEF PriceTyped, StoredSwap

\* The candles that are computed are those of the times since the last one,
\* and each counts what it has to.
LEMMA NewCandlesAre ==
  ASSUME PriceTyped, NEW l \in Range(CandleLengths), NEW U \in NewCandles(l), NEW c \in DOMAIN U
  PROVE  /\ c \in Starts(l) /\ Complete(U[c], stored, c, l)
         /\ \A k \in DOMAIN ohlcv : k[1] = l => k[2] <= c
<1> DEFINE N == Len(stored)
           new == {i \in DOMAIN stored : stored[i].time > Since(l)}
           S == InBucket(c, l) \cap new
<1>1. l \in Nat \ {0} /\ N \in Nat /\ DOMAIN stored = 1..N /\ now \in Nat
  BY Lengths, PriceAssumption DEF PriceTyped
<1>2. /\ DOMAIN U = {Bucket(stored[i].time, l) : i \in new}
      /\ \A b \in DOMAIN U : U[b] \in CandlesOf(Restrict(stored, InBucket(b, l) \cap new))
  BY DEF NewCandles
<1>3. PICK i \in new : c = Bucket(stored[i].time, l)
  BY <1>2
<1>4. U[c] \in CandlesOf(Restrict(stored, S))
  BY <1>2
<1>5. i \in S
  BY <1>3 DEF InBucket
<1> DEFINE t == stored[i].time
<1>6. t \in Nat /\ t <= now /\ t > Since(l)
  BY <1>1, <1>3, Times
<1>7. c \in 0..t /\ c % l = 0 /\ \A b \in 0..t : b % l = 0 => b <= c
  BY <1>1, <1>3, <1>6, BucketIs
<1>8. c \in Nat /\ c \in Starts(l)
  BY <1>1, <1>6, <1>7 DEF Starts
<1>9. \A k \in DOMAIN ohlcv : k[1] = l => k[2] <= c
  <2>. SUFFICES ASSUME NEW k \in DOMAIN ohlcv, k[1] = l PROVE k[2] <= c
    OBVIOUS
  <2>1. k[2] \in Nat /\ k[2] % l = 0
    BY Keys
  <2>4. Since(l) \in Starts(l) /\ k[2] <= Since(l)
    BY SinceIs
  <2>2. k[2] <= Since(l) /\ Since(l) \in Nat
    BY <1>1, <2>4 DEF Starts
  <2>3. k[2] \in 0..t
    BY <1>6, <2>1, <2>2
  <2>. QED BY <1>7, <2>1, <2>3
<1>. HIDE DEF t, S
<1>10. ASSUME NEW j \in 1..N
       PROVE  /\ stored[j].time \in Nat
              /\ Bucket(stored[j].time, l) = c => stored[j].time >= c
              /\ stored[j].time = c => Bucket(stored[j].time, l) = c
  <2>1. stored[j].time \in Nat
    BY Times
  <2> DEFINE u == stored[j].time
             b == Bucket(u, l)
  <2>2. b \in 0..u /\ \A x \in 0..u : x % l = 0 => x <= b
    BY <1>1, <2>1, BucketIs
  <2>. HIDE DEF u, b
  <2>3. u \in Nat
    BY <2>1 DEF u
  <2>4. b = c => u >= c
    BY <2>2, <2>3
  <2>5. u = c => b = c
    BY <1>7, <1>8, <2>2, <2>3
  <2>. QED BY <2>3, <2>4, <2>5 DEF u, b
<1>11. \E n \in 0..N : S = Within(stored, c, l, n, N)
  <2>1. CASE Since(l) < c /\ Since(l) \in Int
    <3>1. \A j \in 1..N : stored[j].time >= c => stored[j].time > Since(l)
      BY <1>8, <1>10, <2>1
    <3>2. S = {j \in 1..N : Bucket(stored[j].time, l) = c}
      BY <1>1, <1>10, <3>1 DEF S, InBucket
    <3>3. \A j \in 1..N : Bucket(stored[j].time, l) = c
                            <=> (Bucket(stored[j].time, l) = c /\ stored[j].time > c) \/ stored[j].time = c
      BY <1>8, <1>10
    <3>4. S = Within(stored, c, l, N, N)
      BY <3>2, <3>3 DEF Within
    <3>. QED BY <1>1, <3>4
  <2>2. CASE Since(l) = c
    <3>1. S = {j \in 1..N : Bucket(stored[j].time, l) = c /\ stored[j].time > c}
      BY <1>1, <2>2 DEF S, InBucket
    <3>2. S = Within(stored, c, l, 0, N)
      BY <3>1 DEF Within
    <3>. QED BY <1>1, <3>2
  <2>3. (Since(l) < c \/ Since(l) = c) /\ Since(l) \in Int
    <3>1. CASE Since(l) = -1
      BY <1>8, <3>1
    <3>2. CASE <<l, Since(l)>> \in DOMAIN ohlcv /\ Since(l) \in Starts(l)
      <4>1. Since(l) <= c
        BY <1>9, <3>2
      <4>2. Since(l) \in Int
        BY <1>1, <3>2 DEF Starts
      <4>. QED BY <1>8, <4>1, <4>2
    <3>. QED BY <3>1, <3>2, SinceIs
  <2>. QED BY <2>1, <2>2, <2>3
<1>12. Complete(U[c], stored, c, l)
  <2>1. PICK n \in 0..N : S = Within(stored, c, l, n, N)
    BY <1>11
  <2>2. Counts(U[c], stored, c, l, n, N)
    BY <1>4, <1>5, <2>1 DEF Counts
  <2>3. Due(N, stored, c, l) /\ N \in 0..N
    BY <1>1 DEF Due
  <2>. QED BY <2>2, <2>3 DEF Complete
<1>. QED BY <1>8, <1>9, <1>12

\* The last candle, when there is nothing to compute it from anew, is complete.
LEMMA LastIsComplete ==
  ASSUME PriceTyped, NEW l \in Range(CandleLengths), NEW x, Partial(x, stored, Since(l), l),
         NEW U \in NewCandles(l), Since(l) \notin DOMAIN U
  PROVE  Complete(x, stored, Since(l), l)
<1> DEFINE N == Len(stored)
           s == Since(l)
<1>1. N \in Nat /\ DOMAIN stored = 1..N
  BY DEF PriceTyped
<1>2. PICK n \in 0..N, m \in 0..N : Counts(x, stored, s, l, n, m)
  BY DEF Partial
<1>3. \A i \in 1..N : ~(Bucket(stored[i].time, l) = s /\ stored[i].time > s)
  <2>1. DOMAIN U = {Bucket(stored[i].time, l) : i \in {j \in DOMAIN stored : stored[j].time > Since(l)}}
    BY DEF NewCandles
  <2>. QED BY <1>1, <2>1
<1>4. Within(stored, s, l, n, m) = Within(stored, s, l, n, N)
  BY <1>1, <1>3 DEF Within
<1>5. Counts(x, stored, s, l, n, N)
  BY <1>2, <1>4 DEF Counts
<1>6. Due(N, stored, s, l) /\ N \in 0..N
  BY <1>1 DEF Due
<1>. QED BY <1>2, <1>5, <1>6 DEF Complete

---------------------------------------------------------------------------
(* The types of the price service *)

\* One more.
LEMMA AddOne ==
  ASSUME NEW S, IsFiniteSet(S), NEW x
  PROVE  /\ IsFiniteSet(S \cup {x}) /\ Cardinality(S \cup {x}) <= Cardinality(S) + 1
         /\ Cardinality(S) \in Nat /\ Cardinality(S \cup {x}) \in Nat
<1>1. IsFiniteSet(S \cup {x}) /\ Cardinality(S \cup {x}) = IF x \in S THEN Cardinality(S) ELSE Cardinality(S) + 1
  BY FS_AddElement
<1>2. Cardinality(S) \in Nat /\ Cardinality(S \cup {x}) \in Nat
  BY <1>1, FS_CardinalityType
<1>. QED BY <1>1, <1>2

\* A run that has gone on.
LEMMA RunWith ==
  ASSUME NEW r, r = [id |-> r.id, next |-> r.next, upserts |-> r.upserts], NEW u, NEW n
  PROVE  [r EXCEPT !.upserts = u, !.next = n] = [id |-> r.id, next |-> n, upserts |-> u]
<1> DEFINE q == [r EXCEPT !.upserts = u]
<1>1. q = [id |-> r.id, next |-> r.next, upserts |-> u]
  OBVIOUS
<1>2. [q EXCEPT !.next = n] = [id |-> r.id, next |-> n, upserts |-> u]
  <2>. HIDE DEF q
  <2>. QED BY <1>1
<1>3. [r EXCEPT !.upserts = u, !.next = n] = [q EXCEPT !.next = n]
  OBVIOUS
<1>. QED BY <1>2, <1>3

\* The runs once one of them has gone on.
LEMMA RunGoesOn ==
  ASSUME IsFiniteSet(runs), Cardinality(runs) <= MaxRuns, NEW r \in runs, NEW s
  PROVE  IsFiniteSet((runs \ {r}) \cup {s}) /\ Cardinality((runs \ {r}) \cup {s}) <= MaxRuns
<1> DEFINE R == runs \ {r}
<1>1. IsFiniteSet(R) /\ Cardinality(R) = Cardinality(runs) - 1 /\ Cardinality(runs) \in Nat
  BY FS_RemoveElement, FS_CardinalityType
<1>. HIDE DEF R
<1>2. /\ IsFiniteSet(R \cup {s}) /\ Cardinality(R \cup {s}) <= Cardinality(R) + 1
      /\ Cardinality(R) \in Nat /\ Cardinality(R \cup {s}) \in Nat
  BY <1>1, AddOne
<1>3. MaxRuns \in Nat
  BY PriceAssumption
<1>. QED BY <1>1, <1>2, <1>3 DEF R

\* What the service keeps stays so: ...
RunTyped(r) ==
  /\ r = [id |-> r.id, next |-> r.next, upserts |-> r.upserts]
  /\ r.next \in 0..(Len(CandleLengths) + 1)
  /\ r.upserts = << >> \/ DOMAIN r.upserts # {}
  /\ DOMAIN r.upserts # {} =>
       r.next \in 1..Len(CandleLengths) /\ DOMAIN r.upserts \subseteq Starts(CandleLengths[r.next])

\* ... when a run begins, ...
LEMMA BeginTyped ==
  ASSUME PriceTyped, BeginRun
  PROVE  PriceTyped'
<1>1. PICK i : runs' = runs \cup {[id |-> i, next |-> 0, upserts |-> << >>]}
  BY DEF BeginRun, NoCandles
<1> DEFINE s == [id |-> i, next |-> 0, upserts |-> << >>]
<1>2. RunTyped(s)
  BY Lengths DEF RunTyped
<1>3. IsFiniteSet(runs') /\ Cardinality(runs') <= MaxRuns
  <2>1. Cardinality(runs) \in Nat /\ Cardinality(runs) < MaxRuns
    BY FS_CardinalityType DEF PriceTyped, BeginRun
  <2>2. IsFiniteSet(runs') /\ Cardinality(runs') <= Cardinality(runs) + 1 /\ Cardinality(runs') \in Nat
    BY <1>1, AddOne DEF PriceTyped
  <2>3. MaxRuns \in Nat
    BY PriceAssumption
  <2>. QED BY <2>1, <2>2, <2>3
<1>. HIDE DEF s
<1>4. \A r \in runs' : RunTyped(r)
  BY <1>1, <1>2 DEF PriceTyped, RunTyped, s
<1>5. UNCHANGED <<now, stored, ohlcv>>
  BY DEF BeginRun
<1>. QED BY <1>3, <1>4, <1>5 DEF PriceTyped, RunTyped, Starts

\* ... when one goes on, ...
LEMMA OnTyped ==
  ASSUME PriceTyped, NEW r \in runs, NEW s, ToRun(r, s), RunTyped(s),
         UNCHANGED <<now, stored>>,
         \A k \in DOMAIN ohlcv' : \E l \in Range(CandleLengths) : \E b \in Starts(l) : k = <<l, b>>
  PROVE  PriceTyped'
<1>1. runs' = (runs \ {r}) \cup {s}
  BY DEF ToRun
<1>2. IsFiniteSet(runs') /\ Cardinality(runs') <= MaxRuns
  BY <1>1, RunGoesOn DEF PriceTyped
<1>3. \A q \in runs' : RunTyped(q)
  BY <1>1 DEF PriceTyped, RunTyped
<1>4. \A l : Starts(l)' = Starts(l)
  BY DEF Starts
<1>. QED BY <1>2, <1>3, <1>4 DEF PriceTyped, RunTyped

\* ... by each of its steps, ...
LEMMA StatsTyped ==
  ASSUME PriceTyped, NEW r \in runs, updatePairStats(r)
  PROVE  PriceTyped'
<1> DEFINE s == [r EXCEPT !.next = 1]
<1>1. RunTyped(r)
  BY DEF PriceTyped, RunTyped
<1>2. s = [id |-> r.id, next |-> 1, upserts |-> r.upserts] /\ DOMAIN r.upserts = {} /\ r.upserts = << >>
  BY <1>1, Lengths DEF RunTyped, updatePairStats
<1>3. RunTyped(s)
  BY <1>2, Lengths DEF RunTyped
<1>4. ToRun(r, s) /\ UNCHANGED <<now, stored, ohlcv>>
  BY DEF updatePairStats
<1>. HIDE DEF s
<1>5. \A k \in DOMAIN ohlcv' : \E l \in Range(CandleLengths) : \E b \in Starts(l) : k = <<l, b>>
  BY <1>4 DEF PriceTyped
<1>. QED BY <1>3, <1>4, <1>5, OnTyped

\* What a run has to write once it has read.
LEMMA ReadYields ==
  ASSUME PriceTyped, NEW r \in runs, ReadSwaps(r)
  PROVE  LET l == CandleLengths[r.next]
         IN  /\ l \in Range(CandleLengths) /\ r.next \in 1..Len(CandleLengths)
             /\ UNCHANGED <<now, stored, ohlcv, overlapped>>
             /\ \E s : /\ ToRun(r, s) /\ RunTyped(s)
                       /\ \/ DOMAIN s.upserts = {}
                          \/ (s.next = r.next /\ s.upserts \in NewCandles(l))
<1> DEFINE l == CandleLengths[r.next]
<1>1. RunTyped(r)
  BY DEF PriceTyped, RunTyped
<1>2. l \in Range(CandleLengths) /\ r.next \in 1..Len(CandleLengths)
  BY Lengths DEF ReadSwaps
<1>3. UNCHANGED <<now, stored, ohlcv, overlapped>>
  BY DEF ReadSwaps
<1>6. PICK U \in NewCandles(l) :
        ToRun(r, IF U = NoCandles THEN [r EXCEPT !.next = @ + 1] ELSE [r EXCEPT !.upserts = U])
  BY DEF ReadSwaps
<1>4. DOMAIN U \subseteq Starts(l)
  BY <1>2, NewCandlesAre
<1>5. r.upserts = << >>
  BY DEF ReadSwaps, NoCandles
<1>9. U # << >> => DOMAIN U # {}
  BY DEF NewCandles
<1>7. CASE U = NoCandles
  <2> DEFINE s == [r EXCEPT !.next = @ + 1]
  <2>1. s = [id |-> r.id, next |-> r.next + 1, upserts |-> << >>]
    BY <1>1, <1>5 DEF RunTyped
  <2>2. RunTyped(s) /\ DOMAIN s.upserts = {}
    BY <1>2, <2>1, Lengths DEF RunTyped
  <2>3. ToRun(r, s)
    BY <1>6, <1>7
  <2>. HIDE DEF s
  <2>. QED BY <1>2, <1>3, <2>2, <2>3
<1>8. CASE U # NoCandles
  <2> DEFINE s == [r EXCEPT !.upserts = U]
  <2>1. s = [id |-> r.id, next |-> r.next, upserts |-> U]
    BY <1>1 DEF RunTyped
  <2>2. RunTyped(s) /\ s.next = r.next /\ s.upserts = U
    <3>1. U # << >> /\ DOMAIN U # {}
      BY <1>8, <1>9 DEF NoCandles
    <3>2. s.next = r.next /\ s.upserts = U /\ s.id = r.id
      BY <2>1
    <3>. QED BY <1>1, <1>2, <1>4, <2>1, <3>1, <3>2 DEF RunTyped
  <2>3. ToRun(r, s)
    BY <1>6, <1>8
  <2>. HIDE DEF s
  <2>4. \E z : ToRun(r, z) /\ RunTyped(z) /\ z.next = r.next /\ z.upserts = U
    BY <2>2, <2>3
  <2>. QED BY <1>2, <1>3, <2>4
<1>. QED BY <1>7, <1>8

\* ... when swaps are read, ...
LEMMA ReadTyped ==
  ASSUME PriceTyped, NEW r \in runs, ReadSwaps(r)
  PROVE  PriceTyped'
<1>1. PICK s : ToRun(r, s) /\ RunTyped(s)
  BY ReadYields
<1>2. UNCHANGED <<now, stored, ohlcv>>
  BY ReadYields
<1>3. \A k \in DOMAIN ohlcv' : \E l \in Range(CandleLengths) : \E b \in Starts(l) : k = <<l, b>>
  BY <1>2 DEF PriceTyped
<1>. QED BY <1>1, <1>2, <1>3, OnTyped

\* What a run does when it writes a candle: the first.
LEMMA UpsertYields ==
  ASSUME PriceTyped, NEW r \in runs, Upsert(r), DOMAIN r.upserts # {}
  PROVE  LET l == CandleLengths[r.next]
             b == Min(DOMAIN r.upserts)
         IN  /\ l \in Range(CandleLengths) /\ r.next \in 1..Len(CandleLengths)
             /\ UNCHANGED <<now, stored, overlapped>>
             /\ b \in DOMAIN r.upserts /\ b \in Starts(l) /\ \A c \in DOMAIN r.upserts : b <= c
             /\ DOMAIN ohlcv' = DOMAIN ohlcv \cup {<<l, b>>}
             /\ ohlcv'[<<l, b>>] = r.upserts[b]
             /\ \A k \in DOMAIN ohlcv : k # <<l, b>> => ohlcv'[k] = ohlcv[k]
             /\ \E s : /\ ToRun(r, s) /\ RunTyped(s)
                       /\ DOMAIN s.upserts = DOMAIN r.upserts \ {b}
                       /\ \A c \in DOMAIN s.upserts : s.next = r.next /\ s.upserts[c] = r.upserts[c]
<1> DEFINE l == CandleLengths[r.next]
           U == r.upserts
           b == Min(DOMAIN U)
           left == Restrict(U, DOMAIN U \ {b})
           n == IF left = NoCandles THEN r.next + 1 ELSE r.next
           s == [r EXCEPT !.upserts = left, !.next = n]
<1>1. RunTyped(r)
  BY DEF PriceTyped, RunTyped
<1>2. r.next \in 1..Len(CandleLengths) /\ l \in Range(CandleLengths) /\ DOMAIN U \subseteq Starts(l)
  BY <1>1, Lengths DEF RunTyped
<1>3. DOMAIN U \in SUBSET Nat
  <2>1. now \in Nat
    BY PriceAssumption DEF PriceTyped
  <2>. QED BY <1>2, <2>1 DEF Starts
<1>4. b \in DOMAIN U /\ \A c \in DOMAIN U : b <= c
  BY <1>3, Smallest
<1>5. UNCHANGED <<now, stored, overlapped>> /\ Put(<<l, b>>, U[b]) /\ ToRun(r, s)
  BY DEF Upsert
<1>6. DOMAIN left = DOMAIN U \ {b} /\ \A c \in DOMAIN left : left[c] = U[c]
  BY DEF Restrict
<1>14. DOMAIN left = {} => left = << >>
  BY DEF Restrict
<1>7. b \in Starts(l)
  BY <1>2, <1>4
<1>. HIDE DEF b, left
<1>8. s = [id |-> r.id, next |-> n, upserts |-> left]
  <2>1. r = [id |-> r.id, next |-> r.next, upserts |-> r.upserts]
    BY <1>1 DEF RunTyped
  <2>. HIDE DEF n
  <2>. QED BY <2>1, RunWith
<1>9. left = NoCandles => DOMAIN left = {}
  BY DEF NoCandles
<1>10. s.next \in 0..(Len(CandleLengths) + 1) /\ s.upserts = left /\ (DOMAIN left # {} => s.next = r.next)
       /\ s = [id |-> s.id, next |-> s.next, upserts |-> s.upserts]
  BY <1>2, <1>8, <1>9, Lengths
<1>. HIDE DEF s
<1>11. RunTyped(s)
  BY <1>2, <1>6, <1>10, <1>14 DEF RunTyped
<1>12. \E z : /\ ToRun(r, z) /\ RunTyped(z) /\ DOMAIN z.upserts = DOMAIN U \ {b}
              /\ \A c \in DOMAIN z.upserts : z.next = r.next /\ z.upserts[c] = U[c]
  BY <1>5, <1>6, <1>10, <1>11
<1>13. /\ DOMAIN ohlcv' = DOMAIN ohlcv \cup {<<l, b>>} /\ ohlcv'[<<l, b>>] = U[b]
       /\ \A k \in DOMAIN ohlcv : k # <<l, b>> => ohlcv'[k] = ohlcv[k]
  BY <1>5 DEF Put
<1>. QED BY <1>2, <1>4, <1>5, <1>7, <1>12, <1>13 DEF b

\* ... when a candle is written, ...
LEMMA UpsertTyped ==
  ASSUME PriceTyped, NEW r \in runs, Upsert(r), DOMAIN r.upserts # {}
  PROVE  PriceTyped'
<1> DEFINE l == CandleLengths[r.next]
           b == Min(DOMAIN r.upserts)
<1>1. /\ l \in Range(CandleLengths) /\ b \in Starts(l) /\ UNCHANGED <<now, stored>>
      /\ DOMAIN ohlcv' = DOMAIN ohlcv \cup {<<l, b>>}
  BY UpsertYields
<1>2. PICK s : ToRun(r, s) /\ RunTyped(s)
  BY UpsertYields
<1>. HIDE DEF l, b
<1>3. \A k \in DOMAIN ohlcv' : \E x \in Range(CandleLengths) : \E y \in Starts(x) : k = <<x, y>>
  BY <1>1 DEF PriceTyped
<1>. QED BY <1>1, <1>2, <1>3, OnTyped

\* ... when one ends, however, ...
LEMMA EndTyped ==
  ASSUME PriceTyped, runs' \subseteq runs, UNCHANGED <<now, stored, ohlcv>>
  PROVE  PriceTyped'
<1>1. IsFiniteSet(runs') /\ Cardinality(runs') <= Cardinality(runs)
  BY FS_Subset DEF PriceTyped
<1>2. Cardinality(runs) \in Nat /\ Cardinality(runs') \in Nat /\ MaxRuns \in Nat
  BY <1>1, FS_CardinalityType, PriceAssumption DEF PriceTyped
<1>3. Cardinality(runs') <= MaxRuns
  BY <1>1, <1>2 DEF PriceTyped
<1>4. \A r \in runs' : RunTyped(r)'
  BY DEF PriceTyped, RunTyped, Starts
<1>5. \A l : Starts(l)' = Starts(l)
  BY DEF Starts
<1>. QED BY <1>1, <1>3, <1>4, <1>5 DEF PriceTyped, RunTyped

\* The swap that is stored.
LEMMA StoreYields ==
  ASSUME PriceTyped, StoreSwap
  PROVE  \E s \in StoredSwap : s.time <= now /\ stored' = Append(stored, s)
<1>1. PICK t \in 0..now, a \in RowAmounts : stored' = Append(stored, [time |-> t, amounts |-> a])
  BY DEF StoreSwap
<1> DEFINE s == [time |-> t, amounts |-> a]
<1>2. now \in Nat
  BY PriceAssumption DEF PriceTyped
<1>3. s \in StoredSwap /\ s.time <= now
  BY <1>2 DEF StoredSwap
<1>. HIDE DEF s
<1>. QED BY <1>1, <1>3 DEF s

\* ... when a swap is stored, ...
LEMMA StoreTyped ==
  ASSUME PriceTyped, StoreSwap
  PROVE  PriceTyped'
<1>1. PICK s \in StoredSwap : s.time <= now /\ stored' = Append(stored, s)
  BY StoreYields
<1>2. UNCHANGED <<now, ohlcv, runs>> /\ Len(stored) < MaxStored
  BY DEF StoreSwap
<1> DEFINE more == Append(stored, s)
           N == Len(stored)
<1>3. /\ more \in Seq(StoredSwap) /\ Len(more) = N + 1 /\ more[N + 1] = s
      /\ \A i \in 1..N : more[i] = stored[i]
  BY DEF PriceTyped
<1>4. N \in Nat /\ MaxStored \in Nat /\ now \in Nat /\ N < MaxStored
  BY <1>2, PriceAssumption DEF PriceTyped
<1>. HIDE DEF more, N
<1>5. Len(more) <= MaxStored
  BY <1>3, <1>4
<1>6. \A i \in 1..Len(more) : more[i].time <= now
  <2>. SUFFICES ASSUME NEW i \in 1..(N + 1) PROVE more[i].time <= now
    BY <1>3
  <2>1. CASE i = N + 1
    BY <1>1, <1>3, <1>4, <2>1
  <2>2. CASE i \in 1..N
    BY <1>3, <2>2 DEF PriceTyped, N
  <2>. QED BY <1>4, <2>1, <2>2
<1>7. stored' = more
  BY <1>1 DEF more
<1>8. \A l : Starts(l)' = Starts(l)
  BY <1>2 DEF Starts
<1>. QED BY <1>2, <1>3, <1>5, <1>6, <1>7, <1>8 DEF PriceTyped

\* ... and as time passes.
LEMMA TimeTyped ==
  ASSUME PriceTyped, TimePasses
  PROVE  PriceTyped'
<1>1. now' = now + 1 /\ now < MaxTime /\ UNCHANGED <<stored, ohlcv, runs>>
  BY DEF TimePasses
<1>2. now \in Nat /\ MaxTime \in Nat
  BY PriceAssumption DEF PriceTyped
<1>3. now' \in 0..MaxTime /\ 0..now \subseteq 0..now'
  BY <1>1, <1>2
<1>4. \A l : Starts(l) \subseteq Starts(l)'
  BY <1>3 DEF Starts
<1>5. \A i \in 1..Len(stored) : stored[i].time <= now'
  <2>. SUFFICES ASSUME NEW i \in 1..Len(stored) PROVE stored[i].time <= now'
    OBVIOUS
  <2>1. stored[i].time \in Nat /\ stored[i].time <= now
    BY Times
  <2>. QED BY <1>1, <1>2, <2>1
<1>6. \A k \in DOMAIN ohlcv : \E l \in Range(CandleLengths) : \E b \in Starts(l)' : k = <<l, b>>
  BY <1>4 DEF PriceTyped
<1>7. \A r \in runs : DOMAIN r.upserts # {} => DOMAIN r.upserts \subseteq Starts(CandleLengths[r.next])'
  BY <1>4 DEF PriceTyped
<1>. QED BY <1>1, <1>3, <1>5, <1>6, <1>7 DEF PriceTyped

\* Every step keeps the types.
LEMMA StepTyped ==
  ASSUME PriceTyped, PriceStep
  PROVE  PriceTyped'
<1>1. CASE BeginRun
  BY <1>1, BeginTyped
<1>2. CASE ProcessFails
  BY <1>2, EndTyped DEF ProcessFails
<1>3. CASE StoreSwap
  BY <1>3, StoreTyped
<1>4. CASE TimePasses
  BY <1>4, TimeTyped
<1>5. CASE \E r \in runs : updatePairStats(r) \/ ReadSwaps(r) \/ Upsert(r) \/ EndRun(r)
  <2>1. PICK r \in runs : updatePairStats(r) \/ ReadSwaps(r) \/ Upsert(r) \/ EndRun(r)
    BY <1>5
  <2>2. CASE updatePairStats(r)
    BY <2>2, StatsTyped
  <2>3. CASE ReadSwaps(r)
    BY <2>3, ReadTyped
  <2>4. CASE Upsert(r)
    BY <2>4, UpsertTyped DEF Upsert, NoCandles, PriceTyped
  <2>5. CASE EndRun(r)
    BY <2>5, EndTyped DEF EndRun
  <2>. QED BY <2>1, <2>2, <2>3, <2>4, <2>5
<1>. QED BY <1>1, <1>2, <1>3, <1>4, <1>5 DEF PriceStep

---------------------------------------------------------------------------
(* The candles hold nothing else *)

\* A complete candle is a partial one.
LEMMA CompletePartial ==
  ASSUME NEW x, NEW swaps, Len(swaps) \in Nat, NEW b, NEW l, Complete(x, swaps, b, l)
  PROVE  Partial(x, swaps, b, l)
BY DEF Complete, Partial

\* A candle counts a swap of its time.
LEMMA PartialHas ==
  ASSUME NEW swaps \in Seq(StoredSwap), NEW c \in Nat, NEW l \in Nat \ {0}, c % l = 0,
         NEW y, Partial(y, swaps, c, l)
  PROVE  \E h \in 1..Len(swaps) : Bucket(swaps[h].time, l) = c
<1>1. PICK n \in 0..Len(swaps), m \in 0..Len(swaps) : Within(swaps, c, l, n, m) # {}
  BY DEF Partial, Counts
<1>2. PICK h \in 1..Len(swaps) : Bucket(swaps[h].time, l) = c \/ swaps[h].time = c
  <2>1. PICK h \in Within(swaps, c, l, n, m) : TRUE
    BY <1>1
  <2>2. h \in 1..Len(swaps)
    BY <2>1 DEF Within
  <2>3. Bucket(swaps[h].time, l) = c \/ swaps[h].time = c
    BY <2>1 DEF Within
  <2>. QED BY <2>2, <2>3
<1>3. swaps[h].time = c => Bucket(swaps[h].time, l) = c
  <2>1. Bucket(c, l) \in 0..c /\ \A x \in 0..c : x % l = 0 => x <= Bucket(c, l)
    BY BucketIs
  <2>2. c \in 0..c
    OBVIOUS
  <2>3. c <= Bucket(c, l)
    BY <2>1, <2>2
  <2>4. Bucket(c, l) = c
    BY <2>1, <2>3
  <2>. QED BY <2>4
<1>. QED BY <1>2, <1>3

\* The candles hold what they should: when a run begins, ends or does something
\* else, ...
LEMMA RunsHold ==
  ASSUME CandlesHold, UNCHANGED <<stored, ohlcv>>,
         \A r \in runs' : r \in runs \/ DOMAIN r.upserts = {}
  PROVE  CandlesHold'
BY DEF CandlesHold

\* ... when one reads, ...
LEMMA ReadHolds ==
  ASSUME PriceTyped, CandlesHold, NEW r \in runs, ReadSwaps(r)
  PROVE  CandlesHold'
<1> DEFINE l == CandleLengths[r.next]
<1>1. l \in Range(CandleLengths) /\ UNCHANGED <<stored, ohlcv>>
  BY ReadYields
<1>2. PICK s : ToRun(r, s) /\ (DOMAIN s.upserts = {} \/ (s.next = r.next /\ s.upserts \in NewCandles(l)))
  BY ReadYields
<1>3. Len(stored) \in Nat
  BY DEF PriceTyped
<1>4. \A c \in DOMAIN s.upserts : Partial(s.upserts[c], stored, c, CandleLengths[s.next])
  <2>. SUFFICES ASSUME NEW c \in DOMAIN s.upserts, s.next = r.next, s.upserts \in NewCandles(l)
                PROVE  Partial(s.upserts[c], stored, c, l)
    BY <1>2
  <2>1. Complete(s.upserts[c], stored, c, l)
    BY <1>1, NewCandlesAre
  <2>. HIDE DEF l
  <2>. QED BY <1>3, <2>1, CompletePartial
<1>. QED BY <1>1, <1>2, <1>4 DEF CandlesHold, ToRun

\* ... when one writes a candle, ...
LEMMA UpsertHolds ==
  ASSUME PriceTyped, CandlesHold, NEW r \in runs, Upsert(r), DOMAIN r.upserts # {}
  PROVE  CandlesHold'
<1> DEFINE l == CandleLengths[r.next]
           U == r.upserts
           b == Min(DOMAIN U)
           new == <<l, b>>
<1>1. /\ stored' = stored /\ b \in DOMAIN U
      /\ DOMAIN ohlcv' = DOMAIN ohlcv \cup {new} /\ ohlcv'[new] = U[b]
      /\ \A k \in DOMAIN ohlcv : k # new => ohlcv'[k] = ohlcv[k]
  BY UpsertYields
<1>2. PICK s : /\ ToRun(r, s) /\ DOMAIN s.upserts = DOMAIN U \ {b}
               /\ \A c \in DOMAIN s.upserts : s.next = r.next /\ s.upserts[c] = U[c]
  BY UpsertYields
<1>3. \A c \in DOMAIN U : Partial(U[c], stored, c, l)
  BY DEF CandlesHold
<1>4. new[1] = l /\ new[2] = b
  OBVIOUS
<1>. HIDE DEF b, new
<1>5. \A k \in DOMAIN ohlcv' : Partial(ohlcv'[k], stored, k[2], k[1])
  BY <1>1, <1>3, <1>4 DEF CandlesHold
<1>6. \A c \in DOMAIN s.upserts : Partial(s.upserts[c], stored, c, CandleLengths[s.next])
  BY <1>2, <1>3
<1>. QED BY <1>1, <1>2, <1>5, <1>6 DEF CandlesHold, ToRun

\* ... when a swap is stored, ...
LEMMA StoreHolds ==
  ASSUME PriceTyped, CandlesHold, StoreSwap
  PROVE  CandlesHold'
<1>1. PICK s \in StoredSwap : stored' = Append(stored, s)
  BY StoreYields
<1>2. UNCHANGED <<ohlcv, runs>> /\ stored \in Seq(StoredSwap) /\ now \in Nat
  BY PriceAssumption DEF StoreSwap, PriceTyped
<1>3. ASSUME NEW b \in Nat, NEW l \in Nat \ {0}, NEW x, Partial(x, stored, b, l)
      PROVE  Partial(x, stored', b, l)
  BY <1>1, <1>2, <1>3, LaterSwap
<1>4. \A k \in DOMAIN ohlcv : Partial(ohlcv[k], stored', k[2], k[1])
  BY <1>3, Keys DEF CandlesHold
<1>5. ASSUME NEW r \in runs, NEW c \in DOMAIN r.upserts
      PROVE  Partial(r.upserts[c], stored', c, CandleLengths[r.next])
  <2> DEFINE l == CandleLengths[r.next]
  <2>1. r.next \in 1..Len(CandleLengths) /\ c \in Starts(l)
    BY DEF PriceTyped
  <2>2. l \in Nat \ {0} /\ c \in Nat
    BY <1>2, <2>1, Lengths DEF Starts
  <2>3. Partial(r.upserts[c], stored, c, l)
    BY DEF CandlesHold
  <2>. QED BY <1>3, <2>2, <2>3
<1>. QED BY <1>2, <1>4, <1>5 DEF CandlesHold

\* ... and so in every step.
LEMMA StepHolds ==
  ASSUME PriceTyped, CandlesHold, PriceStep
  PROVE  CandlesHold'
<1>1. CASE BeginRun
  <2>1. PICK i : runs' = runs \cup {[id |-> i, next |-> 0, upserts |-> << >>]}
    BY <1>1 DEF BeginRun, NoCandles
  <2>2. DOMAIN [id |-> i, next |-> 0, upserts |-> << >>].upserts = {} /\ UNCHANGED <<stored, ohlcv>>
    BY <1>1 DEF BeginRun
  <2>. QED BY <2>1, <2>2, RunsHold
<1>2. CASE ProcessFails
  BY <1>2, RunsHold DEF ProcessFails
<1>3. CASE StoreSwap
  BY <1>3, StoreHolds
<1>4. CASE TimePasses
  BY <1>4, RunsHold DEF TimePasses
<1>5. ASSUME NEW r \in runs, updatePairStats(r)
      PROVE  CandlesHold'
  <2> DEFINE s == [r EXCEPT !.next = 1]
  <2>1. DOMAIN s.upserts = {}
    <3>1. r = [id |-> r.id, next |-> r.next, upserts |-> r.upserts] /\ DOMAIN r.upserts = {}
      BY <1>5, Lengths DEF PriceTyped, updatePairStats
    <3>. QED BY <3>1
  <2>2. ToRun(r, s) /\ UNCHANGED <<stored, ohlcv>>
    BY <1>5 DEF updatePairStats
  <2>. HIDE DEF s
  <2>. QED BY <2>1, <2>2, RunsHold DEF ToRun
<1>6. ASSUME NEW r \in runs, EndRun(r)
      PROVE  CandlesHold'
  BY <1>6, RunsHold DEF EndRun
<1>7. ASSUME NEW r \in runs, Upsert(r)
      PROVE  CandlesHold'
  BY <1>7, UpsertHolds DEF Upsert, NoCandles, PriceTyped
<1>. QED BY <1>1, <1>2, <1>3, <1>4, <1>5, <1>6, <1>7, ReadHolds DEF PriceStep

---------------------------------------------------------------------------
(* The candles stay good *)

\* The candles stay good: when a run begins, ends or does something else, ...
LEMMA RunsGood ==
  ASSUME PriceTyped, CandlesGood, UNCHANGED <<stored, ohlcv>>, ~overlapped' => ~overlapped,
         ~overlapped' => \A r, q \in runs' : r = q,
         ~overlapped' => \A r \in runs' : r \in runs \/ DOMAIN r.upserts = {}
  PROVE  CandlesGood'
<1>. SUFFICES ASSUME ~overlapped' PROVE CandlesGood'
  BY DEF CandlesGood
<1>1. \A r \in runs' : RunGood(r)'
  BY DEF CandlesGood, RunGood
<1>. QED BY <1>1 DEF CandlesGood

\* ... when a run begins, ...
LEMMA BeginGood ==
  ASSUME PriceTyped, CandlesGood, BeginRun
  PROVE  CandlesGood'
<1>1. PICK i : runs' = runs \cup {[id |-> i, next |-> 0, upserts |-> << >>]}
  BY DEF BeginRun, NoCandles
<1>2. overlapped' = (overlapped \/ runs # {}) /\ UNCHANGED <<stored, ohlcv>>
  BY DEF BeginRun
<1> DEFINE s == [id |-> i, next |-> 0, upserts |-> << >>]
<1>3. DOMAIN s.upserts = {}
  OBVIOUS
<1>. HIDE DEF s
<1>4. ~overlapped' => ~overlapped /\ runs' = {s}
  BY <1>1, <1>2 DEF s
<1>. QED BY <1>2, <1>3, <1>4, RunsGood

\* ... when one reads, ...
LEMMA ReadGood ==
  ASSUME PriceTyped, CandlesHold, CandlesGood, NEW r \in runs, ReadSwaps(r)
  PROVE  CandlesGood'
<1> DEFINE l == CandleLengths[r.next]
<1>1. l \in Range(CandleLengths) /\ r.next \in 1..Len(CandleLengths) /\ UNCHANGED <<now, stored, ohlcv, overlapped>>
  BY ReadYields
<1>2. PICK s : ToRun(r, s) /\ RunTyped(s) /\ (DOMAIN s.upserts = {} \/ (s.next = r.next /\ s.upserts \in NewCandles(l)))
  BY ReadYields
<1>. SUFFICES ASSUME ~overlapped PROVE CandlesGood'
  BY <1>1 DEF CandlesGood
<1>3. runs' = {s}
  BY <1>2 DEF ToRun, CandlesGood
<1>4. CASE DOMAIN s.upserts = {}
  BY <1>1, <1>3, <1>4, RunsGood
<1>5. CASE s.next = r.next /\ s.upserts \in NewCandles(l)
  <2> DEFINE U == s.upserts
  <2>1. Len(stored) \in Nat /\ DOMAIN U \subseteq Nat /\ now \in Nat
    <3>1. now \in Nat /\ Len(stored) \in Nat
      BY PriceAssumption DEF PriceTyped
    <3>2. DOMAIN U \subseteq Starts(l)
      BY <1>1, <1>5, NewCandlesAre
    <3>. QED BY <3>1, <3>2 DEF Starts
  <2>2. ASSUME NEW c \in DOMAIN U
        PROVE  Complete(U[c], stored, c, l) /\ \A k \in DOMAIN ohlcv : k[1] = l => k[2] <= c
    BY <1>1, <1>5, NewCandlesAre
  <2>3. ASSUME NEW c \in DOMAIN U, \A d \in DOMAIN U : c <= d,
               NEW k \in DOMAIN ohlcv, k[1] = l, k[2] < c
        PROVE  Complete(ohlcv[k], stored, k[2], l)
    <3>1. /\ <<l, Since(l)>> \in DOMAIN ohlcv /\ Since(l) \in Nat
          /\ k[2] <= Since(l) /\ k[2] \in Nat /\ k = <<k[1], k[2]>>
      <4>1. k[2] \in Nat /\ k = <<k[1], k[2]>>
        BY Keys
      <4>2. <<l, Since(l)>> \in DOMAIN ohlcv /\ k[2] <= Since(l) /\ Since(l) \in Starts(l)
        BY <1>1, <2>3, SinceIs
      <4>3. Since(l) \in Nat
        BY <2>1, <4>2 DEF Starts
      <4>. QED BY <4>1, <4>2, <4>3
    <3>2. CASE k[2] < Since(l)
      <4> DEFINE j == <<l, Since(l)>>
      <4>1. j \in DOMAIN ohlcv /\ j[1] = k[1] /\ k[2] < j[2]
        BY <2>3, <3>1, <3>2
      <4>. HIDE DEF j, l
      <4>. QED BY <2>3, <4>1 DEF CandlesGood
    <3>3. CASE k[2] = Since(l)
      <4>1. Since(l) \notin DOMAIN U
        <5>. SUFFICES ASSUME Since(l) \in DOMAIN U PROVE FALSE
          OBVIOUS
        <5>1. c <= k[2]
          BY <2>3, <3>3
        <5>. QED BY <2>1, <2>3, <3>1, <5>1
      <4>2. Partial(ohlcv[k], stored, Since(l), l)
        BY <2>3, <3>3 DEF CandlesHold
      <4>3. Complete(ohlcv[k], stored, Since(l), l)
        BY <1>1, <1>5, <4>1, <4>2, LastIsComplete
      <4>. QED BY <3>3, <4>3
    <3>. QED BY <3>1, <3>2, <3>3
  <2>4. RunGood(s)
    BY <1>5, <2>2, <2>3 DEF RunGood
  <2>5. RunGood(s)'
    BY <1>1, <2>4 DEF RunGood
  <2>. QED BY <1>1, <1>3, <2>5 DEF CandlesGood
<1>. QED BY <1>2, <1>4, <1>5

\* ... when one writes a candle, ...
LEMMA UpsertGood ==
  ASSUME PriceTyped, CandlesGood, NEW r \in runs, Upsert(r), DOMAIN r.upserts # {}
  PROVE  CandlesGood'
<1> DEFINE l == CandleLengths[r.next]
           U == r.upserts
           b == Min(DOMAIN U)
           new == <<l, b>>
<1>1. /\ UNCHANGED <<now, stored, overlapped>>
      /\ b \in DOMAIN U /\ \A c \in DOMAIN U : b <= c
      /\ DOMAIN ohlcv' = DOMAIN ohlcv \cup {new} /\ ohlcv'[new] = U[b]
      /\ \A k \in DOMAIN ohlcv : k # new => ohlcv'[k] = ohlcv[k]
  BY UpsertYields
<1>2. PICK s : /\ ToRun(r, s) /\ DOMAIN s.upserts = DOMAIN U \ {b}
               /\ \A c \in DOMAIN s.upserts : s.next = r.next /\ s.upserts[c] = U[c]
  BY UpsertYields
<1>. SUFFICES ASSUME ~overlapped PROVE CandlesGood'
  BY <1>1 DEF CandlesGood
<1>3. runs' = {s} /\ RunGood(r)
  BY <1>2 DEF ToRun, CandlesGood
<1>4. DOMAIN U \subseteq Nat
  <2>1. now \in Nat
    BY PriceAssumption DEF PriceTyped
  <2>. QED BY <2>1 DEF PriceTyped, Starts
<1>5. \A k \in DOMAIN ohlcv : k = <<k[1], k[2]>> /\ k[2] \in Nat
  BY Keys
<1>6. new[1] = l /\ new[2] = b /\ \A k \in DOMAIN ohlcv : k # new => ~(k[1] = l /\ k[2] = b)
  BY <1>5
<1>7. ASSUME NEW c \in DOMAIN U
      PROVE  /\ \A d \in DOMAIN U : d < c => Complete(U[d], stored, d, l)
             /\ \A k \in DOMAIN ohlcv : k[1] = l =>
                  /\ k[2] <= c
                  /\ (\A d \in DOMAIN U : c <= d) /\ k[2] < c => Complete(ohlcv[k], stored, k[2], l)
  BY <1>3 DEF RunGood
<1>. HIDE DEF new, b, l
<1>8. ASSUME NEW k \in DOMAIN ohlcv'
      PROVE  /\ k = new \/ (k \in DOMAIN ohlcv /\ k # new /\ ohlcv'[k] = ohlcv[k])
             /\ k[2] \in Nat
  BY <1>1, <1>4, <1>5, <1>6
<1>10. ASSUME NEW k \in DOMAIN ohlcv', k[1] = l
       PROVE  k[2] <= b
  <2>1. CASE k = new
    BY <1>1, <1>4, <1>6, <2>1
  <2>2. CASE k \in DOMAIN ohlcv
    BY <1>1, <1>7, <1>10, <2>2
  <2>. QED BY <1>8, <2>1, <2>2
<1>11. ASSUME NEW k \in DOMAIN ohlcv', k # new, k[1] = l
       PROVE  Complete(ohlcv'[k], stored, k[2], l)
  <2>1. k \in DOMAIN ohlcv /\ ohlcv'[k] = ohlcv[k] /\ k[2] \in Nat
    BY <1>8, <1>11
  <2>2. k[2] <= b /\ k[2] # b /\ b \in Nat
    BY <1>1, <1>4, <1>6, <1>10, <1>11, <2>1
  <2>3. k[2] < b
    BY <2>1, <2>2
  <2>. QED BY <1>1, <1>7, <1>11, <2>1, <2>3
<1>12. ASSUME NEW j \in DOMAIN ohlcv', NEW k \in DOMAIN ohlcv', j[1] = k[1], k[2] < j[2]
       PROVE  Complete(ohlcv'[k], stored, k[2], k[1])
  <2>1. CASE k = new
    <3>1. j[2] <= b /\ k[2] = b /\ b \in Nat /\ j[2] \in Nat
      BY <1>1, <1>4, <1>6, <1>8, <1>10, <1>12, <2>1
    <3>. QED BY <1>12, <3>1
  <2>2. CASE k # new /\ k[1] = l
    BY <1>11, <2>2
  <2>3. CASE k # new /\ k[1] # l
    <3>1. j # new /\ k # new
      BY <1>6, <1>12, <2>3
    <3>. QED BY <1>8, <1>12, <3>1 DEF CandlesGood
  <2>. QED BY <2>1, <2>2, <2>3
<1>13. ASSUME NEW c \in DOMAIN s.upserts
       PROVE  /\ \A d \in DOMAIN s.upserts : d < c => Complete(s.upserts[d], stored, d, CandleLengths[s.next])
              /\ \A k \in DOMAIN ohlcv' : k[1] = CandleLengths[s.next] =>
                   /\ k[2] <= c
                   /\ k[2] < c => Complete(ohlcv'[k], stored, k[2], CandleLengths[s.next])
  <2>1. c \in DOMAIN U /\ c # b /\ CandleLengths[s.next] = l /\ s.upserts[c] = U[c]
    BY <1>2 DEF l
  <2>2. b \in Nat /\ c \in Nat /\ b < c
    BY <1>1, <1>4, <2>1
  <2>4. \A d \in DOMAIN s.upserts : d < c => Complete(s.upserts[d], stored, d, l)
    BY <1>2, <1>7, <2>1
  <2>5. Complete(U[b], stored, b, l)
    BY <1>1, <1>7, <2>1, <2>2
  <2>6. ASSUME NEW k \in DOMAIN ohlcv', k[1] = l
        PROVE  k[2] <= c /\ Complete(ohlcv'[k], stored, k[2], l)
    <3>1. k[2] <= b /\ k[2] \in Nat
      BY <1>8, <1>10, <2>6
    <3>2. k[2] <= c
      BY <2>2, <3>1
    <3>3. CASE k = new
      BY <1>1, <1>6, <2>5, <3>2, <3>3
    <3>4. CASE k # new
      BY <1>11, <2>6, <3>2, <3>4
    <3>. QED BY <3>3, <3>4
  <2>. QED BY <2>1, <2>4, <2>6
<1>14. RunGood(s)'
  BY <1>1, <1>13 DEF RunGood
<1>. QED BY <1>1, <1>3, <1>12, <1>14 DEF CandlesGood

\* ... when a swap is stored, ...
LEMMA StoreGood ==
  ASSUME PriceTyped, CandlesHold, CandlesGood, StoreSwap
  PROVE  CandlesGood'
<1>1. PICK s \in StoredSwap : stored' = Append(stored, s)
  BY StoreYields
<1>2. UNCHANGED <<ohlcv, runs, overlapped>>
  BY DEF StoreSwap
<1>3. stored \in Seq(StoredSwap)
  BY DEF PriceTyped
<1>5. ASSUME NEW b \in Nat, NEW l \in Nat \ {0}, NEW c \in Nat, c % l = 0, b < c,
             NEW y, Partial(y, stored, c, l), NEW x, Complete(x, stored, b, l)
      PROVE  Complete(x, stored', b, l)
  <2>1. PICK h \in 1..Len(stored) : Bucket(stored[h].time, l) = c
    BY <1>3, <1>5, PartialHas
  <2>2. ~(Bucket(stored[h].time, l) <= b)
    BY <1>5, <2>1
  <2>. QED BY <1>1, <1>3, <1>5, <2>1, <2>2, LaterSwap
<1>. SUFFICES ASSUME ~overlapped PROVE CandlesGood'
  BY <1>2 DEF CandlesGood
<1>7. ASSUME NEW j \in DOMAIN ohlcv, NEW k \in DOMAIN ohlcv, j[1] = k[1], k[2] < j[2]
      PROVE  Complete(ohlcv[k], stored', k[2], k[1])
  <2>1. Complete(ohlcv[k], stored, k[2], k[1])
    BY <1>7 DEF CandlesGood
  <2>2. k[1] \in Nat \ {0} /\ k[2] \in Nat /\ k[2] % k[1] = 0
    BY Keys
  <2>3. j[2] \in Nat /\ j[2] % k[1] = 0 /\ Partial(ohlcv[j], stored, j[2], k[1])
    BY <1>7, Keys DEF CandlesHold
  <2>. QED BY <1>5, <1>7, <2>1, <2>2, <2>3
<1>8. ASSUME NEW r \in runs PROVE RunGood(r)'
  <2> DEFINE l == CandleLengths[r.next]
             U == r.upserts
  <2>. SUFFICES ASSUME NEW c \in DOMAIN U
                PROVE  /\ \A d \in DOMAIN U : d < c => Complete(U[d], stored', d, l)
                       /\ \A k \in DOMAIN ohlcv : k[1] = l =>
                            /\ k[2] <= c
                            /\ (\A d \in DOMAIN U : c <= d) /\ k[2] < c => Complete(ohlcv[k], stored', k[2], l)
    BY <1>2 DEF RunGood
  <2>1. /\ \A d \in DOMAIN U : d < c => Complete(U[d], stored, d, l)
        /\ \A k \in DOMAIN ohlcv : k[1] = l =>
             /\ k[2] <= c
             /\ (\A d \in DOMAIN U : c <= d) /\ k[2] < c => Complete(ohlcv[k], stored, k[2], l)
    BY DEF RunGood, CandlesGood
  <2>4. Partial(U[c], stored, c, l)
    BY DEF CandlesHold
  <2>2. l \in Nat \ {0} /\ \A d \in DOMAIN U : d \in Nat /\ d % l = 0
    <3>1. r.next \in 1..Len(CandleLengths) /\ DOMAIN U \subseteq Starts(l)
      BY DEF PriceTyped
    <3>2. l \in Nat \ {0}
      BY <3>1, Lengths
    <3>3. now \in Nat
      BY PriceAssumption DEF PriceTyped
    <3>. HIDE DEF l, U
    <3>. QED BY <3>1, <3>2, <3>3 DEF Starts
  <2>3. \A k \in DOMAIN ohlcv : k[2] \in Nat /\ k[2] % k[1] = 0
    BY Keys
  <2>. HIDE DEF l, U
  <2>5. ASSUME NEW d \in DOMAIN U, d < c PROVE Complete(U[d], stored', d, l)
    BY <1>5, <2>1, <2>2, <2>4, <2>5
  <2>6. ASSUME NEW k \in DOMAIN ohlcv, k[1] = l, \A d \in DOMAIN U : c <= d, k[2] < c
        PROVE  Complete(ohlcv[k], stored', k[2], l)
    <3>1. Complete(ohlcv[k], stored, k[2], l)
      BY <2>1, <2>6
    <3>2. k[2] \in Nat /\ k[2] % l = 0
      BY <2>3, <2>6
    <3>. QED BY <1>5, <2>2, <2>4, <2>6, <3>1, <3>2
  <2>. QED BY <2>1, <2>5, <2>6
<1>. QED BY <1>2, <1>7, <1>8 DEF CandlesGood

\* ... and so in every step.
LEMMA StepGood ==
  ASSUME PriceTyped, CandlesHold, CandlesGood, PriceStep
  PROVE  CandlesGood'
<1>1. CASE BeginRun
  BY <1>1, BeginGood
<1>2. CASE ProcessFails
  BY <1>2, RunsGood DEF ProcessFails, CandlesGood
<1>3. CASE StoreSwap
  BY <1>3, StoreGood
<1>4. CASE TimePasses
  BY <1>4, RunsGood DEF TimePasses, CandlesGood
<1>5. ASSUME NEW r \in runs, updatePairStats(r)
      PROVE  CandlesGood'
  <2> DEFINE s == [r EXCEPT !.next = 1]
  <2>1. r = [id |-> r.id, next |-> r.next, upserts |-> r.upserts] /\ DOMAIN r.upserts = {}
    BY <1>5, Lengths DEF PriceTyped, updatePairStats
  <2>2. DOMAIN s.upserts = {}
    BY <2>1
  <2>3. ToRun(r, s) /\ UNCHANGED <<stored, ohlcv, overlapped>>
    BY <1>5 DEF updatePairStats
  <2>. HIDE DEF s
  <2>4. ~overlapped => runs' = {s}
    BY <2>3 DEF ToRun, CandlesGood
  <2>. QED BY <2>2, <2>3, <2>4, RunsGood
<1>6. ASSUME NEW r \in runs, EndRun(r)
      PROVE  CandlesGood'
  BY <1>6, RunsGood DEF EndRun, CandlesGood
<1>7. ASSUME NEW r \in runs, Upsert(r)
      PROVE  CandlesGood'
  BY <1>7, UpsertGood DEF Upsert, NoCandles, PriceTyped
<1>. QED BY <1>1, <1>2, <1>3, <1>4, <1>5, <1>6, <1>7, ReadGood DEF PriceStep

\* The types of what the service keeps, and its candles.
PriceSound == PriceTyped /\ CandlesHold /\ CandlesGood

\* They hold at first, when nothing is stored, ...
LEMMA PriceInitSound ==
  Init => PriceSound
<1>. SUFFICES ASSUME PriceInit PROVE PriceSound
  BY DEF Init
<1>1. 0 \in 0..MaxTime /\ 0 <= MaxStored /\ 0 <= MaxRuns
  BY PriceAssumption
<1>2. IsFiniteSet(runs) /\ Cardinality(runs) = 0
  BY FS_EmptySet DEF PriceInit
<1>3. stored = << >> /\ ohlcv = << >> /\ runs = {} /\ now = 0
  BY DEF PriceInit
<1>4. PriceTyped
  BY <1>1, <1>2, <1>3 DEF PriceTyped
<1>5. CandlesHold /\ CandlesGood
  BY <1>3 DEF CandlesHold, CandlesGood
<1>. QED BY <1>4, <1>5 DEF PriceSound

\* ... and every step of the whole keeps them.
LEMMA PriceStaysSound ==
  PriceSound /\ [Next]_vars => PriceSound'
<1>. SUFFICES ASSUME PriceSound, [Next]_vars PROVE PriceSound'
  OBVIOUS
<1>1. CASE UNCHANGED priceVars
  BY <1>1 DEF priceVars, PriceSound, PriceTyped, CandlesHold, CandlesGood, RunGood, Starts
<1>2. CASE PriceStep
  BY <1>2, StepTyped, StepHolds, StepGood DEF PriceSound
<1>3. UNCHANGED priceVars \/ PriceStep
  BY DEF Next, vars, SwapPage, PoolPageRuns, TransferPageRuns, ListPage, ChartsPageRuns, PriceServiceRuns,
         ScriptRuns, WalletRuns, SwitchAccount, OthersTrade
<1>. QED BY <1>1, <1>2, <1>3

\* Whatever swaps a run finds stored, late ones and those stored twice included,
\* whatever runs overlap and whenever the process fails, a candle counts swaps of
\* its own time only, each as often as it is stored.  If no two runs have
\* overlapped and a later candle exists, it misses none but some at its very start
\* and some stored after the first of a later time (generateOHLCV of PriceService,
\* called by the timer of the indexer).
THEOREM CandlesStayExact ==
  Spec => []CandlesExact
<1>1. PriceSound => CandlesExact
  <2>5. PriceSound => DOMAIN stored = 1..Len(stored)
    BY DEF PriceSound, PriceTyped
  <2>. SUFFICES ASSUME PriceSound, NEW k \in DOMAIN ohlcv
                PROVE  \E n, m \in 0..Len(stored) :
                         /\ Counted(k, n, m) # {}
                         /\ ohlcv[k] \in CandlesOf(Restrict(stored, Counted(k, n, m)))
                         /\ ~overlapped /\ (\E j \in DOMAIN ohlcv : j[1] = k[1] /\ k[2] < j[2]) =>
                              Due(m, stored, k[2], k[1])
    BY <2>5 DEF CandlesExact, Due
  <2>1. PriceTyped /\ CandlesHold /\ CandlesGood
    BY DEF PriceSound
  <2>2. k[1] \in Nat \ {0} /\ k[2] \in Nat /\ k[2] % k[1] = 0
    BY <2>1, Keys
  <2>3. PICK n \in 0..Len(stored), m \in 0..Len(stored) :
          /\ Counts(ohlcv[k], stored, k[2], k[1], n, m)
          /\ ~overlapped /\ (\E j \in DOMAIN ohlcv : j[1] = k[1] /\ k[2] < j[2]) =>
               Due(m, stored, k[2], k[1])
    <3>1. CASE ~overlapped /\ \E j \in DOMAIN ohlcv : j[1] = k[1] /\ k[2] < j[2]
      BY <2>1, <3>1 DEF CandlesGood, Complete
    <3>2. CASE ~(~overlapped /\ \E j \in DOMAIN ohlcv : j[1] = k[1] /\ k[2] < j[2])
      BY <2>1, <3>2 DEF CandlesHold, Partial
    <3>. QED BY <3>1, <3>2
  <2>4. Counted(k, n, m) = Within(stored, k[2], k[1], n, m)
    <3>1. DOMAIN stored = 1..Len(stored) /\ Len(stored) \in Nat
      BY <2>1 DEF PriceTyped
    <3>2. ASSUME NEW i \in 1..Len(stored)
          PROVE  i \in Counted(k, n, m) <=> i \in Within(stored, k[2], k[1], n, m)
      <4> DEFINE t == stored[i].time
                 b == Bucket(t, k[1])
      <4>1. t \in Nat
        BY <2>1, Times
      <4>2. b \in 0..t /\ \A x \in 0..t : x % k[1] = 0 => x <= b
        BY <2>2, <4>1, BucketIs
      <4>3. i \in Counted(k, n, m) <=> b = k[2] /\ i <= IF t > k[2] THEN m ELSE n
        BY <3>1 DEF Counted, InBucket
      <4>4. i \in Within(stored, k[2], k[1], n, m)
              <=> (i <= m /\ b = k[2] /\ t > k[2]) \/ (i <= n /\ t = k[2])
        BY <3>1 DEF Within
      <4>. HIDE DEF t, b
      <4>5. t = k[2] => b = k[2]
        BY <2>2, <4>1, <4>2
      <4>6. b = k[2] => t = k[2] \/ t > k[2]
        BY <2>2, <4>1, <4>2
      <4>. QED BY <2>2, <4>1, <4>3, <4>4, <4>5, <4>6
    <3>3. Counted(k, n, m) \subseteq 1..Len(stored)
      BY <3>1 DEF Counted, InBucket
    <3>4. Within(stored, k[2], k[1], n, m) \subseteq 1..Len(stored)
      BY <3>1 DEF Within
    <3>. QED BY <3>2, <3>3, <3>4
  <2>. QED BY <2>3, <2>4 DEF Counts
<1>. QED BY <1>1, PriceInitSound, PriceStaysSound, PTL DEF Spec

---------------------------------------------------------------------------
(* Some members of a list *)

\* The members of a list at some places are as many as the places.
LEMMA AtLength ==
  ASSUME NEW l, Len(l) \in Nat, NEW P \in SUBSET (1..Len(l))
  PROVE  /\ Cardinality(P) \in Nat /\ Cardinality(P) <= Len(l) /\ IsFiniteSet(P)
         /\ IsList(At(l, P)) /\ Len(At(l, P)) = Cardinality(P)
<1>1. IsFiniteSet(1..Len(l)) /\ Cardinality(1..Len(l)) = Len(l)
  BY FS_Interval
<1>2. IsFiniteSet(P) /\ Cardinality(P) <= Len(l) /\ Cardinality(P) \in Nat
  BY <1>1, FS_Subset, FS_CardinalityType
<1> DEFINE n == Cardinality(P)
           F(m) == l[CHOOSE i \in P : Cardinality({j \in P : j <= i}) = m]
           f == [m \in 1..n |-> F(m)]
           R == {F(m) : m \in 1..n}
<1>3. At(l, P) = f
  BY DEF At
<1>. HIDE DEF F
<1>4. \A m \in 1..n : F(m) \in R
  OBVIOUS
<1>. HIDE DEF R, n
<1>5. n \in Nat
  BY <1>2 DEF n
<1>6. f \in Seq(R) /\ Len(f) = n
  BY <1>4, <1>5
<1>. QED BY <1>2, <1>3, <1>6 DEF IsList, n

\* Two lists in a row.
LEMMA InARow ==
  ASSUME NEW k, IsList(k), NEW l, IsList(l)
  PROVE  IsList(k \o l) /\ Len(k \o l) = Len(k) + Len(l)
<1>1. PICK S : k \in Seq(S)
  BY DEF IsList
<1>2. PICK T : l \in Seq(T)
  BY DEF IsList
<1> DEFINE R == S \cup T
<1>3. k \in Seq(R) /\ l \in Seq(R)
  BY <1>1, <1>2
<1>. HIDE DEF R
<1>4. k \o l \in Seq(R) /\ Len(k \o l) = Len(k) + Len(l)
  BY <1>3
<1>. QED BY <1>4 DEF IsList

\* The page shows a trade for every swap that it has read, also when it
\* could not read a block.
LEMMA RecordsLength ==
  ASSUME NEW l, IsList(l), NEW unread
  PROVE  IsList(Records(l, unread)) /\ Len(Records(l, unread)) = Len(l)
<1> DEFINE P == {i \in 1..Len(l) : l[i].block \notin unread}
           Q == {i \in 1..Len(l) : l[i].block \in unread}
           known == At(l, P)
           late == At(l, Q)
           F(i) == TradeOf(known[i], known[i].block)
           G(i) == TradeOf(late[i], chain.block)
           a == Len(known)
           b == Len(late)
           x == [i \in 1..a |-> F(i)]
           y == [i \in 1..b |-> G(i)]
<1>1. Records(l, unread) = x \o y
  BY DEF Records
<1>2. Len(l) \in Nat
  BY ListGrows
<1>3. P \cup Q = 1..Len(l) /\ P \cap Q = {} /\ P \in SUBSET (1..Len(l)) /\ Q \in SUBSET (1..Len(l))
  OBVIOUS
<1>. HIDE DEF P, Q
<1>4. /\ IsFiniteSet(P) /\ Cardinality(P) \in Nat /\ a = Cardinality(P)
      /\ IsFiniteSet(Q) /\ Cardinality(Q) \in Nat /\ b = Cardinality(Q)
  BY <1>2, <1>3, AtLength
<1>5. Cardinality(P) + Cardinality(Q) = Len(l)
  <2>1. Cardinality(P \cup Q) = Cardinality(P) + Cardinality(Q) - Cardinality(P \cap Q)
    BY <1>4, FS_Union
  <2>2. Cardinality(P \cap Q) = 0
    BY <1>3, FS_EmptySet
  <2>5. Cardinality(1..Len(l)) = Len(l)
    BY <1>2, FS_Interval
  <2>6. P \cup Q = 1..Len(l)
    BY <1>3
  <2>3. Cardinality(P \cup Q) = Len(l)
    BY <2>5, <2>6
  <2>4. Cardinality(P) \in Nat /\ Cardinality(Q) \in Nat
    BY <1>4
  <2>. HIDE DEF known, late, x, y, F, G, a, b
  <2>. QED BY <2>1, <2>2, <2>3, <2>4
<1>. HIDE DEF F, G, a, b
<1>6. IsList(x) /\ Len(x) = a
  <2> DEFINE R == {F(i) : i \in 1..a}
  <2>1. \A i \in 1..a : F(i) \in R
    OBVIOUS
  <2>. HIDE DEF R
  <2>2. x \in Seq(R) /\ Len(x) = a
    BY <1>4, <2>1
  <2>. QED BY <2>2 DEF IsList
<1>7. IsList(y) /\ Len(y) = b
  <2> DEFINE R == {G(i) : i \in 1..b}
  <2>1. \A i \in 1..b : G(i) \in R
    OBVIOUS
  <2>. HIDE DEF R
  <2>2. y \in Seq(R) /\ Len(y) = b
    BY <1>4, <2>1
  <2>. QED BY <2>2 DEF IsList
<1>. HIDE DEF x, y
<1>. QED BY <1>1, <1>4, <1>5, <1>6, <1>7, InARow

---------------------------------------------------------------------------
(* The lists that are fetched token by token *)

\* The tokens page reads tokens only, the portfolio also pool tokens.
Wanted == IF program = "tokens" THEN Token ELSE Token \cup Pair

PairRead == [pair : Pair, reserve : PairAmounts]

\* A fetch that reads of W.
Sweeping(s, f, W) ==
  /\ f = [for |-> f.for, len |-> f.len, pairs |-> f.pairs, todo |-> f.todo, balances |-> f.balances,
          logs |-> f.logs, from |-> f.from]
  /\ f.len \in Int /\ f.len <= Len(s.allPairs)
  /\ f.pairs \in Seq(PairRead)
  /\ f.todo \subseteq W /\ DOMAIN f.balances \subseteq W

\* The lists and their fetches.
ListsIn == (\A f \in sweeps : Sweeping(chain, f, Wanted)) /\ ListsTypeOK

\* A fetch begins.
LEMMA SweepBegun ==
  ASSUME NEW s, Good(s), NEW a, NEW W
  PROVE  Sweeping(s, NewSweep(a), W)
<1> DEFINE f == NewSweep(a)
<1>1. Len(s.allPairs) \in Nat
  BY GoodListed, ListGrows DEF Listed
<1>2. f = [for |-> a, len |-> -1, pairs |-> << >>, todo |-> {}, balances |-> << >>, logs |-> << >>, from |-> 0]
  BY DEF NewSweep
<1>3. << >> \in Seq(PairRead) /\ DOMAIN << >> = {}
  OBVIOUS
<1>4. f.len = -1 /\ f.pairs = << >> /\ f.todo = {} /\ f.balances = << >>
  BY <1>2
<1>5. f = [for |-> f.for, len |-> f.len, pairs |-> f.pairs, todo |-> f.todo, balances |-> f.balances,
           logs |-> f.logs, from |-> f.from]
  BY <1>2
<1>. HIDE DEF f
<1>. QED BY <1>1, <1>3, <1>4, <1>5 DEF Sweeping, f

\* It goes on when there are more pairs.
LEMMA SweepLater ==
  ASSUME NEW s, NEW t, Good(s), Good(t), Len(s.allPairs) <= Len(t.allPairs), NEW W, NEW f, Sweeping(s, f, W)
  PROVE  Sweeping(t, f, W)
<1>1. Len(s.allPairs) \in Nat /\ Len(t.allPairs) \in Nat
  BY GoodListed, ListGrows DEF Listed
<1>2. f.len \in Int /\ f.len <= Len(s.allPairs)
  BY DEF Sweeping
<1>3. f.len <= Len(t.allPairs)
  BY <1>1, <1>2
<1>. QED BY <1>2, <1>3 DEF Sweeping

\* What one step of a fetch sets.
LEMMA SweepSet ==
  ASSUME NEW s, NEW W, NEW f, Sweeping(s, f, W)
  PROVE  /\ \A n \in Int : n <= Len(s.allPairs) => Sweeping(s, [f EXCEPT !.len = n], W)
         /\ \A p \in Seq(PairRead) : Sweeping(s, [f EXCEPT !.pairs = p], W)
         /\ \A T \in SUBSET W : Sweeping(s, [f EXCEPT !.todo = T], W)
         /\ \A b : DOMAIN b \subseteq W => Sweeping(s, [f EXCEPT !.balances = b], W)
         /\ \A v : Sweeping(s, [f EXCEPT !.from = v], W)
<1> DEFINE F(n, p, T, b, v) == [for |-> f.for, len |-> n, pairs |-> p, todo |-> T, balances |-> b,
                                logs |-> f.logs, from |-> v]
<1>1. f = F(f.len, f.pairs, f.todo, f.balances, f.from)
  BY DEF Sweeping
<1>2. ASSUME NEW n \in Int, n <= Len(s.allPairs), NEW p \in Seq(PairRead), NEW T \in SUBSET W,
             NEW b, DOMAIN b \subseteq W, NEW v
      PROVE  Sweeping(s, F(n, p, T, b, v), W)
  BY <1>2 DEF Sweeping
<1>3. /\ f.len \in Int /\ f.len <= Len(s.allPairs) /\ f.pairs \in Seq(PairRead)
      /\ f.todo \in SUBSET W /\ DOMAIN f.balances \subseteq W
  BY DEF Sweeping
<1>4. ASSUME NEW n \in Int, n <= Len(s.allPairs) PROVE Sweeping(s, [f EXCEPT !.len = n], W)
  <2>1. [f EXCEPT !.len = n] = F(n, f.pairs, f.todo, f.balances, f.from)
    BY <1>1
  <2>. HIDE DEF F
  <2>. QED BY <1>2, <1>3, <1>4, <2>1
<1>5. ASSUME NEW p \in Seq(PairRead) PROVE Sweeping(s, [f EXCEPT !.pairs = p], W)
  <2>1. [f EXCEPT !.pairs = p] = F(f.len, p, f.todo, f.balances, f.from)
    BY <1>1
  <2>. HIDE DEF F
  <2>. QED BY <1>2, <1>3, <2>1
<1>6. ASSUME NEW T \in SUBSET W PROVE Sweeping(s, [f EXCEPT !.todo = T], W)
  <2>1. [f EXCEPT !.todo = T] = F(f.len, f.pairs, T, f.balances, f.from)
    BY <1>1
  <2>. HIDE DEF F
  <2>. QED BY <1>2, <1>3, <2>1
<1>7. ASSUME NEW b, DOMAIN b \subseteq W PROVE Sweeping(s, [f EXCEPT !.balances = b], W)
  <2>1. [f EXCEPT !.balances = b] = F(f.len, f.pairs, f.todo, b, f.from)
    BY <1>1
  <2>. HIDE DEF F
  <2>. QED BY <1>2, <1>3, <1>7, <2>1
<1>8. ASSUME NEW v PROVE Sweeping(s, [f EXCEPT !.from = v], W)
  <2>1. [f EXCEPT !.from = v] = F(f.len, f.pairs, f.todo, f.balances, v)
    BY <1>1
  <2>. HIDE DEF F
  <2>. QED BY <1>2, <1>3, <2>1
<1>. QED BY <1>4, <1>5, <1>6, <1>7, <1>8

\* The next pair, or how many there are.
LEMMA PairSwept ==
  ASSUME Good(chain), NEW W, NEW f, Sweeping(chain, f, W), NEW T \in SUBSET W,
         NEW n, n = Len(chain.allPairs),
         NEW q, q = Append(f.pairs, [pair |-> chain.allPairs[Len(f.pairs) + 1],
                                     reserve |-> chain.reserve[chain.allPairs[Len(f.pairs) + 1]]])
  PROVE  /\ Sweeping(chain, [f EXCEPT !.len = n, !.todo = T], W)
         /\ Len(f.pairs) < f.len =>
              /\ q \in Seq(PairRead)
              /\ Sweeping(chain, [f EXCEPT !.pairs = q, !.todo = T], W)
<1>1. chain \in Chain /\ chain.allPairs \in Seq(Pair) /\ n \in Nat
  BY GoodListed, ListGrows DEF Good, Books, Listed
<1>2. Sweeping(chain, [f EXCEPT !.len = n, !.todo = T], W)
  <2> DEFINE g == [f EXCEPT !.len = n]
  <2>1. Sweeping(chain, g, W)
    BY <1>1, SweepSet
  <2>2. [f EXCEPT !.len = n, !.todo = T] = [g EXCEPT !.todo = T]
    OBVIOUS
  <2>. HIDE DEF g
  <2>. QED BY <2>1, <2>2, SweepSet
<1>3. ASSUME Len(f.pairs) < f.len
      PROVE  q \in Seq(PairRead) /\ Sweeping(chain, [f EXCEPT !.pairs = q, !.todo = T], W)
  <2> DEFINE p == chain.allPairs[Len(f.pairs) + 1]
             r == [pair |-> p, reserve |-> chain.reserve[p]]
             g == [f EXCEPT !.pairs = q]
  <2>1. f.pairs \in Seq(PairRead) /\ f.len \in Int /\ f.len <= Len(chain.allPairs) /\ Len(f.pairs) \in Nat
    BY DEF Sweeping
  <2>2. p \in Pair
    BY <1>1, <1>3, <2>1
  <2>3. r \in PairRead
    BY <1>1, <2>2 DEF PairRead, Chain
  <2>4. q = Append(f.pairs, r)
    OBVIOUS
  <2>. HIDE DEF r
  <2>5. q \in Seq(PairRead)
    BY <2>1, <2>3, <2>4
  <2>6. Sweeping(chain, g, W)
    BY <2>5, SweepSet
  <2>7. [f EXCEPT !.pairs = q, !.todo = T] = [g EXCEPT !.todo = T]
    OBVIOUS
  <2>. HIDE DEF g
  <2>. QED BY <2>5, <2>6, <2>7, SweepSet
<1>. QED BY <1>2, <1>3

\* The next token, read or not.
LEMMA TokenSwept ==
  ASSUME NEW W, NEW f, Sweeping(chain, f, W), NEW t \in f.todo, NEW v
  PROVE  /\ Sweeping(chain, [f EXCEPT !.todo = @ \ {t}], W)
         /\ Sweeping(chain, [[f EXCEPT !.todo = @ \ {t}] EXCEPT !.balances = With(@, t, v)], W)
<1> DEFINE g == [f EXCEPT !.todo = @ \ {t}]
           b == With(g.balances, t, v)
<1>1. f.todo \subseteq W /\ f.todo \ {t} \in SUBSET W /\ t \in W
  BY DEF Sweeping
<1>2. g = [f EXCEPT !.todo = f.todo \ {t}]
  BY DEF Sweeping
<1>3. Sweeping(chain, g, W)
  <2>. HIDE DEF g
  <2>. QED BY <1>1, <1>2, SweepSet
<1>. HIDE DEF g
<1>4. DOMAIN b \subseteq W
  BY <1>1, <1>3 DEF With, Sweeping
<1>. HIDE DEF b
<1>5. [g EXCEPT !.balances = With(@, t, v)] = [g EXCEPT !.balances = b]
  BY <1>3 DEF b, Sweeping
<1>6. Sweeping(chain, [g EXCEPT !.balances = b], W)
  BY <1>3, <1>4, SweepSet
<1>. QED BY <1>3, <1>5, <1>6 DEF g

\* The tokens of pairs that were read.
LEMMA TokensRead ==
  ASSUME NEW q \in Seq(PairRead)
  PROVE  /\ {q[i].pair : i \in 1..Len(q)} \subseteq Pair
         /\ UNION {q[i].pair : i \in 1..Len(q)} \subseteq Token
<1>1. \A i \in 1..Len(q) : q[i] \in PairRead
  OBVIOUS
<1>2. \A i \in 1..Len(q) : q[i].pair \in Pair
  BY <1>1 DEF PairRead
<1>3. \A p \in Pair : p \subseteq Token
  BY TwoOfPair
<1>. QED BY <1>2, <1>3

\* The fetches of which one has read of the pairs, ...
LEMMA PairsOn ==
  ASSUME Good(chain), NEW W, \A f \in sweeps : Sweeping(chain, f, W), NEW f \in sweeps,
         NEW n, n = Len(chain.allPairs),
         NEW q, q = Append(f.pairs, [pair |-> chain.allPairs[Len(f.pairs) + 1],
                                     reserve |-> chain.reserve[chain.allPairs[Len(f.pairs) + 1]]]),
         NEW T \in SUBSET W, NEW U, q \in Seq(PairRead) => U \in SUBSET W,
         \/ ToSweep(f, [f EXCEPT !.len = n, !.todo = T])
         \/ Len(f.pairs) < f.len /\ ToSweep(f, [f EXCEPT !.pairs = q, !.todo = U])
  PROVE  \A g \in sweeps' : Sweeping(chain, g, W)
<1>1. Sweeping(chain, f, W)
  OBVIOUS
<1>2. CASE ToSweep(f, [f EXCEPT !.len = n, !.todo = T])
  <2>1. Sweeping(chain, [f EXCEPT !.len = n, !.todo = T], W)
    BY <1>1, PairSwept
  <2>. QED BY <1>2, <2>1 DEF ToSweep
<1>3. CASE Len(f.pairs) < f.len /\ ToSweep(f, [f EXCEPT !.pairs = q, !.todo = U])
  <2>1. q \in Seq(PairRead)
    BY <1>1, <1>3, PairSwept
  <2>2. U \in SUBSET W
    BY <2>1
  <2>3. Sweeping(chain, [f EXCEPT !.pairs = q, !.todo = U], W)
    BY <1>1, <1>3, <2>2, PairSwept
  <2>. QED BY <1>3, <2>3 DEF ToSweep
<1>. QED BY <1>2, <1>3

\* ... or of a token.
LEMMA TokenOn ==
  ASSUME NEW W, \A f \in sweeps : Sweeping(chain, f, W), NEW f \in sweeps, f.todo # {},
         NEW t, t = (IF f.todo \cap Token # {} THEN CHOOSE x \in f.todo \cap Token : TRUE
                     ELSE CHOOSE x \in f.todo : TRUE),
         NEW v,
         \/ ToSweep(f, [f EXCEPT !.todo = @ \ {t}])
         \/ ToSweep(f, [[f EXCEPT !.todo = @ \ {t}] EXCEPT !.balances = With(@, t, v)])
  PROVE  \A g \in sweeps' : Sweeping(chain, g, W)
<1> DEFINE g == [f EXCEPT !.todo = @ \ {t}]
           h == [g EXCEPT !.balances = With(@, t, v)]
<1>1. t \in f.todo
  OBVIOUS
<1>2. Sweeping(chain, g, W) /\ Sweeping(chain, h, W)
  BY <1>1, TokenSwept
<1>. HIDE DEF g, h
<1>3. ToSweep(f, g) \/ ToSweep(f, h)
  BY DEF g, h
<1>. QED BY <1>2, <1>3 DEF ToSweep

\* The tokens page.
LEMMA TokensOn ==
  ASSUME Good(chain), ListsIn, program = "tokens", TokensStep
  PROVE  (\A f \in sweeps' : Sweeping(chain, f, Wanted)) /\ ListsTypeOK'
<1>1. Wanted = Token /\ (\A f \in sweeps : Sweeping(chain, f, Token)) /\ ListsTypeOK /\ WECY \in Token
  BY Assets DEF Wanted, ListsIn
<1>2. CASE fetchTokens
  BY <1>1, <1>2, SweepBegun DEF fetchTokens, StartSweep, ListsTypeOK
<1>3. ASSUME NEW f \in sweeps, FailSweep(f)
      PROVE  (\A g \in sweeps' : Sweeping(chain, g, Token)) /\ ListsTypeOK'
  BY <1>1, <1>3 DEF FailSweep, ListsTypeOK
<1>4. ASSUME NEW f \in sweeps, FinishTokens(f)
      PROVE  (\A g \in sweeps' : Sweeping(chain, g, Token)) /\ ListsTypeOK'
  <2>1. DOMAIN f.balances \subseteq Token
    BY <1>1 DEF Sweeping
  <2>. QED BY <1>1, <1>4, <2>1 DEF FinishTokens, ListsTypeOK, With
<1>5. ASSUME NEW f \in sweeps, SweepPairs(f, LAMBDA pairs : {WECY} \cup UNION pairs)
      PROVE  \A g \in sweeps' : Sweeping(chain, g, Token)
  <2> DEFINE n == Len(chain.allPairs)
             p == chain.allPairs[Len(f.pairs) + 1]
             q == Append(f.pairs, [pair |-> p, reserve |-> chain.reserve[p]])
             T == IF n = 0 THEN {WECY} \cup UNION {} ELSE {}
             U == IF Len(q) < f.len THEN {} ELSE {WECY} \cup UNION {q[i].pair : i \in 1..Len(q)}
  <2>1. \/ ToSweep(f, [f EXCEPT !.len = n, !.todo = T])
        \/ Len(f.pairs) < f.len /\ ToSweep(f, [f EXCEPT !.pairs = q, !.todo = U])
    BY <1>5 DEF SweepPairs
  <2>2. T \in SUBSET Token
    BY <1>1
  <2>3. q \in Seq(PairRead) => U \in SUBSET Token
    <3>. HIDE DEF q
    <3>. QED BY <1>1, TokensRead
  <2>4. n = Len(chain.allPairs)
        /\ q = Append(f.pairs, [pair |-> chain.allPairs[Len(f.pairs) + 1],
                                reserve |-> chain.reserve[chain.allPairs[Len(f.pairs) + 1]]])
    OBVIOUS
  <2>. HIDE DEF n, q, T, U
  <2>. QED BY <1>1, <2>1, <2>2, <2>3, <2>4, PairsOn
<1>6. ASSUME NEW f \in sweeps,
             SweepToken(f, LAMBDA t : [balance |-> Balance(f, t), price |-> PriceInUsdt(f.pairs, t)])
      PROVE  \A g \in sweeps' : Sweeping(chain, g, Token)
  <2> DEFINE t == IF f.todo \cap Token # {} THEN CHOOSE x \in f.todo \cap Token : TRUE
                  ELSE CHOOSE x \in f.todo : TRUE
             v == [balance |-> Balance(f, t), price |-> PriceInUsdt(f.pairs, t)]
  <2>1. /\ f.todo # {}
        /\ \/ ToSweep(f, [f EXCEPT !.todo = @ \ {t}])
           \/ ToSweep(f, [[f EXCEPT !.todo = @ \ {t}] EXCEPT !.balances = With(@, t, v)])
    BY <1>6 DEF SweepToken
  <2>. HIDE DEF v
  <2>. QED BY <1>1, <2>1, TokenOn
<1>7. ASSUME UNCHANGED <<hookVars, fetchVars, tokens, tokenBals, txs>>
      PROVE  ListsTypeOK'
  BY <1>1, <1>7 DEF ListsTypeOK
<1>. QED BY <1>1, <1>2, <1>3, <1>4, <1>5, <1>6, <1>7 DEF TokensStep

\* The portfolio.
LEMMA PortfolioOn ==
  ASSUME Good(chain), ListsIn, program = "portfolio", PortfolioStep
  PROVE  (\A f \in sweeps' : Sweeping(chain, f, Wanted)) /\ ListsTypeOK'
<1> DEFINE W == Token \cup Pair
<1>1. /\ Wanted = W /\ (\A f \in sweeps : Sweeping(chain, f, W)) /\ ListsTypeOK
      /\ WECY \in Token /\ USDT \in Token
  BY Assets, AppAssumption DEF Wanted, ListsIn
<1>2. CASE fetchAll
  <2>. HIDE DEF W
  <2>. QED BY <1>1, <1>2, SweepBegun DEF fetchAll, StartSweep, ListsTypeOK
<1>3. ASSUME NEW f \in sweeps, FailSweep(f)
      PROVE  (\A g \in sweeps' : Sweeping(chain, g, W)) /\ ListsTypeOK'
  BY <1>1, <1>3 DEF FailSweep, ListsTypeOK
<1>4. ASSUME NEW f \in sweeps, ShowBalances(f)
      PROVE  (\A g \in sweeps' : Sweeping(chain, g, W)) /\ ListsTypeOK'
  <2> DEFINE v == 1 + Max({0, chain.block - LogBlocks})
  <2>1. Sweeping(chain, f, W) /\ DOMAIN f.balances \subseteq W
    BY <1>1 DEF Sweeping
  <2>2. /\ tokenBals' = Restrict(f.balances, {x \in DOMAIN f.balances : f.balances[x] > 0})
        /\ ToSweep(f, [f EXCEPT !.from = v]) /\ tokens' = tokens /\ txs' = txs
    BY <1>4 DEF ShowBalances
  <2>3. DOMAIN tokenBals' \subseteq W
    BY <2>1, <2>2 DEF Restrict
  <2>. HIDE DEF v
  <2>4. Sweeping(chain, [f EXCEPT !.from = v], W)
    <3>. HIDE DEF W
    <3>. QED BY <2>1, SweepSet
  <2>. QED BY <1>1, <2>2, <2>3, <2>4 DEF ToSweep, ListsTypeOK
<1>5. ASSUME NEW f \in sweeps, SweepPairs(f, LAMBDA pairs : {WECY, USDT} \cup UNION pairs \cup pairs)
      PROVE  \A g \in sweeps' : Sweeping(chain, g, W)
  <2> DEFINE n == Len(chain.allPairs)
             p == chain.allPairs[Len(f.pairs) + 1]
             q == Append(f.pairs, [pair |-> p, reserve |-> chain.reserve[p]])
             R == {q[i].pair : i \in 1..Len(q)}
             T == IF n = 0 THEN {WECY, USDT} \cup UNION {} \cup {} ELSE {}
             U == IF Len(q) < f.len THEN {} ELSE {WECY, USDT} \cup UNION R \cup R
  <2>1. \/ ToSweep(f, [f EXCEPT !.len = n, !.todo = T])
        \/ Len(f.pairs) < f.len /\ ToSweep(f, [f EXCEPT !.pairs = q, !.todo = U])
    BY <1>5 DEF SweepPairs
  <2>2. T \in SUBSET W
    BY <1>1
  <2>3. q \in Seq(PairRead) => U \in SUBSET W
    <3>. HIDE DEF q
    <3>1. q \in Seq(PairRead) => R \subseteq Pair /\ UNION R \subseteq Token
      BY TokensRead
    <3>. HIDE DEF R
    <3>. QED BY <1>1, <3>1
  <2>4. n = Len(chain.allPairs)
        /\ q = Append(f.pairs, [pair |-> chain.allPairs[Len(f.pairs) + 1],
                                reserve |-> chain.reserve[chain.allPairs[Len(f.pairs) + 1]]])
    OBVIOUS
  <2>. HIDE DEF n, q, T, U, W
  <2>. QED BY <1>1, <2>1, <2>2, <2>3, <2>4, PairsOn
<1>6. ASSUME NEW f \in sweeps, SweepToken(f, LAMBDA t : Balance(f, t))
      PROVE  \A g \in sweeps' : Sweeping(chain, g, W)
  <2> DEFINE t == IF f.todo \cap Token # {} THEN CHOOSE x \in f.todo \cap Token : TRUE
                  ELSE CHOOSE x \in f.todo : TRUE
             v == Balance(f, t)
  <2>1. /\ f.todo # {}
        /\ \/ ToSweep(f, [f EXCEPT !.todo = @ \ {t}])
           \/ ToSweep(f, [[f EXCEPT !.todo = @ \ {t}] EXCEPT !.balances = With(@, t, v)])
    BY <1>6 DEF SweepToken
  <2>. HIDE DEF v, W
  <2>. QED BY <1>1, <2>1, TokenOn
<1>7. ASSUME NEW f \in sweeps, ShowSwaps(f)
      PROVE  (\A g \in sweeps' : Sweeping(chain, g, W)) /\ ListsTypeOK'
  <2>1. PICK P \in SUBSET (1..Len(chain.swaps)) :
          LET mine == At(chain.swaps, P)
              n == Len(mine)
          IN txs' = [i \in 1..Min({n, MaxTxs}) |-> mine[n + 1 - i]]
    BY <1>7 DEF ShowSwaps
  <2> DEFINE mine == At(chain.swaps, P)
             n == Len(mine)
             m == Min({n, MaxTxs})
             R == {mine[n + 1 - i] : i \in 1..m}
  <2>2. Len(chain.swaps) \in Nat
    BY GoodListed, ListGrows DEF Listed
  <2>3. n \in Nat
    BY <2>2, AtLength
  <2>4. m \in Nat /\ m <= MaxTxs
    <3>1. {n, MaxTxs} \in SUBSET Nat
      BY <2>3, ListsAssumption
    <3>. HIDE DEF n
    <3>. QED BY <3>1, Smallest
  <2>. HIDE DEF m
  <2>5. txs' = [i \in 1..m |-> mine[n + 1 - i]]
    BY <2>1 DEF m
  <2>. HIDE DEF mine, n
  <2>6. \A i \in 1..m : mine[n + 1 - i] \in R
    OBVIOUS
  <2>. HIDE DEF R
  <2>7. txs' \in Seq(R) /\ Len(txs') = m
    BY <2>4, <2>5, <2>6
  <2>8. tokens' = tokens /\ tokenBals' = tokenBals /\ sweeps' = sweeps \ {f}
    BY <1>7 DEF ShowSwaps
  <2>. QED BY <1>1, <2>4, <2>7, <2>8 DEF ListsTypeOK
<1>8. ASSUME UNCHANGED <<hookVars, fetchVars, tokens, tokenBals, txs>>
      PROVE  ListsTypeOK'
  BY <1>1, <1>8 DEF ListsTypeOK
<1>9. CASE UNCHANGED listVars
  BY <1>1, <1>9 DEF listVars, ListsTypeOK
<1>. HIDE DEF W
<1>. QED BY <1>1, <1>2, <1>3, <1>4, <1>5, <1>6, <1>7, <1>8, <1>9 DEF PortfolioStep

---------------------------------------------------------------------------
(* The page with the chart *)

\* A read of the trades and one of the reserves.
TradeRead(s, r) ==
  \/ r \in {Free, [stage |-> "begun"]}
  \/ \E v : r = [stage |-> "latest", latest |-> v]
  \/ \E l : r = [stage |-> "logs", logs |-> l] /\ IsList(l) /\ Len(l) <= Len(s.swaps)

ReserveRead(r) ==
  \/ r \in {Free, [stage |-> "begun"]}
  \/ \E v \in [ChartPair -> Nat] : r = [stage |-> "read", reserve |-> v]

\* No read has more swaps than there are.
TradesRead(s) ==
  /\ tradeReads = [n \in Slot |-> tradeReads[n]] /\ \A n \in Slot : TradeRead(s, tradeReads[n])
  /\ Len(trades) \in Nat /\ Len(trades) <= Len(s.swaps)

ReservesRead ==
  /\ reserveReads = [n \in Slot |-> reserveReads[n]] /\ \A n \in Slot : ReserveRead(reserveReads[n])
  /\ reserves \in [ChartPair -> Nat]

Drawn == pairAddr \in BOOLEAN /\ interval \in Intervals

\* The chart's reads and what is shown.
ChartsIn == Drawn /\ TradesRead(chain) /\ ReservesRead

\* Swaps are only added.
LEMMA TradesLater ==
  ASSUME NEW s, NEW t, Good(s), Good(t), Len(s.swaps) <= Len(t.swaps), TradesRead(s)
  PROVE  TradesRead(t)
<1>1. Len(s.swaps) \in Nat /\ Len(t.swaps) \in Nat
  BY GoodListed, ListGrows DEF Listed
<1>2. \A l : IsList(l) /\ Len(l) <= Len(s.swaps) => Len(l) <= Len(t.swaps)
  BY <1>1, ListGrows
<1>3. \A n \in Slot : TradeRead(t, tradeReads[n])
  BY <1>2 DEF TradesRead, TradeRead
<1>4. Len(trades) <= Len(t.swaps)
  BY <1>1 DEF TradesRead
<1>. QED BY <1>3, <1>4 DEF TradesRead

\* Reads begin.
LEMMA ReadsBegin ==
  ASSUME ChartsIn, BeginReads, UNCHANGED <<chain, trades, reserves>>
  PROVE  TradesRead(chain)' /\ ReservesRead'
<1> DEFINE x == Min(FreeSlots(tradeReads))
           y == Min(FreeSlots(reserveReads))
           b == [stage |-> "begun"]
<1>1. tradeReads' = [tradeReads EXCEPT ![x] = b] /\ reserveReads' = [reserveReads EXCEPT ![y] = b]
  BY DEF BeginReads, Begin
<1>. HIDE DEF x, y
<1>2. /\ tradeReads' = [n \in Slot |-> IF n = x THEN b ELSE tradeReads[n]]
      /\ reserveReads' = [n \in Slot |-> IF n = y THEN b ELSE reserveReads[n]]
  BY <1>1 DEF ChartsIn, TradesRead, ReservesRead
<1>3. TradesRead(chain)'
  BY <1>2 DEF ChartsIn, TradesRead, TradeRead
<1>4. ReservesRead'
  BY <1>2 DEF ChartsIn, ReservesRead, ReserveRead
<1>. QED BY <1>3, <1>4

\* A step of a read.
LEMMA ReserveReadOn ==
  ASSUME Good(chain), ReservesRead, NEW n \in Slot, fetchReserves(n)
  PROVE  ReservesRead'
<1>1. chain.reserve[ChartPair] \in [ChartPair -> Nat]
  BY AppAssumption, Assets, PairOf DEF ChartPair, Good, Books
<1>2. ASSUME NEW r, ReserveRead(r), SetReserveRead(n, r), reserves' \in [ChartPair -> Nat]
      PROVE  ReservesRead'
  BY <1>2 DEF SetReserveRead, ReservesRead
<1>3. ReserveRead(Free) /\ ReserveRead([stage |-> "read", reserve |-> chain.reserve[ChartPair]])
  BY <1>1 DEF ReserveRead
<1>4. reserveReads[n].stage = "read" => reserveReads[n].reserve \in [ChartPair -> Nat]
  BY DEF ReservesRead, ReserveRead, Free
<1>5. reserves \in [ChartPair -> Nat]
  BY DEF ReservesRead
<1>. QED BY <1>2, <1>3, <1>4, <1>5 DEF fetchReserves

\* What the page makes of the swaps that it has read.
LEMMA TradesShown ==
  ASSUME Good(chain), TradesRead(chain), NEW n \in Slot, tradeReads[n].stage = "logs"
  PROVE  \A unread : LET ts == Records(tradeReads[n].logs, unread)
                     IN  Len(ts) \in Nat /\ Len(ts) <= Len(chain.swaps)
<1> DEFINE l == tradeReads[n].logs
<1>1. IsList(l) /\ Len(l) <= Len(chain.swaps)
  BY DEF TradesRead, TradeRead, Free
<1>. HIDE DEF l
<1>2. \A unread : Len(Records(l, unread)) = Len(l)
  BY <1>1, RecordsLength
<1>3. Len(l) \in Nat
  BY <1>1, ListGrows
<1>. QED BY <1>1, <1>2, <1>3 DEF l

\* What the node answers.
LEMMA LogsRead ==
  ASSUME Good(chain), NEW v
  PROVE  IsList(LogsUpTo(v)) /\ Len(LogsUpTo(v)) <= Len(chain.swaps)
<1>1. Len(chain.swaps) \in Nat
  BY GoodListed, ListGrows DEF Listed
<1>2. PICK P \in SUBSET (1..Len(chain.swaps)) : LogsUpTo(v) = At(chain.swaps, P)
  BY DEF LogsUpTo
<1>. QED BY <1>1, <1>2, AtLength

\* A step of a read of the trades.
LEMMA TradeReadOn ==
  ASSUME Good(chain), TradesRead(chain), NEW n \in Slot, fetchTrades(n)
  PROVE  TradesRead(chain)'
<1>1. chain' = chain
  BY DEF fetchTrades, hookVars
<1>2. ASSUME NEW r, TradeRead(chain, r), SetTradeRead(n, r), Len(trades') \in Nat, Len(trades') <= Len(chain.swaps)
      PROVE  TradesRead(chain)'
  BY <1>1, <1>2 DEF SetTradeRead, TradesRead
<1>3. TradeRead(chain, Free) /\ TradeRead(chain, [stage |-> "latest", latest |-> chain.block])
  BY DEF TradeRead
<1>4. TradeRead(chain, [stage |-> "logs", logs |-> LogsUpTo(tradeReads[n].latest)])
  BY LogsRead DEF TradeRead
<1>5. Len(trades) \in Nat /\ Len(trades) <= Len(chain.swaps)
  BY DEF TradesRead
<1>6. \/ UNCHANGED trades
      \/ tradeReads[n].stage = "logs" /\ \E unread : trades' = Records(tradeReads[n].logs, unread)
  BY DEF fetchTrades
<1>7. Len(trades') \in Nat /\ Len(trades') <= Len(chain.swaps)
  BY <1>5, <1>6, TradesShown
<1>8. \/ SetTradeRead(n, [stage |-> "latest", latest |-> chain.block])
      \/ SetTradeRead(n, [stage |-> "logs", logs |-> LogsUpTo(tradeReads[n].latest)])
      \/ SetTradeRead(n, Free)
  BY DEF fetchTrades
<1>. QED BY <1>2, <1>3, <1>4, <1>7, <1>8

\* The steps of the page.
LEMMA ChartsOn ==
  ASSUME Good(chain), ChartsIn, ChartsStep
  PROVE  ChartsIn'
<1>1. CASE KnowPair \/ Tick
  <2>1. BeginReads /\ UNCHANGED <<chain, trades, reserves, interval>> /\ pairAddr' \in BOOLEAN
    BY <1>1 DEF KnowPair, Tick, hookVars, ChartsIn, Drawn
  <2>. QED BY <2>1, ReadsBegin DEF ChartsIn, Drawn
<1>2. CASE selectInterval
  BY <1>2 DEF selectInterval, hookVars, ChartsIn, Drawn, TradesRead, ReservesRead
<1>3. ASSUME NEW n \in Slot, fetchReserves(n) PROVE ChartsIn'
  <2>1. ReservesRead'
    BY <1>3, ReserveReadOn DEF ChartsIn
  <2>2. UNCHANGED <<chain, pairAddr, tradeReads, trades, interval>>
    BY <1>3 DEF fetchReserves, hookVars
  <2>. QED BY <2>1, <2>2 DEF ChartsIn, Drawn, TradesRead
<1>4. ASSUME NEW n \in Slot, fetchTrades(n) PROVE ChartsIn'
  <2>1. TradesRead(chain)'
    BY <1>4, TradeReadOn DEF ChartsIn
  <2>2. UNCHANGED <<pairAddr, reserveReads, reserves, interval>>
    BY <1>4 DEF fetchTrades
  <2>. QED BY <2>1, <2>2 DEF ChartsIn, Drawn, ReservesRead
<1>. QED BY <1>1, <1>2, <1>3, <1>4 DEF ChartsStep

---------------------------------------------------------------------------
(* The type of the whole state *)

\* What the lists, the chart, the scripts and the others keep.
RestTyped == traded \in 0..MaxTrades[program] /\ ListsIn /\ ChartsIn /\ ScriptTypeOK

\* On a chain that only grew, what nothing changes keeps its type.
LEMMA ListsStay ==
  ASSUME Good(chain), Good(chain'), OneCall(chain, chain'), ListsIn, UNCHANGED <<program, sweepVars>>
  PROVE  ListsIn'
<1>1. Len(chain.allPairs) <= Len(chain'.allPairs)
  BY CallAdds
<1>2. ASSUME NEW f \in sweeps PROVE Sweeping(chain', f, Wanted)
  BY <1>1, SweepLater DEF ListsIn
<1>3. Wanted' = Wanted
  BY DEF Wanted
<1>4. ListsTypeOK'
  BY DEF ListsIn, ListsTypeOK, sweepVars
<1>. QED BY <1>2, <1>3, <1>4 DEF ListsIn, sweepVars

\* So does the chart.
LEMMA ChartsStay ==
  ASSUME Good(chain), Good(chain'), OneCall(chain, chain'), ChartsIn, UNCHANGED chartVars
  PROVE  ChartsIn'
<1>1. Len(chain.swaps) <= Len(chain'.swaps)
  BY CallAdds
<1>2. TradesRead(chain')
  BY <1>1, TradesLater DEF ChartsIn
<1>3. UNCHANGED <<pairAddr, tradeReads, reserveReads, trades, reserves, interval>>
  BY DEF chartVars
<1>. QED BY <1>2, <1>3 DEF ChartsIn, Drawn, TradesRead, ReservesRead

\* The steps of the scripts.
LEMMA ScriptsOn ==
  ASSUME Good(chain), ScriptTypeOK, ScriptStep
  PROVE  ScriptTypeOK'
<1>1. chain.bal[MainPair][Deployer] \in Nat
  <2>1. MainPair \in Asset /\ Deployer \in Holder
    BY AppAssumption, Assets, PairOf DEF MainPair
  <2>. QED BY <2>1 DEF Good, Books, Chain
<1>2. CASE SendStep
  BY <1>1, <1>2 DEF SendStep, ScriptTypeOK
<1>3. CASE MineStep
  <2>1. \A ok : After(ok) \in Nat
    BY DEF After, ScriptTypeOK
  <2>. QED BY <1>3, <2>1 DEF MineStep, ScriptTypeOK
<1>. QED BY <1>2, <1>3 DEF ScriptStep

\* A page that lists.
LEMMA ListsOn ==
  ASSUME Good(chain), ListsIn, ListPage
  PROVE  ListsIn'
<1>1. chain' = chain /\ program' = program
  BY ListsOnlyRead DEF ListPage
<1>2. CASE FarmStep
  <2>1. UNCHANGED sweepVars
    BY <1>2 DEF FarmStep, fetchFarms, sweepVars
  <2>. QED BY <1>1, <2>1, ListsStay DEF OneCall
<1>3. ASSUME \A f \in sweeps' : Sweeping(chain, f, Wanted), ListsTypeOK'
      PROVE  ListsIn'
  BY <1>1, <1>3 DEF ListsIn, Wanted
<1>. QED BY <1>2, <1>3, TokensOn, PortfolioOn DEF ListPage

\* When the account changes.
LEMMA ListsSwitch ==
  ASSUME Good(chain), ListsIn, SwitchAccount
  PROVE  ListsIn'
<1>1. chain' = chain /\ program' = program
  BY DEF SwitchAccount
<1>2. CASE UNCHANGED sweepVars
  BY <1>1, <1>2, ListsStay DEF OneCall
<1>3. CASE StartSweep(account') /\ UNCHANGED <<fetches, rows, tokens, tokenBals, txs>>
  <2>1. Sweeping(chain, NewSweep(account'), Wanted)
    BY SweepBegun
  <2>2. \A f \in sweeps' : Sweeping(chain, f, Wanted)
    BY <1>3, <2>1 DEF StartSweep, ListsIn
  <2>3. ListsTypeOK' /\ Wanted' = Wanted
    BY <1>1, <1>3 DEF ListsIn, ListsTypeOK, Wanted
  <2>. QED BY <1>1, <2>2, <2>3 DEF ListsIn
<1>. QED BY <1>2, <1>3 DEF SwitchAccount, sweepVars

\* Every step leaves them typed.
LEMMA RestStaysTyped ==
  AppSound /\ AppSound' /\ RestTyped /\ [Next]_vars => RestTyped'
<1>. SUFFICES ASSUME AppSound, AppSound', RestTyped, [Next]_vars PROVE RestTyped'
  OBVIOUS
<1>1. /\ Good(chain) /\ Good(chain') /\ OneCall(chain, chain')
      /\ traded \in 0..MaxTrades[program] /\ ListsIn /\ ChartsIn /\ ScriptTypeOK
      /\ program \in Programs /\ MaxTrades[program] \in Nat
  BY OnlyCalls, AppAssumption DEF AppSound, HooksSound, RestTyped
<1>2. UNCHANGED program
  BY DEF Next, vars, SwapPage, PoolPageRuns, TransferPageRuns, ListPage, ChartsPageRuns, PriceServiceRuns,
         ScriptRuns, WalletRuns, SwitchAccount, OthersTrade
<1>3. UNCHANGED traded \/ (traded < MaxTrades[program] /\ traded' = traded + 1)
  BY DEF Next, vars, SwapPage, PoolPageRuns, TransferPageRuns, ListPage, ChartsPageRuns, PriceServiceRuns,
         ScriptRuns, WalletRuns, SwitchAccount, OthersTrade
<1>4. UNCHANGED sweepVars \/ ListPage \/ SwitchAccount
  BY DEF Next, vars, SwapPage, PoolPageRuns, TransferPageRuns, ChartsPageRuns, PriceServiceRuns,
         ScriptRuns, WalletRuns, OthersTrade, sweepVars, AddingStep, RemovingStep
<1>5. UNCHANGED chartVars \/ ChartsStep
  BY DEF Next, vars, SwapPage, PoolPageRuns, TransferPageRuns, ListPage, ChartsPageRuns, PriceServiceRuns,
         ScriptRuns, WalletRuns, SwitchAccount, OthersTrade
<1>6. UNCHANGED scriptVars \/ ScriptStep
  BY DEF Next, vars, SwapPage, PoolPageRuns, TransferPageRuns, ListPage, ChartsPageRuns, PriceServiceRuns,
         ScriptRuns, WalletRuns, SwitchAccount, OthersTrade
<1>7. traded' \in 0..MaxTrades[program']
  BY <1>1, <1>2, <1>3
<1>8. ListsIn'
  BY <1>1, <1>2, <1>4, ListsStay, ListsOn, ListsSwitch
<1>9. ChartsIn'
  BY <1>1, <1>5, ChartsStay, ChartsOn
<1>10. ScriptTypeOK'
  BY <1>1, <1>6, ScriptsOn DEF scriptVars, ScriptTypeOK
<1>. QED BY <1>7, <1>8, <1>9, <1>10 DEF RestTyped

\* They are typed at first.
LEMMA RestBeginsTyped ==
  Init => RestTyped
<1>. SUFFICES ASSUME Init PROVE RestTyped
  OBVIOUS
<1>1. /\ Good(chain) /\ program \in Programs /\ traded = 0 /\ MaxTrades[program] \in Nat
      /\ ListsInit /\ ChartsInit /\ ScriptInit
  BY InitGood, AppAssumption DEF Init
<1>2. ListsIn
  <2>1. sweeps = {} /\ tokens = << >> /\ tokenBals = << >> /\ txs = << >>
    BY <1>1 DEF ListsInit
  <2>2. DOMAIN << >> = {} /\ Len(<< >>) = 0
    OBVIOUS
  <2>3. ListsTypeOK
    BY <2>1, <2>2, ListsAssumption DEF ListsTypeOK
  <2>. QED BY <2>1, <2>3 DEF ListsIn
<1>3. ChartsIn
  <2>1. Drawn
    BY <1>1, ChartsAssumption, Smallest DEF ChartsInit, Drawn
  <2>2. Len(chain.swaps) \in Nat
    BY <1>1, GoodListed, ListGrows DEF Listed
  <2>3. TradesRead(chain)
    BY <1>1, <2>2 DEF ChartsInit, TradesRead, TradeRead
  <2>4. ReservesRead
    BY <1>1 DEF ChartsInit, ReservesRead, ReserveRead
  <2>. QED BY <2>1, <2>3, <2>4 DEF ChartsIn
<1>4. ScriptTypeOK
  BY <1>1 DEF ScriptInit, ScriptTypeOK
<1>. QED BY <1>1, <1>2, <1>3, <1>4 DEF RestTyped

\* All of it is the type.
LEMMA AllTyped ==
  AppSound /\ PriceSound /\ RestTyped => TypeOK
<1>. SUFFICES ASSUME AppSound, PriceSound, RestTyped PROVE TypeOK
  OBVIOUS
<1>1. /\ Good(chain) /\ account \in Wallet \cup {Nobody} /\ HooksIn /\ Answered(chain, answers) /\ Waiting
      /\ SwapCardTypeOK /\ TransferTypeOK /\ PoolSound /\ RowsIn
  BY DEF AppSound, HooksSound, PagesSound
<1>2. HooksTypeOK
  <2>1. chain \in Chain /\ \A p \in Pair : chain.reserve[p] \in [p -> Nat]
    BY <1>1 DEF Good, Books
  <2>2. /\ chain.bal \in [Asset -> [Holder -> Nat]] /\ chain.allow \in [Token \cup Pair -> [Account -> Nat]]
        /\ chain.supply \in [Pair -> Nat] /\ chain.allPairs \in Seq(Pair)
    BY <2>1 DEF Chain
  <2>3. \A i \in 1..Len(chain.allPairs) : chain.allPairs[i] \in Pair
    BY <2>2
  <2>4. \A k \in DOMAIN answers : answers[k] \in Nat
    BY <1>1 DEF Answered, Read
  <2>5. \A r \in Pending : r.hook \in Hook /\ r.from \in Wallet
    <3>1. PICK R : outbox \in Seq(R) /\ \A r \in wallet \cup R : Request(chain, r)
      BY <1>1 DEF Waiting
    <3>2. Pending \subseteq wallet \cup R
      BY <3>1 DEF Pending
    <3>. QED BY <3>1, <3>2 DEF Request
  <2>. QED BY <1>1, <2>1, <2>2, <2>3, <2>4, <2>5 DEF HooksTypeOK, HooksIn
<1>3. FetchTypeOK
  <2>1. rows \in Seq(Row) /\ loading \in BOOLEAN
    BY <1>1 DEF RowsIn
  <2>2. \A i \in 1..Len(rows) : rows[i] \in Row
    BY <2>1
  <2>. QED BY <2>1, <2>2 DEF FetchTypeOK, Row
<1>4. PoolTypeOK
  BY <1>1 DEF PoolSound, Form, PoolTypeOK
<1>5. ChartsTypeOK
  BY DEF RestTyped, ChartsIn, Drawn, TradesRead, TradeRead, ReservesRead, ReserveRead, Free, ChartsTypeOK
<1>6. PriceTypeOK
  <2>1. PriceTyped
    BY DEF PriceSound
  <2>2. \A k \in DOMAIN ohlcv : k[1] \in Range(CandleLengths) /\ k[2] % k[1] = 0
    BY <2>1, Keys
  <2>. QED BY <2>1, <2>2 DEF PriceTyped, PriceTypeOK
<1>. QED BY <1>1, <1>2, <1>3, <1>4, <1>5, <1>6 DEF AppSound, RestTyped, ListsIn, TypeOK

\* Every variable of the front end, of the scripts and of the price service
\* keeps its type, whatever the pages read of a chain that others change
\* meanwhile: what is listed is of the factory's pairs and their tokens, the
\* portfolio is no longer than it shows, and no read of the chart and no row of
\* a list has more than there is (the fetches of the pages, of which several
\* may be under way).
THEOREM TypeCorrect ==
  Spec => []TypeOK
<1>1. AppSound /\ PriceSound /\ RestTyped => TypeOK
  BY AllTyped
<1>. QED BY <1>1, Reliance, PriceInitSound, PriceStaysSound, RestBeginsTyped, RestStaysTyped, PTL DEF Spec
============================================================================
