---------------------------- MODULE DexContracts ----------------------------
(***************************************************************************)
(* The contracts of the exchange: UniswapV2Pair and its pool token, the    *)
(* factory, the router with its library, the wrapped ECY and the token     *)
(* factory.                                                                *)
(*                                                                         *)
(* A transaction is atomic, so a call is an operator: of the contracts'    *)
(* state it yields the set of the states it may end in, which is empty     *)
(* when the call reverts.  A pair is the set of its two tokens and its own *)
(* pool token, and amounts of a pair are functions of its tokens: which of *)
(* them is token0 makes no difference to the contracts.                    *)
(*                                                                         *)
(* Left out: the cumulative prices, permit, the variants for tokens that   *)
(* take a fee, deadlines, and balances that do not fit 112 bits.           *)
(***************************************************************************)
EXTENDS Integers, Sequences, FiniteSets, FiniteSetsExt, Functions

CONSTANTS
    Account,            \* the accounts that trade
    Token,              \* the ERC-20 tokens, WECY among them
    WECY,               \* the wrapped ECY, and the address of its contract
    ECY,                \* the native coin
    Router,             \* the address of the router
    Nobody,             \* address(0)
    Unlimited,          \* the allowance max uint256, which is not used up
    Fee,                \* 3: the fee of a swap, in parts of FeeUnit
    FeeUnit,            \* 1000
    MinimumLiquidity    \* 1000: what the first mint gives to nobody

Pair == kSubset(2, Token)
Asset == {ECY} \cup Token \cup Pair
Holder == Account \cup Pair \cup {WECY, Router, Nobody}

ASSUME ContractsAssumption ==
    /\ WECY \in Token
    /\ {ECY, Router, Nobody} \cap (Token \cup Account) = {}
    /\ \A p \in Pair : p \notin {ECY, Router, Nobody} \cup Token \cup Account
    /\ IsFiniteSet(Token) /\ IsFiniteSet(Account)
    /\ Unlimited \in Nat
    /\ Fee \in Nat /\ FeeUnit \in Nat /\ Fee < FeeUnit
    /\ MinimumLiquidity \in Nat \ {0}

OneOf(p) == CHOOSE t \in p : TRUE
Other(p, t) == CHOOSE u \in p : u # t

\* The product of a pair's two amounts, the constant product of its reserves.
Product(f) == LET t == OneOf(DOMAIN f) IN f[t] * f[Other(DOMAIN f, t)]

sqrt(y) == CHOOSE z \in 0..y : z * z <= y /\ y < (z + 1) * (z + 1)

---------------------------------------------------------------------------
(* Tokens *)

\* The balances of a token after v of it has moved.
moved(bal, from, to, v) == [bal EXCEPT ![from] = @ - v, ![to] = @ + v]

\* Mutant of transfer: the sender's balance is not looked at.
transferUnchecked(s, a, from, to, v) == {[s EXCEPT !.bal[a] = moved(@, from, to, v)]}

transfer(s, a, from, to, v) ==
    IF v <= s.bal[a][from] THEN {[s EXCEPT !.bal[a] = moved(@, from, to, v)]} ELSE {}

approve(s, a, owner, v) == {[s EXCEPT !.allow[a][owner] = v]}

\* The router moves an owner's tokens; an allowance of max uint256 stays.
transferFrom(s, a, from, to, v) ==
    CASE s.allow[a][from] = Unlimited -> transfer(s, a, from, to, v)
      [] s.allow[a][from] # Unlimited /\ s.allow[a][from] < v -> {}
      [] OTHER -> transfer([s EXCEPT !.allow[a][from] = @ - v], a, from, to, v)

_mint(s, p, to, v) == [s EXCEPT !.supply[p] = @ + v, !.bal[p][to] = @ + v]

\* ECY is wrapped for somebody, and unwrapped.
deposit(s, from, to, v) ==
    {[t EXCEPT !.bal[WECY][to] = @ + v] : t \in transfer(s, ECY, from, WECY, v)}

withdraw(s, from, to, v) ==
    IF v <= s.bal[WECY][from]
    THEN transfer([s EXCEPT !.bal[WECY][from] = @ - v], ECY, WECY, to, v)
    ELSE {}

\* ERC20TokenFactory.createToken: the supply goes to the creator.
createToken(s, t, from, v) ==
    IF \A h \in Holder : s.bal[t][h] = 0 THEN {[s EXCEPT !.bal[t][from] = v]} ELSE {}

\* The amounts of a pair's two tokens are moved.
transferBoth(s, p, from, to, v) ==
    LET t == OneOf(p)
        u == Other(p, t)
    IN UNION {transfer(g, u, from, to, v[u]) : g \in transfer(s, t, from, to, v[t])}

---------------------------------------------------------------------------
(* UniswapV2Pair *)

K(s, p) == Product(s.reserve[p])

_update(s, p) == [s EXCEPT !.reserve[p] = [t \in p |-> s.bal[t][p]]]

\* The protocol's share of what the fees of swaps added since the last mint
\* or burn.
FeeLiquidity(supply, rootK, rootKLast) ==
    IF rootK > rootKLast THEN (supply * (rootK - rootKLast)) \div (rootK * 5 + rootKLast) ELSE 0

_mintFee(s, p) ==
    CASE s.feeTo = Nobody -> [s EXCEPT !.kLast[p] = 0]
      [] s.feeTo # Nobody /\ s.kLast[p] = 0 -> s
      [] OTHER -> _mint(s, p, s.feeTo, FeeLiquidity(s.supply[p], sqrt(K(s, p)), sqrt(s.kLast[p])))

\* The end of mint and burn.  The history mark keeps the product and the
\* supply they leave.
Close(s, p) ==
    LET product == Product([t \in p |-> s.bal[t][p]])
    IN [_update(s, p) EXCEPT
            !.kLast[p] = IF s.feeTo # Nobody THEN product ELSE @,
            !.mark[p] = [k |-> product, supply |-> s.supply[p]]]

\* Mutant of Shares: the larger of the two proportions counts.
SharesMax(s, p, amount) ==
    Max({(amount[t] * s.supply[p]) \div s.reserve[p][t] : t \in p})

\* What amounts are worth in pool tokens that exist already.
Shares(s, p, amount) ==
    Min({(amount[t] * s.supply[p]) \div s.reserve[p][t] : t \in p})

Deposited(s, p) == [t \in p |-> s.bal[t][p] - s.reserve[p][t]]

\* What a mint gives of the pool tokens; the first one also gives to nobody.
Liquidity(s, p) ==
    IF s.supply[p] = 0 THEN sqrt(Product(Deposited(s, p))) - MinimumLiquidity
                       ELSE Shares(s, p, Deposited(s, p))

MintMinimum(s, p) == IF s.supply[p] = 0 THEN _mint(s, p, Nobody, MinimumLiquidity) ELSE s

mint(s, p, to) ==
    UNION {LET liquidity == Liquidity(f, p)
           IN IF liquidity > 0 THEN {Close(_mint(MintMinimum(f, p), p, to, liquidity), p)} ELSE {} :
               f \in {_mintFee(s, p)}}

\* What the pool tokens that the pair holds are worth.
BurnAmounts(s, p) == [t \in p |-> (s.bal[p][p] * s.bal[t][p]) \div s.supply[p]]

_burn(s, p) == [s EXCEPT !.bal[p][p] = 0, !.supply[p] = @ - s.bal[p][p]]

\* Without any pool tokens the division reverts.  The router asks for a
\* minimum of each amount.
burn(s, p, to, min) ==
    UNION {LET amount == BurnAmounts(f, p)
           IN IF f.supply[p] > 0 /\ \A t \in p : amount[t] > 0 /\ amount[t] >= min[t]
              THEN {Close(g, p) : g \in transferBoth(_burn(f, p), p, p, to, amount)} ELSE {} :
               f \in {_mintFee(s, p)}}

\* The tokens are sent first; pay is what the receiver pays while it is
\* called, or before the call.  Nobody else gets in between: the pair is
\* locked, and the receiver can only trade with other pairs.
settle(s, p, in, out, sender, to) ==
    IF /\ \E t \in p : in[t] > 0
       /\ Product([t \in p |-> s.bal[t][p] * FeeUnit - in[t] * Fee]) >= K(s, p) * FeeUnit * FeeUnit
    THEN {[_update(s, p) EXCEPT
            !.swaps = Append(@, [pair |-> p, in |-> in, out |-> out, sender |-> sender, to |-> to,
                                 block |-> s.block])]}
    ELSE {}

swap(s, p, out, sender, to, pay) ==
    IF /\ \E t \in p : out[t] > 0
       /\ \A t \in p : out[t] < s.reserve[p][t]
       /\ to \notin p
    THEN UNION {settle(g, p, [t \in p |-> Max({0, g.bal[t][p] - (s.reserve[p][t] - out[t])})],
                       out, sender, to) :
            g \in UNION {transferBoth(f, p, to, p, pay) : f \in transferBoth(s, p, p, to, out)}}
    ELSE {}

skim(s, p, to) == transferBoth(s, p, p, to, Deposited(s, p))

sync(s, p) == {_update(s, p)}

---------------------------------------------------------------------------
(* UniswapV2Factory *)

Exists(s, p) == \E i \in 1..Len(s.allPairs) : s.allPairs[i] = p

createPair(s, a, b) ==
    IF a # b /\ ~Exists(s, {a, b}) THEN {[s EXCEPT !.allPairs = Append(@, {a, b})]} ELSE {}

setFeeTo(s, from, to) == IF from = s.feeToSetter THEN {[s EXCEPT !.feeTo = to]} ELSE {}

---------------------------------------------------------------------------
(* UniswapV2Library.  A call that reverts yields 0 here: whoever swaps for  *)
(* 0 reverts.                                                              *)

reserveOf(s, a, b) == IF a # b THEN s.reserve[{a, b}][a] ELSE 0

quote(amountA, reserveA, reserveB) ==
    IF reserveA > 0 /\ reserveB > 0 THEN (amountA * reserveB) \div reserveA ELSE 0

getAmountOut(amountIn, reserveIn, reserveOut) ==
    LET withFee == amountIn * (FeeUnit - Fee)
    IN IF amountIn > 0 /\ reserveIn > 0
       THEN (withFee * reserveOut) \div (reserveIn * FeeUnit + withFee) ELSE 0

getAmountIn(amountOut, reserveIn, reserveOut) ==
    IF 0 < amountOut /\ amountOut < reserveOut
    THEN (reserveIn * amountOut * FeeUnit) \div ((reserveOut - amountOut) * (FeeUnit - Fee)) + 1
    ELSE 0

getAmountsOut(s, amountIn, path) ==
    LET amounts[i \in 1..Len(path)] ==
            IF i = 1 THEN amountIn
            ELSE getAmountOut(amounts[i - 1], reserveOf(s, path[i - 1], path[i]),
                              reserveOf(s, path[i], path[i - 1]))
    IN amounts

getAmountsIn(s, amountOut, path) ==
    LET amounts[i \in 1..Len(path)] ==
            IF i = Len(path) THEN amountOut
            ELSE getAmountIn(amounts[i + 1], reserveOf(s, path[i], path[i + 1]),
                             reserveOf(s, path[i + 1], path[i]))
    IN amounts

---------------------------------------------------------------------------
(* UniswapV2Router02 *)

\* The amounts _addLiquidity takes of what is desired, none if it reverts.
OptimalAmounts(a, b, desired, min, ofA, ofB) ==
    IF ofB <= desired[b]
    THEN IF desired[a] > 0 /\ ofB >= min[b] THEN {[desired EXCEPT ![b] = ofB]} ELSE {}
    ELSE IF desired[b] > 0 /\ ofA >= min[a] THEN {[desired EXCEPT ![a] = ofA]} ELSE {}

LiquidityAmounts(r, a, b, desired, min) ==
    IF r[a] = 0 /\ r[b] = 0 THEN {desired}
    ELSE OptimalAmounts(a, b, desired, min, quote(desired[b], r[b], r[a]), quote(desired[a], r[a], r[b]))

WithPair(s, a, b) == IF Exists(s, {a, b}) THEN {s} ELSE createPair(s, a, b)

\* The two forms: of two tokens, or of a token and ECY that is wrapped; what
\* is sent of ECY beyond the amount taken is given back.
addLiquidity(s, from, c) ==
    LET p == {c.a, c.b}
        payB(t, v) == IF c.fn = "addLiquidityETH" THEN deposit(t, from, p, v)
                                                  ELSE transferFrom(t, c.b, from, p, v)
    IN IF c.fn = "addLiquidityETH" /\ s.bal[ECY][from] < c.desired[c.b] THEN {}
       ELSE UNION {UNION {UNION {mint(s3, p, c.to) :
                s3 \in UNION {payB(s2, amount[c.b]) :
                    s2 \in transferFrom(s1, c.a, from, p, amount[c.a])}} :
                amount \in LiquidityAmounts(s1.reserve[p], c.a, c.b, c.desired, c.min)} :
                s1 \in WithPair(s, c.a, c.b)}

\* The two forms of a removal; the second unwraps what the router got.
removeLiquidity(s, from, c) ==
    LET native == c.fn = "removeLiquidityETH"
        t == Other(c.pair, WECY)
        gone(r) == IF native
                   THEN UNION {withdraw(q, Router, c.to, q.bal[WECY][Router] - s.bal[WECY][Router]) :
                                 q \in transfer(r, t, Router, c.to, r.bal[t][Router] - s.bal[t][Router])}
                   ELSE {r}
    IN UNION {gone(r) : r \in UNION {burn(q, c.pair, IF native THEN Router ELSE c.to, c.min) :
                                        q \in transferFrom(s, c.pair, from, c.pair, c.amount)}}

\* The i-th pair of a path swaps, for the next one or for the receiver.
hop(s, amounts, path, to, i) ==
    LET p == {path[i], path[i + 1]}
    IN swap(s, p, [x \in p |-> IF x = path[i + 1] THEN amounts[i + 1] ELSE 0], Router,
            IF i < Len(path) - 1 THEN {path[i + 1], path[i + 2]} ELSE to, [x \in p |-> 0])

\* The pairs of the path swap one after the other, each to the next.
_swap(s, amounts, path, to) ==
    LET after[i \in 0..(Len(path) - 1)] ==
            IF i = 0 THEN {s} ELSE UNION {hop(t, amounts, path, to, i) : t \in after[i - 1]}
    IN IF \A i \in 1..(Len(path) - 1) : path[i] # path[i + 1] THEN after[Len(path) - 1] ELSE {}

Last(seq) == seq[Len(seq)]

\* The six swaps: exact input with a least output, or exact output with a
\* largest input; with WECY unwrapped at an end of the path or not.
SwapAmounts(s, from, c, amounts) ==
    LET first == {c.path[1], c.path[2]}
        paid == IF c.fn = "swapETHForTokens" THEN deposit(s, from, first, amounts[1])
                                             ELSE transferFrom(s, c.path[1], from, first, amounts[1])
        native == c.fn = "swapTokensForETH"
        gone(r) == IF native THEN withdraw(r, Router, c.to, Last(amounts)) ELSE {r}
        within == IF c.exact = "in" THEN Last(amounts) >= c.limit ELSE amounts[1] <= c.limit
    IN IF within /\ amounts[1] > 0
       THEN UNION {gone(r) : r \in UNION {_swap(q, amounts, c.path, IF native THEN Router ELSE c.to) :
                                             q \in paid}}
       ELSE {}

Swap(s, from, c) ==
    SwapAmounts(s, from, c, IF c.exact = "in" THEN getAmountsOut(s, c.amount, c.path)
                                              ELSE getAmountsIn(s, c.amount, c.path))

---------------------------------------------------------------------------
(* Transactions *)

Swaps == {"swapTokensForTokens", "swapTokensForETH", "swapETHForTokens"}

\* What the ABI can encode: amounts are unsigned numbers, and the other
\* arguments addresses.  Of a path with fewer than two tokens the library
\* reverts.
ValidCall(c) ==
    CASE c.fn \in Swaps -> /\ c.path \in Seq(Token) /\ Len(c.path) >= 2
                           /\ c.amount \in Nat /\ c.to \in Holder
      [] c.fn = "approve" -> c.asset \in Token \cup Pair /\ c.amount \in Nat
      [] c.fn = "transfer" -> c.asset \in Asset /\ c.amount \in Nat /\ c.to \in Holder
      [] c.fn \in {"deposit", "withdraw"} -> c.amount \in Nat
      [] c.fn = "createToken" -> c.asset \in Token /\ c.amount \in Nat
      [] c.fn = "setFeeTo" -> c.to \in Account \cup {Nobody}
      [] c.fn \in {"addLiquidity", "addLiquidityETH"} ->
            /\ {c.a, c.b} \subseteq Token
            /\ c.desired \in [{c.a, c.b} -> Nat] /\ c.to \in Holder
      [] c.fn \in {"removeLiquidity", "removeLiquidityETH"} ->
            c.pair \in Pair /\ c.amount \in Nat /\ c.to \in Holder
      [] c.fn = "pairSwap" -> c.pair \in Pair /\ {c.out, c.pay} \subseteq [c.pair -> Nat]
      [] c.fn \in {"skim", "sync"} -> c.pair \in Pair
      [] c.fn = "revert" -> TRUE
      [] OTHER -> FALSE

\* The states a call of an account may end in.
Call(s, from, c) ==
    CASE c.fn \in Swaps -> Swap(s, from, c)
      [] c.fn = "approve" -> approve(s, c.asset, from, c.amount)
      [] c.fn = "transfer" -> transfer(s, c.asset, from, c.to, c.amount)
      [] c.fn = "deposit" -> deposit(s, from, from, c.amount)
      [] c.fn = "withdraw" -> withdraw(s, from, from, c.amount)
      [] c.fn = "createToken" -> createToken(s, c.asset, from, c.amount)
      [] c.fn = "setFeeTo" -> setFeeTo(s, from, c.to)
      [] c.fn \in {"addLiquidity", "addLiquidityETH"} -> addLiquidity(s, from, c)
      [] c.fn \in {"removeLiquidity", "removeLiquidityETH"} -> removeLiquidity(s, from, c)
      [] c.fn = "pairSwap" -> swap(s, c.pair, c.out, from, from, c.pay)
      [] c.fn = "skim" -> skim(s, c.pair, from)
      [] c.fn = "sync" -> sync(s, c.pair)
      [] c.fn = "revert" -> {}

\* A block holds one transaction; one that reverts changes nothing else.
Outcomes(s, states) ==
    IF states = {} THEN {[ok |-> FALSE, chain |-> [s EXCEPT !.block = @ + 1]]}
                   ELSE {[ok |-> TRUE, chain |-> [t EXCEPT !.block = @ + 1]] : t \in states}

Executed(s, from, c) ==
    Outcomes(s, IF from \in Account /\ ValidCall(c) THEN Call(s, from, c) ELSE {})

\* The contracts after their deployment, with the balances given.
Deployed(deployer, balance) ==
    [bal |-> [a \in Asset |-> [h \in Holder |-> IF h \in Account /\ a \in {ECY} \cup Token
                                                THEN balance[a][h] ELSE 0]],
     allow |-> [a \in Token \cup Pair |-> [h \in Account |-> 0]],
     reserve |-> [p \in Pair |-> [t \in p |-> 0]],
     supply |-> [p \in Pair |-> 0],
     kLast |-> [p \in Pair |-> 0],
     feeTo |-> Nobody,
     feeToSetter |-> deployer,
     allPairs |-> << >>,
     swaps |-> << >>,
     block |-> 0,
     mark |-> [p \in Pair |-> [k |-> 0, supply |-> 0]]]
===========================================================================
