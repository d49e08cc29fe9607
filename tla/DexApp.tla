------------------------------- MODULE DexApp -------------------------------
(***************************************************************************)
(* The exchange as its users meet it: a page of the front end, the scripts *)
(* or the price service, on the chain where others trade at the same time. *)
(* The pages are routes of one application, of which one is open, and they *)
(* share nothing but the chain and the wallet; the scripts and the price   *)
(* service run apart from them.  So a behaviour runs one of them: of the   *)
(* pool page, which has two parts, the form ("pool") or the list of        *)
(* positions.  In the behaviours of the program "traders" only the others  *)
(* act, with every call of the contracts.                                  *)
(***************************************************************************)
EXTENDS SwapCard, PoolPage, TransferPage, ListPages, ChartsPage, PriceService, DexScripts

CONSTANTS
    Balance0,           \* what every account begins with: asset -> account -> amount
    Depth,              \* the reserves of the main pair at the beginning
    Trader,             \* an account of somebody else
    TraderAmounts,      \* what others trade with
    Market,             \* program -> what they do while it runs: <<"Buy" or "Sell", amount>>
    MaxTrades,          \* bound: program -> the calls of others that succeed
    MaxSends,           \* bound: program -> the requests of its hooks
    MaxFetches,         \* bound: program -> the fetches of a kind under way
    MaxReserveFetches   \* bound: the reads of the form's reserves under way

Pages == {"swap", "pool", "positions", "transfer", "farm", "tokens", "portfolio"}
Programs == Pages \cup {"charts", "scripts", "prices", "traders"}

ASSUME AppAssumption ==
    /\ MaxTrades \in [Programs -> Nat] /\ MaxSends \in [Programs -> Nat]
    /\ MaxFetches \in [Programs -> Nat]
    /\ {Deployer, Dev0, Trader} \cup Wallet \subseteq Account
    /\ Trader # Deployer
    /\ {USDT, GET} \subseteq Token /\ USDT # WECY
    /\ Balance0 \in [{ECY} \cup Token -> [Account -> Nat]]

VARIABLES
    program,            \* what runs
    traded              \* how many calls of others succeeded

pageVars == <<form, pairReserves, reserveFetches, removal, checks>>
sweepVars == <<sweeps, tokens, tokenBals, txs>>
vars == <<program, traded, hookVars, swapCardVars, fetchVars, pageVars, transferVars, sweepVars,
          chartVars, priceVars, scriptVars>>

---------------------------------------------------------------------------
(* The chain at the beginning *)

\* A purchase or a sale of USDT, by the amount that is paid.
MarketCall(a, m) ==
    [fn |-> IF m[1] = "Buy" THEN "swapETHForTokens" ELSE "swapTokensForETH",
     exact |-> "in", amount |-> m[2], limit |-> 0,
     path |-> IF m[1] = "Buy" THEN <<WECY, USDT>> ELSE <<USDT, WECY>>, to |-> a]

Only(S) == CHOOSE s \in S : S = {s}

\* Calls in a row, all of which succeed.
AfterCalls(s, calls) ==
    LET after[i \in 0..Len(calls)] ==
            IF i = 0 THEN s ELSE Only({e.chain : e \in Executed(after[i - 1], calls[i][1], calls[i][2])})
    IN after[Len(calls)]

\* The market that add_liquidity opens.
OpenMarket ==
    <<  <<Deployer, Approve(USDT, Unlimited)>>,
        <<Deployer, AddETH(USDT, Depth, Depth)>> >>

\* The account of the wallet has pool tokens, which the router may move or not.
WithPosition(a, allowance) ==
    <<  <<Deployer, Send(MainPair, a, Depth \div 3)>>,
        <<a, Approve(USDT, Unlimited)>>,
        <<a, Approve(MainPair, allowance)>> >>

Everything(a) == <<  <<a, Approve(USDT, Unlimited)>>, <<a, Approve(GET, Unlimited)>>,
                     <<a, Approve(WECY, Unlimited)>>, <<a, Approve(MainPair, Unlimited)>> >>

Opening == OpenMarket \o Everything(Trader)

\* What was done before.
Before(p) ==
    CASE p \in {"pool", "positions"} -> {Opening \o WithPosition(a, n) : a \in Wallet, n \in {0, Unlimited}}
      [] p \in {"farm", "tokens", "portfolio"} -> {Opening \o WithPosition(a, 0) : a \in Wallet}
      [] p = "scripts" -> {<< >>, Opening}
      [] p = "charts" -> {Append(Opening, <<Trader, MarketCall(Trader, <<"Sell", Depth \div 3>>)>>)}
      [] OTHER -> {Opening}

Chains(p) == {AfterCalls(Deployed(Deployer, Balance0), calls) : calls \in Before(p)}

---------------------------------------------------------------------------
(* The others *)

SwapCalls(a, fns, exacts, amounts, paths) ==
    {[fn |-> f, exact |-> e, amount |-> v, limit |-> IF e = "in" THEN 0 ELSE Unlimited,
      path |-> path, to |-> a] : f \in fns, e \in exacts, v \in amounts, path \in paths}

\* Amounts of the two tokens of a pair.
Both(p, v, w) == [x \in p |-> IF x = OneOf(p) THEN v ELSE w]

\* Every call of the contracts, on the main pair and on one with the token
\* that somebody created.
AllCalls(a) ==
    LET pairs == {MainPair, {USDT, GET}}
        amounts == {Both(p, v, w) : p \in pairs, v \in TraderAmounts, w \in TraderAmounts}
    IN {c \in SwapCalls(a, Swaps, {"in", "out"}, TraderAmounts,
                         {<<WECY, USDT>>, <<USDT, WECY>>, <<WECY, USDT, GET>>}) :
            /\ c.fn = "swapETHForTokens" => c.path[1] = WECY
            /\ c.fn = "swapTokensForETH" => c.path[Len(c.path)] = WECY}
       \cup {[fn |-> "addLiquidityETH", a |-> USDT, b |-> WECY, desired |-> d,
              min |-> Both(MainPair, 0, 0), to |-> a] : d \in {x \in amounts : DOMAIN x = MainPair}}
       \cup {[fn |-> "addLiquidity", a |-> t, b |-> Other(DOMAIN d, t), desired |-> d,
              min |-> Both(DOMAIN d, 1, 1), to |-> a] : d \in amounts, t \in {USDT}}
       \cup {[fn |-> f, pair |-> MainPair, amount |-> v, min |-> Both(MainPair, 0, 0), to |-> a] :
              f \in {"removeLiquidity", "removeLiquidityETH"}, v \in TraderAmounts}
       \cup {[fn |-> "pairSwap", pair |-> MainPair, out |-> o, pay |-> y] :
              o \in {Both(MainPair, 1, 0), Both(MainPair, 2, 1)}, y \in {Both(MainPair, 3, 0), Both(MainPair, 1, 3)}}
       \cup {Send(t, MainPair, v) : t \in MainPair, v \in TraderAmounts}
       \cup {[fn |-> f, pair |-> MainPair] : f \in {"skim", "sync"}}
       \cup {[fn |-> f, amount |-> v] : f \in {"deposit", "withdraw"}, v \in TraderAmounts}
       \cup {[fn |-> "createToken", asset |-> GET, amount |-> Depth]}

OthersCalls ==
    IF program = "traders"
    THEN ({Trader} \X AllCalls(Trader))
         \cup ({Deployer} \X ({[fn |-> "setFeeTo", to |-> a] : a \in {Dev0, Nobody}}
                              \cup {[fn |-> "removeLiquidityETH", pair |-> MainPair, amount |-> Depth \div 2,
                                     min |-> Both(MainPair, 0, 0), to |-> Deployer],
                                    Approve(MainPair, Unlimited)}))
    ELSE {<<Trader, MarketCall(Trader, m)>> : m \in Market[program]}

OthersTrade ==
    /\ traded < MaxTrades[program]
    /\ traded' = traded + 1
    /\ \E c \in OthersCalls :
        \E e \in Executed(chain, c[1], c[2]) : e.ok /\ chain' = e.chain
    /\ UNCHANGED <<program, account, answers, sendVars, fills, swapCardVars, fetchVars, pageVars,
                   transferVars, sweepVars, chartVars, priceVars, scriptVars>>

---------------------------------------------------------------------------
(* One of them runs *)

FewFetches ==
    /\ Cardinality(fetches') <= MaxFetches[program]
    /\ Cardinality(sweeps') <= MaxFetches[program]
    /\ Cardinality(reserveFetches') <= MaxReserveFetches

SwapPage ==
    /\ program = "swap" /\ SwapCardStep
    /\ UNCHANGED <<program, traded, fetchVars, pageVars, transferVars, sweepVars, chartVars, priceVars,
                   scriptVars>>

PoolPageRuns ==
    /\ \/ program = "pool" /\ AddingStep
       \/ program = "positions" /\ RemovingStep
    /\ UNCHANGED <<program, traded, swapCardVars, transferVars, sweepVars, chartVars, priceVars, scriptVars>>
    /\ FewFetches

TransferPageRuns ==
    /\ program = "transfer" /\ TransferStep
    /\ UNCHANGED <<program, traded, swapCardVars, fetchVars, pageVars, sweepVars, chartVars, priceVars,
                   scriptVars>>

ListPage ==
    /\ \/ program = "farm" /\ FarmStep
       \/ program = "tokens" /\ TokensStep
       \/ program = "portfolio" /\ PortfolioStep
    /\ UNCHANGED <<program, traded, swapCardVars, pageVars, transferVars, chartVars, priceVars, scriptVars>>
    /\ FewFetches

ChartsPageRuns ==
    /\ program = "charts" /\ ChartsStep
    /\ UNCHANGED <<program, traded, swapCardVars, fetchVars, pageVars, transferVars, sweepVars, priceVars,
                   scriptVars>>

PriceServiceRuns ==
    /\ program = "prices" /\ PriceStep
    /\ UNCHANGED <<program, traded, hookVars, swapCardVars, fetchVars, pageVars, transferVars, sweepVars,
                   chartVars, scriptVars>>

ScriptRuns ==
    /\ program = "scripts" /\ ScriptStep
    /\ UNCHANGED <<program, traded, swapCardVars, fetchVars, pageVars, transferVars, sweepVars, chartVars,
                   priceVars>>

\* The wallet, the node and the hooks, for the pages that send.
WalletRuns ==
    /\ program \in {"swap", "pool", "positions", "transfer"} /\ WalletStep
    /\ UNCHANGED <<program, traded, swapCardVars, fetchVars, pageVars, transferVars, sweepVars, chartVars,
                   priceVars, scriptVars>>

\* The user connects another account, or none: what was read of the account
\* is read anew, and the pages that list fetch again.
SwitchAccount ==
    /\ program \in Pages
    /\ \E a \in Wallet \cup {Nobody} : SwitchTo(a)
    /\ answers' = Restrict(answers, {k \in DOMAIN answers : k.kind = "quote"})
    /\ IF program \in {"pool", "positions", "farm"}
       THEN StartFetch(account') /\ UNCHANGED sweepVars
       ELSE IF program = "tokens" \/ (program = "portfolio" /\ account' # Nobody)
            THEN StartSweep(account') /\ UNCHANGED <<fetches, rows, tokens, tokenBals, txs>>
            ELSE UNCHANGED <<fetchVars, sweepVars>>
    /\ UNCHANGED <<program, traded, chain, sendVars, fills, swapCardVars, pageVars, transferVars, chartVars,
                   priceVars, scriptVars>>
    /\ FewFetches

Init ==
    /\ program \in Programs
    /\ traded = 0
    /\ chain \in Chains(program)
    /\ HooksInit
    /\ sends = MaxSends[program]
    /\ program \notin Pages => account = Nobody
    /\ SwapCardInit
    /\ PoolInit
    /\ TransferInit
    /\ ListsInit
    /\ ChartsInit
    /\ PriceInit
    /\ ScriptInit
    /\ program # "scripts" => script = "add_liquidity"

Next ==
    \/ SwapPage \/ PoolPageRuns \/ TransferPageRuns \/ ListPage \/ ChartsPageRuns \/ PriceServiceRuns
    \/ ScriptRuns \/ WalletRuns \/ SwitchAccount \/ OthersTrade

\* The chart's timer runs and its reads end, with an answer or with an
\* error.  Nobody has to trade, nor to sign.
Fairness ==
    /\ WF_chartVars(program = "charts" /\ KnowPair)
    /\ WF_chartVars(program = "charts" /\ Tick)
    /\ \A n \in Slot :
        /\ WF_chartVars(program = "charts" /\ fetchReserves(n))
        /\ WF_chartVars(program = "charts" /\ fetchTrades(n))

Spec == Init /\ [][Next]_vars /\ Fairness

---------------------------------------------------------------------------
(* Properties *)

\* The type of the whole state.
TypeOK ==
    /\ program \in Programs
    /\ traded \in 0..MaxTrades[program]
    /\ HooksTypeOK
    /\ SwapCardTypeOK
    /\ FetchTypeOK
    /\ PoolTypeOK
    /\ TransferTypeOK
    /\ ListsTypeOK
    /\ ChartsTypeOK
    /\ PriceTypeOK
    /\ ScriptTypeOK

\* No sequence of calls makes a share of the pool worth less: however the
\* amounts of mints, burns and swaps are rounded, and with or without the
\* protocol's fee, the product of the reserves per squared pool token is never
\* below what the last mint or burn left.
PoolShareNeverFalls ==
    [][\A p \in Pair :
        LET mark == chain.mark[p]
        IN mark.supply > 0 =>
            K(chain', p) * mark.supply * mark.supply >= mark.k * chain'.supply[p] * chain'.supply[p]]_chain

\* What a call moves of its sender's tokens through the router.
Spends(c) ==
    CASE c.fn \in {"swapTokensForTokens", "swapTokensForETH"} -> {<<c.path[1], c.amount>>}
      [] c.fn \in {"removeLiquidity", "removeLiquidityETH"} -> {<<c.pair, c.amount>>}
      [] c.fn = "addLiquidity" -> {<<t, c.desired[t]>> : t \in {c.a, c.b}}
      [] c.fn = "addLiquidityETH" -> {<<c.a, c.desired[c.a]>>}
      [] OTHER -> {}

\* Nothing that a page or a script has sent can fail for want of an
\* allowance, although the page decides by an answer that may be old; except
\* a removal that is sent from another account than the one that clicked,
\* which may fail so.
NeverShortOfAllowance ==
    LET covered(a, c) == \A s \in Spends(c) : AtLeast(chain.allow[s[1]][a], s[2])
    IN /\ \A r \in Pending :
            \/ covered(r.from, r.call)
            \/ /\ r.call.fn \in {"removeLiquidity", "removeLiquidityETH"}
               /\ r.call.to # r.from
       /\ scriptTx # NoCall => covered(Deployer, scriptTx)

\* A chart that stays open shows everything in the end, although its reads
\* overlap, end in any order and may fail.
ChartCatchesUp == program = "charts" => <>[]ChartIsComplete
===========================================================================
