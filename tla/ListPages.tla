----------------------------- MODULE ListPages ------------------------------
(***************************************************************************)
(* The pages that only show: the farm page with the pools (PoolFetch), the *)
(* tokens page with every token of a pair, and the portfolio with what an  *)
(* account has and swapped.  Each fetches when it is opened, when the      *)
(* account changes and at the button, read by read, and the fetch that     *)
(* ends last decides what is shown.  Rows are told apart by their token or *)
(* pair; their order and the text of the amounts are left out.             *)
(***************************************************************************)
EXTENDS PoolFetch

CONSTANTS
    MaxTxs,             \* 20: the swaps the portfolio shows
    LogBlocks           \* 10000: how far back it looks for them

ASSUME ListsAssumption == MaxTxs \in Nat /\ LogBlocks \in Nat

VARIABLES
    sweeps,             \* the fetches of the tokens page or the portfolio
    tokens,             \* the rows of the tokens page
    tokenBals,          \* the balances of the portfolio
    txs                 \* the swaps of the portfolio

listVars == <<fetchVars, sweeps, tokens, tokenBals, txs>>

---------------------------------------------------------------------------
(* The farm page *)

fetchFarms == StartFetch(account) /\ UNCHANGED <<hookVars, sweeps, tokens, tokenBals, txs>>

\* A row's percentage may pass one hundred: supply and balance are of
\* different times.
FarmStep ==
    \/ fetchFarms
    \/ FetchStep /\ UNCHANGED <<hookVars, sweeps, tokens, tokenBals, txs>>

---------------------------------------------------------------------------
(* What the other two have in common: the pairs and their tokens first *)

NewSweep(a) ==
    [for |-> a, len |-> -1, pairs |-> << >>, todo |-> {}, balances |-> << >>, logs |-> << >>, from |-> 0]

ToSweep(f, g) == sweeps' = (sweeps \ {f}) \cup {g}

StartSweep(a) ==
    /\ sweeps' = sweeps \cup {NewSweep(a)}
    /\ loading' = TRUE

\* The next pair; with the last one it is known which tokens are to be read.
SweepPairs(f, wanted(_)) ==
    \/ /\ f.len = -1
       /\ LET n == Len(chain.allPairs)
          IN ToSweep(f, [f EXCEPT !.len = n, !.todo = IF n = 0 THEN wanted({}) ELSE {}])
    \/ /\ Len(f.pairs) < f.len
       /\ LET p == chain.allPairs[Len(f.pairs) + 1]
              pairs == Append(f.pairs, [pair |-> p, reserve |-> chain.reserve[p]])
          IN ToSweep(f, [f EXCEPT !.pairs = pairs,
                            !.todo = IF Len(pairs) < f.len THEN {}
                                     ELSE wanted({pairs[i].pair : i \in 1..Len(pairs)})])

PairsRead(f) == f.len = Len(f.pairs)

With(f, x, v) ==
    [y \in DOMAIN f \cup {x} |-> IF y = x THEN v ELSE f[y]]

\* The next token, or the next pool token when there is none; a read that
\* fails only costs the row.
SweepToken(f, row(_)) ==
    /\ PairsRead(f) /\ f.todo # {}
    /\ LET t == IF f.todo \cap Token # {} THEN CHOOSE t \in f.todo \cap Token : TRUE
                                          ELSE CHOOSE t \in f.todo : TRUE
           g == [f EXCEPT !.todo = @ \ {t}]
       IN \E failed \in BOOLEAN :
            ToSweep(f, IF failed THEN g ELSE [g EXCEPT !.balances = With(@, t, row(t))])

FailSweep(f) ==
    /\ sweeps' = sweeps \ {f}
    /\ loading' = FALSE
    /\ UNCHANGED <<hookVars, fetches, rows, tokens, tokenBals, txs>>

Balance(f, asset) == IF f.for = Nobody THEN 0 ELSE chain.bal[asset][f.for]

---------------------------------------------------------------------------
(* The tokens page *)

\* What the page calls the price in USDT: the reserves of the last pair with
\* the token that has any, whichever the other token is.
PriceInUsdt(pairs, t) ==
    LET with == {i \in 1..Len(pairs) : t \in pairs[i].pair
                    /\ \A x \in pairs[i].pair : pairs[i].reserve[x] > 0}
        last == pairs[Max(with)]
    IN IF with = {} THEN << >>
       ELSE <<last.reserve[Other(last.pair, t)], last.reserve[t]>>

fetchTokens == StartSweep(account) /\ UNCHANGED <<hookVars, fetches, rows, tokens, tokenBals, txs>>

\* The native row is read last.
FinishTokens(f) ==
    /\ PairsRead(f) /\ f.todo = {}
    /\ sweeps' = sweeps \ {f}
    /\ tokens' = With(f.balances, ECY, [balance |-> Balance(f, ECY), price |-> PriceInUsdt(f.pairs, WECY)])
    /\ loading' = FALSE
    /\ UNCHANGED <<hookVars, fetches, rows, tokenBals, txs>>

TokensStep ==
    \/ fetchTokens
    \/ \E f \in sweeps :
        \/ /\ \/ SweepPairs(f, LAMBDA pairs : {WECY} \cup UNION pairs)
              \/ SweepToken(f, LAMBDA t : [balance |-> Balance(f, t), price |-> PriceInUsdt(f.pairs, t)])
           /\ UNCHANGED <<hookVars, fetchVars, tokens, tokenBals, txs>>
        \/ FinishTokens(f)
        \/ FailSweep(f)

---------------------------------------------------------------------------
(* The portfolio *)

fetchAll ==
    /\ account # Nobody
    /\ StartSweep(account)
    /\ UNCHANGED <<hookVars, fetches, rows, tokens, tokenBals, txs>>

\* The pool tokens and the tokens are read alike; what is not zero is shown,
\* and then the swaps are looked for.
ShowBalances(f) ==
    /\ PairsRead(f) /\ f.todo = {} /\ f.from = 0
    /\ tokenBals' = Restrict(f.balances, {x \in DOMAIN f.balances : f.balances[x] > 0})
    /\ ToSweep(f, [f EXCEPT !.from = 1 + Max({0, chain.block - LogBlocks})])
    /\ UNCHANGED <<hookVars, fetchVars, tokens, txs>>

\* The swaps of the pairs that name the account, the newest first.  A pair
\* whose events cannot be read is passed over.
ShowSwaps(f) ==
    /\ f.from > 0
    /\ \E read \in SUBSET {f.pairs[i].pair : i \in 1..Len(f.pairs)} :
        LET names(w) ==
                /\ w.block >= f.from - 1
                /\ w.pair \in read
                /\ f.for \in {w.sender, w.to}
            mine == At(chain.swaps, {i \in 1..Len(chain.swaps) : names(chain.swaps[i])})
            n == Len(mine)
        IN txs' = [i \in 1..Min({n, MaxTxs}) |-> mine[n + 1 - i]]
    /\ sweeps' = sweeps \ {f}
    /\ loading' = FALSE
    /\ UNCHANGED <<hookVars, fetches, rows, tokens, tokenBals>>

\* Whoever has no pool tokens of a pair has no row for it.
PortfolioStep ==
    \/ fetchAll
    \/ Answer(IF account = Nobody THEN {} ELSE {BalanceOf(ECY, account)}) /\ UNCHANGED listVars
    \/ \E f \in sweeps :
        \/ /\ \/ SweepPairs(f, LAMBDA pairs : {WECY, USDT} \cup UNION pairs \cup pairs)
              \/ SweepToken(f, LAMBDA t : Balance(f, t))
           /\ UNCHANGED <<hookVars, fetchVars, tokens, tokenBals, txs>>
        \/ ShowBalances(f)
        \/ ShowSwaps(f)
        \/ FailSweep(f)

---------------------------------------------------------------------------

ListsInit ==
    /\ sweeps = {}
    /\ tokens = << >>
    /\ tokenBals = << >>
    /\ txs = << >>

\* The type of the lists.
ListsTypeOK ==
    /\ DOMAIN tokens \subseteq {ECY} \cup Token
    /\ DOMAIN tokenBals \subseteq Token \cup Pair
    /\ Len(txs) <= MaxTxs
===========================================================================
