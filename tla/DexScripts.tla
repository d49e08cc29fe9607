----------------------------- MODULE DexScripts -----------------------------
(***************************************************************************)
(* The scripts that fill the exchange, try it out and keep it trading.     *)
(* Each sends its transactions one after the other with the deployer's     *)
(* key and waits for the receipt; one that reverts ends the script, except *)
(* where the script catches it.  Other accounts trade meanwhile.  One      *)
(* script runs at a time: two of them would share nonces and allowances.   *)
(***************************************************************************)
EXTENDS WagmiHooks

CONSTANTS
    Deployer,           \* the first signer
    Dev0,               \* the account that is given something to try with
    GET,                \* the token test_all_dex creates
    Sum,                \* the amounts of the scripts: a name -> an amount
    BotAmounts,         \* what the bot draws at random
    NoCall              \* nothing was sent

VARIABLES
    script,             \* the script that runs
    pc,                 \* the step it has come to, 0 when it has ended
    scriptTx,           \* the call it waits for
    lpBalance           \* the pool tokens it has read

scriptVars == <<script, pc, scriptTx, lpBalance>>

Scripts == {"add_liquidity", "test_swap", "fund_dev0", "simulate_trades", "test_all_dex"}

MainPair == {USDT, WECY}

Approve(asset, v) == [fn |-> "approve", asset |-> asset, amount |-> v]

\* The whole of both amounts is the minimum.
AddETH(t, v, ecy) ==
    LET amounts == [x \in {t, WECY} |-> IF x = t THEN v ELSE ecy]
    IN [fn |-> "addLiquidityETH", a |-> t, b |-> WECY, desired |-> amounts, min |-> amounts,
        to |-> Deployer]

\* Every swap of a script takes whatever it gets.
SwapAll(fn, v, path) ==
    [fn |-> fn, exact |-> "in", amount |-> v, limit |-> 0, path |-> path, to |-> Deployer]

Send(asset, to, v) == [fn |-> "transfer", asset |-> asset, to |-> to, amount |-> v]

AddLiquidityScript ==
    <<Approve(USDT, Sum["usdt"]),
      AddETH(USDT, Sum["usdt"], Sum["ecy"]),
      SwapAll("swapETHForTokens", Sum["swap"], <<WECY, USDT>>)>>

\* When the first swap fails the same is tried with wrapped ECY.
TestSwapScript ==
    <<SwapAll("swapETHForTokens", Sum["swap"], <<WECY, USDT>>),
      [fn |-> "deposit", amount |-> Sum["swap"]],
      Approve(WECY, Sum["swap"]),
      SwapAll("swapTokensForTokens", Sum["swap"], <<WECY, USDT>>)>>

FundDev0Script ==
    <<Send(ECY, Dev0, Sum["ecy"]), Send(USDT, Dev0, Sum["usdt"])>>

\* A tenth of what is there.
RemovedPart(lp) == lp \div Sum["part"]

TestAllDexScript ==
    <<[fn |-> "deposit", amount |-> Sum["swap"]],
      [fn |-> "withdraw", amount |-> Sum["swap"] \div 2],
      [fn |-> "createToken", asset |-> GET, amount |-> Sum["supply"]],
      Approve(GET, Sum["usdt"]),
      AddETH(GET, Sum["usdt"], Sum["ecy"]),
      SwapAll("swapETHForTokens", Sum["swap"], <<WECY, GET>>),
      Approve(GET, Sum["swap"]),
      SwapAll("swapTokensForETH", Sum["swap"], <<GET, WECY>>),
      Approve(USDT, Sum["swap"]),
      SwapAll("swapTokensForTokens", Sum["swap"], <<USDT, WECY, GET>>),
      Approve(MainPair, RemovedPart(lpBalance)),
      [fn |-> "removeLiquidityETH", pair |-> MainPair, amount |-> RemovedPart(lpBalance),
       min |-> [t \in MainPair |-> 0], to |-> Deployer],
      Send(GET, Dev0, Sum["swap"])>>

\* The bot approves without a limit, and then buys and sells for ever.
BotCalls ==
    UNION {{SwapAll("swapTokensForETH", v, <<USDT, WECY>>),
            SwapAll("swapETHForTokens", v, <<WECY, USDT>>)} : v \in BotAmounts}

Steps ==
    CASE script = "add_liquidity" -> AddLiquidityScript
      [] script = "test_swap" -> TestSwapScript
      [] script = "fund_dev0" -> FundDev0Script
      [] script = "test_all_dex" -> TestAllDexScript
      [] script = "simulate_trades" -> <<Approve(USDT, Unlimited)>>

\* What the script may send next.
Calls == IF pc \in 1..Len(Steps) THEN {Steps[pc]} ELSE BotCalls

\* Before a swap a script asks for the quote, which reverts without
\* reserves; the bot catches that, as it catches a swap that reverts.
QuoteReverts(c) ==
    c.fn \in Swaps /\ \E i \in 1..(Len(c.path) - 1) : reserveOf(chain, c.path[i], c.path[i + 1]) = 0

Caught == script = "simulate_trades" /\ pc > Len(Steps)

\* test_swap asks for the quote once, at its beginning.
AsksForQuote == ~(script = "test_swap" /\ pc > 1)

\* The script sends, or ends since the quote reverts.  test_all_dex reads
\* its pool tokens before it approves them.  Only the bot's calls count as
\* sends, which bounds them.
SendStep ==
    /\ pc # 0 /\ scriptTx = NoCall
    /\ IF Caught THEN sends > 0 /\ sends' = sends - 1 ELSE UNCHANGED sends
    /\ IF script = "test_all_dex" /\ pc = 11 /\ lpBalance = -1
       THEN /\ lpBalance' = chain.bal[MainPair][Deployer]
            /\ UNCHANGED <<pc, scriptTx>>
       ELSE /\ \E c \in Calls :
                IF AsksForQuote /\ QuoteReverts(c)
                THEN /\ pc' = IF Caught THEN pc ELSE 0
                     /\ UNCHANGED scriptTx
                ELSE /\ scriptTx' = c
                     /\ UNCHANGED pc
            /\ UNCHANGED lpBalance
    /\ UNCHANGED <<chain, account, answers, hook, wallet, outbox, fills, script>>

\* Where the script goes on.
After(ok) ==
    CASE script = "simulate_trades" -> IF pc = 1 THEN (IF ok THEN 2 ELSE 0) ELSE pc
      [] script = "test_swap" /\ pc = 1 -> IF ok THEN 0 ELSE 2
      [] ~(script = "simulate_trades") /\ ~(script = "test_swap" /\ pc = 1) ->
            IF ok /\ pc < Len(Steps) THEN pc + 1 ELSE 0

MineStep ==
    /\ scriptTx # NoCall
    /\ \E e \in Executed(chain, Deployer, scriptTx) : chain' = e.chain /\ pc' = After(e.ok)
    /\ scriptTx' = NoCall
    /\ UNCHANGED <<account, answers, sendVars, fills, script, lpBalance>>

ScriptInit ==
    /\ script \in Scripts
    /\ pc = 1
    /\ scriptTx = NoCall
    /\ lpBalance = -1

ScriptStep == SendStep \/ MineStep

ScriptTypeOK ==
    /\ script \in Scripts
    /\ pc \in Nat
    /\ lpBalance \in Int
===========================================================================
