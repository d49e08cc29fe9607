------------------------------ MODULE MCDexApp ------------------------------
(***************************************************************************)
(* The instance of DexApp that TLC checks.                                 *)
(***************************************************************************)
EXTENDS DexApp

CONSTANTS deployer, alice, bob, wecy, usdt, get

MCAccount == {deployer, alice, bob}
MCToken == {wecy, usdt, get}

MCBalance0 ==
    [a \in {ECY} \cup MCToken |-> [h \in MCAccount |->
        IF a \in {ECY, usdt} THEN (IF h = deployer THEN 60 ELSE 12) ELSE 0]]

MCSum == [usdt |-> 12, ecy |-> 12, swap |-> 4, supply |-> 30, part |-> 10]

MCMaxTrades ==
    [p \in Programs |-> CASE p = "traders" -> 4
                          [] p = "scripts" -> 2
                          [] p \in {"swap", "charts", "farm", "tokens", "portfolio"} -> 1
                          [] OTHER -> 0]

MCMaxSends == [p \in Programs |-> IF p \in {"pool", "transfer"} THEN 1 ELSE 2]

MCMaxFetches ==
    [p \in Programs |-> IF p \in {"pool", "positions", "tokens", "portfolio"} THEN 1 ELSE 2]

MCMarket ==
    [p \in Programs |-> CASE p = "scripts" -> {"Buy", "Sell"} \X {2, 12}
                          [] p = "swap" -> {<<"Buy", 12>>}
                          [] OTHER -> {"Buy", "Sell"} \X {12}]

\* Rounded down, and rounded down once too often.
MCShareLeft == [s \in Slippages |-> IF s = 5 THEN 9 ELSE 7]

MCRowAmounts ==
    {[in0 |-> 3, in1 |-> 0, out0 |-> 0, out1 |-> 2], [in0 |-> 0, in1 |-> 2, out0 |-> 3, out1 |-> 1]}

MCCandleLengths == <<2>>
===========================================================================
