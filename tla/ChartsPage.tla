----------------------------- MODULE ChartsPage -----------------------------
(***************************************************************************)
(* The page with the chart of ECY against USDT.  Every ten seconds, and at *)
(* the button, it reads the pair's reserves and its swaps of the last      *)
(* blocks, whether or not the reads before have ended; whichever ends last *)
(* is shown.  A block is the unit of time.                                 *)
(***************************************************************************)
EXTENDS WagmiHooks

CONSTANTS
    ChartBlocks,        \* 10000: how far back the page looks
    Intervals,          \* the lengths of the candles
    MaxReads,           \* bound: the reads of each kind under way
    MaxReadFaults       \* bound: the reads that fail

ASSUME ChartsAssumption ==
    /\ ChartBlocks \in Nat /\ MaxReads \in Nat /\ MaxReadFaults \in Nat
    /\ Intervals \subseteq Nat \ {0} /\ Intervals # {}

VARIABLES
    pairAddr,           \* has the page the address of the pair?
    tradeReads,         \* the reads of the swaps under way
    reserveReads,       \* the reads of the reserves under way
    trades,             \* the trades shown
    reserves,           \* the reserves shown
    interval,           \* the length of a candle
    readFaults          \* how many reads have failed

chartVars == <<pairAddr, tradeReads, reserveReads, trades, reserves, interval, readFaults>>

ChartPair == {USDT, WECY}

\* The reads of one kind: a read has a slot of its own until it ends.
Slot == 1..MaxReads
Free == [stage |-> "free"]
FreeSlots(reads) == {n \in Slot : reads[n] = Free}
Begin(reads) == [reads EXCEPT ![Min(FreeSlots(reads))] = [stage |-> "begun"]]

BeginReads ==
    /\ tradeReads' = Begin(tradeReads)
    /\ reserveReads' = Begin(reserveReads)

KnowPair ==
    /\ ~pairAddr /\ Exists(chain, ChartPair)
    /\ pairAddr' = TRUE
    /\ BeginReads
    /\ UNCHANGED <<hookVars, trades, reserves, interval, readFaults>>

\* Mutant of Tick: the page only reads again when no trade is shown.
TickUntilShown ==
    /\ pairAddr /\ trades = << >>
    /\ FreeSlots(tradeReads) # {} /\ FreeSlots(reserveReads) # {}
    /\ BeginReads
    /\ UNCHANGED <<hookVars, pairAddr, trades, reserves, interval, readFaults>>

\* The timer, or the button.
Tick ==
    /\ pairAddr
    /\ FreeSlots(tradeReads) # {} /\ FreeSlots(reserveReads) # {}
    /\ BeginReads
    /\ UNCHANGED <<hookVars, pairAddr, trades, reserves, interval, readFaults>>

---------------------------------------------------------------------------
(* The reserves and the price *)

SetReserveRead(n, r) == reserveReads' = [reserveReads EXCEPT ![n] = r]

fetchReserves(n) ==
    /\ \/ /\ reserveReads[n].stage = "begun"
          /\ SetReserveRead(n, [stage |-> "read", reserve |-> chain.reserve[ChartPair]])
          /\ UNCHANGED <<reserves, readFaults>>
       \/ /\ reserveReads[n].stage = "read"
          /\ SetReserveRead(n, Free)
          /\ reserves' = reserveReads[n].reserve
          /\ UNCHANGED readFaults
       \/ /\ reserveReads[n] # Free /\ readFaults < MaxReadFaults
          /\ SetReserveRead(n, Free)
          /\ readFaults' = readFaults + 1
          /\ UNCHANGED reserves
    /\ UNCHANGED <<hookVars, pairAddr, tradeReads, trades, interval>>

---------------------------------------------------------------------------
(* The trades *)

\* USDT that goes in for ECY is a purchase, everything else a sale; the time
\* is the block's, or the present when the block cannot be read.
TradeOf(w, time) ==
    LET buy == w.in[USDT] > 0 /\ w.out[WECY] > 0
    IN [side |-> IF buy THEN "Buy" ELSE "Sell",
        amountECY |-> IF buy THEN w.out[WECY] ELSE w.in[WECY],
        amountUSDT |-> IF buy THEN w.in[USDT] ELSE w.out[USDT],
        time |-> time]

\* The swaps of the blocks before the latest one that the read saw.
LogsUpTo(latest) ==
    LET recent(w) == w.pair = ChartPair /\ w.block < latest /\ w.block >= latest - ChartBlocks
    IN At(chain.swaps, {i \in 1..Len(chain.swaps) : recent(chain.swaps[i])})

\* Sorted by time; swaps whose block could not be read come last.
Records(logs, unread) ==
    LET known == At(logs, {i \in 1..Len(logs) : logs[i].block \notin unread})
        late == At(logs, {i \in 1..Len(logs) : logs[i].block \in unread})
    IN [i \in 1..Len(known) |-> TradeOf(known[i], known[i].block)]
       \o [i \in 1..Len(late) |-> TradeOf(late[i], chain.block)]

SetTradeRead(n, r) == tradeReads' = [tradeReads EXCEPT ![n] = r]

fetchTrades(n) ==
    LET r == tradeReads[n] IN
    /\ \/ /\ r.stage = "begun"
          /\ SetTradeRead(n, [stage |-> "latest", latest |-> chain.block])
          /\ UNCHANGED <<trades, readFaults>>
       \/ /\ r.stage = "latest"
          /\ SetTradeRead(n, [stage |-> "logs", logs |-> LogsUpTo(r.latest)])
          /\ UNCHANGED <<trades, readFaults>>
       \/ /\ r.stage = "logs"
          /\ SetTradeRead(n, Free)
          /\ \/ trades' = Records(r.logs, {}) /\ UNCHANGED readFaults
             \/ /\ readFaults < MaxReadFaults
                /\ readFaults' = readFaults + 1
                /\ \E w \in Range(r.logs) : trades' = Records(r.logs, {w.block})
       \/ /\ r # Free /\ readFaults < MaxReadFaults
          /\ SetTradeRead(n, Free)
          /\ readFaults' = readFaults + 1
          /\ UNCHANGED trades
    /\ UNCHANGED <<hookVars, pairAddr, reserveReads, reserves, interval>>

---------------------------------------------------------------------------
(* What is drawn *)

selectInterval ==
    /\ \E v \in Intervals \ {interval} : interval' = v
    /\ UNCHANGED <<hookVars, pairAddr, tradeReads, reserveReads, trades, reserves, readFaults>>

\* A candle for every stretch of time with a trade, prices as pairs of what
\* was paid and what was got.
Candles(ts, length) ==
    LET bucket(i) == ts[i].time \div length
        of(b) == {i \in 1..Len(ts) : bucket(i) = b}
        price(i) == <<ts[i].amountUSDT, ts[i].amountECY>>
    IN [b \in {bucket(i) : i \in 1..Len(ts)} |->
            [open |-> price(Min(of(b))), close |-> price(Max(of(b))),
             volume |-> MapThenSumSet(LAMBDA i : ts[i].amountUSDT, of(b))]]

\* The figures above the chart.
Stats(ts) ==
    [price |-> IF reserves[WECY] > 0 THEN <<reserves[USDT], reserves[WECY]>>
               ELSE IF ts # << >> THEN <<Last(ts).amountUSDT, Last(ts).amountECY>> ELSE <<0, 0>>,
     totalVol |-> MapThenSumSet(LAMBDA i : ts[i].amountUSDT, 1..Len(ts))]

ChartsInit ==
    /\ pairAddr = FALSE
    /\ tradeReads = [n \in Slot |-> Free]
    /\ reserveReads = [n \in Slot |-> Free]
    /\ trades = << >>
    /\ reserves = [t \in ChartPair |-> 0]
    /\ interval = Min(Intervals)
    /\ readFaults = 0

ChartsStep ==
    \/ KnowPair \/ Tick \/ selectInterval
    \/ \E n \in Slot : fetchReserves(n) \/ fetchTrades(n)

ChartsTypeOK ==
    /\ pairAddr \in BOOLEAN
    /\ \A n \in Slot : tradeReads[n].stage \in {"free", "begun", "latest", "logs"}
    /\ \A n \in Slot : reserveReads[n].stage \in {"free", "begun", "read"}
    /\ reserves \in [ChartPair -> Nat]
    /\ interval \in Intervals
    /\ Len(trades) <= Len(chain.swaps)

\* The chart shows every swap, each in a candle, and so much in total, and the
\* reserves that are the pair's.
ChartIsComplete ==
    LET all == SelectSeq(chain.swaps, LAMBDA w : w.pair = ChartPair)
        candles == Candles(trades, interval)
    IN /\ reserves = chain.reserve[ChartPair]
       /\ Len(trades) = Len(all)
       /\ Stats(trades).totalVol
            = MapThenSumSet(LAMBDA i : TradeOf(all[i], 0).amountUSDT, 1..Len(all))
       /\ MapThenSumSet(LAMBDA b : candles[b].volume, DOMAIN candles) = Stats(trades).totalVol
===========================================================================
