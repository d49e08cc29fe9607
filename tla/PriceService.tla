---------------------------- MODULE PriceService ----------------------------
(***************************************************************************)
(* The price service of the exchange's indexer, for one pair, and what the *)
(* API answers from its tables.  Every thirty seconds a run computes the   *)
(* pair's statistics and then, interval by interval, the candles; the      *)
(* timer does not wait for the run before.  Swaps are stored meanwhile,    *)
(* with the times of their blocks: after a poll that failed the indexer    *)
(* stores a swap late or once more, and so do polls that overlap.          *)
(*                                                                         *)
(* A candle is computed from the rows later than the start of the last     *)
(* candle: that one is computed anew, but without a row at its very start. *)
(* The rows are read in the order of their times, and those of one time in *)
(* any order.  The price is taken from the amounts that came out, so that  *)
(* it is 0 for every swap of which one side came out only.                 *)
(***************************************************************************)
EXTENDS Integers, Sequences, FiniteSets, FiniteSetsExt, Functions

CONSTANTS
    CandleLengths,      \* the intervals, in the order in which a run takes them
    Day,                \* the time the statistics look back
    RowAmounts,         \* what goes in and comes out in a swap: [in0, in1, out0, out1]
    MaxTime,            \* bound: the time
    MaxStored,          \* bound: the rows of swaps
    MaxRuns             \* bound: the runs under way

ASSUME PriceAssumption ==
    /\ CandleLengths \in Seq(Nat \ {0})
    /\ Day \in Nat /\ MaxTime \in Nat /\ MaxStored \in Nat /\ MaxRuns \in Nat

VARIABLES
    now,                \* the time
    stored,             \* the rows of swaps, in the order in which they were stored
    ohlcv,              \* the candles: <<interval, start>> -> candle
    pairStats,          \* the pair's volume and count of the last day
    runs,               \* the runs under way
    overlapped          \* history: did a run begin before another had ended?

priceVars == <<now, stored, ohlcv, pairStats, runs, overlapped>>

---------------------------------------------------------------------------
(* Computing *)

price(s) == IF s.amounts.out1 > 0 THEN s.amounts.out0 \div s.amounts.out1 ELSE 0

\* The volume of a swap in a candle, and in the statistics.
volume(s) == Max({s.amounts.out0, s.amounts.out1})
turnover(s) == Max({s.amounts.in0 + s.amounts.out0, s.amounts.in1 + s.amounts.out1})

Bucket(t, length) == (t \div length) * length

\* The candles some rows may give; like the answer of a query, the rows are a
\* function on their places.  The first of them is any of the earliest time, the
\* last any of the latest.
CandlesOf(swaps) ==
    LET places == DOMAIN swaps
        prices == {price(swaps[i]) : i \in places}
        ends == {e \in places \X places :
                    /\ \A i \in places : /\ swaps[e[1]].time <= swaps[i].time
                                         /\ swaps[i].time <= swaps[e[2]].time
                    /\ e[1] = e[2] => places = {e[1]}}
    IN {[open |-> price(swaps[e[1]]), high |-> Max(prices), low |-> Min(prices),
         close |-> price(swaps[e[2]]),
         volume |-> MapThenSumSet(LAMBDA i : volume(swaps[i]), places)] : e \in ends}

\* The places of the rows of a candle's time.
InBucket(b, length) == {i \in DOMAIN stored : Bucket(stored[i].time, length) = b}

\* Mutant of Since: the candle that is not complete yet is not computed anew.
SinceEndOfLast(length) ==
    LET starts == {k[2] : k \in {x \in DOMAIN ohlcv : x[1] = length}}
    IN IF starts = {} THEN -1 ELSE Max(starts) + length - 1

\* The start of the last candle; every swap is later than the epoch.
Since(length) ==
    LET starts == {k[2] : k \in {x \in DOMAIN ohlcv : x[1] = length}}
    IN IF starts = {} THEN -1 ELSE Max(starts)

\* What a run may make of the rows since the last candle.
NewCandles(length) ==
    LET new == {i \in DOMAIN stored : stored[i].time > Since(length)}
        starts == {Bucket(stored[i].time, length) : i \in new}
        candles(b) == CandlesOf(Restrict(stored, InBucket(b, length) \cap new))
    IN {f \in [starts -> UNION {candles(b) : b \in starts}] :
            \A b \in starts : f[b] \in candles(b)}

Put(key, candle) ==
    ohlcv' = [k \in DOMAIN ohlcv \cup {key} |-> IF k = key THEN candle ELSE ohlcv[k]]

---------------------------------------------------------------------------
(* The runs *)

NoCandles == << >>

\* The timer.
BeginRun ==
    /\ Cardinality(runs) < MaxRuns
    /\ LET free == (1..MaxRuns) \ {r.id : r \in runs}
       IN runs' = runs \cup {[id |-> Min(free), next |-> 0, upserts |-> NoCandles]}
    /\ overlapped' = (overlapped \/ runs # {})
    /\ UNCHANGED <<now, stored, ohlcv, pairStats>>

ToRun(r, s) == runs' = (runs \ {r}) \cup {s}

updatePairStats(r) ==
    /\ r.next = 0
    /\ LET recent == {i \in DOMAIN stored : stored[i].time >= now - Day}
       IN pairStats' = [volume24h |-> MapThenSumSet(LAMBDA i : turnover(stored[i]), recent),
                        txCount |-> Cardinality(recent)]
    /\ ToRun(r, [r EXCEPT !.next = 1])
    /\ UNCHANGED <<now, stored, ohlcv, overlapped>>

\* generateOHLCV reads the last candle and the swaps since it...
ReadSwaps(r) ==
    /\ r.next \in 1..Len(CandleLengths) /\ r.upserts = NoCandles
    /\ \E candles \in NewCandles(CandleLengths[r.next]) :
          ToRun(r, IF candles = NoCandles THEN [r EXCEPT !.next = @ + 1] ELSE [r EXCEPT !.upserts = candles])
    /\ UNCHANGED <<now, stored, ohlcv, pairStats, overlapped>>

\* ... and writes the candles one after the other.
Upsert(r) ==
    /\ r.upserts # NoCandles
    /\ LET b == Min(DOMAIN r.upserts)
           left == Restrict(r.upserts, DOMAIN r.upserts \ {b})
       IN /\ Put(<<CandleLengths[r.next], b>>, r.upserts[b])
          /\ ToRun(r, [r EXCEPT !.upserts = left, !.next = IF left = NoCandles THEN @ + 1 ELSE @])
    /\ UNCHANGED <<now, stored, pairStats, overlapped>>

EndRun(r) ==
    /\ r.next > Len(CandleLengths)
    /\ runs' = runs \ {r}
    /\ UNCHANGED <<now, stored, ohlcv, pairStats, overlapped>>

\* A statement that fails ends the process, since nobody catches it, and
\* with it every run; the tables stay.
ProcessFails ==
    /\ runs # {}
    /\ runs' = {}
    /\ UNCHANGED <<now, stored, ohlcv, pairStats, overlapped>>

\* The indexer stores a swap with the time of its block, which may be long past;
\* the swap may have been stored before.
StoreSwap ==
    /\ Len(stored) < MaxStored
    /\ \E t \in 0..now, s \in RowAmounts : stored' = Append(stored, [time |-> t, amounts |-> s])
    /\ UNCHANGED <<now, ohlcv, pairStats, runs, overlapped>>

TimePasses ==
    /\ now < MaxTime
    /\ now' = now + 1
    /\ UNCHANGED <<stored, ohlcv, pairStats, runs, overlapped>>

PriceInit ==
    /\ now = 0
    /\ stored = << >>
    /\ ohlcv = << >>
    /\ pairStats = [volume24h |-> 0, txCount |-> 0]
    /\ runs = {}
    /\ overlapped = FALSE

PriceStep ==
    \/ BeginRun \/ ProcessFails \/ StoreSwap \/ TimePasses
    \/ \E r \in runs : updatePairStats(r) \/ ReadSwaps(r) \/ Upsert(r) \/ EndRun(r)

PriceTypeOK ==
    /\ now \in 0..MaxTime
    /\ Len(stored) <= MaxStored
    /\ \A k \in DOMAIN ohlcv : k[1] \in Range(CandleLengths) /\ k[2] % k[1] = 0
    /\ Cardinality(runs) <= MaxRuns

---------------------------------------------------------------------------
(* Properties *)

\* The rows a candle counts: of those later than its start the first m that were
\* stored, of those at its start the first n.
Counted(k, n, m) ==
    {i \in InBucket(k[2], k[1]) : i <= IF stored[i].time > k[2] THEN m ELSE n}

\* A candle always counts rows of its own time, each as often as it is stored,
\* and of those later than its start all up to some row.  Once a later candle
\* exists, that row is not earlier than the first one of a later time: what is
\* missed are rows at the very start and rows that were stored late, after a row
\* of a later time.  That nothing else is missed is not so once two runs have
\* overlapped (PriceService.ts:43-100, the swaps of EventIndexer.ts:131-149).
CandlesExact ==
    \A k \in DOMAIN ohlcv :
        \E n, m \in 0..Len(stored) :
            /\ Counted(k, n, m) # {}
            /\ ohlcv[k] \in CandlesOf(Restrict(stored, Counted(k, n, m)))
            /\ ~overlapped /\ (\E j \in DOMAIN ohlcv : j[1] = k[1] /\ k[2] < j[2]) =>
                 \A i \in DOMAIN stored :
                    (\A h \in 1..i : Bucket(stored[h].time, k[1]) <= k[2]) => i <= m
===========================================================================
