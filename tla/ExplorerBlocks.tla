---------------------------- MODULE ExplorerBlocks ----------------------------
(***************************************************************************)
(* The block explorer's timers: the store that polls the newest block, the *)
(* strip of blocks on the uptime page, and the consensus page.             *)
(*                                                                         *)
(* Every few seconds a tick asks for the newest block, unless too many     *)
(* fetches are under way; a fetch may go on to ask for the blocks that     *)
(* were skipped, one after the other.  Fetches overlap and their answers   *)
(* arrive in any order.  The strip is filled from three sides: what the    *)
(* store had, what it loads backwards, and each new block.  The consensus  *)
(* page starts an interval after it has loaded, and again after each       *)
(* change of the endpoint.                                                 *)
(***************************************************************************)
EXTENDS Naturals, Sequences, SequencesExt

CONSTANTS
  MaxRequests,     \* 5 in the code: at this count a tick does nothing
  RecentLimit,     \* blocks the store keeps (50 in the code)
  StripLimit,      \* blocks the strip shows (50 in the code)
  MaxHeight,       \* bound: height of the chain and fetches that fail, together
  MaxVisits,       \* bound: visits of the uptime page
  MaxMoves         \* bound: actions of the user on the consensus page

ASSUME BlocksAssumption ==
  /\ MaxRequests \in Nat \ {0, 1} /\ RecentLimit \in Nat \ {0} /\ StripLimit \in Nat \ {0}
  /\ MaxHeight \in Nat \ {0} /\ MaxVisits \in Nat /\ MaxMoves \in Nat

VARIABLES
  top,             \* height of the chain
  base,            \* the store: the latest block's height, or 0, and the recent ones
  polling,         \* the fetches under way and the counter of requests
  strip,           \* the uptime page
  watch            \* the consensus page

blockVars == <<top, base, polling, strip, watch>>
-----------------------------------------------------------------------------
(* A fetch waits for the newest block, or, when all blocks are wanted, for  *)
(* the one at "next" below "until".  "counted" is false for the fetch of    *)
(* the start-up.                                                            *)
Fetch(counted) == [counted |-> counted, asked |-> top, next |-> 0, until |-> 0, got |-> <<>>]
StartFetch(counted, counter) ==
  polling' = [polling EXCEPT !.counter = counter, !.runs = Append(@, Fetch(counted)),
                             !.overlap = @ \/ polling.runs # <<>>]

(* One tick.  The count it takes when it does nothing is never given back;  *)
(* "skips" are those ticks, of the ones that found as many fetches and      *)
(* skips as are allowed, up to where more of them change nothing.           *)
Given == Cardinality({i \in DOMAIN polling.runs : polling.runs[i].counted})
Tick ==
  /\ IF polling.counter + 1 < MaxRequests THEN StartFetch(TRUE, polling.counter + 1)
     ELSE polling' = IF polling.counter = 2 * MaxRequests THEN polling
                     ELSE [polling EXCEPT !.counter = @ + 1,
                             !.skips = IF Given + @ + 1 >= MaxRequests THEN @ + 1 ELSE @]
  /\ UNCHANGED <<top, base, strip, watch>>

(* The start-up fetches too, and the block module empties the recent blocks.*)
initial ==
  /\ ~polling.started
  /\ base' = [base EXCEPT !.recents = <<>>]
  /\ polling' = [polling EXCEPT !.started = TRUE, !.runs = Append(@, Fetch(FALSE)),
                                !.overlap = @ \/ polling.runs # <<>>]
  /\ UNCHANGED <<top, strip, watch>>

Produce ==
  /\ top + polling.lost < MaxHeight /\ top' = top + 1
  /\ UNCHANGED <<base, polling, strip, watch>>

Lost == top + polling.lost < MaxHeight
LoseOne == [polling EXCEPT !.lost = @ + 1]
\* Mutant of WithoutRun: what a fetch took is not given back.
WithoutRunKept(p, i) == [p EXCEPT !.runs = RemoveAt(@, i)]
WithoutRun(p, i) ==
  [p EXCEPT !.runs = RemoveAt(@, i), !.counter = IF p.runs[i].counted THEN @ - 1 ELSE @]

LastOf(s, n) == SubSeq(s, IF Len(s) > n THEN Len(s) - n + 1 ELSE 1, Len(s))
\* Mutant of Kept: the blocks are not cut to the limit.
KeptAll(recents, new) == recents \o new
Kept(recents, new) == LastOf(recents \o new, RecentLimit)

(* The blocks to ask for before the newest: those since the last recent     *)
(* one, and none without a recent one.                                      *)
\* Mutant of Skipped: the last recent block is asked for again.
SkippedAgain(recents, latest) ==
  IF polling.fetchAll /\ recents # <<>> /\ Last(recents) < latest
  THEN <<Last(recents), latest>> ELSE <<>>
Skipped(recents, latest) ==
  IF polling.fetchAll /\ recents # <<>> /\ Last(recents) + 1 < latest
  THEN <<Last(recents) + 1, latest>> ELSE <<>>

(* What follows the newest block's answer, or its failure: it is added      *)
(* unless it is there, with those skipped, which are asked for first.       *)
Combine(p, i, latest, recents) ==
  \/ /\ latest \in ToSet(recents)
     /\ polling' = WithoutRun(p, i)
     /\ base' = [base EXCEPT !.latest = latest, !.recents = recents]
  \/ /\ latest \notin ToSet(recents) /\ Skipped(recents, latest) # <<>>
     /\ polling' = [p EXCEPT !.runs[i].next = Skipped(recents, latest)[1],
                             !.runs[i].until = Skipped(recents, latest)[2]]
     /\ base' = [base EXCEPT !.latest = latest, !.recents = recents]
  \/ /\ latest \notin ToSet(recents) /\ Skipped(recents, latest) = <<>>
     /\ polling' = WithoutRun(p, i)
     /\ base' = [base EXCEPT !.latest = latest,
                  !.recents = Kept(recents, IF latest = 0 THEN <<>> ELSE <<latest>>)]

(* Another chain than the earliest block's empties the recent blocks: so    *)
(* does the first answer.                                                   *)
RecentsBefore == IF base.latest = 0 THEN <<>> ELSE base.recents
-----------------------------------------------------------------------------
(* The strip on the uptime page.  A block's colour is added if the          *)
(* validators are known; at the limit the first one goes, also when the new *)
(* one was put before it.                                                   *)
PutAtEnd(blocks, h) ==
  IF ~strip.known THEN blocks ELSE LastOf(Append(blocks, h), StripLimit)
PutAtStart(blocks, h) ==
  IF ~strip.known THEN blocks ELSE LastOf(<<h>> \o blocks, StripLimit)

(* The blocks the strip loads, backwards from the one it takes for the last *)
(* that the store does not have.                                            *)
preFill(latest, recents) ==
  IF latest > StripLimit /\ Len(recents) >= StripLimit - 1 THEN <<>>
  ELSE LET first == latest - Len(recents)
           oldest == IF latest > StripLimit THEN latest - StripLimit + 1 ELSE 2
       IN [n \in 1..first - oldest + 1 |-> first - n + 1]

(* The store has changed: a newer block is put at the end, and the first    *)
(* one the page hears of starts the loading.                                *)
Noticed(latest, recents) ==
  IF ~strip.open \/ latest <= strip.latest THEN strip
  ELSE [strip EXCEPT !.latest = latest, !.preload = TRUE, !.blocks = PutAtEnd(@, latest),
                     !.fills = IF strip.preload THEN @ ELSE preFill(latest, recents)]

AnswerLatest(i) ==
  /\ polling.runs[i].next = 0
  /\ \E h \in polling.runs[i].asked..top :
       /\ Combine(polling, i, h, RecentsBefore)
       /\ strip' = Noticed(h, RecentsBefore)
  /\ UNCHANGED <<top, watch>>

FailLatest(i) ==
  /\ polling.runs[i].next = 0 /\ Lost
  /\ Combine(LoseOne, i, base.latest, base.recents)
  /\ strip' = Noticed(base.latest, base.recents)
  /\ UNCHANGED <<top, watch>>

(* A skipped block is in, or not found; after the last one the newest of    *)
(* now follows them.                                                        *)
AnswerBlock(i) ==
  /\ polling.runs[i].next # 0
  /\ \E found \in {TRUE} \cup (IF Lost THEN {FALSE} ELSE {}) :
       LET p == IF found THEN polling ELSE LoseOne
           r == polling.runs[i]
           got == IF found THEN Append(r.got, r.next) ELSE r.got
       IN IF r.next + 1 < r.until
          THEN /\ polling' = [p EXCEPT !.runs[i].next = @ + 1, !.runs[i].got = got]
               /\ UNCHANGED base
          ELSE /\ polling' = WithoutRun(p, i)
               /\ base' = [base EXCEPT !.recents = Kept(@, Append(got, base.latest))]
  /\ UNCHANGED <<top, strip, watch>>

(* The uptime page is opened: the recent blocks are put at the start, one   *)
(* after the other.                                                         *)
OpenStrip ==
  /\ ~strip.open /\ strip.opens < MaxVisits
  /\ strip' = [strip EXCEPT !.open = TRUE, !.opens = @ + 1, !.latest = 0, !.preload = FALSE,
                 !.fills = <<>>, !.blocks = IF strip.known THEN LastOf(Reverse(base.recents), StripLimit) ELSE <<>>,
                 !.inherited = base.recents # <<>>]
  /\ UNCHANGED <<top, base, polling, watch>>

(* The strip's next block arrives, while the page lives.  One too old by    *)
(* now ends the loading, and so does one that failed if there is a          *)
(* validator to colour.                                                     *)
FillBlock ==
  /\ strip.fills # <<>>
  /\ \E found \in {TRUE} \cup (IF Lost THEN {FALSE} ELSE {}) :
       LET rest == Tail(strip.fills)
           stop == (~found /\ strip.known) \/ (rest # <<>> /\ Head(rest) + StripLimit <= strip.latest)
       IN /\ strip' = [strip EXCEPT !.fills = IF stop THEN <<>> ELSE rest,
                         !.blocks = IF found THEN PutAtStart(@, Head(strip.fills)) ELSE @]
          /\ polling' = IF found THEN polling ELSE LoseOne
  /\ UNCHANGED <<top, base, watch>>

LeaveStrip ==
  /\ strip.open
  /\ strip' = [strip EXCEPT !.open = FALSE, !.fills = <<>>, !.blocks = <<>>]
  /\ UNCHANGED <<top, base, polling, watch>>

ValidatorsKnown ==
  /\ ~strip.known /\ strip' = [strip EXCEPT !.known = TRUE]
  /\ UNCHANGED <<top, base, polling, watch>>
-----------------------------------------------------------------------------
(* The consensus page.  "loads" are its waits, in order: for the validators *)
(* when it is opened, then for the positions.  "running" are the intervals  *)
(* that run; "timer" is the one it can stop, or 0.  "hurried" counts the    *)
(* changes and the leaving while a wait is under way; once there is one,    *)
(* the page is followed to its end and not opened again.                    *)
Move == watch.moves < MaxMoves
\* Mutant of clearTime: the interval is forgotten before it is stopped.
clearTimeUnset(w) == [w EXCEPT !.timer = 0]
clearTime(w) == [w EXCEPT !.running = @ \ {w.timer}, !.timer = 0]
setInterval(w) == [w EXCEPT !.timer = w.timers + 1, !.timers = @ + 1, !.running = @ \cup {w.timers + 1}]
(* Asks for the round if the last answer was good.                          *)
update(w) == [w EXCEPT !.asking = IF w.status = 200 /\ @ < 2 THEN @ + 1 ELSE @]

OpenWatch ==
  /\ Move /\ ~watch.open /\ watch.hurried = 0
  /\ watch' = [watch EXCEPT !.open = TRUE, !.moves = @ + 1, !.loads = <<"validators">>,
                            !.status = 200, !.asking = 0]
  /\ UNCHANGED <<top, base, polling, strip>>

(* The endpoint is changed.                                                 *)
onChange ==
  /\ Move /\ watch.open
  /\ watch' = [clearTime(watch) EXCEPT !.moves = @ + 1, !.status = 200, !.loads = Append(@, "change"),
                                       !.hurried = IF watch.loads # <<>> THEN @ + 1 ELSE @]
  /\ UNCHANGED <<top, base, polling, strip>>

LeaveWatch ==
  /\ watch.open
  /\ watch' = [clearTime(watch) EXCEPT !.open = FALSE, !.hurried = IF watch.loads # <<>> THEN @ + 1 ELSE @]
  /\ UNCHANGED <<top, base, polling, strip>>

(* The validators arrive, or fail, which ends the opening; the positions    *)
(* arrive or fail, and the interval is started either way, after the one    *)
(* before was stopped, but for a change.                                    *)
AnswerLoad(i) ==
  /\ \E good \in BOOLEAN :
       LET w == [watch EXCEPT !.loads = RemoveAt(@, i)]
           told == [w EXCEPT !.status = IF good THEN 200 ELSE 500]
       IN watch' = CASE watch.loads[i] = "validators" ->
                          IF good THEN [w EXCEPT !.loads = Append(@, "opening")] ELSE w
                     [] watch.loads[i] = "opening" -> setInterval(clearTime(update(told)))
                     [] watch.loads[i] = "change" -> setInterval(update(told))
  /\ UNCHANGED <<top, base, polling, strip>>

TickWatch ==
  /\ watch.running # {} /\ watch' = update(watch)
  /\ UNCHANGED <<top, base, polling, strip>>

AnswerRound ==
  /\ watch.asking > 0
  /\ \E status \in {200, 500} : watch' = [watch EXCEPT !.asking = @ - 1, !.status = status]
  /\ UNCHANGED <<top, base, polling, strip>>
-----------------------------------------------------------------------------
BlocksInit ==
  /\ top = 1
  /\ base = [latest |-> 0, recents |-> <<>>]
  /\ \E all, started \in BOOLEAN :
       polling = [fetchAll |-> all, counter |-> 0, skips |-> 0, runs |-> <<>>, started |-> started,
                  overlap |-> FALSE, lost |-> 0]
  /\ strip = [open |-> FALSE, known |-> FALSE, latest |-> 0, preload |-> FALSE, blocks |-> <<>>,
              fills |-> <<>>, inherited |-> FALSE, opens |-> 0]
  /\ watch = [open |-> FALSE, loads |-> <<>>, status |-> 200, timer |-> 0, timers |-> 0,
              running |-> {}, asking |-> 0, hurried |-> 0, moves |-> 0]

AnswerPoll == \E i \in DOMAIN polling.runs : AnswerLatest(i) \/ AnswerBlock(i)
PollStep == Tick \/ initial \/ Produce \/ AnswerPoll \/ \E i \in DOMAIN polling.runs : FailLatest(i)
StripStep == OpenStrip \/ FillBlock \/ LeaveStrip \/ ValidatorsKnown
WatchStep ==
  OpenWatch \/ onChange \/ LeaveWatch \/ TickWatch \/ AnswerRound
  \/ \E i \in DOMAIN watch.loads : AnswerLoad(i)

BlocksTypeOK ==
  /\ top \in 1..MaxHeight
  /\ base.latest \in 0..MaxHeight /\ Len(base.recents) <= RecentLimit
  /\ ToSet(base.recents) \subseteq 1..MaxHeight
  /\ polling.counter \in 0..2 * MaxRequests /\ Len(polling.runs) <= MaxRequests
  /\ Len(strip.blocks) <= StripLimit /\ ToSet(strip.blocks) \subseteq 1..MaxHeight
  /\ watch.running \subseteq 1..MaxMoves
=============================================================================
