------------------------------ MODULE Explorer ------------------------------
(***************************************************************************)
(* The block explorer (ping-explorer): its pages with the stores and the   *)
(* requests they share, and its timers.                                    *)
(*                                                                         *)
(* A page shows what it asked for once everything is answered, whatever    *)
(* the order of the answers, except where the code loses track: those      *)
(* cases are the members of "excuse", each at the place where it happens.  *)
(* A behaviour is about one kind of page, or about one kind of timer.      *)
(***************************************************************************)
EXTENDS ExplorerPages, ExplorerBlocks

vars == <<requestVars, storeVars, pageVars, blockVars>>

Timers == {"blocks", "uptime", "consensus"}

(* Only the polling is looked at with a store that asks for skipped blocks, *)
(* and from the start-up on.                                                *)
Init == PageInit /\ BlocksInit /\ (kind # "blocks" => ~polling.fetchAll /\ polling.started)

Polls == kind \in {"blocks", "uptime"}
BlocksStep ==
  /\ \/ Polls /\ PollStep
     \/ kind = "uptime" /\ StripStep
     \/ kind = "consensus" /\ WatchStep
  /\ UNCHANGED <<requestVars, storeVars, pageVars>>
PagesStep == kind \notin Timers /\ PageStep /\ UNCHANGED blockVars

Next == PagesStep \/ BlocksStep

(* The interval ticks for as long as the explorer runs, and the browser     *)
(* ends every request; the chain grows and the user acts, or not.           *)
Polling == WF_vars(Polls /\ Tick /\ UNCHANGED <<requestVars, storeVars, pageVars>>)
             /\ WF_vars(Polls /\ AnswerPoll /\ UNCHANGED <<requestVars, storeVars, pageVars>>)
Spec == Init /\ [][Next]_vars /\ Polling

TypeOK == PageTypeOK /\ BlocksTypeOK
-----------------------------------------------------------------------------
(* What a page must have when all answers are in: what every way to open it *)
(* asks for, and what always follows.                                       *)
Common(alternatives) == {c \in Calls : \A calls \in alternatives : c \in ToSet(calls)}
Forced == [k \in Kinds |->
  LET asked == IF k = "startUp" THEN ToSet(FirstWave) ELSE Common(Table[k].setUp)
  IN asked \cup {d \in Calls : \E c \in asked \cap DOMAIN Then[k] : d \in Common(Then[k][c])}]
Woken == [k \in Kinds |-> IF Table[k].wake = {} THEN {} ELSE Common(Table[k].wake)]
MustShow ==
  Forced[kind] \cup (IF page.wakes > 0 THEN Woken[kind] ELSE {})
    \cup (IF kind = "ibc" /\ page.subject # NoOne THEN ToSet(ibcConnection) ELSE {})
    \cup (IF kind = "accounts" THEN {"bonds"} ELSE {})
    \cup (IF kind = "portfolio" /\ local # <<>> THEN {"prices"} ELSE {})

SlotsOf(call) ==
  CASE Whose[call] \in {"each", "next"} -> {Slot(call, x) : x \in ToSet(local)}
    [] Whose[call] = "wallet" /\ wallet = NoOne -> {}
    [] OTHER -> {Slot(call, NoOne)}
Expected(slot) ==
  CASE slot[1] \in Keyed -> slot[2]
    [] Whose[slot[1]] = "route" -> page.subject
    [] Whose[slot[1]] = "wallet" -> wallet
    [] Whose[slot[1]] = "pick" -> page.picked
    [] OTHER -> NoOne

(* The list under tab t is the part its bar marks, of the tab chosen.       *)
MarkIsTrue(t) ==
  LET s == <<This.list[t], NoOne>>
      part == IF This.typed THEN page.tab ELSE 1
  IN s \in DOMAIN shown /\ ~shown[s].late =>
       IF This.lag = 0 THEN shown[s].sel = <<part, page.bar[Pager(t)] - 1>> ELSE shown[s].sel[1] = part

(* When the last answer is in, an open page has everything it asks for,     *)
(* everything on it is about what the route, the wallet or the choice       *)
(* names now, and each list is the page its bar marks: the promise chains   *)
(* of the pages and stores, whose answers come in any order, after the page *)
(* was left, opened again or woken by a store.  Only what an answer that    *)
(* came after a newer one was written to may be otherwise, and only until   *)
(* the next answer for it.  Not held to their bars are the lists of codes   *)
(* and of contracts, whose client drops the page, and, but for the tab, the *)
(* packets of a connection.                                                 *)
PageTellsTheTruth ==
  Quiet /\ page.open /\ excuse = {} =>
    /\ \A c \in MustShow : SlotsOf(c) \subseteq DOMAIN shown
    /\ \A s \in DOMAIN shown : ~shown[s].late => shown[s].about = Expected(s)
    /\ \A t \in (IF This.own THEN 1..This.tabs ELSE {page.tab}) \cap DOMAIN This.list : MarkIsTrue(t)

Ascending(s) == \A i \in 1..Len(s) - 1 : s[i] < s[i + 1]

(* The recent blocks never hold a block twice, unless skipped blocks are    *)
(* asked for by two fetches at once; without overlapping fetches they are   *)
(* in order, and then, if skipped blocks are asked for and found, without a *)
(* gap, also when the start-up empties them in between.                     *)
RecentsInOrder ==
  LET r == base.recents IN
  /\ ~(polling.fetchAll /\ polling.overlap) => IsInjective(r)
  /\ ~polling.overlap => Ascending(r)
  /\ ~polling.overlap /\ polling.fetchAll /\ polling.lost = 0 =>
       \A i \in 1..Len(r) - 1 : r[i + 1] = r[i] + 1

(* A strip that begins with nothing is in the order of the chain, however   *)
(* late the blocks before it arrive and whatever the store hears first.     *)
StripInOrder ==
  strip.open /\ ~strip.inherited =>
    \A i \in 1..Len(strip.blocks) - 1 : strip.blocks[i] <= strip.blocks[i + 1]

(* The blocks are in order in the store and on the uptime page: fetchLatest *)
(* and fetchNewBlocks, which read the recent blocks before and after they   *)
(* wait, and fillblock, which puts a block at either end of the strip.      *)
BlocksInOrder == RecentsInOrder /\ StripInOrder

(* The newest block shown is again and again the chain's newest, whatever   *)
(* failed or came late, or so many ticks found too many fetches under way   *)
(* that the count they never give back stops the polling for ever: the      *)
(* interval and counter of main.ts.                                         *)
PollingGoesOn ==
  []<>(Polls => base.latest = top) \/ <>(polling.skips >= MaxRequests - 1)

(* Each change of the endpoint and each leaving while the consensus page    *)
(* still waits for something leaves at most one interval running that       *)
(* nobody can stop, and nothing else leaves any: the timer variable that    *)
(* onMounted, onChange and onUnmounted share, which onChange clears before  *)
(* it waits and sets afterwards without clearing it again.                  *)
NoTimerLeftBehind ==
  Cardinality(watch.running \ (IF watch.open THEN {watch.timer} ELSE {})) <= watch.hurried
=============================================================================
