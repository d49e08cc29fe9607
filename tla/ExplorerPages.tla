---------------------------- MODULE ExplorerPages ----------------------------
(***************************************************************************)
(* The pages of the block explorer.                                        *)
(*                                                                         *)
(* A page differs from another by what it asks for when it is opened, what *)
(* it asks for next when an answer is in, and what its tabs, bars, lists   *)
(* and buttons ask for.  Each has a table here that says so, over the      *)
(* defaults of Plain; the actions are common to all.  "kind" names the     *)
(* page a behaviour is about.                                              *)
(*                                                                         *)
(* setUp   what opening asks for; each member is one possibility           *)
(* then    what an answer makes the page ask for, likewise                 *)
(* resets  slots emptied when the page is opened or woken                  *)
(* refresh what the dialog's function asks for, "dialog" whether one of    *)
(*         the page's dialogs is opened without a function                 *)
(* tabs    how many, "asks" whether choosing one asks for its first page,  *)
(*         "typed" whether the tab is part of the query                    *)
(* turn    tab |-> what turning its page asks for, list |-> what it shows  *)
(* own     whether every tab has a bar of its own, "lag" by how much the   *)
(*         page asked for is behind the one marked on the bar              *)
(* pick    what picking an entry asks for, "clears" what it empties first  *)
(* press   what the page's button asks for                                 *)
(* wake    what a change of a store the page subscribes to asks for        *)
(***************************************************************************)
EXTENDS ExplorerStores

CONSTANTS
  Kinds,           \* the kinds of page the behaviours are about
  MaxOpens,        \* bound, per kind: how often the page is opened
  MaxClicks,       \* bound, per kind: clicks in one behaviour
  MaxFails,        \* bound, per kind: requests that fail in one behaviour
  MaxPage          \* bound: pages a bar has

VARIABLES
  kind,            \* which page
  page             \* its state

pageVars == <<kind, page>>

Plain == [routes |-> FALSE, picked |-> FALSE, setUp |-> {<<>>}, then |-> <<>>, resets |-> {},
  refresh |-> <<>>, dialog |-> FALSE, tabs |-> 1, asks |-> FALSE, typed |-> FALSE,
  turn |-> <<>>, list |-> <<>>, own |-> FALSE, lag |-> 0, pick |-> <<>>, clears |-> {},
  press |-> {}, wake |-> {}, wakes |-> 0]

(* One validator.  The events have two tabs and one bar, whose mark a       *)
(* change of tab does not move.                                             *)
validatorEvents == [tabs |-> 2, asks |-> TRUE, typed |-> TRUE,
  turn |-> <<"events", "events">>, list |-> <<"events", "events">>]
validator == [routes |-> TRUE,
  setUp |-> {<<"selfBonded", "sent", "events", "validator", "outstanding", "commission">>},
  then |-> "validator" :> {<<>>, <<"avatar">>} @@ "outstanding" :> {<<>>, <<"denomTrace">>} @@
           "commission" :> {<<>>, <<"denomTrace">>},
  dialog |-> TRUE] @@ validatorEvents @@ Plain

(* One account, loaded again after a transaction from one of its dialogs.   *)
loadAccount == <<"account", "sent", "rewards", "delegations", "balances", "unbondings", "received">>
accountDialogs == [refresh |-> loadAccount]
accountPage == [routes |-> TRUE, setUp |-> {loadAccount}] @@ accountDialogs @@ Plain

(* The validators.  The active ones are the store's; avatars are asked for  *)
(* if they are there, and so is the change of power, once the store has two *)
(* blocks.                                                                  *)
stakingTabs == [tabs |-> 3, dialog |-> TRUE]
stakingPage == [setUp |-> {<<"unbondingSet", "inactiveSet", "slashing">>,
                           <<"unbondingSet", "inactiveSet", "slashing", "avatars">>},
  then |-> "powerBefore" :> {<<"powerNow">>}, wake |-> {<<>>, <<"powerBefore">>}, wakes |-> 1]
  @@ stakingTabs @@ Plain

(* The dashboard of the chain.  The first change of the blockchain store it *)
(* hears of loads everything once more; the dialogs of its wallet box load  *)
(* the wallet's part.                                                       *)
loadDashboard == <<"inflation", "communityPool">> \o WalletCalls \o <<"nodeInfo">>
walletBox == [refresh |-> WalletCalls]
dashboard == [setUp |-> {loadDashboard}, resets |-> {"communityPool"},
  wake |-> {loadDashboard}, wakes |-> 1] @@ walletBox @@ Plain

(* One proposal: the live tally while it is voted on, and the parameters it *)
(* would change or update.                                                  *)
proposalVotes == [turn |-> <<"votes">>, list |-> <<"votes">>]
proposalPage == [routes |-> TRUE, setUp |-> {<<"proposal", "deposits", "votes">>},
  then |-> "proposal" :> {<<>>, <<"liveTally">>, <<"changedParams">>, <<"currentParams">>,
                          <<"liveTally", "changedParams">>, <<"liveTally", "currentParams">>},
  dialog |-> TRUE] @@ proposalVotes @@ Plain

(* The proposals by status.  Without any in the first list the second is    *)
(* shown, and loaded twice.                                                 *)
noProposals == <<"gov3", "gov3", "gov4">>
onProposals == {<<"tallies", "voters", "gov3", "gov4">>, noProposals}
govPage == [setUp |-> {<<"gov2">>}, then |-> "gov2" :> onProposals @@ "leftGov2" :> onProposals,
  tabs |-> 3, turn |-> <<"turn2", "turn3", "turn4">>, list |-> <<"gov2", "gov3", "gov4">>] @@ Plain

(* The favourite validators of every chain, and the choice for one chain.   *)
customize == [picked |-> TRUE, setUp |-> {<<"signing">>}, pick |-> <<"choices">>,
  clears |-> {"choices"}] @@ Plain

txPage == [routes |-> TRUE, setUp |-> {<<"tx">>}] @@ Plain
accountList == [setUp |-> {<<"accounts">>}, turn |-> <<"accounts">>, list |-> <<"accounts">>] @@ Plain

(* The supply: the page is asked for only when the names are there.         *)
supplyList == [setUp |-> {<<"metadata">>}, then |-> "metadata" :> {<<"supplyPage">>},
  turn |-> <<"metadata">>, list |-> <<"supplyPage">>] @@ Plain

paramsPage == [setUp |-> {<<"head", "stakingParams", "slashingParams", "distParams", "govParams",
                            "nodeInfo">>},
  then |-> "stakingParams" :> {<<"totalSupply">>}] @@ Plain

(* A height to sync from, asked for whenever the chain has grown enough.    *)
stateSync == [setUp |-> {<<"nodeVersion">>}, wake |-> {<<"syncBlock">>}, wakes |-> 2] @@ Plain

(* The connections, with one of them opened inside.  Its bar asks for the   *)
(* page before the one marked, and for outgoing packets always.             *)
ibcConnection == <<"connection", "clientState", "channels">>
ibcChannels == [turn |-> <<"channelTxs", "channelTxs">>, list |-> <<"channelTxs", "channelTxs">>,
  pick |-> <<"channelTxs">>]
ibcPage == [setUp |-> {<<"connections", "ibcUrls">>}, tabs |-> 2, typed |-> TRUE, lag |-> 1,
  clears |-> {"channelTxs"}] @@ ibcChannels @@ Plain

(* The codes and the contracts of a code: their client drops the page.      *)
codesPage == [setUp |-> {<<"codes">>}, dialog |-> TRUE, turn |-> <<"codes">>] @@ Plain
contractsPage == [routes |-> TRUE, setUp |-> {<<"contracts">>}, dialog |-> TRUE,
  turn |-> <<"contracts">>, pick |-> <<"contractInfo">>] @@ Plain

(* One contract: two lists with a bar each, and its queries.                *)
contractTabs == [dialog |-> TRUE, tabs |-> 3, own |-> TRUE, pick |-> <<"result">>,
  turn |-> <<"contractState", "contractTxs">>, list |-> <<"contractState", "contractTxs">>]
contractPage == [routes |-> TRUE,
  setUp |-> {<<"info", "contractTxs", "queries", "funds", "contractState">>}] @@ contractTabs @@ Plain

(* Its verification, loaded when the chain's identifier is known.           *)
verificationPart == [routes |-> TRUE, press |-> {<<"verify">>},
  then |-> "verify" :> {<<>>, <<"schema", "sources">>},
  wake |-> {<<"verification", "schema", "sources">>}, wakes |-> 1] @@ Plain

(* The imported accounts, asked one by one, and all at once.                *)
accountsPage == [setUp |-> {<<"coins">>}] @@ Plain
portfolio == [setUp |-> {<<"holdings", "shares">>}, press |-> {<<"prices">>}] @@ Plain

(* The chain's configuration for a wallet: for the chain picked and, on the *)
(* second page, for the kind of wallet; the third asks only when one picks. *)
keplr == [picked |-> TRUE, setUp |-> {<<"config">>}, pick |-> <<"config">>] @@ Plain
suggest == [tabs |-> 2, asks |-> TRUE, typed |-> TRUE, list |-> <<"config", "config">>] @@ keplr
unisat == [setUp |-> {<<>>}] @@ keplr

(* A block, or the countdown to it.  Another block's route asks for it; the *)
(* countdown goes on to the block the page was opened for.                  *)
blockPage == [routes |-> TRUE, setUp |-> {<<>>, <<"targetBlock">>},
  wake |-> {<<"targetBlock">>}, wakes |-> 1] @@ Plain

(* Nothing but the stores: the start-up.                                    *)
startUp == Plain

Table == [k \in Kinds |->
  CASE k = "validator" -> validator [] k = "account" -> accountPage
    [] k = "staking" -> stakingPage [] k = "dashboard" -> dashboard
    [] k = "proposal" -> proposalPage [] k = "gov" -> govPage
    [] k = "customize" -> customize [] k = "tx" -> txPage
    [] k = "accountList" -> accountList [] k = "supply" -> supplyList
    [] k = "params" -> paramsPage [] k = "stateSync" -> stateSync
    [] k = "ibc" -> ibcPage [] k = "codes" -> codesPage
    [] k = "contracts" -> contractsPage [] k = "contract" -> contractPage
    [] k = "verification" -> verificationPart [] k = "accounts" -> accountsPage
    [] k = "portfolio" -> portfolio [] k = "keplr" -> keplr
    [] k = "suggest" -> suggest [] k = "unisat" -> unisat
    [] k = "block" -> blockPage [] OTHER -> startUp]

This == Table[kind]
ReadsWallet == {"dashboard", "gov"}
Reused == {"account", "tx", "block"}     \* another route does not replace the component
OneBar == [b \in 1..2 |-> 1]
NoOffset == [b \in 1..2 |-> 0]

Fresh(x, p) == [open |-> TRUE, subject |-> x, tab |-> 1, bar |-> OneBar, offset |-> NoOffset,
                picked |-> p, opens |-> page.opens + 1, clicks |-> page.clicks, wakes |-> 0]
Pager(t) == IF This.own /\ t = 2 THEN 2 ELSE 1
(* Where the page p stands when it asks.                                    *)
From(p) == [route |-> p.subject, wallet |-> wallet, pick |-> p.picked, local |-> local,
            sel |-> <<IF This.typed THEN p.tab ELSE 1, p.offset[Pager(p.tab)]>>]

(* The calls that follow an answer.                                         *)
Then == [k \in Kinds |-> Table[k].then @@ StoreThen]
After(call) ==
  CASE call = "startParams" /\ kind # "startUp" -> {<<"startGov2">>}   \* what its page shows
    [] call \in DOMAIN Then[kind] -> Then[kind][call]
    [] OTHER -> {<<>>}

(* The imported accounts are asked for their coins and then for what they   *)
(* have bonded, and the next account in either case; prices are asked for   *)
(* when no account's holdings are missing any more.                         *)
NextCoins(rest) ==
  IF rest = <<>> THEN <<>> ELSE <<Request("coins", Head(rest), From(page), Tail(rest))>>
Following(r, i, answered) ==
  CASE r.call = "coins" -> IF answered THEN <<Request("bonds", r.about, From(page), r.rest)>>
                           ELSE NextCoins(r.rest)
    [] r.call = "bonds" -> NextCoins(r.rest)
    [] r.call = "addedCoins" /\ answered -> <<Request("addedBonds", r.about, From(page), <<>>)>>
    [] r.call = "holdings" /\ \A j \in DOMAIN pending \ {i} : pending[j].call # "holdings"
         -> AskAll(<<"prices">>, From(page))
    [] OTHER -> <<>>
-----------------------------------------------------------------------------
(* A page is opened.  The contract page enters itself into the history; the *)
(* choices of the favourites page are the store's, if it has them.          *)
Open ==
  /\ ~page.open /\ page.opens < MaxOpens[kind]
  /\ \E x \in IF This.routes THEN Subjects ELSE {NoOne},
        p \in IF This.picked THEN Subjects ELSE {NoOne}, calls \in This.setUp :
       LET opened == Fresh(x, IF kind = "block" THEN x ELSE p) IN
       /\ page' = opened
       /\ pending' = pending \o AskAll(calls, From(opened))
       /\ local' = IF kind = "contract" THEN Visited(x) ELSE local
       /\ \E held \in IF kind = "customize" THEN BOOLEAN ELSE {FALSE} :
            shown' = IF held THEN <<"choices", NoOne>> :> [about |-> p, sel |-> Unpaged, late |-> FALSE] @@ shown
                     ELSE Without({s \in DOMAIN shown : s[1] \in This.resets})
  /\ UNCHANGED <<kind, wallet, callback, fails, excuse>>

(* A page is left: its answers are lost, those of the stores are not, and   *)
(* neither is what two pages do when theirs arrive.                         *)
Left(call) == CASE call = "gov2" -> "leftGov2" [] call = "connections" -> "leftConnections"
                [] OTHER -> call
Leave ==
  /\ page.open
  /\ LET kept == SelectSeq(pending, LAMBDA r : r.call \in StoreCalls \cup {"connections"})
     IN pending' = [i \in DOMAIN kept |-> [kept[i] EXCEPT !.call = Left(@)]]
  /\ shown' = Without({s \in DOMAIN shown : s[1] \notin StoreSlots})
  /\ page' = [Fresh(NoOne, NoOne) EXCEPT !.open = FALSE, !.opens = @ - 1]
  /\ callback' = (callback /\ ToSet(This.refresh) \subseteq StoreCalls)
  /\ UNCHANGED <<kind, wallet, local, fails, excuse>>

Click == page.open /\ page.clicks < MaxClicks[kind]
Clicked(p) == page' = [p EXCEPT !.clicks = @ + 1]
AskFrom(p, calls) == pending' = pending \o AskAll(calls, From(p))

(* The route changes and the component stays: a block is asked for, the     *)
(* other pages keep what they have.                                         *)
Search ==
  /\ Click /\ kind \in Reused
  /\ \E x \in Subjects \ {page.subject} : LET p == [page EXCEPT !.subject = x] IN
       /\ Clicked(p)
       /\ IF kind = "block" THEN AskFrom(p, <<"block">>) /\ UNCHANGED excuse
          ELSE UNCHANGED pending /\ excuse' = excuse \cup {"reused"}
  /\ UNCHANGED <<kind, storeVars, shown, fails>>

(* A tab is chosen.  If that asks for its first page, or if the tabs share  *)
(* one bar, the mark on the bar stays where it was.                         *)
changeTab ==
  /\ Click
  /\ \E t \in 1..This.tabs \ {page.tab} :
       LET p == [page EXCEPT !.tab = t, !.offset[1] = IF This.asks THEN 0 ELSE @] IN
       /\ Clicked(p)
       /\ IF This.asks THEN AskFrom(p, <<This.list[t]>>) ELSE UNCHANGED pending
  /\ excuse' = IF page.bar[1] # 1 /\ ~This.own THEN excuse \cup {"bar"} ELSE excuse
  /\ kind # "ibc"
  /\ UNCHANGED <<kind, storeVars, shown, fails>>

Emptied(slots) == Without({s \in DOMAIN shown : s[1] \in slots})
(* The offset for page n; a page below the first leaves it.                 *)
\* Mutant of setPage: pages are counted from 0.
setPageFromZero(offset, n) == IF n >= 1 THEN n ELSE offset
setPage(offset, n) == IF n >= 1 THEN n - 1 ELSE offset

(* The bar is there when the list is, and marks the page it was asked for.  *)
gotoPage ==
  /\ Click /\ page.tab \in DOMAIN This.turn
  /\ IsShown(IF page.tab \in DOMAIN This.list THEN This.list[page.tab] ELSE This.turn[page.tab])
  /\ \E n \in 1..MaxPage : LET b == Pager(page.tab)
                            p == [page EXCEPT !.bar[b] = n, !.offset[b] = setPage(@, n - This.lag),
                                    !.tab = IF This.lag = 0 THEN @ ELSE 1] IN
       /\ Clicked(p) /\ AskFrom(p, <<This.turn[page.tab]>>)
  /\ shown' = Emptied(This.clears)
  /\ UNCHANGED <<kind, storeVars, fails, excuse>>

(* An entry is picked: a chain, a contract, a query, a channel (with the    *)
(* direction, unless its packets are being loaded).                         *)
PickEntry ==
  /\ Click /\ This.pick # <<>>
  /\ kind = "contract" => page.tab = 3
  /\ kind = "ibc" => IsShown("channels") /\ ~IsPending("channelTxs")
  /\ \E x \in Subjects, t \in IF kind = "ibc" THEN 1..2 ELSE {page.tab} :
       LET p == [page EXCEPT !.picked = x, !.tab = t] IN
       /\ This.picked => x # page.picked
       /\ Clicked(p) /\ AskFrom(p, This.pick)
  /\ shown' = Emptied(This.clears)
  /\ UNCHANGED <<kind, storeVars, fails, excuse>>

Press ==
  /\ Click
  /\ \E calls \in This.press : AskFrom(page, calls)
  /\ Clicked(page) /\ UNCHANGED <<kind, storeVars, shown, fails, excuse>>

(* A dialog is opened with the page's function or without one, which clears *)
(* the one before; a confirmed transaction calls it, also after the page    *)
(* was left if it is a store's.                                             *)
OpenDialog ==
  /\ Click
  /\ \E f \in (IF This.refresh = <<>> THEN {} ELSE {TRUE}) \cup (IF This.dialog THEN {FALSE} ELSE {}) :
       callback' = f
  /\ Clicked(page) /\ UNCHANGED <<kind, wallet, local, requestVars>>

Confirmed ==
  /\ callback /\ page.clicks < MaxClicks[kind]
  /\ AskFrom(page, This.refresh)
  /\ Clicked(page) /\ UNCHANGED <<kind, storeVars, shown, fails, excuse>>

(* A store the page listens to changes.  A height to sync from is a new     *)
(* one.  The countdown has ended: if no block is shown its own is asked     *)
(* for, whatever the route says by now.                                     *)
Wake ==
  /\ page.open /\ page.wakes < This.wakes
  /\ kind = "block" => ~IsShown("block")
  /\ \E calls \in This.wake, x \in IF kind = "stateSync" THEN Subjects \ {page.picked} ELSE {page.picked} :
       LET p == [page EXCEPT !.wakes = @ + 1, !.picked = x] IN page' = p /\ AskFrom(p, calls)
  /\ shown' = Emptied(This.resets)
  /\ excuse' = IF kind = "block" /\ page.picked # page.subject THEN excuse \cup {"reused"} ELSE excuse
  /\ UNCHANGED <<kind, storeVars, fails>>

(* The favourites of the picked chain are saved, none of them if the        *)
(* choices are not there.                                                   *)
add ==
  /\ Click /\ kind = "customize"
  /\ IF <<"signing", page.picked>> \in DOMAIN shown THEN UNCHANGED pending
     ELSE AskFrom(page, <<"addedSigning">>)
  /\ local' = IF page.picked \in ToSet(local) THEN local ELSE Append(local, page.picked)
  /\ Clicked(page) /\ UNCHANGED <<kind, wallet, callback, shown, fails, excuse>>

(* An account is imported, or removed while it may still be asked for.      *)
addAddress ==
  /\ Click /\ kind = "accounts"
  /\ \E x \in Subjects \ ToSet(local) :
       local' = Append(local, x) /\ AskFrom([page EXCEPT !.picked = x], <<"addedCoins">>)
  /\ Clicked(page) /\ UNCHANGED <<kind, wallet, callback, shown, fails, excuse>>
removeAddress ==
  /\ Click /\ kind = "accounts"
  /\ \E x \in ToSet(local) : local' = SelectSeq(local, LAMBDA y : y # x)
  /\ Clicked(page) /\ UNCHANGED <<kind, wallet, callback, requestVars>>

(* The endpoint changes: the stores start over.                             *)
changeEndpoint ==
  /\ Click /\ kind = "startUp"
  /\ AskFrom(page, FirstWave)
  /\ shown' = Emptied(ToSet(FirstWave) \cup WalletSlots)
  /\ Clicked(page) /\ UNCHANGED <<kind, storeVars, fails, excuse>>

Connect == kind \in ReadsWallet /\ page.clicks < MaxClicks[kind] /\ setConnectedWallet(page.open)
             /\ Clicked(page) /\ UNCHANGED kind
Disconnect == kind \in ReadsWallet /\ page.clicks < MaxClicks[kind] /\ disconnect(page.open)
                /\ Clicked(page) /\ UNCHANGED kind

(* A connection is shown inside the connections page, by a click or because *)
(* the list has arrived: then it is the first, whatever is shown by then    *)
(* and whether or not the user is still on that page.                       *)
Inside == ToSet(ibcConnection) \cup {"channelTxs"}
Show(p, x, asked) ==
  LET q == [p EXCEPT !.subject = x, !.tab = 1, !.bar = OneBar, !.offset = NoOffset, !.picked = NoOne]
  IN /\ page' = q
     /\ pending' = SelectSeq(asked, LAMBDA r : r.call \notin Inside) \o AskAll(ibcConnection, From(q))
showConnection ==
  /\ Click /\ kind = "ibc"
  /\ \E x \in Subjects \ {page.subject} : Show([page EXCEPT !.clicks = @ + 1], x, pending)
  /\ shown' = Emptied(Inside)
  /\ UNCHANGED <<kind, storeVars, fails, excuse>>
ReplyConnections(i) ==
  /\ pending[i].call \in {"connections", "leftConnections"}
  /\ \E x \in Subjects \cup {NoOne} :
       LET rest == Others(i)
           list == IF pending[i].call = "connections" THEN Write(shown, pending[i]) ELSE shown
       IN IF x \in {NoOne, page.subject} THEN pending' = rest /\ shown' = list /\ UNCHANGED page
          ELSE IF page.open
          THEN Show(page, x, rest) /\ shown' = [s \in {t \in DOMAIN list : t[1] \notin Inside} |-> list[s]]
          ELSE /\ page.opens < MaxOpens[kind]
               /\ Show(Fresh(x, NoOne), x, rest \o AskAll(<<"connections", "ibcUrls">>, From(page)))
               /\ shown' = list
  /\ UNCHANGED <<kind, storeVars, fails, excuse>>

(* An answer arrives.  What it wipes may have been a page's.                *)
Excuses(r, calls) ==
  {e \in {"recounted", "wiped", "bar"} :
     \/ e = "recounted" /\ r.call = "unbondings" /\ IsShown("unbondings")  \* added to the total again
     \/ e = "wiped" /\ r.call = "startParams" /\ \E s \in DOMAIN shown : s[1] \in GovSlots
     \/ e = "bar" /\ "gov3" \in ToSet(calls) /\ page.bar[1] # 1}
Reply(i) ==
  /\ pending[i].call \notin {"connections", "leftConnections"}
  /\ \E calls \in After(pending[i].call) :
       LET r == pending[i]
           old == ResetBy(r.call) \cap {"tallies", "voters"}
       IN /\ pending' = SelectSeq(Others(i), LAMBDA q : q.call \notin old)
                         \o AskAll(calls, From(page)) \o Following(r, i, TRUE)
          /\ shown' = Write(Emptied(ResetBy(r.call)), r)
          /\ excuse' = excuse \cup Excuses(r, calls)
          /\ page' = IF r.call = "gov2" /\ calls = noProposals THEN [page EXCEPT !.tab = 2] ELSE page
  /\ UNCHANGED <<kind, storeVars, fails>>

Fail(i) ==
  /\ fails < MaxFails[kind] /\ fails' = fails + 1
  /\ LET r == pending[i] IN
     /\ pending' = RemoveAt(pending, i) \o Following(r, i, FALSE) \o
          (IF r.call \in DOMAIN FailThen THEN AskAll(FailThen[r.call], From(page)) ELSE <<>>)
     /\ shown' = IF r.call \in FailShown THEN Write(shown, r) ELSE shown
     /\ excuse' = excuse \cup
          (IF r.call \in FailShown \cup DOMAIN FailThen THEN {} ELSE {"failed"})
  /\ UNCHANGED <<kind, storeVars, page>>

(* A behaviour is followed until something is excused: what is shown from   *)
(* then on nobody claims to be right.                                       *)
PageStep ==
  /\ excuse = {}
  /\ \/ Open \/ Leave \/ Search \/ changeTab \/ gotoPage \/ PickEntry \/ Press \/ OpenDialog
     \/ Confirmed \/ Wake \/ add \/ addAddress \/ removeAddress \/ changeEndpoint
     \/ Connect \/ Disconnect \/ showConnection
     \/ \E i \in DOMAIN pending : Reply(i) \/ ReplyConnections(i) \/ Fail(i)

(* The first look at a page: the stores have been loaded, except for the    *)
(* proposals, or not at all on the page that shows the start-up.            *)
PageInit ==
  /\ kind \in Kinds
  /\ page = [open |-> FALSE, subject |-> NoOne, tab |-> 1, bar |-> OneBar, offset |-> NoOffset,
             picked |-> NoOne, opens |-> 0, clicks |-> 0, wakes |-> 0]
  /\ wallet \in IF kind \in ReadsWallet THEN Wallets \cup {NoOne} ELSE {NoOne}
  /\ callback = FALSE
  /\ local \in IF kind \in {"customize", "accounts", "portfolio"}
               THEN {<<>>} \cup {<<x>> : x \in Subjects} \cup {SetToSeq(Subjects)} ELSE {<<>>}
  /\ shown = <<>> /\ fails = 0 /\ excuse = {}
  /\ pending = LET calls == CASE kind = "startUp" -> FirstWave [] kind = "gov" -> <<"startParams">>
                               [] OTHER -> <<>>
               IN AskAll(calls, From(page))

PageTypeOK ==
  /\ RequestTypeOK /\ StoreTypeOK
  /\ kind \in Kinds
  /\ page.subject \in Subjects \cup {NoOne} /\ page.picked \in Subjects \cup {NoOne}
  /\ page.tab \in 1..Table[kind].tabs /\ page.bar \in [1..2 -> 1..MaxPage]
  /\ page.opens \in 0..MaxOpens[kind] /\ page.clicks \in 0..MaxClicks[kind] /\ fails \in 0..MaxFails[kind]
=============================================================================
