--------------------------- MODULE ExplorerStores ---------------------------
(***************************************************************************)
(* The stores of the block explorer (ping-explorer), which outlive its     *)
(* pages, and the requests that stores and pages send.                     *)
(*                                                                         *)
(* A method of a REST client sends one GET and returns a promise; the page *)
(* or the store that called it writes the answer to a field of its own,    *)
(* here a slot.  A request is identified by its call, that is by the       *)
(* method together with the place in the code that calls it; the tables    *)
(* say, per client, what each call puts into its URL.  Answers arrive in   *)
(* any order, also those for one slot, and a request may fail.  Nothing is *)
(* cancelled and nothing is sent again, unless the code says so.           *)
(*                                                                         *)
(* On start-up, and whenever the endpoint changes, the stores empty their  *)
(* fields and load them again, in two waves: the second waits for the      *)
(* staking parameters.  The wallet's address is kept by the browser; its   *)
(* fields are loaded by whoever asks for them, and not when the wallet     *)
(* changes.  The transaction dialog is one widget for all pages and        *)
(* remembers the function its last opener gave it.  A list of favourite    *)
(* validators, imported accounts or visited contracts is in the browser's  *)
(* storage.                                                                *)
(***************************************************************************)
EXTENDS Naturals, Sequences, SequencesExt

CONSTANTS
  Subjects,        \* addresses, hashes, names: what a route or a list names
  Wallets,         \* addresses a wallet connects with
  NoOne,           \* no parameter, no wallet, no subject
  HistoryLimit     \* contracts the browser remembers (10 in the code)

ASSUME RequestAssumption == NoOne \notin Subjects \cup Wallets

VARIABLES
  pending,         \* requests sent and not yet answered, in the order of sending
  shown,           \* slot |-> what it is about, which part, and whether it came late
  fails,           \* how many requests failed
  excuse,          \* why what is shown may differ from what was asked for
  wallet,          \* the address the wallet is connected with, or NoOne
  callback,        \* whether the dialog has a function to call
  local            \* the entries of the list in the browser's storage

requestVars == <<pending, shown, fails, excuse>>
storeVars == <<wallet, callback, local>>

(* What a call puts into its URL: nothing, what the route names, the        *)
(* wallet, what the user picked, each entry of a list kept in the browser,  *)
(* or the entries of that list one after the other.                         *)
Sends(what, calls) == [c \in calls |-> what]

AuthBankDistribution ==
  Sends("route", {"account", "balances", "rewards", "commission", "outstanding", "funds"}) @@
  Sends("wallet", {"walletBalances", "walletRewards"}) @@
  Sends("none", {"accounts", "metadata", "supplyPage", "supply", "supplyAgain", "totalSupply",
                 "distParams", "taxParams", "communityPool"}) @@
  Sends("next", {"coins"}) @@ Sends("pick", {"addedCoins"}) @@ Sends("each", {"holdings"})

SlashingGov ==
  Sends("none", {"slashing", "slashingParams", "changedParams", "currentParams", "govParams", "startGov2", "gov2",
                 "leftGov2", "gov3", "gov4", "turn2", "turn3", "turn4", "tallies"}) @@
  Sends("route", {"proposal", "deposits", "liveTally", "votes"}) @@
  Sends("wallet", {"voters"}) @@
  Sends("each", {"signing"}) @@ Sends("pick", {"addedSigning"})

StakingModule ==
  Sends("route", {"delegations", "unbondings", "validator", "selfBonded"}) @@
  Sends("wallet", {"walletDelegations", "walletUnbondings"}) @@
  Sends("none", {"startParams", "stakingParams", "pool", "validators", "unbondingSet",
                 "inactiveSet"}) @@
  Sends("next", {"bonds"}) @@ Sends("pick", {"addedBonds", "choices"}) @@ Sends("each", {"shares"})

NodeAndTx ==
  Sends("none", {"head", "nodeInfo", "nodeVersion", "powerBefore", "powerNow"}) @@
  Sends("route", {"block", "sent", "received", "events", "contractTxs", "tx"}) @@
  Sends("pick", {"config", "targetBlock", "syncBlock", "channelTxs"})

MintAndIBC ==
  Sends("none", {"inflation", "startInflation", "denomTrace", "connections", "leftConnections"}) @@
  Sends("route", {"connection", "clientState", "channels"})

WasmClient ==
  Sends("none", {"codes"}) @@ Sends("route", {"contracts", "info", "queries", "contractState"}) @@
  Sends("pick", {"contractInfo", "result"})

(* Requests that do not go to the chain: keybase, the chain registry, the   *)
(* verification service, the price service.                                 *)
Elsewhere ==
  Sends("none", {"avatars", "ibcUrls", "ibcData", "prices"}) @@
  Sends("route", {"avatar", "verification", "schema", "sources", "verify"})

Whose == AuthBankDistribution @@ SlashingGov @@ StakingModule @@ NodeAndTx @@ MintAndIBC
           @@ WasmClient @@ Elsewhere
Calls == DOMAIN Whose

(* The slot a call writes: of several calls for one field the common name,  *)
(* and a key where the field is a map.                                      *)
SameSlot ==
  "startGov2" :> "gov2" @@ "leftGov2" :> "gov2" @@ "turn2" :> "gov2" @@ "turn3" :> "gov3" @@
  "turn4" :> "gov4" @@ "startInflation" :> "inflation" @@ "supplyAgain" :> "supply" @@
  "addedCoins" :> "coins" @@ "addedBonds" :> "bonds" @@ "addedSigning" :> "signing" @@
  "targetBlock" :> "block" @@ "leftConnections" :> "connections" @@
  "changedParams" :> "currentParams"
SlotName == SameSlot @@ [c \in Calls |-> c]
Keyed == {"coins", "bonds", "holdings", "shares", "signing"}
Slot(call, x) == <<SlotName[call], IF SlotName[call] \in Keyed THEN x ELSE NoOne>>

(* Calls whose query has a page, and the part every other answer is: the    *)
(* first tab's first page.                                                  *)
Paged == {"accounts", "supplyPage", "votes", "turn2", "turn3", "turn4", "events", "contractTxs",
          "contractState", "channelTxs", "config"}
Unpaged == <<1, 0>>

(* One GET.  "at" is where the caller stands: the route, the wallet, what   *)
(* is picked, the list in the browser, and the part asked for.              *)
Request(call, x, at, rest) ==
  [call |-> call, slot |-> Slot(call, x), about |-> x,
   sel |-> IF call \in Paged THEN at.sel ELSE Unpaged, rest |-> rest, late |-> FALSE]

(* What the call sends from there; without a wallet nothing about a wallet. *)
Requests(call, at) ==
  CASE Whose[call] = "each" -> [i \in DOMAIN at.local |-> Request(call, at.local[i], at, <<>>)]
    [] Whose[call] = "next" -> IF at.local = <<>> THEN <<>>
                               ELSE <<Request(call, Head(at.local), at, Tail(at.local))>>
    [] Whose[call] = "wallet" -> IF at.wallet = NoOne THEN <<>>
                                 ELSE <<Request(call, at.wallet, at, <<>>)>>
    [] Whose[call] = "route" -> <<Request(call, at.route, at, <<>>)>>
    [] Whose[call] = "pick" -> <<Request(call, at.pick, at, <<>>)>>
    [] OTHER -> <<Request(call, NoOne, at, <<>>)>>
AskAll(calls, at) == FlattenSeq([i \in DOMAIN calls |-> Requests(calls[i], at)])

(* The requests that remain when the i-th is answered: the older ones for   *)
(* its slot that asked for something else will be late, and what is shown   *)
(* then is so until the next answer for the slot.                           *)
Others(i) ==
  RemoveAt([j \in DOMAIN pending |->
    IF j < i /\ pending[j].slot = pending[i].slot
         /\ <<pending[j].about, pending[j].sel>> # <<pending[i].about, pending[i].sel>>
    THEN [pending[j] EXCEPT !.late = TRUE] ELSE pending[j]], i)

Without(slots) == [s \in DOMAIN shown \ slots |-> shown[s]]
Write(f, r) == (r.slot :> [about |-> r.about, sel |-> r.sel, late |-> r.late]) @@ f

Quiet == pending = <<>>
IsPending(name) == \E i \in DOMAIN pending : pending[i].slot[1] = name
IsShown(name) == \E s \in DOMAIN shown : s[1] = name

Slots == {<<SlotName[c], x>> : c \in Calls, x \in Subjects \cup {NoOne}}
Selections == (1..3) \X (0..2)
RequestTypeOK ==
  /\ \A i \in DOMAIN pending :
       /\ pending[i].call \in Calls /\ pending[i].slot \in Slots
       /\ pending[i].about \in Subjects \cup Wallets \cup {NoOne}
       /\ pending[i].sel \in Selections
  /\ DOMAIN shown \subseteq Slots
  /\ \A s \in DOMAIN shown : shown[s].about \in Subjects \cup Wallets \cup {NoOne}
-----------------------------------------------------------------------------
(* The two waves of the start-up.                                           *)
FirstWave == <<"pool", "validators", "startParams">>
SecondWave == <<"supply", "startGov2", "startInflation", "taxParams">>

WalletCalls == <<"walletBalances", "walletDelegations", "walletUnbondings", "walletRewards">>
GovSlots == {"gov2", "gov3", "gov4", "tallies", "voters"}
WalletSlots == ToSet(WalletCalls)

(* Answers that are written to a store: they arrive whatever page is open.  *)
StoreCalls ==
  ToSet(FirstWave) \cup ToSet(SecondWave) \cup WalletSlots \cup GovSlots \cup
  {"leftGov2", "turn2", "turn3", "turn4", "supplyAgain", "inflation", "communityPool", "nodeInfo",
   "head", "stakingParams", "slashingParams", "totalSupply", "distParams", "govParams",
   "ibcUrls", "ibcData", "leftConnections", "denomTrace"}
StoreSlots == {SlotName[c] : c \in StoreCalls \cap Calls}

(* Each list of proposals is asked for the tally and, with a wallet, for    *)
(* the wallet's vote on each of its proposals.                              *)
Proposals == {<<"tallies", "voters">>, <<>>}
StoreThen ==
  "startParams" :> {SecondWave} @@ "startGov2" :> Proposals @@ "turn2" :> Proposals @@
  "ibcUrls" :> {<<"ibcData">>}

(* When the parameters are there the bank and governance stores start over. *)
ResetBy(call) ==
  CASE call = "startParams" -> GovSlots \cup {"supply"}
    [] SlotName[call] = "gov2" -> {"tallies", "voters"}   \* they belong to the list replaced
    [] OTHER -> {}

(* What a failed request is replaced by, and failures that are shown as an  *)
(* answer.                                                                  *)
FailThen == "supply" :> <<"supplyAgain">>
FailShown == {"result", "voters"}

(* Connecting and disconnecting load nothing.  Disconnecting empties the    *)
(* wallet's fields; what was asked for it before still arrives.             *)
OfWallet == \E i \in DOMAIN pending : Whose[pending[i].call] = "wallet"
SetWallet(w, open) ==
  /\ wallet' = w
  /\ excuse' = IF open \/ OfWallet THEN excuse \cup {"wallet"} ELSE excuse

setConnectedWallet(open) ==
  /\ wallet = NoOne
  /\ \E w \in Wallets : SetWallet(w, open)
  /\ UNCHANGED <<pending, shown, fails, callback, local>>

disconnect(open) ==
  /\ wallet # NoOne
  /\ SetWallet(NoOne, open)
  /\ shown' = Without({s \in DOMAIN shown : s[1] \in WalletSlots})
  /\ UNCHANGED <<pending, fails, callback, local>>

(* The history of visited contracts: at its limit the oldest is dropped.    *)
Visited(x) ==
  IF x \in ToSet(local) THEN local
  ELSE IF Len(local) = HistoryLimit THEN Append(Tail(local), x) ELSE Append(local, x)

StoreTypeOK ==
  /\ wallet \in Wallets \cup {NoOne}
  /\ callback \in BOOLEAN
  /\ ToSet(local) \subseteq Subjects /\ Len(local) <= Cardinality(Subjects)
  /\ excuse \subseteq {"failed", "wallet", "bar", "reused", "wiped", "recounted"}
=============================================================================
