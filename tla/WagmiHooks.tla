----------------------------- MODULE WagmiHooks -----------------------------
(***************************************************************************)
(* What the pages of the exchange's front end stand on: the contracts, the *)
(* connected account, react-query's cache of what is read of the chain,    *)
(* and the hooks that send transactions through the user's wallet.         *)
(*                                                                         *)
(* wagmi, react-query and the wallet are libraries, modelled from how the  *)
(* pages use them.  An answer arrives whenever it does and stays until the *)
(* next one: the value shown may be old.  Data that is not shown any more  *)
(* is dropped at once, where react-query keeps it for some minutes.  A     *)
(* hook stands for the latest request it was given: a request goes to the  *)
(* wallet, where the user signs or rejects it, is mined, and the hook sees *)
(* the receipt; an earlier request of the hook goes on without it.         *)
(***************************************************************************)
EXTENDS DexContracts

CONSTANTS
    USDT,               \* the test token the pages offer
    Wallet,             \* the accounts of the user's wallet
    WriteHook,          \* useWriteContract of a page
    SendHook            \* useSendTransaction of a page

VARIABLES
    chain,              \* the contracts
    account,            \* the account that is connected, or Nobody
    answers,            \* what is read of the chain -> the latest answer
    hook,               \* hook -> the stage of its latest request
    wallet,             \* the requests that wait for the user
    outbox,             \* the transactions that are sent and not mined
    sends,              \* bound: the requests that may still come
    fills               \* history: the page's swaps that were executed

hookVars == <<chain, account, answers, hook, wallet, outbox, sends, fills>>
sendVars == <<hook, wallet, outbox, sends>>

Hook == {WriteHook, SendHook}

PageToken == {ECY, WECY, USDT}      \* TOKENS

\* The contract behind a token of the page.
getTokenAddr(t) == IF t = ECY THEN WECY ELSE t

Idle == [stage |-> "idle", id |-> 0]

busy(h) == hook[h].stage # "idle"

---------------------------------------------------------------------------
(* Reading *)

BalanceOf(asset, a) == [kind |-> "balance", asset |-> asset, of |-> a]
AllowanceOf(asset, a) == [kind |-> "allowance", asset |-> asset, of |-> a]
AmountsOut(amount, path) == [kind |-> "quote", amount |-> amount, path |-> path]

ValueNow(k) ==
    CASE k.kind = "balance" -> chain.bal[k.asset][k.of]
      [] k.kind = "allowance" -> chain.allow[k.asset][k.of]
      [] k.kind = "quote" -> Last(getAmountsOut(chain, k.amount, k.path))

Known(k) == k \in DOMAIN answers

Shown(k, default) == IF Known(k) THEN answers[k] ELSE default

AtLeast(allowance, amount) == allowance = Unlimited \/ allowance >= amount

\* The members of a list at some places, in their order.
At(list, places) ==
    [n \in 1..Cardinality(places) |-> list[CHOOSE i \in places : Cardinality({j \in places : j <= i}) = n]]

\* An answer for what a page shows.  An answer that says what is shown
\* already is no step.
Answer(watched) ==
    /\ \E k \in watched :
        /\ Shown(k, -1) # ValueNow(k)
        /\ answers' = [x \in DOMAIN answers \cup {k} |-> IF x = k THEN ValueNow(k) ELSE answers[x]]
    /\ UNCHANGED <<chain, account, sendVars, fills>>

\* The answers that are kept when a page shows something else.
Keep(watched) == answers' = Restrict(answers, DOMAIN answers \cap watched)

---------------------------------------------------------------------------
(* Sending *)

\* A page calls a hook's write.  Without an account it is an error.  What
\* was shown goes along as history.
Write(h, c, shown) ==
    IF account = Nobody
    THEN UNCHANGED sendVars
    ELSE /\ sends > 0
         /\ sends' = sends - 1
         /\ wallet' = wallet \cup {[id |-> sends, hook |-> h, from |-> account, call |-> c,
                                    shown |-> shown]}
         /\ hook' = [hook EXCEPT ![h] = [stage |-> "signing", id |-> sends]]
         /\ UNCHANGED outbox

NothingShown == [quote |-> 0, slippage |-> 0]

SetStage(r, stage) ==
    hook' = IF hook[r.hook].id = r.id THEN [hook EXCEPT ![r.hook].stage = stage] ELSE hook

UserSigns ==
    \E r \in wallet :
        /\ wallet' = wallet \ {r}
        /\ outbox' = Append(outbox, r)
        /\ SetStage(r, "confirming")
        /\ UNCHANGED <<chain, account, answers, sends, fills>>

UserRejects ==
    \E r \in wallet :
        /\ wallet' = wallet \ {r}
        /\ SetStage(r, "idle")
        /\ UNCHANGED <<chain, account, answers, outbox, sends, fills>>

\* A transaction whose account sent none before it.
Mine ==
    \E i \in 1..Len(outbox) :
        LET r == outbox[i] IN
        /\ \A j \in 1..(i - 1) : outbox[j].from # r.from
        /\ outbox' = SubSeq(outbox, 1, i - 1) \o SubSeq(outbox, i + 1, Len(outbox))
        /\ \E e \in Executed(chain, r.from, r.call) :
            /\ chain' = e.chain
            /\ SetStage(r, IF e.ok THEN "mined" ELSE "reverted")
            /\ fills' = IF r.call.fn \in Swaps /\ e.ok
                        THEN fills \cup {[shown |-> r.shown,
                                          got |-> Last(e.chain.swaps).out[Last(r.call.path)]]}
                        ELSE fills
        /\ UNCHANGED <<account, answers, wallet, sends>>

\* The hook has the receipt; at a transaction that reverted the pages do
\* nothing, at one that succeeded they act.
Receipt(h, stage) == hook[h].stage = stage /\ hook' = [hook EXCEPT ![h] = Idle]

SeeRevert(h) ==
    /\ Receipt(h, "reverted")
    /\ UNCHANGED <<chain, account, answers, wallet, outbox, sends, fills>>

\* The user connects, switches or disconnects.
SwitchTo(a) == a # account /\ account' = a

WalletStep == UserSigns \/ UserRejects \/ Mine \/ \E h \in Hook : SeeRevert(h)

HooksInit ==
    /\ account \in Wallet \cup {Nobody}
    /\ answers = << >>
    /\ hook = [h \in Hook |-> Idle]
    /\ wallet = {}
    /\ outbox = << >>
    /\ fills = {}

\* The requests that may still be executed.
Pending == wallet \cup {outbox[i] : i \in 1..Len(outbox)}

---------------------------------------------------------------------------

Stages == {"idle", "signing", "confirming", "mined", "reverted"}

\* The type of the contracts and of the hooks.
HooksTypeOK ==
    /\ chain.bal \in [Asset -> [Holder -> Nat]]
    /\ chain.allow \in [Token \cup Pair -> [Account -> Nat]]
    /\ \A p \in Pair : chain.reserve[p] \in [p -> Nat]
    /\ chain.supply \in [Pair -> Nat]
    /\ \A i \in 1..Len(chain.allPairs) : chain.allPairs[i] \in Pair
    /\ account \in Wallet \cup {Nobody}
    /\ \A k \in DOMAIN answers : answers[k] \in Nat
    /\ hook \in [Hook -> [stage : Stages, id : Nat]]
    /\ \A r \in Pending : r.hook \in Hook /\ r.from \in Wallet
===========================================================================
