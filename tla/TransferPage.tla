---------------------------- MODULE TransferPage ----------------------------
(***************************************************************************)
(* The page that sends ECY or a token to somebody, with one hook for each  *)
(* of the two, and shows the address to receive with.                      *)
(***************************************************************************)
EXTENDS WagmiHooks

CONSTANTS
    TransferAmounts,    \* the amounts that are typed
    Recipients,         \* the recipients that are typed, NoAddress among them
    NoAddress           \* a text that is no address

ASSUME TransferAssumption == TransferAmounts \subseteq Nat /\ NoAddress \in Recipients

VARIABLES
    transferForm,       \* the tab, the token, the amount and the recipient
    copied              \* does the button say that the address was copied?

transferVars == <<transferForm, copied>>

TransferKeys(f) == IF account = Nobody THEN {} ELSE {BalanceOf(f.token, account)}

SetForm(f) ==
    /\ f # transferForm
    /\ transferForm' = f
    /\ Keep(TransferKeys(f))
    /\ UNCHANGED <<chain, account, sendVars, fills, copied>>

\* The tabs only hide what is typed.
SetTab == \E t \in {"send", "receive"} : SetForm([transferForm EXCEPT !.tab = t])

Sending == transferForm.tab = "send" /\ account # Nobody

TypeTransfer ==
    /\ Sending
    /\ \/ \E v \in TransferAmounts \cup {0} : SetForm([transferForm EXCEPT !.amount = v])
       \/ \E r \in Recipients : SetForm([transferForm EXCEPT !.recipient = r])
       \/ \E t \in PageToken : SetForm([transferForm EXCEPT !.token = t])
       \/ /\ Known(BalanceOf(transferForm.token, account))
          /\ SetForm([transferForm EXCEPT !.amount = answers[BalanceOf(transferForm.token, account)]])

\* Whether the balance suffices is left to the wallet.
handleSend ==
    /\ Sending /\ ~busy(SendHook) /\ ~busy(WriteHook)
    /\ transferForm.recipient # NoAddress /\ transferForm.amount > 0
    /\ Write(IF transferForm.token = ECY THEN SendHook ELSE WriteHook,
             [fn |-> "transfer", asset |-> transferForm.token, to |-> transferForm.recipient,
              amount |-> transferForm.amount], NothingShown)
    /\ UNCHANGED <<chain, account, answers, fills, transferVars>>

\* The effect of a success resets both hooks.
TransferConfirmed ==
    /\ \E h \in {SendHook, WriteHook} : hook[h].stage = "mined"
    /\ hook' = [hook EXCEPT ![SendHook] = Idle, ![WriteHook] = Idle]
    /\ transferForm' = [transferForm EXCEPT !.amount = 0, !.recipient = NoAddress]
    /\ UNCHANGED <<chain, account, answers, wallet, outbox, sends, fills, copied>>

\* The address is copied; two seconds later the button says so no more.
copyAddress ==
    /\ transferForm.tab = "receive" /\ account # Nobody /\ ~copied
    /\ copied' = TRUE
    /\ UNCHANGED <<hookVars, transferForm>>

CopiedEnds ==
    /\ copied
    /\ copied' = FALSE
    /\ UNCHANGED <<hookVars, transferForm>>

TransferInit ==
    /\ transferForm = [tab |-> "send", token |-> ECY, amount |-> 0, recipient |-> NoAddress]
    /\ copied = FALSE

TransferStep ==
    \/ Answer(TransferKeys(transferForm)) /\ UNCHANGED transferVars
    \/ SetTab \/ TypeTransfer \/ handleSend \/ TransferConfirmed \/ copyAddress \/ CopiedEnds

TransferTypeOK ==
    /\ transferForm \in [tab : {"send", "receive"}, token : PageToken, amount : Nat, recipient : Recipients]
    /\ copied \in BOOLEAN
===========================================================================
