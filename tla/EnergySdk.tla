----------------------------- MODULE EnergySdk -----------------------------
(***************************************************************************)
(* The SDK sdk/lib/client.js in the hands of an exchange: it pays out with *)
(* sendECY and sendToken, some calls at once, and looks for deposits block *)
(* by block.  The look-ups of the SDK that only pass a request on are      *)
(* NextNonce, Len(executed) and the like of the node.                      *)
(*                                                                         *)
(* Addresses come from the node in mixed case; Lower gives the form the    *)
(* SDK compares with the watched ones.  The node answers with the block at *)
(* once, and for a transaction of it only after indexing the block.        *)
(***************************************************************************)
EXTENDS EthersSigner

CONSTANTS
    HotWallet,          \* the account the exchange pays from
    Lower,              \* address -> its lower-case form
    watchAddresses,     \* the addresses watched, as the exchange gives them
    MaxSends            \* bound: the payments made

ASSUME SdkAssumption == HotWallet \in Account /\ MaxSends \in Nat

VARIABLES
    indexed,        \* the last block whose transactions can be looked up
    scanned,        \* the last block scanned
    deposits,       \* the deposits reported
    payments,       \* the transactions of the payments that returned
    sends           \* the number of payments begun

sdkVars == <<calls, indexed, scanned, deposits, payments, sends>>

---------------------------------------------------------------------------
(* Payments *)

Payment(key, op, to) ==
    [from |-> key, nonce |-> 0, op |-> op, to |-> to, hashes |-> << >>,
     dataType |-> "general", item |-> 0]

Pay(c, key, op, to) ==
    /\ sends < MaxSends
    /\ sends' = sends + 1
    /\ Populate(c, Payment(key, op, to))
    /\ UNCHANGED <<indexed, scanned, deposits, payments>>

sendECY(c, key, to) == Pay(c, key, "transfer", to)

sendToken(c, key, to) == Pay(c, key, "token", to)

DeliverPayment(c) ==
    /\ Broadcast(c) \/ Receipt(c)
    /\ UNCHANGED <<indexed, scanned, deposits, payments, sends>>

\* The call returns the receipt or throws.
ReturnPayment(c) ==
    /\ calls[c].pc \in {"confirmed", "thrown"}
    /\ payments' = IF calls[c].pc = "confirmed" THEN payments \cup {calls[c].tx} ELSE payments
    /\ EndCall(c)
    /\ UNCHANGED <<nodeVars, faults, indexed, scanned, deposits, sends>>

---------------------------------------------------------------------------
(* Deposits *)

Deposit(b, type) == [block |-> b, type |-> type, from |-> executed[b].tx.from,
                     to |-> executed[b].tx.to]

\* Every transaction of the block to a watched address that can be looked
\* up; whether it succeeded is not asked.
scanBlockForDeposits(b) ==
    IF b <= indexed /\ executed[b].tx.op # "token" /\ Lower[executed[b].tx.to] \in watchAddresses
    THEN {Deposit(b, "native")} ELSE {}

\* The Transfer events of the block to a watched address.  A transaction
\* that failed leaves none.
scanBlockForTokenDeposits(b) ==
    IF executed[b].ok /\ executed[b].tx.op = "token" /\ Lower[executed[b].tx.to] \in watchAddresses
    THEN {Deposit(b, "erc20")} ELSE {}

\* A scan that fails on the way reports nothing and is made again.
ScanNextBlock ==
    /\ scanned < Len(executed)
    /\ scanned' = scanned + 1
    /\ deposits' = deposits \cup scanBlockForDeposits(scanned + 1)
                            \cup scanBlockForTokenDeposits(scanned + 1)
    /\ UNCHANGED <<nodeVars, faults, calls, indexed, payments, sends>>

\* The node's indexer takes the next block.
IndexBlock ==
    /\ indexed < Len(executed)
    /\ indexed' = indexed + 1
    /\ UNCHANGED <<nodeVars, faults, calls, scanned, deposits, payments, sends>>

SdkInit ==
    /\ indexed = 0
    /\ scanned = 0
    /\ deposits = {}
    /\ payments = {}
    /\ sends = 0

SdkNext ==
    \/ \E c \in Caller :
        \/ \E to \in Receiver \ {HotWallet} : sendECY(c, HotWallet, to) \/ sendToken(c, HotWallet, to)
        \/ DeliverPayment(c)
        \/ ReturnPayment(c)
    \/ ScanNextBlock
    \/ IndexBlock

---------------------------------------------------------------------------

\* The type of the SDK's state.
SdkTypeOK ==
    /\ indexed \in 0..Len(executed)
    /\ scanned \in 0..Len(executed)
    /\ deposits \subseteq [block : 1..scanned, type : {"native", "erc20"},
                           from : Account, to : Receiver]
    /\ payments \subseteq ExecutedTxs
    /\ sends \in 0..MaxSends
===========================================================================
