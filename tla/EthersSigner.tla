---------------------------- MODULE EthersSigner ----------------------------
(***************************************************************************)
(* A transaction sent through the ethers library, as the command-line tool *)
(* and the SDK send theirs: the signer asks for the pending nonce and for  *)
(* an estimate of the gas, the signed transaction is broadcast, and wait   *)
(* answers with the receipt or throws when it says the transaction failed. *)
(* Every caller has one such call under way.  The library is external and  *)
(* is modelled from how the two programs use it.                           *)
(***************************************************************************)
EXTENDS EvmNode

CONSTANT Caller

VARIABLE calls      \* caller -> the state of its call and the transaction

NoCall == [pc |-> "idle", tx |-> NoTx]

SetCall(c, pc, tx) == calls' = [calls EXCEPT ![c] = [pc |-> pc, tx |-> tx]]

\* The signer fills in the transaction; the estimate fails when the
\* contract would revert now.
Populate(c, tx) ==
    /\ calls[c].pc = "idle"
    /\ \/ /\ tx.op \in {"attest", "batch"} => Attestable(tx.hashes)
          /\ SetCall(c, "signed", [tx EXCEPT !.nonce = PendingNonce(tx.from)])
          /\ UNCHANGED faults
       \/ /\ tx.op \in {"attest", "batch"} /\ ~Attestable(tx.hashes)
          /\ SetCall(c, "thrown", NoTx)
          /\ UNCHANGED faults
       \/ /\ ConnectionFails
          /\ SetCall(c, "thrown", NoTx)
    /\ UNCHANGED nodeVars

\* The transaction is taken, with or without a reply; or refused; or it
\* does not arrive.
Broadcast(c) ==
    /\ calls[c].pc = "signed"
    /\ LET tx == calls[c].tx IN
       \/ /\ Accept(tx)
          /\ SetCall(c, "sent", tx)
          /\ UNCHANGED faults
       \/ /\ Accept(tx)
          /\ ConnectionFails
          /\ SetCall(c, "thrown", NoTx)
       \/ /\ ~CanAccept(tx)
          /\ SetCall(c, "thrown", NoTx)
          /\ UNCHANGED <<nodeVars, faults>>
       \/ /\ ConnectionFails
          /\ SetCall(c, "thrown", NoTx)
          /\ UNCHANGED nodeVars

\* Mutant of Receipt: a receipt is good whatever its status.
ReceiptAnyStatus(c) ==
    /\ calls[c].pc = "sent"
    /\ calls[c].tx \in ExecutedTxs
    /\ SetCall(c, "confirmed", calls[c].tx)
    /\ UNCHANGED <<nodeVars, faults>>

\* wait returns the receipt of a transaction that succeeded and throws at
\* one that failed, or when the connection does.
Receipt(c) ==
    /\ calls[c].pc = "sent"
    /\ LET tx == calls[c].tx IN
       \/ /\ \E b \in 1..Len(executed) : executed[b] = [tx |-> tx, ok |-> TRUE]
          /\ SetCall(c, "confirmed", tx)
          /\ UNCHANGED faults
       \/ /\ \E b \in 1..Len(executed) : executed[b] = [tx |-> tx, ok |-> FALSE]
          /\ SetCall(c, "thrown", NoTx)
          /\ UNCHANGED faults
       \/ /\ ConnectionFails
          /\ SetCall(c, "thrown", NoTx)
    /\ UNCHANGED nodeVars

\* The program goes on after the call.
EndCall(c) == calls' = [calls EXCEPT ![c] = NoCall]

SignerInit == calls = [c \in Caller |-> NoCall]

\* The type of the calls.
SignerTypeOK ==
    calls \in [Caller -> [pc : {"idle", "signed", "sent", "confirmed", "thrown"},
                          tx : Tx \cup {NoTx}]]
===========================================================================
