------------------------ MODULE AttestationUploader ------------------------
(***************************************************************************)
(* The two upload scripts, scripts/upload_evm_contract.js, which calls     *)
(* attest for every record of the sheet, and scripts/upload_evm_rawtx.js,  *)
(* which sends every record as the data of a transaction to itself.  Both  *)
(* run the same loop: they send without waiting for blocks, number the     *)
(* transactions themselves, and try a record up to three times.            *)
(*                                                                         *)
(* A failure leaves open whether the node has the transaction.  The counts *)
(* the scripts print are kept as the sets of records they count.           *)
(***************************************************************************)
EXTENDS EvmNode

CONSTANTS
    Wallet,             \* the account the script sends from
    ContractAddress,    \* the contract of deployment.json
    Sheet,              \* the rows of the sheet, the heading first
    Empty,              \* what an empty cell holds
    RecordHash,         \* record -> the hash of its JSON text
    MaxAttempts         \* 3: how often a record is tried

\* Three groups of a row, each (time, meter, value); a group with an empty
\* cell is no record.
parseXlsx ==
    LET row(k) == Sheet[2 + (k - 1) \div 3]
        col(k) == 3 * ((k - 1) % 3)
        group == [k \in 1..(3 * (Len(Sheet) - 1)) |->
                    [time |-> row(k)[col(k) + 1], meter |-> row(k)[col(k) + 2],
                     value |-> row(k)[col(k) + 3]]]
        complete(g) == g.time # Empty /\ g.meter # Empty /\ g.value # Empty
    IN SelectSeq(group, complete)

Hashes == [r \in DOMAIN parseXlsx |-> RecordHash[parseXlsx[r]]]

ASSUME UploaderAssumption ==
    /\ Wallet \in Account
    /\ {Wallet, ContractAddress} \subseteq Receiver
    /\ Hashes \in Seq(DataHash \ {ZeroHash})
    /\ MaxAttempts \in Nat \ {0}
    /\ "active_power" \in DataType

VARIABLES
    script,         \* which of the two scripts runs
    upPc,           \* where the script is
    record,         \* i + 1: the record being sent
    attempt,        \* the attempt at it
    nonce,          \* the nonce of the next transaction
    succeeded,      \* the records counted in successCount
    failed,         \* the records counted in failCount
    lastTx          \* the transaction of lastTxHash

uploaderVars == <<script, upPc, record, attempt, nonce, succeeded, failed, lastTx>>

Records == 1..Len(Hashes)

encodeAttestation(r) ==
    [from |-> Wallet, nonce |-> nonce, op |-> "calldata", to |-> Wallet,
     hashes |-> <<Hashes[r]>>, dataType |-> "active_power", item |-> r]

attestCall(r) ==
    [from |-> Wallet, nonce |-> nonce, op |-> "attest", to |-> ContractAddress,
     hashes |-> <<Hashes[r]>>, dataType |-> "active_power", item |-> r]

RecordTx(r) == IF script = "contract" THEN attestCall(r) ELSE encodeAttestation(r)

---------------------------------------------------------------------------
(* The steps of main *)

\* Network, balance, deployment, fees and the nonce to begin with.  A
\* request that fails ends the script, as does an empty wallet.
Connect ==
    /\ upPc = "start"
    /\ \/ /\ nonce' = PendingNonce(Wallet)
          /\ upPc' = IF Records = {} THEN "wait" ELSE "send"
          /\ UNCHANGED faults
       \/ /\ ConnectionFails
          /\ upPc' = "failed"
          /\ UNCHANGED nonce
    /\ UNCHANGED <<nodeVars, script, record, attempt, succeeded, failed, lastTx>>

NextRecord ==
    /\ record' = record + 1
    /\ attempt' = 0
    /\ upPc' = IF record < Len(Hashes) THEN "send" ELSE "wait"

CountSuccess ==
    /\ lastTx' = RecordTx(record)
    /\ nonce' = nonce + 1
    /\ succeeded' = succeeded \cup {record}
    /\ NextRecord
    /\ UNCHANGED <<script, failed>>

\* Mutant of CatchError: one attempt too many.
CatchErrorOnceMore ==
    /\ IF attempt < MaxAttempts
       THEN /\ upPc' = "refresh"
            /\ UNCHANGED <<record, attempt, nonce, failed>>
       ELSE /\ failed' = failed \cup {record}
            /\ nonce' = nonce + 1
            /\ NextRecord
    /\ UNCHANGED <<script, succeeded, lastTx>>

\* The catch of an attempt.  After the last one the nonce goes on although
\* nothing may have been sent with it.
CatchError ==
    /\ IF attempt < MaxAttempts - 1
       THEN /\ upPc' = "refresh"
            /\ UNCHANGED <<record, attempt, nonce, failed>>
       ELSE /\ failed' = failed \cup {record}
            /\ nonce' = nonce + 1
            /\ NextRecord
    /\ UNCHANGED <<script, succeeded, lastTx>>

\* The transaction is taken and the reply arrives, or does not; or it is
\* refused; or it does not arrive.
SendRecord ==
    /\ upPc = "send"
    /\ \/ /\ Accept(RecordTx(record))
          /\ CountSuccess
          /\ UNCHANGED faults
       \/ /\ Accept(RecordTx(record))
          /\ ConnectionFails
          /\ CatchError
       \/ /\ ~CanAccept(RecordTx(record))
          /\ CatchError
          /\ UNCHANGED <<nodeVars, faults>>
       \/ /\ ConnectionFails
          /\ CatchError
          /\ UNCHANGED nodeVars

\* After a pause the next attempt takes its nonce from the node.  A failure
\* here is not caught and ends the script.
RefreshNonce ==
    /\ upPc = "refresh"
    /\ \/ /\ nonce' = PendingNonce(Wallet)
          /\ attempt' = attempt + 1
          /\ upPc' = "send"
          /\ UNCHANGED faults
       \/ /\ ConnectionFails
          /\ upPc' = "failed"
          /\ UNCHANGED <<nonce, attempt>>
    /\ UNCHANGED <<nodeVars, script, record, succeeded, failed, lastTx>>

\* Mutant of WaitForLast: after its time-out the script goes on.
WaitForLastIgnoringTimeout ==
    /\ upPc = "wait"
    /\ upPc' = IF script = "contract" THEN "total" ELSE "done"
    /\ UNCHANGED <<nodeVars, faults, script, record, attempt, nonce, succeeded, failed, lastTx>>

\* The receipt of the last transaction, or the time-out of 120 s.
WaitForLast ==
    /\ upPc = "wait"
    /\ \/ /\ lastTx \in ExecutedTxs \cup {NoTx}
          /\ upPc' = IF script = "contract" THEN "total" ELSE "done"
       \/ /\ lastTx \notin ExecutedTxs \cup {NoTx}
          /\ upPc' = "failed"
    /\ UNCHANGED <<nodeVars, faults, script, record, attempt, nonce, succeeded, failed, lastTx>>

\* The script for the contract reads totalAttestations in the end.
ReadTotal ==
    /\ upPc = "total"
    /\ \/ upPc' = "done" /\ UNCHANGED faults
       \/ upPc' = "failed" /\ ConnectionFails
    /\ UNCHANGED <<nodeVars, script, record, attempt, nonce, succeeded, failed, lastTx>>

UploaderInit ==
    /\ script \in {"contract", "rawtx"}
    /\ upPc = "start"
    /\ record = 1
    /\ attempt = 0
    /\ nonce = 0
    /\ succeeded = {}
    /\ failed = {}
    /\ lastTx = NoTx

UploaderNext == Connect \/ SendRecord \/ RefreshNonce \/ WaitForLast \/ ReadTotal

---------------------------------------------------------------------------
(* Properties *)

\* The type of the script's state.
UploaderTypeOK ==
    /\ script \in {"contract", "rawtx"}
    /\ upPc \in {"start", "send", "refresh", "wait", "total", "done", "failed"}
    /\ record \in 1..(Len(Hashes) + 1)
    /\ upPc \in {"send", "refresh"} => record \in Records
    /\ attempt \in 0..(MaxAttempts - 1)
    /\ nonce \in Nat
    /\ succeeded \subseteq Records
    /\ failed \subseteq Records
    /\ lastTx \in Tx \cup {NoTx}

\* A block holds this record, and for the contract script its hash is
\* attested.
OnChain(r) ==
    /\ \E b \in 1..Len(executed) : executed[b].tx.from = Wallet /\ executed[b].tx.item = r
    /\ script = "contract" => hashToId[Hashes[r]] # 0

\* When a script prints that it is done, every record is on the chain,
\* whatever replies were lost on the way: the script looks for the last
\* transaction only.  Not so if a record was given up, since a later one may
\* then take a lower nonce than its predecessors, or if the node restarted
\* (upload_evm_contract.js:79-124).
DoneMeansExecuted ==
    upPc = "done" /\ failed = {} /\ dropped = {} => \A r \in Records : OnChain(r)

\* A record counted as a success gets on the chain, unless a record was
\* given up, whose unused nonce all later ones then wait for, or the node
\* restarted (upload_evm_contract.js:79-98, mempool.go:130-150).
QueuedRecordsExecuted ==
    \A r \in Records :
        r \in succeeded ~> (OnChain(r) \/ failed # {} \/ dropped # {})
===========================================================================
