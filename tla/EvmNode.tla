------------------------------ MODULE EvmNode ------------------------------
(***************************************************************************)
(* The node as its clients see it: the RPC node that takes transactions,   *)
(* the way of a transaction to the validator, and its execution.           *)
(*                                                                         *)
(* Pool, gossip and execution are libraries (go-ethereum's pool, CometBFT, *)
(* the EVM) and are modelled from how the code uses them.  The code's own  *)
(* part is chain/mempool.go: by default a transaction that reaches the     *)
(* validator is checked into its pool; in the exclusive mode it is put     *)
(* into a queue of bounded length, and a retry code is the answer when     *)
(* that is full.  The stages of a transaction are                          *)
(*   "held"     in the pool of the RPC node                                *)
(*   "offered"  reaped there; CometBFT offers it to the validator          *)
(*   "queued"   in the validator's insert queue                            *)
(*   "ready"    in the validator's pool                                    *)
(*   "refused"  answered with the code that forbids to offer it again      *)
(* and a block holds one transaction.  The contract is the module          *)
(* EnergyDataAttestation, its block number left out.                       *)
(***************************************************************************)
EXTENDS Integers, Sequences, FiniteSets

CONSTANTS
    Account,            \* the accounts that send transactions
    Receiver,           \* the addresses transactions are sent to
    DataHash,           \* the hashes used, the zero hash among them
    ZeroHash,           \* bytes32(0)
    DataType,           \* the type labels used
    MaxBatch,           \* 100: the longest batch
    MaxPool,            \* the size of the RPC node's pool
    InsertQueueSize,    \* the length of the insert queue
    NoTx                \* no transaction

ASSUME EvmNodeAssumption ==
    /\ ZeroHash \in DataHash
    /\ MaxBatch \in Nat \ {0}
    /\ MaxPool \in Nat \ {0}
    /\ InsertQueueSize \in Nat \ {0}

VARIABLES
    exclusive,      \* is the pool of the validator operating exclusively?
    pool,           \* transaction -> stage, for those taken and not executed
    executed,       \* what the blocks executed: the transaction, and if it succeeded
    dropped,        \* history: the transactions restarts of the RPC node lost
    restarts,       \* bound: how often the RPC node may still restart
    faults,         \* bound: how many requests or replies may still get lost
    totalAttestations, attestations, hashToId,
    submitterAttestations, typeAttestations

contractVars == <<totalAttestations, attestations, hashToId,
                  submitterAttestations, typeAttestations>>

nodeVars == <<exclusive, pool, executed, dropped, restarts, contractVars>>

Contract == INSTANCE EnergyDataAttestation
            WITH Sender <- Account, MaxItems <- MaxBatch, MaxBlock <- 1, block <- 1

Stage == {"held", "offered", "queued", "ready", "refused"}

\* "attest" and "batch" call the contract, "calldata" and "transfer" send
\* to an address, "token" calls a token.  The item is the sender's mark.
Tx == [from : Account, nonce : Nat, op : {"attest", "batch", "calldata", "transfer", "token"},
       to : Receiver, hashes : Seq(DataHash), dataType : DataType, item : Nat]

ASSUME NoTxAssumption == NoTx \notin Tx

---------------------------------------------------------------------------
(* The RPC node *)

\* The client gets an error: its request or the reply was lost, or the node
\* was down.
ConnectionFails == faults > 0 /\ faults' = faults - 1

ExecutedTxs == {executed[b].tx : b \in 1..Len(executed)}

\* The account's nonce: how many of its transactions were executed.
NextNonce(a) == Cardinality({b \in 1..Len(executed) : executed[b].tx.from = a})

\* Has a transaction of the account this nonce?
NonceTaken(a, n) ==
    n < NextNonce(a) \/ \E tx \in DOMAIN pool : tx.from = a /\ tx.nonce = n

\* eth_getTransactionCount(a, "pending"): the first nonce that is free.
PendingNonce(a) ==
    CHOOSE n \in NextNonce(a)..(NextNonce(a) + Cardinality(DOMAIN pool)) :
        ~NonceTaken(a, n) /\ \A k \in 0..(n - 1) : NonceTaken(a, k)

\* Taken are nonces that are not used up and not in the pool, while there
\* is room.  Left out: go-ethereum's pool lets a transaction of the same nonce
\* replace the one there if it bids a fee that is higher by a tenth; no client
\* sets a fee, and each takes the one the node suggests, so that this needs a
\* rise of the base fee between two transactions of one nonce.
CanAccept(tx) ==
    /\ ~NonceTaken(tx.from, tx.nonce)
    /\ Cardinality(DOMAIN pool) < MaxPool

Accept(tx) ==
    /\ CanAccept(tx)
    /\ pool' = [t \in DOMAIN pool \cup {tx} |-> IF t = tx THEN "held" ELSE pool[t]]
    /\ UNCHANGED <<exclusive, executed, dropped, restarts, contractVars>>

MoveTo(tx, stage) ==
    /\ pool' = [pool EXCEPT ![tx] = stage]
    /\ UNCHANGED <<exclusive, executed, dropped, restarts, contractVars>>

\* A transaction is handed to CometBFT once, and leaves the RPC node.
ReapTxs ==
    \E tx \in DOMAIN pool : pool[tx] = "held" /\ MoveTo(tx, "offered")

\* What is held or offered is in memory only.
RestartNode ==
    /\ restarts > 0
    /\ restarts' = restarts - 1
    /\ LET lost == {tx \in DOMAIN pool : pool[tx] \in {"held", "offered"}} IN
        /\ lost # {}
        /\ dropped' = dropped \cup lost
        /\ pool' = [tx \in DOMAIN pool \ lost |-> pool[tx]]
    /\ UNCHANGED <<exclusive, executed, contractVars>>

---------------------------------------------------------------------------
(* The validator *)

\* Mutant of InsertTxCode: a full queue is answered like any other error.
InsertTxCodeNoRetry ==
    IF Cardinality({t \in DOMAIN pool : pool[t] = "queued"}) < InsertQueueSize
    THEN "ok" ELSE "noRetry"

\* The only error of InsertAsync for an EVM transaction is a full queue.
InsertTxCode ==
    IF Cardinality({t \in DOMAIN pool : pool[t] = "queued"}) < InsertQueueSize
    THEN "ok" ELSE "retry"

\* The insert handler of the exclusive mode.  An offer answered with "retry"
\* changes nothing and is made again.
InsertTx(tx) ==
    /\ exclusive
    /\ pool[tx] = "offered"
    /\ MoveTo(tx, CASE InsertTxCode = "ok" -> "queued"
                    [] InsertTxCode = "retry" -> "offered"
                    [] InsertTxCode = "noRetry" -> "refused")

\* The check handler of the default mode.
CheckTx(tx) ==
    /\ ~exclusive
    /\ pool[tx] = "offered"
    /\ MoveTo(tx, "ready")

\* The worker of the insert queue.
WorkQueue ==
    \E tx \in DOMAIN pool : pool[tx] = "queued" /\ MoveTo(tx, "ready")

\* Do the contract's requires hold for these hashes?
Attestable(hashes) ==
    /\ Len(hashes) \in 1..MaxBatch
    /\ \A i \in 1..Len(hashes) : hashes[i] # ZeroHash /\ hashToId[hashes[i]] = 0
    /\ \A i, j \in 1..Len(hashes) : i # j => hashes[i] # hashes[j]

\* A transfer succeeds or not, as the balance and the receiver have it.
Call(tx, ok) ==
    \/ /\ tx.op = "attest"
       /\ ok = Attestable(tx.hashes)
       /\ IF ok THEN Contract!attest(tx.from, tx.hashes[1], tx.dataType)
                ELSE UNCHANGED contractVars
    \/ /\ tx.op = "batch"
       /\ ok = Attestable(tx.hashes)
       /\ IF ok THEN Contract!batchAttest(tx.from, tx.hashes, tx.dataType)
                ELSE UNCHANGED contractVars
    \/ /\ tx.op = "calldata"
       /\ ok
       /\ UNCHANGED contractVars
    \/ /\ tx.op \in {"transfer", "token"}
       /\ UNCHANGED contractVars

\* The next block executes a transaction whose nonce is its account's next.
ExecuteBlock ==
    \E tx \in DOMAIN pool, ok \in BOOLEAN :
        /\ pool[tx] = "ready"
        /\ tx.nonce = NextNonce(tx.from)
        /\ executed' = Append(executed, [tx |-> tx, ok |-> ok])
        /\ Call(tx, ok)
        /\ pool' = [t \in DOMAIN pool \ {tx} |-> pool[t]]
        /\ UNCHANGED <<exclusive, dropped, restarts>>

NodeInit ==
    /\ exclusive \in BOOLEAN
    /\ pool = << >>
    /\ executed = << >>
    /\ dropped = {}
    /\ totalAttestations = 0
    /\ attestations = << >>
    /\ hashToId = [h \in DataHash |-> 0]
    /\ submitterAttestations = [a \in Account |-> << >>]
    /\ typeAttestations = [t \in DataType |-> << >>]

InsertOffered == \E tx \in DOMAIN pool : InsertTx(tx) \/ CheckTx(tx)

NodeNext == ReapTxs \/ InsertOffered \/ WorkQueue \/ ExecuteBlock \/ RestartNode

\* Reaping, offering, the queue's worker and the making of blocks go on; no
\* restart has to come.
NodeFairness ==
    /\ WF_nodeVars(ReapTxs)
    /\ WF_nodeVars(InsertOffered)
    /\ WF_nodeVars(WorkQueue)
    /\ WF_nodeVars(ExecuteBlock)

---------------------------------------------------------------------------

\* The type of the node's state.
NodeTypeOK ==
    /\ exclusive \in BOOLEAN
    /\ DOMAIN pool \subseteq Tx
    /\ pool \in [DOMAIN pool -> Stage]
    /\ executed \in Seq([tx : Tx, ok : BOOLEAN])
    /\ dropped \subseteq Tx
    /\ restarts \in Nat
    /\ faults \in Nat
===========================================================================
