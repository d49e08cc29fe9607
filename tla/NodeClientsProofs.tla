------------------------- MODULE NodeClientsProofs -------------------------
(***************************************************************************)
(* Proofs about the programs that send transactions to the node, for every *)
(* set of accounts, hashes and terminals, every sheet, every size of the   *)
(* pools and every bound.                                                  *)
(*                                                                         *)
(* NodeGrows says what no step takes from a program: blocks, attestations  *)
(* and, until a restart of the RPC node loses some, transactions.  It is   *)
(* shown of every step once; then a program's own part of the invariant    *)
(* has to be looked at only for the program's own steps.                   *)
(*                                                                         *)
(* The contract's part is taken from the proofs about the contract: every  *)
(* call that a block executes stores fresh hashes, and StoreKeepsIInv says *)
(* what that preserves.                                                    *)
(***************************************************************************)
EXTENDS NodeClients, FiniteSetTheorems, WellFoundedInduction, TLAPS

\* The contract as the node runs it: every call at block 1.
Cp == INSTANCE EnergyDataAttestationProofs
      WITH Sender <- Account, MaxItems <- MaxBatch, MaxBlock <- 1, block <- 1

\* Hash h is attested, by account a.
AttestedBy(h, a) == hashToId[h] # 0 /\ attestations[hashToId[h]].submitter = a

\* The nonces of an account are used up in order, and no two transactions in
\* the pool have the same.
NonceInv ==
    /\ \A tx \in DOMAIN pool : NextNonce(tx.from) <= tx.nonce
    /\ \A tx, other \in DOMAIN pool :
          tx.from = other.from /\ tx.nonce = other.nonce => tx = other
    /\ \A a \in Account, b \in 1..Len(executed) :
          executed[b].tx.from = a => executed[b].tx.nonce < NextNonce(a)

\* What the programs call the contract with.
CallsContract(tx) == tx.op = "batch" \/ (tx.op = "attest" /\ Len(tx.hashes) = 1)

\* A call of the contract that succeeded has attested its hashes; an attest that
\* failed was for the zero hash or for one that is attested.
CallsInv ==
    \A b \in 1..Len(executed) :
        LET tx == executed[b].tx
        IN  /\ executed[b].ok /\ CallsContract(tx) =>
                  \A i \in 1..Len(tx.hashes) : AttestedBy(tx.hashes[i], tx.from)
            /\ tx.op = "attest" /\ Len(tx.hashes) = 1 =>
                  tx.hashes[1] = ZeroHash \/ hashToId[tx.hashes[1]] # 0

NodeInv ==
    /\ NodeTypeOK
    /\ IsFiniteSet(DOMAIN pool)
    /\ Cp!IInv
    /\ NonceInv
    /\ CallsInv

Confirmed(tx) == \E b \in 1..Len(executed) : executed[b] = [tx |-> tx, ok |-> TRUE]

\* A call under way has its transaction, one that is confirmed was executed, and
\* those of the command-line tool go to the contract.
SignerInv ==
    /\ SignerTypeOK
    /\ \A c \in Caller : \A tx \in {calls[c].tx} :
          /\ calls[c].pc \in {"signed", "sent", "confirmed"} => tx \in Tx
          /\ calls[c].pc = "confirmed" => Confirmed(tx)
          /\ program = "cli" /\ tx # NoTx => CallsContract(tx)

\* What was printed is so.
PrintedInv ==
    /\ \A c \in certificates : c.hash \in DataHash /\ AttestedBy(c.hash, c.submitter)
    /\ \A t \in Caller :
          shown[t] # Nothing /\ shown[t].kind = "verified" =>
              shown[t].hash \in DataHash /\ VerifyAnswer(shown[t].hash) = shown[t]

\* The transaction of record r, on its way or executed, no later than the last.
SentBefore(tx, r) ==
    /\ tx.from = Wallet /\ tx.item = r /\ tx.nonce <= lastTx.nonce
    /\ script = "contract" => tx.op = "attest" /\ tx.hashes = <<Hashes[r]>>

InOrder ==
    /\ succeeded = 1..(record - 1)
    /\ \A k \in 0..(nonce - 1) : NonceTaken(Wallet, k)
    /\ lastTx # NoTx => lastTx.from = Wallet /\ lastTx.nonce < nonce
    /\ \A r \in succeeded :
          lastTx # NoTx /\ \E tx \in DOMAIN pool \cup ExecutedTxs : SentBefore(tx, r)

SendingInv ==
    /\ upPc = "start" => record = 1 /\ lastTx = NoTx
    /\ upPc \in {"wait", "total", "done"} => record = Len(Hashes) + 1
    /\ upPc = "refresh" => attempt < MaxAttempts - 1
    /\ upPc \in {"total", "done"} => lastTx \in ExecutedTxs \cup {NoTx}
    /\ failed = {} /\ dropped = {} => InOrder

IInv ==
    /\ NodeInv /\ SignerInv /\ PrintedInv /\ SendingInv
    /\ program \in Programs
    /\ UploaderTypeOK /\ CliTypeOK /\ SdkTypeOK /\ SupervisorTypeOK

\* What every step leaves to the programs: blocks and attestations stay, and
\* until a restart loses something, transactions and the nonces they take.
NodeGrows ==
    /\ Len(executed) <= Len(executed')
    /\ \A b \in 1..Len(executed) : executed'[b] = executed[b]
    /\ \A h \in DataHash : hashToId[h] # 0 =>
          /\ hashToId'[h] = hashToId[h]
          /\ attestations'[hashToId[h]] = attestations[hashToId[h]]
    /\ dropped \subseteq dropped'
    /\ dropped' = {} =>
          /\ DOMAIN pool \cup ExecutedTxs \subseteq (DOMAIN pool \cup ExecutedTxs)'
          /\ \A a \in Account, k \in Nat : NonceTaken(a, k) => NonceTaken(a, k)'

---------------------------------------------------------------------------
(* Nonces *)

\* How many transactions of an account were executed is a number.
LEMMA NextNonceType ==
    ASSUME Len(executed) \in Nat, NEW a
    PROVE  /\ NextNonce(a) \in Nat
           /\ IsFiniteSet({b \in 1..Len(executed) : executed[b].tx.from = a})
<1> DEFINE S == {b \in 1..Len(executed) : executed[b].tx.from = a}
<1>1. IsFiniteSet(1..Len(executed)) /\ S \subseteq 1..Len(executed)
  BY FS_Interval
<1> HIDE DEF S
<1>2. IsFiniteSet(S)
  BY <1>1, FS_Subset
<1>3. Cardinality(S) \in Nat
  BY <1>2, FS_CardinalityType
<1> QED
  BY <1>2, <1>3 DEF NextNonce, S

\* It grows by one with every one that is executed.
LEMMA NextNonceAppend ==
    ASSUME executed \in Seq([tx : Tx, ok : BOOLEAN]),
           NEW e \in [tx : Tx, ok : BOOLEAN], executed' = Append(executed, e), NEW a
    PROVE  NextNonce(a)' = IF e.tx.from = a THEN NextNonce(a) + 1 ELSE NextNonce(a)
<1> DEFINE n == Len(executed)
           S == {b \in 1..n : executed[b].tx.from = a}
           T == {b \in 1..(n + 1) : executed'[b].tx.from = a}
<1>1. n \in Nat /\ Len(executed') = n + 1 /\ executed'[n + 1] = e
      /\ \A b \in 1..n : executed'[b] = executed[b]
  OBVIOUS
<1>2. IsFiniteSet(S) /\ NextNonce(a) = Cardinality(S)
  BY <1>1, NextNonceType DEF NextNonce
<1>3. NextNonce(a)' = Cardinality(T)
  BY <1>1 DEF NextNonce
<1>4. CASE e.tx.from = a
  <2>1. T = S \cup {n + 1} /\ n + 1 \notin S
    BY <1>1, <1>4
  <2> HIDE DEF S, T, n
  <2>2. Cardinality(S \cup {n + 1}) = Cardinality(S) + 1
    BY <1>2, <2>1, FS_AddElement
  <2> QED
    BY <1>2, <1>3, <1>4, <2>1, <2>2
<1>5. CASE e.tx.from # a
  <2>1. T = S
    BY <1>1, <1>5
  <2> QED
    BY <1>2, <1>3, <1>5, <2>1
<1> QED
  BY <1>4, <1>5

\* The nonce the node answers with is the first that is free: a pool of so
\* many transactions cannot take one more nonce than that.
LEMMA PendingNonceFree ==
    ASSUME NodeInv, NEW a \in Account
    PROVE  /\ PendingNonce(a) \in Nat
           /\ ~NonceTaken(a, PendingNonce(a))
           /\ \A k \in 0..(PendingNonce(a) - 1) : NonceTaken(a, k)
<1> DEFINE m == NextNonce(a)
           P == DOMAIN pool
           c == Cardinality(P)
<1>1. m \in Nat /\ IsFiniteSet(P) /\ c \in Nat /\ \A tx \in P : tx.nonce \in Nat
  <2>1. Len(executed) \in Nat /\ IsFiniteSet(P) /\ \A tx \in P : tx.nonce \in Nat
    BY DEF NodeInv, NodeTypeOK, Tx
  <2>2. m \in Nat
    BY <2>1, NextNonceType
  <2> QED
    BY <2>1, <2>2, FS_CardinalityType
<1> HIDE DEF m, P, c
<1>2. \E k \in m..(m + c) : ~NonceTaken(a, k)
  <2> SUFFICES ASSUME \A k \in m..(m + c) : NonceTaken(a, k) PROVE FALSE
    OBVIOUS
  <2>1. \A k \in m..(m + c) : \E tx \in P : tx.from = a /\ tx.nonce = k
    <3> TAKE k \in m..(m + c)
    <3>1. NonceTaken(a, k) /\ ~(k < m)
      BY <1>1
    <3> QED
      BY <3>1 DEF NonceTaken, m, P
  <2> DEFINE f == [k \in m..(m + c) |-> CHOOSE tx \in P : tx.from = a /\ tx.nonce = k]
  <2>2. f \in [m..(m + c) -> P] /\ \A k \in m..(m + c) : f[k].nonce = k
    BY <2>1
  <2> HIDE DEF f
  <2>3. IsFiniteSet(m..(m + c)) /\ Cardinality(m..(m + c)) = c + 1
    BY <1>1, FS_Interval
  <2>4. \E k, l \in m..(m + c) : k # l /\ f[k] = f[l]
    <3>1. Cardinality(P) < Cardinality(m..(m + c))
      BY <1>1, <2>3 DEF c
    <3> HIDE DEF c
    <3> QED
      BY <1>1, <2>2, <2>3, <3>1, FS_PigeonHole
  <2> QED
    BY <2>2, <2>4
<1>3. PICK n \in Nat : ~NonceTaken(a, n) /\ \A k \in Nat : ~NonceTaken(a, k) => n <= k
  <2> DEFINE T == {k \in Nat : ~NonceTaken(a, k)}
  <2>1. T \subseteq Nat /\ T # {}
    BY <1>1, <1>2
  <2>2. \A k \in Nat : k \in T <=> ~NonceTaken(a, k)
    OBVIOUS
  <2> HIDE DEF T
  <2>3. PICK n \in T : \A k \in T : ~(<<k, n>> \in OpToRel(<, Nat))
    BY <2>1, NatLessThanWellFounded, WFMin
  <2>4. \A k \in T : ~(k < n)
    BY <2>1, <2>3 DEF OpToRel
  <2>5. \A k \in T : n <= k
    BY <2>1, <2>4
  <2> QED
    BY <2>1, <2>2, <2>5
<1>4. n \in m..(m + c)
  <2>1. ~(n < m)
    BY <1>3 DEF NonceTaken, m
  <2>2. n <= m + c
    BY <1>1, <1>2, <1>3
  <2> QED
    BY <1>1, <2>1, <2>2
<1>5. \A k \in 0..(n - 1) : NonceTaken(a, k)
  <2> TAKE k \in 0..(n - 1)
  <2>1. k \in Nat /\ ~(n <= k)
    OBVIOUS
  <2> QED
    BY <1>3, <2>1
<1> DEFINE Q(k) == ~NonceTaken(a, k) /\ \A l \in 0..(k - 1) : NonceTaken(a, l)
<1>6. Q(n)
  BY <1>3, <1>5
<1>7. PendingNonce(a) = CHOOSE k \in m..(m + c) : Q(k)
  BY DEF PendingNonce, m, c, P
<1> HIDE DEF Q
<1>8. PendingNonce(a) \in m..(m + c) /\ Q(PendingNonce(a))
  BY <1>4, <1>6, <1>7
<1>9. PendingNonce(a) \in Nat
  BY <1>1, <1>8
<1> QED
  BY <1>8, <1>9 DEF Q

---------------------------------------------------------------------------
(* The steps of the node *)

\* A transaction's call of the contract stores fresh hashes, as a call in the
\* contract's own specification does.
LEMMA StoreCall ==
    ASSUME Cp!IInv, NEW s \in Account, NEW t \in DataType, NEW hashes \in Seq(DataHash),
           Attestable(hashes), Contract!Store(s, hashes, t)
    PROVE  /\ Cp!IInv'
           /\ \A i \in 1..Len(hashes) : AttestedBy(hashes[i], s)'
           /\ \A h \in DataHash : hashToId[h] # 0 =>
                /\ hashToId'[h] = hashToId[h]
                /\ attestations'[hashToId[h]] = attestations[hashToId[h]]
<1>1. Cp!Fresh(hashes) /\ Cp!Store(s, hashes, t)
  BY DEF Attestable, Cp!Fresh, Cp!Store, Contract!Store, Cp!NextIDs, Contract!NextIDs
<1>2. Cp!AttestationAssumption
  BY EvmNodeAssumption DEF Cp!AttestationAssumption
<1>3. Cp!IInv'
  BY <1>1, <1>2, Cp!StoreKeepsIInv
<1>4. Cp!TypeOK
  BY DEF Cp!IInv
<1>5. /\ totalAttestations \in Nat /\ Len(hashes) \in Nat \ {0}
      /\ \A id \in 1..totalAttestations : attestations'[id] = attestations[id]
      /\ \A i \in 1..Len(hashes) :
            /\ attestations'[totalAttestations + i] =
                    [dataHash |-> hashes[i], submitter |-> s,
                     dataType |-> t, blockNumber |-> 1]
            /\ hashToId'[hashes[i]] = totalAttestations + i
      /\ \A h \in DataHash :
            (\A i \in 1..Len(hashes) : hashes[i] # h) => hashToId'[h] = hashToId[h]
  BY <1>1, <1>2, <1>4, Cp!StoreAdds
<1>6. ASSUME NEW i \in 1..Len(hashes) PROVE AttestedBy(hashes[i], s)'
  <2>0. i \in Nat \ {0} /\ totalAttestations \in Nat
    BY <1>5
  <2>1. hashToId'[hashes[i]] = totalAttestations + i
    BY <1>5
  <2>2. attestations'[totalAttestations + i] =
            [dataHash |-> hashes[i], submitter |-> s, dataType |-> t, blockNumber |-> 1]
    BY <1>5
  <2>3. attestations'[totalAttestations + i].submitter = s
    BY <2>2
  <2> QED
    BY <2>0, <2>1, <2>3 DEF AttestedBy
<1>7. ASSUME NEW h \in DataHash, hashToId[h] # 0
      PROVE  /\ hashToId'[h] = hashToId[h]
             /\ attestations'[hashToId[h]] = attestations[hashToId[h]]
  <2>1. \A i \in 1..Len(hashes) : hashes[i] # h
    BY <1>7 DEF Attestable
  <2>2. hashToId[h] \in 1..totalAttestations
    BY <1>4, <1>7 DEF Cp!TypeOK
  <2> QED
    BY <1>5, <2>1, <2>2
<1> QED
  BY <1>3, <1>6, <1>7

\* What does not touch the node leaves what is known of it.
LEMMA UnchangedKeeps ==
    ASSUME NodeInv, UNCHANGED nodeVars, UNCHANGED faults \/ ConnectionFails
    PROVE  NodeInv' /\ NodeGrows
<1> USE DEF nodeVars, contractVars
<1>1. NodeTypeOK'
  BY DEF NodeInv, NodeTypeOK, ConnectionFails
<1>2. Cp!IInv'
  BY DEF NodeInv, Cp!IInv, Cp!TypeOK, Cp!AttestedOnce, Cp!ListsExact
<1>3. NonceInv'
  BY DEF NodeInv, NonceInv, NextNonce
<1>4. CallsInv'
  BY DEF NodeInv, CallsInv, AttestedBy
<1>5. NodeGrows
  <2>1. Len(executed) \in Nat
    BY DEF NodeInv, NodeTypeOK
  <2> QED
    BY <2>1 DEF NodeGrows, ExecutedTxs, NonceTaken, NextNonce
<1> QED
  BY <1>1, <1>2, <1>3, <1>4, <1>5 DEF NodeInv

\* The node takes a transaction.
LEMMA AcceptKeeps ==
    ASSUME NodeInv, NEW tx \in Tx, Accept(tx), UNCHANGED faults \/ ConnectionFails
    PROVE  /\ NodeInv' /\ NodeGrows
           /\ DOMAIN pool' = DOMAIN pool \cup {tx}
           /\ executed' = executed /\ dropped' = dropped
           /\ NonceTaken(tx.from, tx.nonce)'
<1> USE DEF contractVars
<1>1. /\ pool' = [t \in DOMAIN pool \cup {tx} |-> IF t = tx THEN "held" ELSE pool[t]]
      /\ UNCHANGED <<exclusive, executed, dropped, restarts, contractVars>>
      /\ ~NonceTaken(tx.from, tx.nonce)
  BY DEF Accept, CanAccept
<1>2. NodeTypeOK'
  BY <1>1 DEF NodeInv, NodeTypeOK, ConnectionFails, Stage
<1>3. IsFiniteSet(DOMAIN pool')
  BY <1>1, FS_AddElement DEF NodeInv
<1>4. Cp!IInv'
  BY <1>1 DEF NodeInv, Cp!IInv, Cp!TypeOK, Cp!AttestedOnce, Cp!ListsExact
<1>5. NonceInv'
  <2>1. \A a : NextNonce(a)' = NextNonce(a)
    BY <1>1 DEF NextNonce
  <2>2. NextNonce(tx.from) \in Nat /\ tx.nonce \in Nat
    <3>1. Len(executed) \in Nat /\ tx.nonce \in Nat
      BY DEF NodeInv, NodeTypeOK, Tx
    <3> QED
      BY <3>1, NextNonceType
  <2>3. NextNonce(tx.from) <= tx.nonce
    BY <1>1, <2>2 DEF NonceTaken
  <2>4. \A other \in DOMAIN pool : other.from = tx.from => other.nonce # tx.nonce
    BY <1>1 DEF NonceTaken
  <2> QED
    BY <1>1, <2>1, <2>3, <2>4 DEF NodeInv, NonceInv
<1>6. CallsInv'
  BY <1>1 DEF NodeInv, CallsInv, AttestedBy
<1>7. NodeGrows
  <2>1. Len(executed) \in Nat
    BY DEF NodeInv, NodeTypeOK
  <2> QED
    BY <1>1, <2>1 DEF NodeGrows, ExecutedTxs, NonceTaken, NextNonce
<1> QED
  BY <1>1, <1>2, <1>3, <1>4, <1>5, <1>6, <1>7 DEF NodeInv, NonceTaken

\* A transaction goes on to its next stage.
LEMMA MoveKeeps ==
    ASSUME NodeInv, NEW tx \in DOMAIN pool, NEW stage \in Stage, MoveTo(tx, stage),
           UNCHANGED faults
    PROVE  NodeInv' /\ NodeGrows
<1> USE DEF contractVars
<1>1. /\ DOMAIN pool' = DOMAIN pool
      /\ pool' \in [DOMAIN pool -> Stage]
      /\ UNCHANGED <<exclusive, executed, dropped, restarts, contractVars>>
  BY DEF MoveTo, NodeInv, NodeTypeOK
<1>2. NodeTypeOK'
  BY <1>1 DEF NodeInv, NodeTypeOK
<1>4. Cp!IInv'
  BY <1>1 DEF NodeInv, Cp!IInv, Cp!TypeOK, Cp!AttestedOnce, Cp!ListsExact
<1>5. NonceInv'
  BY <1>1 DEF NodeInv, NonceInv, NextNonce
<1>6. CallsInv'
  BY <1>1 DEF NodeInv, CallsInv, AttestedBy
<1>7. NodeGrows
  <2>1. Len(executed) \in Nat
    BY DEF NodeInv, NodeTypeOK
  <2> QED
    BY <1>1, <2>1 DEF NodeGrows, ExecutedTxs, NonceTaken, NextNonce
<1> QED
  BY <1>1, <1>2, <1>4, <1>5, <1>6, <1>7 DEF NodeInv

\* A restart loses transactions and says so.
LEMMA RestartKeeps ==
    ASSUME NodeInv, RestartNode, UNCHANGED faults
    PROVE  NodeInv' /\ NodeGrows
<1> USE DEF contractVars
<1> DEFINE lost == {tx \in DOMAIN pool : pool[tx] \in {"held", "offered"}}
<1>1. /\ lost # {} /\ lost \subseteq DOMAIN pool
      /\ dropped' = dropped \cup lost
      /\ pool' = [tx \in DOMAIN pool \ lost |-> pool[tx]]
      /\ restarts \in Nat => restarts' \in Nat
      /\ UNCHANGED <<exclusive, executed, contractVars>>
  BY DEF RestartNode
<1> HIDE DEF lost
<1>2. DOMAIN pool' \subseteq DOMAIN pool
  BY <1>1
<1>3. NodeTypeOK'
  BY <1>1 DEF NodeInv, NodeTypeOK
<1>4. IsFiniteSet(DOMAIN pool')
  BY <1>2, FS_Subset DEF NodeInv
<1>5. Cp!IInv'
  BY <1>1 DEF NodeInv, Cp!IInv, Cp!TypeOK, Cp!AttestedOnce, Cp!ListsExact
<1>6. NonceInv'
  BY <1>1, <1>2 DEF NodeInv, NonceInv, NextNonce
<1>7. CallsInv'
  BY <1>1 DEF NodeInv, CallsInv, AttestedBy
<1>8. NodeGrows
  <2>1. Len(executed) \in Nat /\ dropped' # {}
    BY <1>1 DEF NodeInv, NodeTypeOK
  <2> QED
    BY <1>1, <2>1 DEF NodeGrows
<1> QED
  BY <1>3, <1>4, <1>5, <1>6, <1>7, <1>8 DEF NodeInv

\* A block executes a transaction.
LEMMA ExecuteKeeps ==
    ASSUME NodeInv, ExecuteBlock, UNCHANGED faults
    PROVE  NodeInv' /\ NodeGrows
<1>1. PICK tx \in DOMAIN pool, ok \in BOOLEAN :
        /\ tx.nonce = NextNonce(tx.from)
        /\ executed' = Append(executed, [tx |-> tx, ok |-> ok])
        /\ Call(tx, ok)
        /\ pool' = [t \in DOMAIN pool \ {tx} |-> pool[t]]
        /\ UNCHANGED <<exclusive, dropped, restarts>>
  BY DEF ExecuteBlock
<1> DEFINE n == Len(executed)
           e == [tx |-> tx, ok |-> ok]
<1>2. /\ executed \in Seq([tx : Tx, ok : BOOLEAN]) /\ n \in Nat
      /\ tx \in Tx /\ e \in [tx : Tx, ok : BOOLEAN]
      /\ executed' = Append(executed, e) /\ e.tx = tx /\ e.ok = ok
  BY <1>1 DEF NodeInv, NodeTypeOK
<1>3. /\ tx.from \in Account /\ tx.dataType \in DataType /\ tx.hashes \in Seq(DataHash)
      /\ tx.nonce \in Nat
  BY <1>2 DEF Tx
<1> HIDE DEF e
<1>4. /\ executed' \in Seq([tx : Tx, ok : BOOLEAN]) /\ Len(executed') = n + 1
      /\ executed'[n + 1] = e
      /\ \A b \in 1..n : executed'[b] = executed[b] /\ executed[b].tx \in Tx
      /\ \A b \in 1..Len(executed') : b \in 1..n \/ b = n + 1
  <2>1. \A b \in 1..n : executed[b] \in [tx : Tx, ok : BOOLEAN]
    <3> DEFINE R == [tx : Tx, ok : BOOLEAN]
    <3>1. executed \in Seq(R)
      BY <1>2
    <3> HIDE DEF R
    <3>2. \A b \in 1..n : executed[b] \in R
      BY <3>1
    <3> QED
      BY <3>2 DEF R
  <2>2. \A b \in 1..n : executed[b].tx \in Tx
    BY <2>1
  <2>3. /\ executed' \in Seq([tx : Tx, ok : BOOLEAN]) /\ Len(executed') = n + 1
        /\ executed'[n + 1] = e /\ \A b \in 1..n : executed'[b] = executed[b]
    BY <1>2
  <2>4. \A b \in 1..Len(executed') : b \in 1..n \/ b = n + 1
    BY <1>2, <2>3
  <2> QED
    BY <2>2, <2>3, <2>4
<1>5. NodeTypeOK'
  BY <1>1, <1>4 DEF NodeInv, NodeTypeOK
<1>6. IsFiniteSet(DOMAIN pool')
  <2>1. DOMAIN pool' \subseteq DOMAIN pool
    BY <1>1
  <2> QED
    BY <2>1, FS_Subset DEF NodeInv
<1>7. \/ /\ UNCHANGED contractVars
         /\ CallsContract(tx) => ~ok
      \/ \E hashes \in Seq(DataHash) :
            /\ Attestable(hashes) /\ Contract!Store(tx.from, hashes, tx.dataType)
            /\ CallsContract(tx) => hashes = tx.hashes
  <2>1. ASSUME tx.op = "attest", Attestable(tx.hashes),
               Contract!attest(tx.from, tx.hashes[1], tx.dataType)
        PROVE  \E hashes \in Seq(DataHash) :
                  /\ Attestable(hashes) /\ Contract!Store(tx.from, hashes, tx.dataType)
                  /\ CallsContract(tx) => hashes = tx.hashes
    <3> DEFINE h == tx.hashes[1]
    <3>1. /\ 1 \in 1..Len(tx.hashes) /\ h \in DataHash /\ h # ZeroHash
          /\ hashToId[h] = 0
      BY <1>3, <2>1 DEF Attestable
    <3>2. Len(tx.hashes) = 1 => tx.hashes = <<h>>
      BY <1>3
    <3>3. Contract!Store(tx.from, <<h>>, tx.dataType)
      BY <2>1 DEF Contract!attest
    <3> HIDE DEF h
    <3>4. Attestable(<<h>>)
      BY <3>1, EvmNodeAssumption DEF Attestable
    <3>5. CallsContract(tx) => <<h>> = tx.hashes
      BY <2>1, <3>2 DEF CallsContract
    <3>6. <<h>> \in Seq(DataHash)
      BY <3>1
    <3> DEFINE one == <<h>>
    <3> HIDE DEF one
    <3>7. /\ one \in Seq(DataHash) /\ Attestable(one)
          /\ Contract!Store(tx.from, one, tx.dataType)
          /\ CallsContract(tx) => one = tx.hashes
      BY <3>3, <3>4, <3>5, <3>6 DEF one
    <3> QED
      BY <3>7
  <2>2. ASSUME tx.op = "batch", Attestable(tx.hashes),
               Contract!batchAttest(tx.from, tx.hashes, tx.dataType)
        PROVE  Attestable(tx.hashes) /\ Contract!Store(tx.from, tx.hashes, tx.dataType)
    BY <2>2 DEF Contract!batchAttest
  <2>3. CASE ~ok \/ tx.op \notin {"attest", "batch"}
    BY <1>1, <2>3 DEF Call, CallsContract
  <2>4. CASE ok /\ tx.op = "attest"
    BY <1>1, <2>1, <2>4 DEF Call
  <2>5. CASE ok /\ tx.op = "batch"
    BY <1>1, <1>3, <2>2, <2>5 DEF Call
  <2> QED
    BY <2>3, <2>4, <2>5
<1>8. /\ Cp!IInv'
      /\ \A h \in DataHash : hashToId[h] # 0 =>
            /\ hashToId'[h] = hashToId[h]
            /\ attestations'[hashToId[h]] = attestations[hashToId[h]]
      /\ ok /\ CallsContract(tx) =>
            \A i \in 1..Len(tx.hashes) : AttestedBy(tx.hashes[i], tx.from)'
  <2>1. CASE UNCHANGED contractVars /\ (CallsContract(tx) => ~ok)
    BY <2>1 DEF contractVars, NodeInv, Cp!IInv, Cp!TypeOK, Cp!AttestedOnce, Cp!ListsExact
  <2>2. ASSUME NEW hashes \in Seq(DataHash), Attestable(hashes),
               Contract!Store(tx.from, hashes, tx.dataType),
               CallsContract(tx) => hashes = tx.hashes
        PROVE  /\ Cp!IInv'
               /\ \A h \in DataHash : hashToId[h] # 0 =>
                     /\ hashToId'[h] = hashToId[h]
                     /\ attestations'[hashToId[h]] = attestations[hashToId[h]]
               /\ ok /\ CallsContract(tx) =>
                     \A i \in 1..Len(tx.hashes) : AttestedBy(tx.hashes[i], tx.from)'
    <3>1. Cp!IInv
      BY DEF NodeInv
    <3>2. /\ Cp!IInv'
          /\ \A i \in 1..Len(hashes) : AttestedBy(hashes[i], tx.from)'
          /\ \A h \in DataHash : hashToId[h] # 0 =>
                /\ hashToId'[h] = hashToId[h]
                /\ attestations'[hashToId[h]] = attestations[hashToId[h]]
      BY <1>3, <2>2, <3>1, StoreCall
    <3> QED
      BY <2>2, <3>2
  <2> QED
    BY <1>7, <2>1, <2>2
<1>9. \A h \in DataHash : \A a : AttestedBy(h, a) => AttestedBy(h, a)'
  BY <1>8 DEF AttestedBy
<1>10. ok = FALSE /\ tx.op = "attest" /\ Len(tx.hashes) = 1 =>
            tx.hashes[1] = ZeroHash \/ hashToId'[tx.hashes[1]] # 0
  <2> SUFFICES ASSUME ok = FALSE, tx.op = "attest", Len(tx.hashes) = 1,
                      tx.hashes[1] # ZeroHash
               PROVE  hashToId'[tx.hashes[1]] # 0
    OBVIOUS
  <2>1. ~Attestable(tx.hashes) /\ tx.hashes[1] \in DataHash
    BY <1>1, <1>3 DEF Call
  <2>2. Len(tx.hashes) \in 1..MaxBatch /\ \A i \in 1..Len(tx.hashes) : i = 1
    BY EvmNodeAssumption
  <2>3. hashToId[tx.hashes[1]] # 0
    BY <2>1, <2>2 DEF Attestable
  <2> QED
    BY <1>8, <2>1, <2>3
<1>11. \A a : NextNonce(a)' = IF tx.from = a THEN NextNonce(a) + 1 ELSE NextNonce(a)
  BY <1>2, NextNonceAppend
<1>12. \A a : NextNonce(a) \in Nat
  BY <1>2, NextNonceType
<1>13. DOMAIN pool' = DOMAIN pool \ {tx}
  BY <1>1
<1>14. NonceInv'
  <2>1. ASSUME NEW other \in DOMAIN pool'
        PROVE  NextNonce(other.from)' <= other.nonce
    <3>1. /\ other \in DOMAIN pool /\ other # tx /\ other.nonce \in Nat
          /\ NextNonce(other.from) <= other.nonce
          /\ other.from = tx.from => other.nonce # tx.nonce
      BY <1>1, <1>13, <2>1 DEF NodeInv, NodeTypeOK, NonceInv, Tx
    <3>2. CASE other.from = tx.from
      <4>1. /\ NextNonce(other.from)' = NextNonce(other.from) + 1
            /\ NextNonce(other.from) = tx.nonce
        BY <1>1, <1>11, <3>2
      <4> QED
        BY <1>12, <3>1, <3>2, <4>1
    <3>3. CASE other.from # tx.from
      BY <1>11, <3>1, <3>3
    <3> QED
      BY <3>2, <3>3
  <2>2. \A t, other \in DOMAIN pool' :
            t.from = other.from /\ t.nonce = other.nonce => t = other
    BY <1>13 DEF NodeInv, NonceInv
  <2>3. ASSUME NEW a \in Account, NEW b \in 1..Len(executed'), executed'[b].tx.from = a
        PROVE  executed'[b].tx.nonce < NextNonce(a)'
    <3>1. CASE b \in 1..n
      <4>1. /\ executed'[b] = executed[b] /\ executed[b].tx \in Tx
            /\ executed[b].tx.nonce < NextNonce(a)
        BY <1>4, <2>3, <3>1 DEF NodeInv, NonceInv
      <4>2. executed[b].tx.nonce \in Nat
        BY <4>1 DEF Tx
      <4>3. NextNonce(a) \in Nat /\ NextNonce(a)' \in {NextNonce(a), NextNonce(a) + 1}
        BY <1>11, <1>12
      <4> QED
        BY <4>1, <4>2, <4>3
    <3>2. CASE b = n + 1
      <4>1. executed'[b].tx = tx /\ tx.from = a
        BY <1>2, <1>4, <2>3, <3>2
      <4>2. NextNonce(a)' = tx.nonce + 1
        BY <1>1, <1>11, <4>1
      <4> QED
        BY <1>3, <4>1, <4>2
    <3> QED
      BY <1>4, <3>1, <3>2
  <2> QED
    BY <2>1, <2>2, <2>3 DEF NonceInv
<1>15. CallsInv'
  <2> SUFFICES ASSUME NEW b \in 1..Len(executed'), NEW t, t = executed'[b].tx
               PROVE  /\ executed'[b].ok /\ CallsContract(t) =>
                            \A i \in 1..Len(t.hashes) : AttestedBy(t.hashes[i], t.from)'
                      /\ t.op = "attest" /\ Len(t.hashes) = 1 =>
                            t.hashes[1] = ZeroHash \/ hashToId'[t.hashes[1]] # 0
    BY DEF CallsInv, CallsContract
  <2>1. CASE b \in 1..n
    <3>1. executed'[b] = executed[b] /\ executed[b].tx \in Tx
      BY <1>4, <2>1
    <3>2. t = executed[b].tx /\ t.hashes \in Seq(DataHash) /\ t.from \in Account
      BY <3>1 DEF Tx
    <3>3. /\ executed[b].ok /\ CallsContract(t) =>
                \A i \in 1..Len(t.hashes) : AttestedBy(t.hashes[i], t.from)
          /\ t.op = "attest" /\ Len(t.hashes) = 1 =>
                t.hashes[1] = ZeroHash \/ hashToId[t.hashes[1]] # 0
      BY <2>1, <3>2 DEF NodeInv, CallsInv
    <3>4. executed[b].ok /\ CallsContract(t) =>
                \A i \in 1..Len(t.hashes) : AttestedBy(t.hashes[i], t.from)'
      BY <1>9, <3>2, <3>3
    <3>5. t.op = "attest" /\ Len(t.hashes) = 1 =>
                t.hashes[1] = ZeroHash \/ hashToId'[t.hashes[1]] # 0
      BY <1>8, <3>2, <3>3
    <3> QED
      BY <3>1, <3>4, <3>5
  <2>2. CASE b = n + 1
    <3>1. t = tx /\ executed'[b].ok = ok
      BY <1>2, <1>4, <2>2
    <3>2. ok /\ CallsContract(tx) =>
            \A i \in 1..Len(tx.hashes) : AttestedBy(tx.hashes[i], tx.from)'
      BY <1>8
    <3>3. CASE tx.op = "attest" /\ Len(tx.hashes) = 1 /\ ok
      <4>1. AttestedBy(tx.hashes[1], tx.from)'
        BY <3>2, <3>3 DEF CallsContract
      <4> QED
        BY <3>1, <3>2, <4>1 DEF AttestedBy
    <3>4. CASE ~(tx.op = "attest" /\ Len(tx.hashes) = 1 /\ ok)
      BY <1>1, <1>10, <3>1, <3>2, <3>4
    <3> QED
      BY <3>3, <3>4
  <2> QED
    BY <1>4, <2>1, <2>2
<1>16. NodeGrows
  <2>1. Len(executed) <= Len(executed') /\ \A b \in 1..n : executed'[b] = executed[b]
    BY <1>2, <1>4
  <2>2. DOMAIN pool \cup ExecutedTxs \subseteq (DOMAIN pool \cup ExecutedTxs)'
    <3>1. ExecutedTxs \subseteq ExecutedTxs'
      BY <1>2, <1>4 DEF ExecutedTxs
    <3>2. tx \in ExecutedTxs'
      BY <1>2, <1>4 DEF ExecutedTxs
    <3> QED
      BY <1>13, <3>1, <3>2
  <2>3. ASSUME NEW a \in Account, NEW k \in Nat, NonceTaken(a, k)
        PROVE  NonceTaken(a, k)'
    <3>1. /\ NextNonce(a) \in Nat /\ NextNonce(a)' \in {NextNonce(a), NextNonce(a) + 1}
          /\ tx.from = a => NextNonce(a)' = tx.nonce + 1
      BY <1>1, <1>11, <1>12
    <3>2. CASE k < NextNonce(a)
      <4>1. k < NextNonce(a)'
        BY <3>1, <3>2
      <4> QED
        BY <4>1 DEF NonceTaken
    <3>3. ASSUME NEW t \in DOMAIN pool, t.from = a, t.nonce = k
          PROVE  NonceTaken(a, k)'
      <4>1. CASE t = tx
        <5>1. k < NextNonce(a)'
          BY <3>1, <3>3, <4>1
        <5> QED
          BY <5>1 DEF NonceTaken
      <4>2. CASE t # tx
        BY <1>13, <3>3, <4>2 DEF NonceTaken
      <4> QED
        BY <4>1, <4>2
    <3> QED
      BY <2>3, <3>2, <3>3 DEF NonceTaken
  <2> QED
    BY <1>1, <1>8, <2>1, <2>2, <2>3 DEF NodeGrows
<1> QED
  BY <1>5, <1>6, <1>8, <1>14, <1>15, <1>16 DEF NodeInv

\* Whatever the node does.
LEMMA NodeKeeps ==
    ASSUME NodeInv, NodeNext, UNCHANGED faults
    PROVE  NodeInv' /\ NodeGrows
<1>1. CASE ReapTxs
  BY <1>1, MoveKeeps DEF ReapTxs, Stage
<1>2. CASE InsertOffered
  <2>1. PICK tx \in DOMAIN pool : InsertTx(tx) \/ CheckTx(tx)
    BY <1>2 DEF InsertOffered
  <2>2. CASE CheckTx(tx)
    BY <2>2, MoveKeeps DEF CheckTx, Stage
  <2>3. CASE InsertTx(tx)
    <3>1. InsertTxCode \in {"ok", "retry"}
      BY DEF InsertTxCode
    <3>2. \E stage \in Stage : MoveTo(tx, stage)
      <4>1. CASE InsertTxCode = "ok"
        BY <2>3, <4>1 DEF InsertTx, Stage
      <4>2. CASE InsertTxCode = "retry"
        BY <2>3, <4>2 DEF InsertTx, Stage
      <4> QED
        BY <3>1, <4>1, <4>2
    <3> QED
      BY <3>2, MoveKeeps
  <2> QED
    BY <2>1, <2>2, <2>3
<1>3. CASE WorkQueue
  BY <1>3, MoveKeeps DEF WorkQueue, Stage
<1>4. CASE ExecuteBlock
  BY <1>4, ExecuteKeeps
<1>5. CASE RestartNode
  BY <1>5, RestartKeeps
<1> QED
  BY <1>1, <1>2, <1>3, <1>4, <1>5 DEF NodeNext

---------------------------------------------------------------------------
(* What the programs know of the node stays true *)

\* What blocks hold are transactions.
LEMMA ExecutedType ==
    ASSUME NodeInv
    PROVE  /\ \A b \in 1..Len(executed) : executed[b].tx \in Tx
           /\ ExecutedTxs \subseteq Tx
<1> DEFINE R == [tx : Tx, ok : BOOLEAN]
<1>1. executed \in Seq(R)
  BY DEF NodeInv, NodeTypeOK
<1> HIDE DEF R
<1>2. \A b \in 1..Len(executed) : executed[b] \in R
  BY <1>1
<1>3. \A b \in 1..Len(executed) : executed[b].tx \in Tx
  BY <1>2 DEF R
<1> QED
  BY <1>3 DEF ExecutedTxs

\* What was executed remains so.
LEMMA ExecutedStays ==
    ASSUME NodeInv, NodeInv', NodeGrows
    PROVE  /\ ExecutedTxs \subseteq ExecutedTxs'
           /\ \A tx : Confirmed(tx) => Confirmed(tx)'
<1>1. Len(executed) \in Nat /\ Len(executed') \in Nat
  BY DEF NodeInv, NodeTypeOK
<1>2. \A b \in 1..Len(executed) : b \in 1..Len(executed') /\ executed'[b] = executed[b]
  BY <1>1 DEF NodeGrows
<1>3. ExecutedTxs \subseteq ExecutedTxs'
  BY <1>2 DEF ExecutedTxs
<1>4. ASSUME NEW tx, Confirmed(tx) PROVE Confirmed(tx)'
  BY <1>2, <1>4 DEF Confirmed
<1> QED
  BY <1>3, <1>4

\* So does what was attested, and the answer of verify.
LEMMA AttestedStays ==
    ASSUME NodeGrows, NEW h \in DataHash
    PROVE  /\ \A a : AttestedBy(h, a) => AttestedBy(h, a)'
           /\ hashToId[h] # 0 => VerifyAnswer(h)' = VerifyAnswer(h)
BY DEF NodeGrows, AttestedBy, VerifyAnswer, Contract!verifyByHash, Contract!NotFound

\* An answer of verify that says the hash is there.
LEMMA VerifiedIsThere ==
    ASSUME NEW h, VerifyAnswer(h).kind = "verified"
    PROVE  hashToId[h] # 0
<1> SUFFICES ASSUME hashToId[h] = 0 PROVE VerifyAnswer(h).kind = "absent"
  OBVIOUS
<1> QED
  BY DEF VerifyAnswer, Contract!verifyByHash, Contract!NotFound

\* The calls under way, as long as their program takes no step.
LEMMA SignerStays ==
    ASSUME NodeInv, NodeInv', NodeGrows, SignerInv, UNCHANGED <<program, calls>>
    PROVE  SignerInv'
BY ExecutedStays DEF SignerInv, SignerTypeOK

\* What was printed is true of the grown chain as well.
LEMMA PrintedStays ==
    ASSUME NodeGrows, PrintedInv, UNCHANGED <<shown, certificates>>
    PROVE  PrintedInv'
<1>1. \A c \in certificates' : c.hash \in DataHash /\ AttestedBy(c.hash, c.submitter)'
  BY AttestedStays DEF PrintedInv
<1>2. ASSUME NEW t \in Caller, shown[t] # Nothing, shown[t].kind = "verified"
      PROVE  shown[t].hash \in DataHash /\ VerifyAnswer(shown[t].hash)' = shown[t]
  <2>1. PICK h : h = shown[t].hash
    OBVIOUS
  <2>2. h \in DataHash /\ VerifyAnswer(h) = shown[t]
    BY <1>2, <2>1 DEF PrintedInv
  <2>3. VerifyAnswer(h)' = VerifyAnswer(h)
    BY <1>2, <2>2, AttestedStays, VerifiedIsThere
  <2>4. VerifyAnswer(shown[t].hash)' = VerifyAnswer(h)'
    BY <2>1 DEF VerifyAnswer, Contract!verifyByHash, Contract!NotFound
  <2> QED
    BY <2>1, <2>2, <2>3, <2>4
<1> QED
  BY <1>1, <1>2 DEF PrintedInv

\* The records sent are on their way or executed, and their nonces taken.
LEMMA InOrderStays ==
    ASSUME NodeGrows, dropped' = {}, InOrder,
           UNCHANGED <<script, record, nonce, succeeded, lastTx>>
    PROVE  InOrder'
<1>1. /\ (DOMAIN pool \cup ExecutedTxs) \subseteq (DOMAIN pool \cup ExecutedTxs)'
      /\ \A k \in Nat : NonceTaken(Wallet, k) => NonceTaken(Wallet, k)'
  BY UploaderAssumption DEF NodeGrows
<1>2. \A k \in 0..(nonce' - 1) : NonceTaken(Wallet, k)'
  BY <1>1 DEF InOrder
<1>3. ASSUME NEW tx, NEW r, SentBefore(tx, r) PROVE SentBefore(tx, r)'
  BY <1>3 DEF SentBefore
<1>4. ASSUME NEW r \in succeeded'
      PROVE  /\ lastTx' # NoTx
             /\ \E tx \in (DOMAIN pool \cup ExecutedTxs)' : SentBefore(tx, r)'
  BY <1>1, <1>3 DEF InOrder
<1> QED
  BY <1>2, <1>4 DEF InOrder

\* So the script loses nothing by a step that is not its own.
LEMMA SendingStays ==
    ASSUME NodeInv, NodeInv', NodeGrows, SendingInv, UNCHANGED uploaderVars
    PROVE  SendingInv'
<1>1. ExecutedTxs \subseteq ExecutedTxs'
  BY ExecutedStays
<1>2. failed' = {} /\ dropped' = {} => InOrder'
  BY InOrderStays DEF NodeGrows, SendingInv, uploaderVars
<1> QED
  BY <1>1, <1>2 DEF SendingInv, uploaderVars

\* The blocks and transactions the SDK has seen are still there.
LEMMA SdkTypeStays ==
    ASSUME NodeInv, NodeInv', NodeGrows, SdkTypeOK,
           UNCHANGED <<indexed, scanned, deposits, payments, sends>>
    PROVE  SdkTypeOK'
<1>1. Len(executed) \in Nat /\ Len(executed') \in Nat /\ Len(executed) <= Len(executed')
  BY DEF NodeInv, NodeTypeOK, NodeGrows
<1>2. indexed \in 0..Len(executed') /\ scanned \in 0..Len(executed')
  BY <1>1 DEF SdkTypeOK
<1>3. payments \subseteq ExecutedTxs'
  BY ExecutedStays DEF SdkTypeOK
<1> QED
  BY <1>2, <1>3 DEF SdkTypeOK

\* The other types do not depend on the node.
LEMMA UploaderTypeStays ==
    ASSUME UploaderTypeOK, UNCHANGED uploaderVars PROVE UploaderTypeOK'
BY DEF UploaderTypeOK, uploaderVars

\* As before, for the command-line tool.
LEMMA CliTypeStays ==
    ASSUME CliTypeOK, UNCHANGED cliOnly PROVE CliTypeOK'
BY DEF CliTypeOK, cliOnly

\* As before, for the supervisor.
LEMMA SupervisorTypeStays ==
    ASSUME SupervisorTypeOK, UNCHANGED supVars PROVE SupervisorTypeOK'
BY DEF SupervisorTypeOK, supVars

\* A step of the node, or one that changes nothing.
LEMMA NodeStepKeeps ==
    ASSUME IInv, NodeStep \/ UNCHANGED vars
    PROVE  IInv'
<1>1. NodeInv' /\ NodeGrows
  <2>1. NodeInv
    BY DEF IInv
  <2>2. CASE NodeStep
    BY <2>1, <2>2, NodeKeeps DEF NodeStep
  <2>3. CASE UNCHANGED vars
    BY <2>1, <2>3, UnchangedKeeps DEF vars
  <2> QED
    BY <2>2, <2>3
<1>2. UNCHANGED <<program, uploaderVars, calls, cliOnly, sdkOnly, supVars>>
  BY DEF NodeStep, vars, cliOnly, sdkOnly
<1>3. SignerInv' /\ PrintedInv' /\ SendingInv' /\ SdkTypeOK'
  BY <1>1, <1>2, SignerStays, PrintedStays, SendingStays, SdkTypeStays
     DEF IInv, cliOnly, sdkOnly
<1>4. UploaderTypeOK' /\ CliTypeOK' /\ SupervisorTypeOK'
  BY <1>2, UploaderTypeStays, CliTypeStays, SupervisorTypeStays DEF IInv
<1> QED
  BY <1>1, <1>2, <1>3, <1>4 DEF IInv

---------------------------------------------------------------------------
(* A call through the ethers library *)

\* A call is set to a state of which SignerInv holds.
LEMMA SetCallKeeps ==
    ASSUME NodeInv, NodeInv', NodeGrows, SignerInv, program' = program,
           NEW c \in Caller,
           NEW pc \in {"idle", "signed", "sent", "confirmed", "thrown"},
           NEW tx \in Tx \cup {NoTx}, SetCall(c, pc, tx),
           pc \in {"signed", "sent", "confirmed"} => tx \in Tx,
           pc = "confirmed" => Confirmed(tx)',
           program = "cli" /\ tx # NoTx => CallsContract(tx)
    PROVE  SignerInv'
<1>1. SignerTypeOK'
  BY DEF SetCall, SignerInv, SignerTypeOK
<1>2. calls'[c].pc = pc /\ calls'[c].tx = tx
  BY DEF SetCall, SignerInv, SignerTypeOK
<1>3. \A d \in Caller : d # c => calls'[d] = calls[d]
  BY DEF SetCall, SignerInv, SignerTypeOK
<1>4. ASSUME NEW d \in Caller, NEW x, x = calls'[d].tx
      PROVE  /\ calls'[d].pc \in {"signed", "sent", "confirmed"} => x \in Tx
             /\ calls'[d].pc = "confirmed" => Confirmed(x)'
             /\ program' = "cli" /\ x # NoTx => CallsContract(x)
  <2>1. CASE d = c
    BY <1>2, <1>4, <2>1
  <2>2. CASE d # c
    <3>1. calls'[d] = calls[d]
      BY <1>3, <2>2
    <3>2. /\ calls[d].pc \in {"signed", "sent", "confirmed"} => x \in Tx
          /\ calls[d].pc = "confirmed" => Confirmed(x)
          /\ program = "cli" /\ x # NoTx => CallsContract(x)
      BY <1>4, <3>1 DEF SignerInv
    <3>3. Confirmed(x) => Confirmed(x)'
      BY ExecutedStays
    <3> QED
      BY <3>1, <3>2, <3>3
  <2> QED
    BY <2>1, <2>2
<1>5. (\A d \in Caller : \A x \in {calls[d].tx} :
          /\ calls[d].pc \in {"signed", "sent", "confirmed"} => x \in Tx
          /\ calls[d].pc = "confirmed" => Confirmed(x)
          /\ program = "cli" /\ x # NoTx => CallsContract(x))'
  BY <1>4 DEF CallsContract
<1> QED
  BY <1>1, <1>5 DEF SignerInv

\* The signer fills in a transaction, or throws.
LEMMA PopulateKeeps ==
    ASSUME NodeInv, SignerInv, program' = program, NEW c \in Caller, NEW tx \in Tx,
           program = "cli" => CallsContract(tx), Populate(c, tx)
    PROVE  NodeInv' /\ NodeGrows /\ SignerInv'
<1> DEFINE signed == [tx EXCEPT !.nonce = PendingNonce(tx.from)]
<1>1. NodeInv' /\ NodeGrows
  BY UnchangedKeeps DEF Populate
<1>2. signed \in Tx /\ signed.op = tx.op /\ signed.hashes = tx.hashes
  <2>1. tx.from \in Account
    BY DEF Tx
  <2>2. PendingNonce(tx.from) \in Nat
    BY <2>1, PendingNonceFree
  <2> QED
    BY <2>2 DEF Tx
<1>3. CallsContract(tx) => CallsContract(signed)
  BY <1>2 DEF CallsContract
<1>4. SetCall(c, "signed", signed) \/ SetCall(c, "thrown", NoTx)
  BY DEF Populate
<1> HIDE DEF signed
<1>5. CASE SetCall(c, "signed", signed)
  <2>1. signed \in Tx \cup {NoTx} /\ signed \in Tx
    BY <1>2
  <2> QED
    BY <1>1, <1>3, <1>5, <2>1, SetCallKeeps
<1>6. CASE SetCall(c, "thrown", NoTx)
  BY <1>1, <1>6, SetCallKeeps
<1> QED
  BY <1>1, <1>4, <1>5, <1>6

\* The transaction is sent, arrives or not, and is answered or not.
LEMMA BroadcastKeeps ==
    ASSUME NodeInv, SignerInv, program' = program, NEW c \in Caller, Broadcast(c)
    PROVE  NodeInv' /\ NodeGrows /\ SignerInv'
<1>0. PICK tx : tx = calls[c].tx
  OBVIOUS
<1>1. /\ tx \in Tx /\ tx \in Tx \cup {NoTx}
      /\ program = "cli" => CallsContract(tx)
  BY <1>0, NoTxAssumption DEF Broadcast, SignerInv
<1>2. /\ \/ Accept(tx) /\ (UNCHANGED faults \/ ConnectionFails)
         \/ UNCHANGED nodeVars /\ (UNCHANGED faults \/ ConnectionFails)
      /\ SetCall(c, "sent", tx) \/ SetCall(c, "thrown", NoTx)
  BY <1>0 DEF Broadcast
<1>3. NodeInv' /\ NodeGrows
  BY <1>1, <1>2, AcceptKeeps, UnchangedKeeps
<1>4. CASE SetCall(c, "sent", tx)
  BY <1>1, <1>3, <1>4, SetCallKeeps
<1>5. CASE SetCall(c, "thrown", NoTx)
  BY <1>3, <1>5, SetCallKeeps
<1> QED
  BY <1>2, <1>3, <1>4, <1>5

\* A receipt confirms a transaction that a block holds as a success.
LEMMA ReceiptKeeps ==
    ASSUME NodeInv, SignerInv, program' = program, NEW c \in Caller, Receipt(c)
    PROVE  NodeInv' /\ NodeGrows /\ SignerInv'
<1>0. PICK tx : tx = calls[c].tx
  OBVIOUS
<1>1. /\ tx \in Tx /\ tx \in Tx \cup {NoTx}
      /\ program = "cli" => CallsContract(tx)
  BY <1>0, NoTxAssumption DEF Receipt, SignerInv
<1>2. /\ UNCHANGED nodeVars /\ (UNCHANGED faults \/ ConnectionFails)
      /\ (Confirmed(tx) /\ SetCall(c, "confirmed", tx)) \/ SetCall(c, "thrown", NoTx)
  BY <1>0 DEF Receipt, Confirmed
<1>3. NodeInv' /\ NodeGrows
  BY <1>2, UnchangedKeeps
<1>4. CASE Confirmed(tx) /\ SetCall(c, "confirmed", tx)
  <2>1. Confirmed(tx)'
    BY <1>3, <1>4, ExecutedStays
  <2> QED
    BY <1>1, <1>3, <1>4, <2>1, SetCallKeeps
<1>5. CASE SetCall(c, "thrown", NoTx)
  BY <1>3, <1>5, SetCallKeeps
<1> QED
  BY <1>2, <1>3, <1>4, <1>5

\* The program goes on, and the call is forgotten.
LEMMA EndCallKeeps ==
    ASSUME NodeInv, NodeInv', NodeGrows, SignerInv, program' = program,
           NEW c \in Caller, EndCall(c)
    PROVE  SignerInv'
<1>1. SetCall(c, "idle", NoTx)
  BY DEF EndCall, SetCall, NoCall
<1> QED
  BY <1>1, SetCallKeeps

---------------------------------------------------------------------------
(* The command-line tool *)

\* The hashes the tool sends are hashes.
LEMMA SourceHashType ==
    ASSUME NEW src \in Source PROVE SourceHash(src) \in DataHash
BY CliAssumption DEF Source, SourceHash, hashData

\* So are those of a batch.
LEMMA BatchHashesType ==
    ASSUME NEW items \in Batches PROVE BatchHashes(items) \in Seq(DataHash)
<1>1. PICK n \in 0..MaxItems : items \in [1..n -> Text \cup DataHash]
  BY DEF Batches
<1>2. n \in Nat
  BY CliAssumption
<1>3. BatchHashes(items) \in [1..n -> DataHash]
  BY <1>1, CliAssumption DEF BatchHashes, hashData
<1> QED
  BY <1>2, <1>3

\* The tool's transactions before they get a nonce.
LEMMA CliTxType ==
    ASSUME NEW key \in Account, NEW op \in {"attest", "batch"},
           NEW hashes \in Seq(DataHash)
    PROVE  /\ CliTx(key, op, hashes) \in Tx
           /\ CliTx(key, op, hashes).op = op /\ CliTx(key, op, hashes).hashes = hashes
BY CliAssumption DEF CliTx, Tx

\* A command prints something that is no answer of verify, or a true one.
LEMMA ShowKeeps ==
    ASSUME NodeGrows, PrintedInv, NEW t \in Caller, NEW what, Show(t, what),
           DOMAIN shown = Caller, UNCHANGED certificates,
           what # Nothing /\ what.kind = "verified" =>
               what.hash \in DataHash /\ VerifyAnswer(what.hash)' = what
    PROVE  PrintedInv' /\ DOMAIN shown' = Caller
<1>1. /\ DOMAIN shown' = Caller /\ shown'[t] = what
      /\ \A u \in Caller : u # t => shown'[u] = shown[u]
  BY DEF Show
<1>2. \A c \in certificates' : c.hash \in DataHash /\ AttestedBy(c.hash, c.submitter)'
  BY AttestedStays DEF PrintedInv
<1>3. ASSUME NEW u \in Caller, NEW a, a = shown'[u], a # Nothing, a.kind = "verified"
      PROVE  a.hash \in DataHash /\ VerifyAnswer(a.hash)' = a
  <2>1. CASE u = t
    BY <1>1, <1>3, <2>1
  <2>2. CASE u # t
    <3>1. a.hash \in DataHash /\ VerifyAnswer(a.hash) = a
      BY <1>1, <1>3, <2>2 DEF PrintedInv
    <3> QED
      BY <1>3, <3>1, AttestedStays, VerifiedIsThere
  <2> QED
    BY <2>1, <2>2
<1> QED
  BY <1>1, <1>2, <1>3 DEF PrintedInv

\* A command that changes nothing of the chain and prints this.
LEMMA CommandKeeps ==
    ASSUME IInv, program' = program, NEW t \in Caller, NEW what,
           Show(t, what), NewCommand,
           UNCHANGED <<nodeVars, calls, certificates>>,
           UNCHANGED faults \/ ConnectionFails,
           what # Nothing /\ what.kind = "verified" =>
               what.hash \in DataHash /\ VerifyAnswer(what.hash) = what
    PROVE  NodeInv' /\ NodeGrows /\ SignerInv' /\ PrintedInv' /\ CliTypeOK'
<1>1. NodeInv' /\ NodeGrows
  BY UnchangedKeeps DEF IInv
<1>2. SignerInv'
  BY <1>1, SignerStays DEF IInv
<1>3. PrintedInv /\ DOMAIN shown = Caller
  BY DEF IInv, CliTypeOK
<1>4. what # Nothing /\ what.kind = "verified" =>
            what.hash \in DataHash /\ VerifyAnswer(what.hash)' = what
  BY <1>1, AttestedStays, VerifiedIsThere
<1>5. PrintedInv' /\ DOMAIN shown' = Caller
  BY <1>1, <1>3, <1>4, ShowKeeps
<1>6. CliTypeOK'
  BY <1>5, CliAssumption DEF CliTypeOK, IInv, NewCommand
<1> QED
  BY <1>1, <1>2, <1>5, <1>6

\* A command that begins a call.
LEMMA CallCommandKeeps ==
    ASSUME IInv, program' = program, NEW t \in Caller, NEW tx \in Tx, CallsContract(tx),
           NewCommand, Populate(t, tx), Show(t, Nothing), UNCHANGED certificates
    PROVE  NodeInv' /\ NodeGrows /\ SignerInv' /\ PrintedInv' /\ CliTypeOK'
<1>1. NodeInv' /\ NodeGrows /\ SignerInv'
  BY PopulateKeeps DEF IInv
<1>2. PrintedInv /\ DOMAIN shown = Caller
  BY DEF IInv, CliTypeOK
<1>3. PrintedInv' /\ DOMAIN shown' = Caller
  BY <1>1, <1>2, ShowKeeps
<1>4. CliTypeOK'
  BY <1>3, CliAssumption DEF CliTypeOK, IInv, NewCommand
<1> QED
  BY <1>1, <1>3, <1>4

\* The certificate of a call that was confirmed names what the chain has.
LEMMA PrintOutcomeKeeps ==
    ASSUME IInv, program = "cli", program' = program, NEW t \in Caller, PrintOutcome(t)
    PROVE  NodeInv' /\ NodeGrows /\ SignerInv' /\ PrintedInv' /\ CliTypeOK'
<1>1. NodeInv' /\ NodeGrows
  BY UnchangedKeeps DEF IInv, PrintOutcome
<1>2. SignerInv'
  BY <1>1, EndCallKeeps DEF IInv, PrintOutcome
<1>3. \A c \in certificates : c.hash \in DataHash /\ c.submitter \in Account
                              /\ AttestedBy(c.hash, c.submitter)
  BY DEF IInv, CliTypeOK, PrintedInv
<1>4. \A c \in certificates' : c.hash \in DataHash /\ c.submitter \in Account
                               /\ AttestedBy(c.hash, c.submitter)'
  <2>1. CASE calls[t].pc = "confirmed"
    <3>1. PICK tx : tx = calls[t].tx
      OBVIOUS
    <3>2. tx \in Tx /\ Confirmed(tx) /\ CallsContract(tx)
      BY <2>1, <3>1, NoTxAssumption DEF IInv, SignerInv
    <3>3. tx.hashes \in Seq(DataHash) /\ tx.from \in Account
      BY <3>2 DEF Tx
    <3>4. \A i \in 1..Len(tx.hashes) : AttestedBy(tx.hashes[i], tx.from)
      <4>1. PICK b \in 1..Len(executed) : executed[b] = [tx |-> tx, ok |-> TRUE]
        BY <3>2 DEF Confirmed
      <4>2. executed[b].tx = tx /\ executed[b].ok
        BY <4>1
      <4> QED
        BY <3>2, <4>2 DEF IInv, NodeInv, CallsInv
    <3>5. certificates' = certificates \cup
                {[hash |-> tx.hashes[i], submitter |-> tx.from] : i \in 1..Len(tx.hashes)}
      BY <2>1, <3>1 DEF PrintOutcome
    <3>6. \A i \in 1..Len(tx.hashes) :
            tx.hashes[i] \in DataHash /\ AttestedBy(tx.hashes[i], tx.from)'
      BY <1>1, <3>3, <3>4, AttestedStays
    <3>7. \A c \in certificates : AttestedBy(c.hash, c.submitter)'
      BY <1>1, <1>3, AttestedStays
    <3> QED
      BY <1>3, <3>3, <3>5, <3>6, <3>7
  <2>2. CASE certificates' = certificates
    BY <1>1, <1>3, <2>2, AttestedStays
  <2> QED
    BY <2>1, <2>2 DEF PrintOutcome
<1>5. PICK what : Show(t, what) /\ what.kind \in {"attested", "failure"}
  BY DEF PrintOutcome
<1>6. /\ DOMAIN shown = Caller
      /\ \A u \in Caller : shown[u] # Nothing /\ shown[u].kind = "verified" =>
            shown[u].hash \in DataHash /\ VerifyAnswer(shown[u].hash) = shown[u]
  BY DEF IInv, PrintedInv, CliTypeOK
<1>7. /\ DOMAIN shown' = Caller /\ shown'[t] = what
      /\ \A u \in Caller : u # t => shown'[u] = shown[u]
  BY <1>5, <1>6 DEF Show
<1>8. ASSUME NEW u \in Caller, NEW a, a = shown'[u], a # Nothing, a.kind = "verified"
      PROVE  a.hash \in DataHash /\ VerifyAnswer(a.hash)' = a
  <2>1. u # t
    BY <1>5, <1>7, <1>8
  <2>2. a.hash \in DataHash /\ VerifyAnswer(a.hash) = a
    BY <1>6, <1>7, <1>8, <2>1
  <2> QED
    BY <1>1, <1>8, <2>2, AttestedStays, VerifiedIsThere
<1>9. PrintedInv'
  BY <1>4, <1>7, <1>8 DEF PrintedInv
<1>10. CliTypeOK'
  BY <1>4, <1>7 DEF CliTypeOK, IInv, PrintOutcome
<1> QED
  BY <1>1, <1>2, <1>9, <1>10

\* Whatever a terminal does.
LEMMA CliNextKeeps ==
    ASSUME IInv, program = "cli", program' = program, CliNext
    PROVE  NodeInv' /\ NodeGrows /\ SignerInv' /\ PrintedInv' /\ CliTypeOK'
<1>1. PICK t \in Caller :
        \/ ExitEarly(t)
        \/ \E src \in Source : HashCommand(t, src) \/ Verify(t, src)
        \/ \E key \in Account, src \in Source : Attest(t, key, src)
        \/ \E key \in Account, items \in Batches : BatchAttest(t, key, items)
        \/ Deliver(t)
        \/ PrintOutcome(t)
        \/ Query(t)
        \/ Info(t)
  BY DEF CliNext
<1>2. CASE ExitEarly(t)
  BY <1>2, CommandKeeps DEF ExitEarly
<1>3. ASSUME NEW src \in Source, HashCommand(t, src)
      PROVE  NodeInv' /\ NodeGrows /\ SignerInv' /\ PrintedInv' /\ CliTypeOK'
  <2>1. PICK what : Show(t, what) /\ what.kind = "hash"
    BY <1>3 DEF HashCommand
  <2> QED
    BY <1>3, <2>1, CommandKeeps DEF HashCommand
<1>4. ASSUME NEW what, Ask(t, what),
             what # Nothing /\ what.kind = "verified" =>
                what.hash \in DataHash /\ VerifyAnswer(what.hash) = what
      PROVE  NodeInv' /\ NodeGrows /\ SignerInv' /\ PrintedInv' /\ CliTypeOK'
  <2>1. CASE Show(t, what) /\ UNCHANGED faults
    BY <1>4, <2>1, CommandKeeps DEF Ask
  <2>2. CASE Show(t, [kind |-> "failure"]) /\ ConnectionFails
    <3>1. PICK other : Show(t, other) /\ other.kind = "failure"
      BY <2>2
    <3> QED
      BY <1>4, <2>2, <3>1, CommandKeeps DEF Ask
  <2> QED
    BY <1>4, <2>1, <2>2 DEF Ask
<1>5. ASSUME NEW src \in Source, Verify(t, src)
      PROVE  NodeInv' /\ NodeGrows /\ SignerInv' /\ PrintedInv' /\ CliTypeOK'
  <2>1. PICK h \in DataHash : h = SourceHash(src)
    BY SourceHashType
  <2>2. VerifyAnswer(h).hash = h
    BY DEF VerifyAnswer
  <2>3. Ask(t, VerifyAnswer(h))
    BY <1>5, <2>1 DEF Verify
  <2> QED
    BY <1>4, <2>2, <2>3
<1>6. ASSUME NEW key \in Account, NEW src \in Source, Attest(t, key, src)
      PROVE  NodeInv' /\ NodeGrows /\ SignerInv' /\ PrintedInv' /\ CliTypeOK'
  <2>1. <<SourceHash(src)>> \in Seq(DataHash)
    BY SourceHashType
  <2>2. PICK hashes \in Seq(DataHash) : hashes = <<SourceHash(src)>> /\ Len(hashes) = 1
    BY <2>1
  <2>3. PICK tx \in Tx : tx = CliTx(key, "attest", hashes) /\ CallsContract(tx)
    BY <2>2, CliTxType DEF CallsContract
  <2>4. Populate(t, tx)
    BY <1>6, <2>2, <2>3 DEF Attest
  <2> QED
    BY <1>6, <2>3, <2>4, CallCommandKeeps DEF Attest
<1>7. ASSUME NEW key \in Account, NEW items \in Batches, BatchAttest(t, key, items)
      PROVE  NodeInv' /\ NodeGrows /\ SignerInv' /\ PrintedInv' /\ CliTypeOK'
  <2>1. PICK hashes \in Seq(DataHash) : hashes = BatchHashes(items)
    BY BatchHashesType
  <2>2. PICK tx \in Tx : tx = CliTx(key, "batch", hashes) /\ CallsContract(tx)
    BY <2>1, CliTxType DEF CallsContract
  <2> QED
    BY <1>7, <2>1, <2>2, CallCommandKeeps DEF BatchAttest
<1>8. CASE Deliver(t)
  <2>1. NodeInv' /\ NodeGrows /\ SignerInv'
    BY <1>8, BroadcastKeeps, ReceiptKeeps DEF IInv, Deliver
  <2>2. PrintedInv'
    BY <1>8, <2>1, PrintedStays DEF IInv, Deliver
  <2>3. CliTypeOK'
    BY <1>8, CliTypeStays DEF IInv, Deliver, cliOnly
  <2> QED
    BY <2>1, <2>2, <2>3
<1>9. CASE PrintOutcome(t)
  BY <1>9, PrintOutcomeKeeps
<1>10. CASE Query(t)
  <2>1. PICK what \in QueryAnswers : Ask(t, what)
    BY <1>10 DEF Query
  <2>2. what.kind # "verified"
    BY DEF QueryAnswers
  <2> QED
    BY <1>4, <2>1, <2>2
<1>11. CASE Info(t)
  <2>1. PICK what : Show(t, what) /\ what.kind = "info"
    BY <1>11 DEF Info
  <2> QED
    BY <1>11, <2>1, CommandKeeps DEF Info
<1> QED
  BY <1>1, <1>2, <1>3, <1>5, <1>6, <1>7, <1>8, <1>9, <1>10, <1>11

\* A step of the command-line tool leaves the other programs alone.
LEMMA CliStepKeeps ==
    ASSUME IInv, CliStep PROVE IInv'
<1>1. NodeInv' /\ NodeGrows /\ SignerInv' /\ PrintedInv' /\ CliTypeOK'
  BY CliNextKeeps DEF CliStep
<1>2. UNCHANGED <<program, uploaderVars, sdkOnly, supVars>>
  BY DEF CliStep
<1>3. SendingInv' /\ SdkTypeOK'
  BY <1>1, <1>2, SendingStays, SdkTypeStays DEF IInv, sdkOnly
<1>4. UploaderTypeOK' /\ SupervisorTypeOK'
  BY <1>2, UploaderTypeStays, SupervisorTypeStays DEF IInv
<1> QED
  BY <1>1, <1>2, <1>3, <1>4 DEF IInv

---------------------------------------------------------------------------
(* The SDK and the supervisor *)

\* Whatever the exchange does.
LEMMA SdkNextKeeps ==
    ASSUME IInv, program = "sdk", program' = program, SdkNext
    PROVE  NodeInv' /\ NodeGrows /\ SignerInv' /\ SdkTypeOK'
<1>1. NodeInv /\ SignerInv /\ SdkTypeOK
  BY DEF IInv
<1>2. ASSUME NEW c \in Caller, NEW op \in {"transfer", "token"}, NEW to \in Receiver,
             Pay(c, HotWallet, op, to)
      PROVE  NodeInv' /\ NodeGrows /\ SignerInv' /\ SdkTypeOK'
  <2>1. PICK tx \in Tx : tx = Payment(HotWallet, op, to)
    <3>1. << >> \in Seq(DataHash)
      OBVIOUS
    <3>2. Payment(HotWallet, op, to) \in Tx
      BY <3>1, SdkAssumption, CliAssumption DEF Payment, Tx
    <3> QED
      BY <3>2
  <2>2. NodeInv' /\ NodeGrows /\ SignerInv'
    BY <1>1, <1>2, <2>1, PopulateKeeps DEF Pay
  <2>3. (sends \in 0..MaxSends)'
    BY <1>1, <1>2, SdkAssumption DEF Pay, SdkTypeOK
  <2>4. executed' = executed
    BY <1>2 DEF Pay, Populate, nodeVars
  <2> QED
    BY <1>1, <1>2, <2>2, <2>3, <2>4 DEF Pay, SdkTypeOK, ExecutedTxs
<1>3. ASSUME NEW c \in Caller, DeliverPayment(c)
      PROVE  NodeInv' /\ NodeGrows /\ SignerInv' /\ SdkTypeOK'
  <2>1. NodeInv' /\ NodeGrows /\ SignerInv'
    BY <1>1, <1>3, BroadcastKeeps, ReceiptKeeps DEF DeliverPayment
  <2> QED
    BY <1>1, <1>3, <2>1, SdkTypeStays DEF DeliverPayment
<1>4. ASSUME NEW c \in Caller, ReturnPayment(c)
      PROVE  NodeInv' /\ NodeGrows /\ SignerInv' /\ SdkTypeOK'
  <2>1. NodeInv' /\ NodeGrows
    BY <1>1, <1>4, UnchangedKeeps DEF ReturnPayment
  <2>2. SignerInv'
    BY <1>1, <1>4, <2>1, EndCallKeeps DEF ReturnPayment
  <2>3. calls[c].pc = "confirmed" => calls[c].tx \in ExecutedTxs
    <3> SUFFICES ASSUME NEW tx, tx = calls[c].tx, calls[c].pc = "confirmed"
                 PROVE  tx \in ExecutedTxs
      OBVIOUS
    <3>1. Confirmed(tx)
      BY <1>1 DEF SignerInv
    <3>2. PICK b \in 1..Len(executed) : executed[b] = [tx |-> tx, ok |-> TRUE]
      BY <3>1 DEF Confirmed
    <3>3. executed[b].tx = tx
      BY <3>2
    <3> QED
      BY <3>3 DEF ExecutedTxs
  <2>4. executed' = executed
    BY <1>4 DEF ReturnPayment, nodeVars
  <2>5. payments' \subseteq ExecutedTxs'
    BY <1>1, <1>4, <2>3, <2>4 DEF ReturnPayment, SdkTypeOK, ExecutedTxs
  <2> QED
    BY <1>1, <1>4, <2>1, <2>2, <2>4, <2>5 DEF ReturnPayment, SdkTypeOK
<1>5. CASE ScanNextBlock
  <2>1. NodeInv' /\ NodeGrows
    BY <1>1, <1>5, UnchangedKeeps DEF ScanNextBlock
  <2>2. SignerInv'
    BY <1>1, <1>5, <2>1, SignerStays DEF ScanNextBlock
  <2>3. scanned \in Nat /\ scanned' = scanned + 1 /\ scanned + 1 \in 1..Len(executed)
        /\ executed' = executed /\ Len(executed) \in Nat
    BY <1>1, <1>5 DEF ScanNextBlock, SdkTypeOK, nodeVars, NodeInv, NodeTypeOK
  <2>4. PICK b : b = scanned + 1
    OBVIOUS
  <2>5. executed[b].tx.from \in Account /\ executed[b].tx.to \in Receiver
    <3> DEFINE R == [tx : Tx, ok : BOOLEAN]
    <3>1. executed \in Seq(R)
      BY <1>1 DEF NodeInv, NodeTypeOK
    <3> HIDE DEF R
    <3>2. executed[b] \in R
      BY <2>3, <2>4, <3>1
    <3>3. executed[b].tx \in Tx
      BY <3>2 DEF R
    <3> QED
      BY <3>3 DEF Tx
  <2>6. \A n \in {"native", "erc20"} :
            Deposit(b, n) \in [block : 1..(scanned + 1), type : {"native", "erc20"},
                               from : Account, to : Receiver]
    BY <2>3, <2>4, <2>5 DEF Deposit
  <2>7. deposits \subseteq [block : 1..(scanned + 1), type : {"native", "erc20"},
                            from : Account, to : Receiver]
    <3>1. 1..scanned \subseteq 1..(scanned + 1)
      BY <2>3
    <3> QED
      BY <1>1, <3>1 DEF SdkTypeOK
  <2>8. deposits' \subseteq [block : 1..scanned', type : {"native", "erc20"},
                             from : Account, to : Receiver]
    <3>1. deposits' \subseteq deposits \cup {Deposit(b, "native"), Deposit(b, "erc20")}
      BY <1>5, <2>4 DEF ScanNextBlock, scanBlockForDeposits, scanBlockForTokenDeposits
    <3> QED
      BY <2>3, <2>6, <2>7, <3>1
  <2>9. (scanned \in 0..Len(executed))'
    BY <2>3
  <2> QED
    BY <1>1, <1>5, <2>1, <2>2, <2>3, <2>8, <2>9
       DEF ScanNextBlock, SdkTypeOK, ExecutedTxs
<1>6. CASE IndexBlock
  <2>1. NodeInv' /\ NodeGrows
    BY <1>1, <1>6, UnchangedKeeps DEF IndexBlock
  <2>2. SignerInv'
    BY <1>1, <1>6, <2>1, SignerStays DEF IndexBlock
  <2>3. (indexed \in 0..Len(executed))' /\ executed' = executed
    BY <1>1, <1>6 DEF IndexBlock, SdkTypeOK, nodeVars, NodeInv, NodeTypeOK
  <2> QED
    BY <1>1, <1>6, <2>1, <2>2, <2>3 DEF IndexBlock, SdkTypeOK, ExecutedTxs
<1> QED
  BY <1>2, <1>3, <1>4, <1>5, <1>6 DEF SdkNext, sendECY, sendToken

\* A step of the SDK leaves the other programs alone.
LEMMA SdkStepKeeps ==
    ASSUME IInv, SdkStep PROVE IInv'
<1>1. NodeInv' /\ NodeGrows /\ SignerInv' /\ SdkTypeOK'
  BY SdkNextKeeps DEF SdkStep
<1>2. UNCHANGED <<program, uploaderVars, cliOnly, supVars>>
  BY DEF SdkStep
<1>3. SendingInv' /\ PrintedInv'
  BY <1>1, <1>2, SendingStays, PrintedStays DEF IInv, cliOnly
<1>4. UploaderTypeOK' /\ CliTypeOK' /\ SupervisorTypeOK'
  BY <1>2, UploaderTypeStays, CliTypeStays, SupervisorTypeStays DEF IInv
<1> QED
  BY <1>1, <1>2, <1>3, <1>4 DEF IInv

\* The supervisor touches nothing but its own.
LEMMA SupStepKeeps ==
    ASSUME IInv, SupStep PROVE IInv'
<1>1. UNCHANGED <<program, nodeVars, faults, uploaderVars, calls, cliOnly, sdkOnly>>
  BY DEF SupStep
<1>2. NodeInv' /\ NodeGrows
  BY <1>1, UnchangedKeeps DEF IInv
<1>3. SignerInv' /\ PrintedInv' /\ SendingInv' /\ SdkTypeOK'
  BY <1>1, <1>2, SignerStays, PrintedStays, SendingStays, SdkTypeStays
     DEF IInv, cliOnly, sdkOnly
<1>4. UploaderTypeOK' /\ CliTypeOK'
  BY <1>1, UploaderTypeStays, CliTypeStays DEF IInv
<1>5. SupervisorTypeOK'
  <2>0. SupervisorTypeOK /\ (NextTry => tries' \in 0..(MaxShift + 1))
    BY SupervisorAssumption DEF IInv, SupervisorTypeOK, NextTry
  <2>1. CASE BeginAttempt
    BY <2>0, <2>1, SupervisorAssumption DEF SupervisorTypeOK, BeginAttempt
  <2>2. CASE EndDelay
    BY <2>0, <2>2, SupervisorAssumption DEF SupervisorTypeOK, EndDelay
  <2>3. CASE OpenIndexerDB
    BY <2>0, <2>3, SupervisorAssumption DEF SupervisorTypeOK, OpenIndexerDB
  <2>4. CASE StartJSONRPC
    <3>1. tries' \in 0..(MaxShift + 1)
      BY <2>0, <2>4 DEF SupervisorTypeOK, StartJSONRPC
    <3>2. failures' \in 0..MaxFailures
      BY <2>0, <2>4, SupervisorAssumption DEF SupervisorTypeOK, StartJSONRPC
    <3>3. supPc' \in {"loop", "serving"} /\ port' \in {"free", "held", "lingering"}
      BY <2>0, <2>4 DEF SupervisorTypeOK, StartJSONRPC
    <3>4. cancelled' \in BOOLEAN /\ UNCHANGED <<enableIndexer, parentDone, databaseOpen>>
      BY <2>0, <2>4, Zenon DEF SupervisorTypeOK, StartJSONRPC
    <3> QED
      BY <2>0, <3>1, <3>2, <3>3, <3>4 DEF SupervisorTypeOK
  <2>5. CASE LingeringEnds
    BY <2>0, <2>5, SupervisorAssumption DEF SupervisorTypeOK, LingeringEnds
  <2>6. CASE ServicesSeeShutdown
    BY <2>0, <2>6, SupervisorAssumption DEF SupervisorTypeOK, ServicesSeeShutdown
  <2>7. CASE WaitReturns
    BY <2>0, <2>7, SupervisorAssumption DEF SupervisorTypeOK, WaitReturns
  <2>8. CASE ServiceFails
    BY <2>0, <2>8, SupervisorAssumption DEF SupervisorTypeOK, ServiceFails
  <2>9. CASE ShutDown
    BY <2>0, <2>9, SupervisorAssumption DEF SupervisorTypeOK, ShutDown
  <2> QED
    BY <2>1, <2>2, <2>3, <2>4, <2>5, <2>6, <2>7, <2>8, <2>9
       DEF SupStep, SupervisorNext, SupervisorStep
<1>6. program' \in Programs
  BY <1>1 DEF IInv
<1> QED
  BY <1>2, <1>3, <1>4, <1>5, <1>6 DEF IInv

---------------------------------------------------------------------------
(* The upload scripts *)

\* What the scripts send for a record.
LEMMA RecordTxType ==
    ASSUME UploaderTypeOK, NEW r \in Records
    PROVE  \E tx \in Tx :
              /\ tx = RecordTx(r)
              /\ tx.from = Wallet /\ tx.nonce = nonce /\ tx.item = r
              /\ script = "contract" => tx.op = "attest" /\ tx.hashes = <<Hashes[r]>>
<1>1. /\ Hashes[r] \in DataHash /\ <<Hashes[r]>> \in Seq(DataHash)
      /\ r \in Nat /\ nonce \in Nat
      /\ Wallet \in Account /\ Wallet \in Receiver /\ ContractAddress \in Receiver
      /\ "active_power" \in DataType
  BY UploaderAssumption DEF Records, UploaderTypeOK
<1>2. attestCall(r) \in Tx
  BY <1>1 DEF attestCall, Tx
<1>3. encodeAttestation(r) \in Tx
  BY <1>1 DEF encodeAttestation, Tx
<1>4. CASE script = "contract"
  BY <1>2, <1>4 DEF RecordTx, attestCall
<1>5. CASE script # "contract"
  BY <1>3, <1>5 DEF RecordTx, encodeAttestation
<1> QED
  BY <1>4, <1>5

\* The catch of an attempt, whatever became of the transaction.
LEMMA CatchErrorKeeps ==
    ASSUME NodeInv, NodeInv', NodeGrows, UploaderTypeOK, SendingInv, upPc = "send",
           CatchError
    PROVE  UploaderTypeOK' /\ SendingInv'
<1>1. record \in Records /\ MaxAttempts \in Nat \ {0} /\ Len(Hashes) \in Nat
  BY UploaderAssumption DEF UploaderTypeOK, Records
<1>2. CASE attempt < MaxAttempts - 1
  <2>1. /\ upPc' = "refresh"
        /\ UNCHANGED <<record, attempt, nonce, failed, script, succeeded, lastTx>>
    BY <1>2 DEF CatchError
  <2>2. UploaderTypeOK'
    BY <1>1, <2>1 DEF UploaderTypeOK
  <2>3. failed' = {} /\ dropped' = {} => InOrder'
    BY <2>1, InOrderStays DEF NodeGrows, SendingInv
  <2> QED
    BY <1>2, <2>1, <2>2, <2>3 DEF SendingInv
<1>3. CASE ~(attempt < MaxAttempts - 1)
  <2>1. /\ failed' = failed \cup {record} /\ nonce' = nonce + 1
        /\ record' = record + 1 /\ attempt' = 0
        /\ upPc' = IF record < Len(Hashes) THEN "send" ELSE "wait"
        /\ UNCHANGED <<script, succeeded, lastTx>>
    BY <1>3 DEF CatchError, NextRecord
  <2>2. /\ record' \in 1..(Len(Hashes) + 1)
        /\ upPc' = "send" => record' \in Records
        /\ upPc' = "wait" => record' = Len(Hashes) + 1
    BY <1>1, <2>1 DEF Records
  <2>3. UploaderTypeOK'
    BY <1>1, <2>1, <2>2 DEF UploaderTypeOK
  <2>4. failed' # {}
    BY <2>1
  <2> QED
    BY <2>1, <2>2, <2>3, <2>4 DEF SendingInv
<1> QED
  BY <1>2, <1>3

\* A record that is taken comes after all that were, and all nonces up to
\* its own are taken.
LEMMA CountSuccessKeeps ==
    ASSUME NodeInv, UploaderTypeOK, SendingInv, upPc = "send",
           Accept(RecordTx(record)), CountSuccess, UNCHANGED faults
    PROVE  NodeInv' /\ NodeGrows /\ UploaderTypeOK' /\ SendingInv'
<1>1. record \in Records /\ Len(Hashes) \in Nat /\ nonce \in Nat
  BY UploaderAssumption DEF UploaderTypeOK, Records
<1>2. PICK tx \in Tx :
        /\ tx = RecordTx(record)
        /\ tx.from = Wallet /\ tx.nonce = nonce /\ tx.item = record
        /\ script = "contract" => tx.op = "attest" /\ tx.hashes = <<Hashes[record]>>
  BY <1>1, RecordTxType
<1>3. /\ NodeInv' /\ NodeGrows
      /\ DOMAIN pool' = DOMAIN pool \cup {tx} /\ dropped' = dropped
      /\ NonceTaken(tx.from, tx.nonce)'
  BY <1>2, AcceptKeeps
<1>4. /\ lastTx' = tx /\ nonce' = nonce + 1 /\ succeeded' = succeeded \cup {record}
      /\ record' = record + 1 /\ attempt' = 0
      /\ upPc' = IF record < Len(Hashes) THEN "send" ELSE "wait"
      /\ UNCHANGED <<script, failed>>
  BY <1>2 DEF CountSuccess, NextRecord
<1>5. /\ record' \in 1..(Len(Hashes) + 1)
      /\ upPc' = "send" => record' \in Records
      /\ upPc' = "wait" => record' = Len(Hashes) + 1
  BY <1>1, <1>4 DEF Records
<1>6. UploaderTypeOK'
  BY <1>1, <1>4, <1>5, UploaderAssumption DEF UploaderTypeOK
<1>7. ASSUME failed' = {}, dropped' = {} PROVE InOrder'
  <2>1. InOrder
    BY <1>3, <1>4, <1>7 DEF SendingInv
  <2>2. succeeded' = 1..(record' - 1)
    <3>1. succeeded = 1..(record - 1)
      BY <2>1 DEF InOrder
    <3> QED
      BY <1>1, <1>4, <3>1 DEF Records
  <2>3. \A k \in Nat : NonceTaken(Wallet, k) => NonceTaken(Wallet, k)'
    BY <1>3, <1>7, UploaderAssumption DEF NodeGrows
  <2>4. PICK n \in Nat : n = nonce
    BY <1>1
  <2>5. \A k \in 0..(nonce' - 1) : NonceTaken(Wallet, k)'
    <3>1. NonceTaken(Wallet, n)'
      BY <1>2, <1>3, <2>4
    <3>2. \A k \in 0..(n - 1) : NonceTaken(Wallet, k)'
      BY <2>1, <2>3, <2>4 DEF InOrder
    <3>3. \A k \in 0..(nonce' - 1) : k = n \/ k \in 0..(n - 1)
      BY <1>4, <2>4
    <3> QED
      BY <3>1, <3>2, <3>3
  <2>6. lastTx' # NoTx /\ lastTx'.from = Wallet /\ lastTx'.nonce < nonce'
    BY <1>1, <1>2, <1>4, NoTxAssumption
  <2>7. ASSUME NEW r \in succeeded'
        PROVE  \E t \in (DOMAIN pool \cup ExecutedTxs)' : SentBefore(t, r)'
    <3>1. CASE r = record
      <4>1. SentBefore(tx, r)'
        BY <1>1, <1>2, <1>4, <3>1 DEF SentBefore
      <4> QED
        BY <1>3, <4>1
    <3>2. CASE r \in succeeded
      <4>1. PICK t \in DOMAIN pool \cup ExecutedTxs : SentBefore(t, r)
        BY <2>1, <3>2 DEF InOrder
      <4>2. t \in (DOMAIN pool \cup ExecutedTxs)'
        BY <1>3, <1>7, <4>1 DEF NodeGrows
      <4>3. lastTx \in Tx /\ lastTx.nonce < nonce /\ t.nonce <= lastTx.nonce
        BY <2>1, <3>2, <4>1 DEF InOrder, SentBefore, UploaderTypeOK
      <4>4. lastTx.nonce \in Nat /\ t \in Tx
        <5>1. t \in Tx
          BY <4>1, ExecutedType DEF NodeInv, NodeTypeOK
        <5> QED
          BY <4>3, <5>1 DEF Tx
      <4>5. t.nonce <= lastTx'.nonce
        <5>1. t.nonce \in Nat
          BY <4>4 DEF Tx
        <5> QED
          BY <1>1, <1>2, <1>4, <4>3, <4>4, <5>1
      <4>6. SentBefore(t, r)'
        BY <1>4, <4>1, <4>5 DEF SentBefore
      <4> QED
        BY <4>2, <4>6
    <3> QED
      BY <1>4, <3>1, <3>2
  <2> QED
    BY <2>2, <2>5, <2>6, <2>7 DEF InOrder
<1>8. SendingInv'
  BY <1>4, <1>5, <1>7 DEF SendingInv
<1> QED
  BY <1>3, <1>6, <1>8

\* A nonce from the node is not smaller than the one in use.
LEMMA RefreshNonceKeeps ==
    ASSUME NodeInv, NodeInv', NodeGrows, UploaderTypeOK, SendingInv,
           nonce' = PendingNonce(Wallet), UNCHANGED nodeVars,
           UNCHANGED <<script, record, succeeded, failed, lastTx>>,
           upPc = "start" \/ upPc = "refresh"
    PROVE  /\ nonce' \in Nat
           /\ failed' = {} /\ dropped' = {} => InOrder'
<1>1. PICK n \in Nat : /\ n = PendingNonce(Wallet) /\ ~NonceTaken(Wallet, n)
                       /\ \A k \in 0..(n - 1) : NonceTaken(Wallet, k)
  BY PendingNonceFree, UploaderAssumption
<1>2. nonce' = n /\ nonce \in Nat
  BY <1>1 DEF UploaderTypeOK
<1>3. ASSUME failed' = {}, dropped' = {} PROVE InOrder'
  <2>1. InOrder
    BY <1>3 DEF SendingInv, NodeGrows
  <2>2. ~(n \in 0..(nonce - 1))
    BY <1>1, <2>1 DEF InOrder
  <2>3. nonce <= n
    BY <1>2, <2>2
  <2>4. lastTx # NoTx => lastTx.from = Wallet /\ lastTx.nonce < n
    <3> SUFFICES ASSUME lastTx # NoTx PROVE lastTx.from = Wallet /\ lastTx.nonce < n
      OBVIOUS
    <3>1. lastTx.nonce \in Nat /\ lastTx.from = Wallet /\ lastTx.nonce < nonce
      BY <2>1 DEF UploaderTypeOK, InOrder, Tx
    <3> QED
      BY <1>2, <2>3, <3>1
  <2>5. \A k \in 0..(n - 1) : NonceTaken(Wallet, k)'
    BY <1>1 DEF nodeVars, NonceTaken, NextNonce
  <2>6. ASSUME NEW r \in succeeded
        PROVE  /\ lastTx' # NoTx
               /\ \E tx \in (DOMAIN pool \cup ExecutedTxs)' : SentBefore(tx, r)'
    <3>1. PICK tx \in DOMAIN pool \cup ExecutedTxs : SentBefore(tx, r) /\ lastTx # NoTx
      BY <2>1, <2>6 DEF InOrder
    <3>2. tx \in (DOMAIN pool \cup ExecutedTxs)'
      BY <3>1 DEF nodeVars, ExecutedTxs
    <3> QED
      BY <3>1, <3>2 DEF SentBefore
  <2>7. succeeded' = 1..(record' - 1)
    BY <2>1 DEF InOrder
  <2> QED
    BY <1>2, <2>4, <2>5, <2>6, <2>7 DEF InOrder
<1> QED
  BY <1>2, <1>3

\* Whatever an upload script does.
LEMMA UploaderNextKeeps ==
    ASSUME IInv, UploaderNext
    PROVE  NodeInv' /\ NodeGrows /\ UploaderTypeOK' /\ SendingInv'
<1>1. NodeInv /\ UploaderTypeOK /\ SendingInv
  BY DEF IInv
<1>2. CASE Connect
  <2>1. NodeInv' /\ NodeGrows
    BY <1>1, <1>2, UnchangedKeeps DEF Connect
  <2>2. CASE upPc' = "failed"
    <3>1. /\ upPc = "start" /\ failed' = failed
          /\ UNCHANGED <<script, record, attempt, nonce, succeeded, lastTx>>
      BY <1>2, <2>2 DEF Connect
    <3>2. UploaderTypeOK'
      BY <1>1, <2>2, <3>1 DEF UploaderTypeOK
    <3>3. failed' = {} /\ dropped' = {} => InOrder'
      BY <1>1, <2>1, <3>1, InOrderStays DEF SendingInv, NodeGrows
    <3> QED
      BY <2>1, <2>2, <3>2, <3>3 DEF SendingInv
  <2>3. CASE nonce' = PendingNonce(Wallet)
             /\ upPc' = IF Records = {} THEN "wait" ELSE "send"
    <3>1. /\ upPc = "start"
          /\ UNCHANGED <<nodeVars, script, record, attempt, succeeded, failed, lastTx>>
      BY <1>2 DEF Connect
    <3>2. nonce' \in Nat /\ (failed' = {} /\ dropped' = {} => InOrder')
      BY <1>1, <2>1, <2>3, <3>1, RefreshNonceKeeps
    <3>3. record = 1 /\ Len(Hashes) \in Nat
      BY <1>1, <3>1, UploaderAssumption DEF SendingInv
    <3>4. /\ upPc' = "wait" => record' = Len(Hashes) + 1
          /\ upPc' = "send" => record' \in Records
      BY <2>3, <3>1, <3>3 DEF Records
    <3>5. UploaderTypeOK'
      BY <1>1, <2>3, <3>1, <3>2, <3>4 DEF UploaderTypeOK
    <3> QED
      BY <2>1, <2>3, <3>2, <3>4, <3>5 DEF SendingInv
  <2> QED
    BY <1>2, <2>2, <2>3 DEF Connect
<1>3. CASE SendRecord
  <2>1. upPc = "send"
    BY <1>3 DEF SendRecord
  <2>2. CASE Accept(RecordTx(record)) /\ CountSuccess /\ UNCHANGED faults
    BY <1>1, <2>1, <2>2, CountSuccessKeeps
  <2>3. CASE Accept(RecordTx(record)) /\ ConnectionFails /\ CatchError
    <3>1. \E tx \in Tx : tx = RecordTx(record)
      BY <1>1, <2>1, RecordTxType DEF UploaderTypeOK
    <3>2. NodeInv' /\ NodeGrows
      BY <1>1, <2>3, <3>1, AcceptKeeps
    <3> QED
      BY <1>1, <2>1, <2>3, <3>2, CatchErrorKeeps
  <2>4. CASE CatchError /\ UNCHANGED nodeVars /\ (UNCHANGED faults \/ ConnectionFails)
    <3>1. NodeInv' /\ NodeGrows
      BY <1>1, <2>4, UnchangedKeeps
    <3> QED
      BY <1>1, <2>1, <2>4, <3>1, CatchErrorKeeps
  <2> QED
    BY <1>3, <2>2, <2>3, <2>4 DEF SendRecord
<1>4. CASE RefreshNonce
  <2>1. NodeInv' /\ NodeGrows
    BY <1>1, <1>4, UnchangedKeeps DEF RefreshNonce
  <2>2. /\ upPc = "refresh" /\ attempt < MaxAttempts - 1
        /\ UNCHANGED <<nodeVars, script, record, succeeded, failed, lastTx>>
    BY <1>1, <1>4 DEF RefreshNonce, SendingInv
  <2>3. CASE upPc' = "failed" /\ UNCHANGED <<nonce, attempt>>
    <3>1. UploaderTypeOK'
      BY <1>1, <2>2, <2>3 DEF UploaderTypeOK
    <3>2. failed' = {} /\ dropped' = {} => InOrder'
      BY <1>1, <2>1, <2>2, <2>3, InOrderStays DEF SendingInv, NodeGrows
    <3> QED
      BY <2>1, <2>3, <3>1, <3>2 DEF SendingInv
  <2>4. CASE nonce' = PendingNonce(Wallet) /\ attempt' = attempt + 1 /\ upPc' = "send"
    <3>1. nonce' \in Nat /\ (failed' = {} /\ dropped' = {} => InOrder')
      BY <1>1, <2>1, <2>2, <2>4, RefreshNonceKeeps
    <3>2. UploaderTypeOK'
      BY <1>1, <2>2, <2>4, <3>1, UploaderAssumption DEF UploaderTypeOK
    <3> QED
      BY <2>1, <2>4, <3>1, <3>2 DEF SendingInv
  <2> QED
    BY <1>4, <2>3, <2>4 DEF RefreshNonce
<1>5. CASE WaitForLast \/ ReadTotal
  <2>1. NodeInv' /\ NodeGrows
    BY <1>1, <1>5, UnchangedKeeps DEF WaitForLast, ReadTotal
  <2>2. /\ UNCHANGED <<script, record, attempt, nonce, succeeded, failed, lastTx>>
        /\ executed' = executed
        /\ upPc' \in {"total", "done", "failed"}
        /\ upPc' \in {"total", "done"} =>
              record = Len(Hashes) + 1 /\ lastTx \in ExecutedTxs \cup {NoTx}
    <3>1. CASE WaitForLast
      BY <1>1, <3>1 DEF WaitForLast, SendingInv, nodeVars
    <3>2. CASE ReadTotal
      BY <1>1, <3>2 DEF ReadTotal, SendingInv, nodeVars
    <3> QED
      BY <1>5, <3>1, <3>2
  <2>3. UploaderTypeOK'
    BY <1>1, <2>2 DEF UploaderTypeOK
  <2>4. failed' = {} /\ dropped' = {} => InOrder'
    BY <1>1, <2>1, <2>2, InOrderStays DEF SendingInv, NodeGrows
  <2>5. ExecutedTxs' = ExecutedTxs
    BY <2>2 DEF ExecutedTxs
  <2> QED
    BY <2>1, <2>2, <2>3, <2>4, <2>5 DEF SendingInv
<1> QED
  BY <1>2, <1>3, <1>4, <1>5 DEF UploaderNext

\* A step of a script leaves the other programs alone.
LEMMA UploaderStepKeeps ==
    ASSUME IInv, UploaderStep PROVE IInv'
<1>1. NodeInv' /\ NodeGrows /\ UploaderTypeOK' /\ SendingInv'
  BY UploaderNextKeeps DEF UploaderStep
<1>2. UNCHANGED <<program, calls, cliOnly, sdkOnly, supVars>>
  BY DEF UploaderStep
<1>3. SignerInv' /\ PrintedInv' /\ SdkTypeOK'
  BY <1>1, <1>2, SignerStays, PrintedStays, SdkTypeStays DEF IInv, cliOnly, sdkOnly
<1>4. CliTypeOK' /\ SupervisorTypeOK'
  BY <1>2, CliTypeStays, SupervisorTypeStays DEF IInv
<1> QED
  BY <1>1, <1>2, <1>3, <1>4 DEF IInv

---------------------------------------------------------------------------
(* The results *)

\* The invariant holds at the start,
LEMMA InitIInv == Init => IInv
<1> SUFFICES ASSUME Init PROVE IInv
  OBVIOUS
<1> USE DEF Init
<1>1. program \in Programs /\ faults \in Nat /\ restarts \in Nat
  BY ClientsAssumption
<1>2. /\ DOMAIN pool = {} /\ pool = << >>
      /\ executed = << >> /\ Len(executed) = 0 /\ 1..0 = {}
  BY DEF NodeInit
<1>3. NodeTypeOK
  <2>1. pool \in [DOMAIN pool -> Stage] /\ executed \in Seq([tx : Tx, ok : BOOLEAN])
    BY <1>2
  <2> QED
    BY <1>1, <1>2, <2>1 DEF NodeTypeOK, NodeInit
<1>4. IsFiniteSet(DOMAIN pool)
  BY <1>2, FS_EmptySet
<1>5. Cp!IInv
  <2>1. Cp!AttestationAssumption
    BY EvmNodeAssumption DEF Cp!AttestationAssumption
  <2>2. Cp!Init
    BY DEF NodeInit, Cp!Init
  <2> QED
    BY <2>1, <2>2, Cp!InitIInv
<1>6. NonceInv /\ CallsInv
  BY <1>2 DEF NonceInv, CallsInv
<1>7. SignerInv
  BY DEF SignerInv, SignerInit, SignerTypeOK, NoCall
<1>8. PrintedInv /\ CliTypeOK
  BY CliAssumption DEF PrintedInv, CliTypeOK, CliInit
<1>9. UploaderTypeOK
  <2>1. Len(Hashes) \in Nat
    BY UploaderAssumption
  <2> QED
    BY <2>1, UploaderAssumption DEF UploaderTypeOK, UploaderInit
<1>10. SendingInv
  BY DEF SendingInv, InOrder, UploaderInit
<1>11. SdkTypeOK
  BY <1>2, SdkAssumption DEF SdkTypeOK, SdkInit
<1>12. SupervisorTypeOK
  <2>1. 0 \in 0..(MaxShift + 1) /\ 0 \in 0..MaxFailures
    BY SupervisorAssumption
  <2>2. tries \in 0..(MaxShift + 1) /\ failures \in 0..MaxFailures
    BY <2>1 DEF SupervisorInit
  <2> QED
    BY <2>2, Zenon DEF SupervisorTypeOK, SupervisorInit
<1> QED
  BY <1>1, <1>3, <1>4, <1>5, <1>6, <1>7, <1>8, <1>9, <1>10, <1>11, <1>12 DEF IInv, NodeInv

\* and every step keeps it.
LEMMA NextKeepsIInv == IInv /\ [Next]_vars => IInv'
BY NodeStepKeeps, UploaderStepKeeps, CliStepKeeps, SdkStepKeeps, SupStepKeeps DEF Next

\* The inductive invariant always holds.
THEOREM Invariance == Spec => []IInv
BY InitIInv, NextKeepsIInv, PTL DEF Spec

\* The node and the programs keep the types of their state.
THEOREM TypeCorrect == Spec => []TypeOK
<1>1. IInv => TypeOK
  BY DEF IInv, TypeOK, NodeInv, SignerInv
<1> QED
  BY <1>1, Invariance, PTL

\* A certificate of the command-line tool, and an answer of verify, tell the
\* truth for ever, however many terminals attest at the same time, whatever
\* keys and hashes they use, and whichever replies are lost
\* (energy-cli.js:134-158, 211-225).
THEOREM CertificatesTrue == Spec => []CertificateIsTrue
<1>1. IInv => CertificateIsTrue
  <2> SUFFICES ASSUME IInv PROVE CertificateIsTrue
    OBVIOUS
  <2>1. ASSUME NEW c \in certificates
        PROVE  /\ Contract!verifyByHash(c.hash).exists
               /\ Contract!verifyByHash(c.hash).a.submitter = c.submitter
    BY <2>1 DEF IInv, PrintedInv, AttestedBy, Contract!verifyByHash
  <2> QED
    BY <2>1 DEF CertificateIsTrue, IInv, PrintedInv
<1> QED
  BY <1>1, Invariance, PTL

\* If no record was given up and no restart of the node lost a transaction,
\* an upload script that prints that it is done has every record on the
\* chain, whatever replies were lost and sent again: it waits for the last
\* transaction only, and nonces are used up in order.  It prints the same when
\* a record was given up, and of that end nothing is said here
\* (upload_evm_contract.js:79-124).
THEOREM DoneIsExecuted == Spec => []DoneMeansExecuted
<1>1. IInv => DoneMeansExecuted
  <2> SUFFICES ASSUME IInv, upPc = "done", failed = {}, dropped = {}, NEW r \in Records
               PROVE  OnChain(r)
    BY DEF DoneMeansExecuted
  <2>1. InOrder /\ record = Len(Hashes) + 1 /\ lastTx \in ExecutedTxs \cup {NoTx}
    BY DEF IInv, SendingInv
  <2>2. r \in succeeded
    <3>1. Len(Hashes) \in Nat
      BY UploaderAssumption
    <3> QED
      BY <2>1, <3>1 DEF InOrder, Records
  <2>3. PICK tx \in DOMAIN pool \cup ExecutedTxs : SentBefore(tx, r) /\ lastTx # NoTx
    BY <2>1, <2>2 DEF InOrder
  <2>4. tx \in Tx /\ lastTx \in Tx /\ tx.nonce \in Nat /\ lastTx.nonce \in Nat
    <3>1. tx \in Tx /\ lastTx \in Tx
      BY <2>1, <2>3, ExecutedType DEF IInv, NodeInv, NodeTypeOK
    <3> QED
      BY <3>1 DEF Tx
  <2>5. lastTx.nonce < NextNonce(Wallet)
    <3>1. PICK b \in 1..Len(executed) : executed[b].tx = lastTx
      BY <2>1, <2>3 DEF ExecutedTxs
    <3>2. lastTx.from = Wallet
      BY <2>1, <2>3 DEF InOrder
    <3> QED
      BY <3>1, <3>2, UploaderAssumption DEF IInv, NodeInv, NonceInv
  <2>6. tx \in ExecutedTxs
    <3> SUFFICES ASSUME tx \in DOMAIN pool PROVE FALSE
      BY <2>3
    <3>1. NextNonce(Wallet) <= tx.nonce /\ tx.nonce <= lastTx.nonce
      BY <2>3 DEF IInv, NodeInv, NonceInv, SentBefore
    <3>2. NextNonce(Wallet) \in Nat
      <4>1. Len(executed) \in Nat
        BY DEF IInv, NodeInv, NodeTypeOK
      <4> QED
        BY <4>1, NextNonceType
    <3> QED
      BY <2>4, <2>5, <3>1, <3>2
  <2>7. PICK b \in 1..Len(executed) : executed[b].tx = tx
    BY <2>6 DEF ExecutedTxs
  <2>8. script = "contract" => hashToId[Hashes[r]] # 0
    <3> SUFFICES ASSUME script = "contract" PROVE hashToId[Hashes[r]] # 0
      OBVIOUS
    <3>1. tx.op = "attest" /\ tx.hashes = <<Hashes[r]>>
      BY <2>3 DEF SentBefore
    <3>2. Hashes[r] # ZeroHash
      BY UploaderAssumption DEF Records
    <3>3. Len(tx.hashes) = 1 /\ tx.hashes[1] = Hashes[r]
      BY <3>1
    <3> QED
      BY <2>7, <3>1, <3>2, <3>3 DEF IInv, NodeInv, CallsInv
  <2> QED
    BY <2>3, <2>7, <2>8 DEF OnChain, SentBefore
<1> QED
  BY <1>1, Invariance, PTL
===========================================================================
