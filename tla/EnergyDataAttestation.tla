----------------------- MODULE EnergyDataAttestation -----------------------
(***************************************************************************)
(* The contract contracts/contracts/EnergyDataAttestation.sol: anybody     *)
(* attests data hashes, one at a time or in batches, and anybody looks     *)
(* them up by number, hash, submitter and type.                            *)
(*                                                                         *)
(* A call runs alone, and one that fails a require is reverted whole, so   *)
(* it is no step.  The memo is carried through unread and is left out; the *)
(* time of a block is represented by its number.                           *)
(***************************************************************************)
EXTENDS Integers, Sequences

CONSTANTS
    Sender,         \* the accounts that call the contract
    DataHash,       \* the hashes used, the zero hash among them
    ZeroHash,       \* bytes32(0)
    DataType,       \* the type labels used
    MaxBatch,       \* 100: the longest batch
    MaxItems,       \* bound: the longest batch a caller sends
    MaxBlock        \* bound: the number of the last block

ASSUME AttestationAssumption ==
    /\ ZeroHash \in DataHash
    /\ MaxBatch \in Nat \ {0}
    /\ MaxItems \in Nat
    /\ MaxBlock \in Nat \ {0}

VARIABLES
    totalAttestations,
    attestations,           \* id -> attestation, for the ids given
    hashToId,               \* hash -> id, 0 when there is none
    submitterAttestations,  \* account -> ids, in the order they were pushed
    typeAttestations,       \* type label -> ids, in the order pushed
    block                   \* the number of the block being executed

vars == <<totalAttestations, attestations, hashToId, submitterAttestations,
          typeAttestations, block>>

Attestation == [dataHash : DataHash, submitter : Sender, dataType : DataType,
                blockNumber : 1..MaxBlock]

---------------------------------------------------------------------------
(* Calls *)

\* Mutant of NextIDs: the number is taken before it is incremented.
NextIDsPostIncrement(n) == [i \in 1..n |-> totalAttestations + i - 1]

\* The numbers of the next n attestations, as they are pushed to the lists.
NextIDs(n) == [i \in 1..n |-> totalAttestations + i]

\* What the two calls store for these hashes, numbered from the next id on.
Store(sender, hashes, dataType) ==
    LET n == Len(hashes)
        entry(h) == [dataHash |-> h, submitter |-> sender,
                     dataType |-> dataType, blockNumber |-> block]
    IN
    /\ totalAttestations' = totalAttestations + n
    /\ attestations' =
        [id \in 1..(totalAttestations + n) |->
            IF id <= totalAttestations THEN attestations[id]
                                       ELSE entry(hashes[id - totalAttestations])]
    /\ hashToId' =
        [h \in DataHash |->
            IF \E i \in 1..n : hashes[i] = h
            THEN totalAttestations + (CHOOSE i \in 1..n : hashes[i] = h)
            ELSE hashToId[h]]
    /\ submitterAttestations' = [submitterAttestations EXCEPT ![sender] = @ \o NextIDs(n)]
    /\ typeAttestations' = [typeAttestations EXCEPT ![dataType] = @ \o NextIDs(n)]
    /\ UNCHANGED block

attest(sender, h, dataType) ==
    /\ h # ZeroHash
    /\ hashToId[h] = 0
    /\ Store(sender, <<h>>, dataType)

\* Mutant of batchAttest: the hashes are checked before any is stored, so
\* that a hash may occur twice in a batch.
batchAttestChecksFirst(sender, hashes, dataType) ==
    /\ hashes # << >>
    /\ Len(hashes) <= MaxBatch
    /\ \A i \in 1..Len(hashes) : hashes[i] # ZeroHash /\ hashToId[hashes[i]] = 0
    /\ Store(sender, hashes, dataType)

\* Mutant of batchAttest: the length is not limited.
batchAttestUnlimited(sender, hashes, dataType) ==
    /\ hashes # << >>
    /\ \A i \in 1..Len(hashes) : hashes[i] # ZeroHash /\ hashToId[hashes[i]] = 0
    /\ \A i, j \in 1..Len(hashes) : i # j => hashes[i] # hashes[j]
    /\ Store(sender, hashes, dataType)

\* A hash is refused if it was attested before, also by an earlier turn of
\* the loop; one refused hash reverts the batch.
batchAttest(sender, hashes, dataType) ==
    /\ hashes # << >>
    /\ Len(hashes) <= MaxBatch
    /\ \A i \in 1..Len(hashes) : hashes[i] # ZeroHash /\ hashToId[hashes[i]] = 0
    /\ \A i, j \in 1..Len(hashes) : i # j => hashes[i] # hashes[j]
    /\ Store(sender, hashes, dataType)

NextBlock ==
    /\ block < MaxBlock
    /\ block' = block + 1
    /\ UNCHANGED <<totalAttestations, attestations, hashToId,
                   submitterAttestations, typeAttestations>>

---------------------------------------------------------------------------
(* Specification *)

Batches == UNION {[1..n -> DataHash] : n \in 0..MaxItems}

Init ==
    /\ totalAttestations = 0
    /\ attestations = << >>
    /\ hashToId = [h \in DataHash |-> 0]
    /\ submitterAttestations = [s \in Sender |-> << >>]
    /\ typeAttestations = [t \in DataType |-> << >>]
    /\ block = 1

Call ==
    \E s \in Sender, t \in DataType :
        \/ \E h \in DataHash : attest(s, h, t)
        \/ \E hashes \in Batches : batchAttest(s, hashes, t)

Next == Call \/ NextBlock

Spec == Init /\ [][Next]_vars

---------------------------------------------------------------------------
(* Queries *)

NotFound == [exists |-> FALSE]

verifyByHash(h) ==
    IF hashToId[h] = 0
    THEN NotFound
    ELSE [exists |-> TRUE, id |-> hashToId[h], a |-> attestations[hashToId[h]]]

---------------------------------------------------------------------------
(* Properties *)

\* The type of the contract's storage.
TypeOK ==
    /\ totalAttestations \in Nat
    /\ attestations \in [1..totalAttestations -> Attestation]
    /\ hashToId \in [DataHash -> 0..totalAttestations]
    /\ submitterAttestations \in [Sender -> Seq(1..totalAttestations)]
    /\ typeAttestations \in [DataType -> Seq(1..totalAttestations)]
    /\ block \in 1..MaxBlock

\* A hash is attested at most once, whatever batches it was sent in, and
\* the look-up by hash finds the attestation of that hash: every
\* attestation can be found by its hash (sol:66-83, 105-122).
AttestedOnce ==
    /\ \A id \in 1..totalAttestations : hashToId[attestations[id].dataHash] = id
    /\ \A h \in DataHash :
        hashToId[h] # 0 => h # ZeroHash /\ attestations[hashToId[h]].dataHash = h

\* This sequence lists these numbers in increasing order, each once.
Lists(seq, ids) ==
    /\ {seq[i] : i \in 1..Len(seq)} = ids
    /\ \A i, j \in 1..Len(seq) : i < j => seq[i] < seq[j]

\* The lists of a submitter and of a type hold exactly their attestations,
\* oldest first (sol:147-155).
ListsExact ==
    /\ \A s \in Sender :
        Lists(submitterAttestations[s],
              {id \in 1..totalAttestations : attestations[id].submitter = s})
    /\ \A t \in DataType :
        Lists(typeAttestations[t],
              {id \in 1..totalAttestations : attestations[id].dataType = t})

\* The four places an id goes into never disagree, whatever was attested
\* singly or in batches: an id is found by its hash, which no other id has,
\* and by its submitter and type, where it is listed once and in order
\* (sol:66-83, 103-122).
CopiesAgree == AttestedOnce /\ ListsExact

\* Once a hash is attested, its look-up gives the same answer for ever: who
\* attested it first, when and under which number (sol:16-20, 39).
VerificationIsStable ==
    [][\A h \in DataHash :
            verifyByHash(h).exists => verifyByHash(h)' = verifyByHash(h)]_vars

---------------------------------------------------------------------------
(* Refinement *)

\* A submission is a batch of one sender, type and block within the limit.
AttestationSubmission(es) ==
    /\ Len(es) <= MaxBatch
    /\ \A i \in 1..Len(es) :
        /\ es[i].submitter = es[1].submitter
        /\ es[i].dataType = es[1].dataType
        /\ es[i].blockNumber = es[1].blockNumber

Log == INSTANCE AttestationLog
       WITH log <- attestations, Submission <- AttestationSubmission

\* The contract keeps an append-only log to which a batch is added whole.
ImplementsLog == Log!Spec
===========================================================================
