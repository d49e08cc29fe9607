--------------------------- MODULE EnergyKeeper ---------------------------
(***************************************************************************)
(* The energy module of the chain (chain/x/energy): its key-value store,   *)
(* the two messages that write to it, the queries that read it, and the    *)
(* export and import of its genesis state.                                 *)
(*                                                                         *)
(* A message runs alone and atomically: the SDK executes the transactions  *)
(* of a block one after the other on a branch of the store that is dropped *)
(* when the handler returns an error, so a refused message is no step.     *)
(* The identifier "energy-<n>" is modelled by n.  Metadata is carried      *)
(* through unread and is left out; a record's time stamp is the time of    *)
(* the block it was stored in and is represented by the block's height.    *)
(***************************************************************************)
EXTENDS Integers, Sequences, Functions

CONSTANTS
    Category,       \* the category strings used
    Submitter,      \* the account addresses used
    DataHash,       \* the data hashes used, texts of any kind
    BatchSizes,     \* values of the parameter MaxBatchSize considered
    MaxItems,       \* bound: the longest batch a client sends
    MaxMessages,    \* bound: the number of accepted messages
    MaxHeight       \* bound: the height of the chain

ASSUME EnergyAssumption ==
    /\ BatchSizes \subseteq Nat \ {0}
    /\ MaxItems \in Nat
    /\ MaxMessages \in Nat
    /\ MaxHeight \in Nat \ {0}

VARIABLES
    data,           \* 0x01 | id              -> record
    byCategory,     \* 0x02 | category | id   -> id
    bySubmitter,    \* 0x03 | submitter | id  -> id
    batches,        \* 0x04 | id              -> batch
    counter,        \* 0x05: the last number GenerateID used, 0 when unset
    params,         \* energy_params
    height,         \* the height of the block being executed
    accepted        \* bound only: how many messages were accepted

vars == <<data, byCategory, bySubmitter, batches, counter, params, height,
          accepted>>

---------------------------------------------------------------------------
(* The Merkle tree a batch is checked against (verifyMerkleRoot and below).
   What is hashed is a text.  The 64 bytes of two digests, the smaller one
   first, are a text too, represented by the set of the two, and the data hash
   of an item may be such a text: ValidateBasic asks only that it is not empty,
   and a leaf is hashed no differently from a node. *)

\* keccak256, taken to be injective: the digest is known by its text.
keccak256(text) == <<text>>

\* keccak256(min(a, b) || max(a, b)): the order of a and b is lost.
hashPair(a, b) == keccak256({a, b})

\* Mutant of pairLevel: the node left over at the end is dropped.
pairLevelDropsOdd(nodes) ==
    [i \in 1..(IF Len(nodes) = 1 THEN 1 ELSE Len(nodes) \div 2) |->
        hashPair(nodes[2*i - 1], nodes[IF 2*i <= Len(nodes) THEN 2*i ELSE 1])]

\* One round of computeMerkleRoot: neighbours are paired, and a node left
\* over at the end is paired with itself.
pairLevel(nodes) ==
    [i \in 1..((Len(nodes) + 1) \div 2) |->
        hashPair(nodes[2*i - 1],
                 nodes[IF 2*i <= Len(nodes) THEN 2*i ELSE 2*i - 1])]

\* The nodes after n rounds.
levelAfter(leaves) ==
    LET level[n \in Nat] ==
            IF n = 0 THEN leaves ELSE pairLevel(level[n - 1])
    IN level

\* The rounds repeat until one node is left.
rounds(leaves) ==
    LET level == levelAfter(leaves) IN
    CHOOSE n \in 0..Len(leaves) :
        /\ Len(level[n]) = 1
        /\ \A m \in 0..(n - 1) : Len(level[m]) # 1

computeMerkleRoot(leaves) == levelAfter(leaves)[rounds(leaves)][1]

\* The leaves of the tree of a batch: the digests of its data hashes.
leafHashes(hashes) == [i \in DOMAIN hashes |-> keccak256(hashes[i])]

\* Mutant of verifyMerkleRoot: the roots are not compared.
verifyMerkleRootTrusts(items, declaredRoot) == items # << >>

\* The check a batch must pass: at least one item, and the declared root is
\* the computed one (hexadecimal case and the 0x prefix do not matter).
verifyMerkleRoot(items, declaredRoot) ==
    /\ items # << >>
    /\ computeMerkleRoot(leafHashes(items)) = declaredRoot

---------------------------------------------------------------------------
(* What is stored, and what clients send *)

EnergyData ==
    [category : Category, submitter : Submitter, dataHash : DataHash,
     height : 1..MaxHeight]

\* What the items of a batch may be, and the roots a client may declare:
\* those of its own items and those of other items.
Items == UNION {[1..n -> DataHash] : n \in 0..MaxItems}
Roots == {computeMerkleRoot(leafHashes(items)) : items \in Items \ {<< >>}}

BatchSubmission ==
    [submitter : Submitter, category : Category, dataCount : 1..MaxItems,
     merkleRoot : Roots]

Params == [maxBatchSize : BatchSizes, allowed : SUBSET Submitter]

---------------------------------------------------------------------------
(* The store *)

\* store.Set of every key of writes: a key already there is overwritten.
Put(store, writes) ==
    [k \in DOMAIN store \cup DOMAIN writes |->
        IF k \in DOMAIN writes THEN writes[k] ELSE store[k]]

\* The keys SubmitEnergyData adds to the two indexes for these records.
CategoryKeys(records) == {<<records[id].category, id>> : id \in DOMAIN records}
SubmitterKeys(records) == {<<records[id].submitter, id>> : id \in DOMAIN records}

\* Mutant of SubmitEnergyData: the submitter index gets the category's key.
SubmitEnergyDataWrongKey(records) ==
    /\ data' = Put(data, records)
    /\ byCategory' = byCategory \cup CategoryKeys(records)
    /\ bySubmitter' = bySubmitter \cup CategoryKeys(records)

\* The keeper's SubmitEnergyData for each of the records: the record and
\* its two index keys.
SubmitEnergyData(records) ==
    /\ data' = Put(data, records)
    /\ byCategory' = byCategory \cup CategoryKeys(records)
    /\ bySubmitter' = bySubmitter \cup SubmitterKeys(records)

\* An empty list of allowed submitters lets everybody submit.
IsAllowedSubmitter(s) == params.allowed = {} \/ s \in params.allowed

\* Mutant of GeneratedIDs: the number is used before it is incremented.
GeneratedIDsPostIncrement(n) == counter..(counter + n - 1)

\* The identifiers the next n calls of GenerateID return.
GeneratedIDs(n) == (counter + 1)..(counter + n)

---------------------------------------------------------------------------
(* Messages *)

Record(c, s, h) ==
    [category |-> c, submitter |-> s, dataHash |-> h, height |-> height]

MsgSubmitEnergyData(s, c, h) ==
    /\ accepted < MaxMessages
    /\ IsAllowedSubmitter(s)
    /\ counter' = counter + 1
    /\ SubmitEnergyData([id \in GeneratedIDs(1) |-> Record(c, s, h)])
    /\ accepted' = accepted + 1
    /\ UNCHANGED <<batches, params, height>>

\* The batch takes the first of the identifiers, its items the ones after.
MsgBatchSubmit(s, c, items, root) ==
    LET batchID == counter + 1
        ids == GeneratedIDs(1 + Len(items)) \ {batchID}
        batch == [submitter |-> s, category |-> c,
                  dataCount |-> Len(items), merkleRoot |-> root]
    IN
    /\ accepted < MaxMessages
    /\ IsAllowedSubmitter(s)
    /\ Len(items) <= params.maxBatchSize
    /\ verifyMerkleRoot(items, root)
    /\ counter' = counter + 1 + Len(items)
    /\ SubmitEnergyData([id \in ids |-> Record(c, s, items[id - batchID])])
    /\ batches' = Put(batches, [id \in {batchID} |-> batch])
    /\ accepted' = accepted + 1
    /\ UNCHANGED <<params, height>>

\* Mutant of EndBlock: the counter is kept in a store that lasts a block.
EndBlockDropsCounter ==
    /\ height < MaxHeight
    /\ height' = height + 1
    /\ counter' = 0
    /\ UNCHANGED <<data, byCategory, bySubmitter, batches, params, accepted>>

\* The block ends and the next one begins.
EndBlock ==
    /\ height < MaxHeight
    /\ height' = height + 1
    /\ UNCHANGED <<data, byCategory, bySubmitter, batches, counter, params,
                   accepted>>

---------------------------------------------------------------------------
(* Genesis *)

EmptyStore == [id \in {} |-> 0]

\* What ExportGenesis writes out: no counter, and the indexes are left to
\* be rebuilt.
ExportGenesis == [params |-> params, dataRecords |-> data, batches |-> batches]

\* A new chain is started from the exported state: InitGenesis fills an
\* empty store, in which the counter is not set.
Relaunch ==
    LET gs == ExportGenesis IN
    /\ params' = gs.params
    /\ data' = Put(EmptyStore, gs.dataRecords)
    /\ byCategory' = CategoryKeys(gs.dataRecords)
    /\ bySubmitter' = SubmitterKeys(gs.dataRecords)
    /\ batches' = Put(EmptyStore, gs.batches)
    /\ counter' = 0
    /\ UNCHANGED <<height, accepted>>

---------------------------------------------------------------------------
(* Specification *)

\* The chain starts from the default genesis with parameters that
\* Params.Validate accepts.
Init ==
    /\ data = EmptyStore
    /\ byCategory = {}
    /\ bySubmitter = {}
    /\ batches = EmptyStore
    /\ counter = 0
    /\ params \in Params
    /\ height = 1
    /\ accepted = 0

Message ==
    \E s \in Submitter, c \in Category :
        \/ \E h \in DataHash : MsgSubmitEnergyData(s, c, h)
        \/ \E items \in Items, root \in Roots : MsgBatchSubmit(s, c, items, root)

Next == Message \/ EndBlock

\* A chain that runs on, whatever its nodes do: the store is committed with
\* every block and survives the restart of a node.
Spec == Init /\ [][Next]_vars

\* A chain that is also exported and started anew from the export.
RelaunchSpec == Init /\ [][Next \/ Relaunch]_vars

---------------------------------------------------------------------------
(* Queries *)

GetEnergyDataByCategory(c) ==
    {id \in DOMAIN data : <<c, id>> \in byCategory}

GetEnergyDataBySubmitter(s) ==
    {id \in DOMAIN data : <<s, id>> \in bySubmitter}

---------------------------------------------------------------------------
(* Properties *)

\* The type of the store: identifiers are positive numbers, records and
\* batches have the shapes of types.go, parameters those Validate accepts.
TypeOK ==
    /\ DOMAIN data \subseteq Nat \ {0}
    /\ \A id \in DOMAIN data : data[id] \in EnergyData
    /\ byCategory \subseteq Category \X Nat
    /\ bySubmitter \subseteq Submitter \X Nat
    /\ DOMAIN batches \subseteq Nat \ {0}
    /\ \A id \in DOMAIN batches : batches[id] \in BatchSubmission
    /\ counter \in Nat
    /\ params \in Params
    /\ height \in 1..MaxHeight
    /\ accepted \in 0..MaxMessages

\* Every number GenerateID handed out names exactly one thing, a record or
\* a batch, and nothing else is stored (keeper.go:37-49, the counter is
\* shared by records and batches).
IdentifiersIssuedOnce ==
    /\ DOMAIN data \cup DOMAIN batches = 1..counter
    /\ DOMAIN data \cap DOMAIN batches = {}

\* The queries by category and by submitter return the records of that
\* category and of that submitter, all of them and no other
\* (keeper.go:78-108: an index entry is written once and never removed).
QueriesExact ==
    /\ \A c \in Category :
        GetEnergyDataByCategory(c) = {id \in DOMAIN data : data[id].category = c}
    /\ \A s \in Submitter :
        GetEnergyDataBySubmitter(s) = {id \in DOMAIN data : data[id].submitter = s}

\* The records a batch brought: the identifiers that follow its own.
BatchIDs(b) == (b + 1)..(b + batches[b].dataCount)
BatchHashes(b) == [i \in 1..batches[b].dataCount |-> data[b + i].dataHash]

BatchAuditable(b) ==
    /\ BatchIDs(b) \subseteq DOMAIN data
    /\ \A i \in BatchIDs(b) :
        /\ data[i].category = batches[b].category
        /\ data[i].submitter = batches[b].submitter
        /\ data[i].height = data[b + 1].height
    /\ computeMerkleRoot(leafHashes(BatchHashes(b))) = batches[b].merkleRoot

\* A batch can be audited from the store at any later time: the records it
\* brought are still there, under the batch's category and submitter and at
\* one height, and hash to the root it was stored with
\* (msg_server.go:56-110).
BatchesAuditable == \A b \in DOMAIN batches : BatchAuditable(b)

\* What a root commits to.  Batches with the same root whose trees are equally
\* high attest the same set of data hashes: not the same order within a pair
\* nor, an odd node being paired with itself, the same number of times.  When
\* the tree of b2 is higher, the data hashes of b1 are the very texts that were
\* hashed for the nodes of b2 as many rounds below the root: the root of a batch
\* commits to its data hashes only together with the height of its tree
\* (msg_server.go:114-162, where leaves are hashed as nodes are).
RootCommitsToHashes ==
    \A b1, b2 \in DOMAIN batches :
        LET x == leafHashes(BatchHashes(b1))
            y == leafHashes(BatchHashes(b2))
        IN batches[b1].merkleRoot = batches[b2].merkleRoot
             => /\ rounds(x) = rounds(y)
                      => Range(BatchHashes(b1)) = Range(BatchHashes(b2))
                /\ rounds(x) < rounds(y)
                      => Range(x) = Range(levelAfter(y)[rounds(y) - rounds(x)])

\* A larger identifier was stored in the same or in a later block, so the
\* order of the identifiers is the order of the chain.
IdentifiersFollowTheChain ==
    \A i, j \in DOMAIN data : i < j => data[i].height <= data[j].height

\* A record or batch that is on the chain is never modified or deleted
\* (README.md:96, README.md:119).
RecordsImmutable ==
    [][/\ \A id \in DOMAIN data : id \in DOMAIN data' /\ data'[id] = data[id]
       /\ \A id \in DOMAIN batches :
            id \in DOMAIN batches' /\ batches'[id] = batches[id]]_vars

---------------------------------------------------------------------------
(* Refinement *)

\* The entries of the log are what the identifiers name, in their order.
issued == [n \in 1..counter |-> IF n \in DOMAIN data THEN data[n] ELSE batches[n]]

IsRecord(e) == "dataHash" \in DOMAIN e

\* A submission is one record, or a batch followed by its records.
EnergySubmission(es) ==
    IF IsRecord(es[1])
    THEN Len(es) = 1
    ELSE /\ Len(es) = 1 + es[1].dataCount
         /\ \A i \in 2..Len(es) :
             /\ IsRecord(es[i])
             /\ es[i].category = es[1].category
             /\ es[i].submitter = es[1].submitter

Log == INSTANCE AttestationLog WITH log <- issued, Submission <- EnergySubmission

\* The running chain keeps an append-only log of attestations, numbered
\* without gaps, in which a batch is added whole (msg_server.go:25-110).
ImplementsLog == Log!Spec
===========================================================================
