------------------------ MODULE EnergyKeeperProofs ------------------------
(***************************************************************************)
(* Proofs about the energy module for every set of categories, submitters  *)
(* and data hashes and for every bound.                                    *)
(*                                                                         *)
(* Every step of a running chain only grows the store: GrowsBy says how,   *)
(* StepGrows proves it once from the actions, and each property follows    *)
(* from GrowsBy alone.  What the Merkle roots say of their leaves is       *)
(* proved by going down from the roots of two trees round by round.        *)
(***************************************************************************)
EXTENDS EnergyKeeper, TLAPS, WellFoundedInduction

\* The index keys are those of the records in the store, no other.
IndexesMatch ==
    /\ byCategory = CategoryKeys(data)
    /\ bySubmitter = SubmitterKeys(data)

\* No record is from a later block than the one being executed.
NothingFromTheFuture == \A id \in DOMAIN data : data[id].height <= height

\* The inductive invariant.
IInv ==
    /\ TypeOK
    /\ IdentifiersIssuedOnce
    /\ IndexesMatch
    /\ BatchesAuditable
    /\ NothingFromTheFuture
    /\ IdentifiersFollowTheChain

newRecords == DOMAIN data' \ DOMAIN data
newBatches == DOMAIN batches' \ DOMAIN batches

\* What a step adds is nothing, a record, or a batch and its records.
OneSubmission(n) ==
    \/ n = 0
    \/ n = 1 /\ newBatches = {}
    \/ /\ newBatches = {counter + 1}
       /\ n = 1 + batches'[counter + 1].dataCount

\* The step keeps what is stored and gives exactly the n identifiers that
\* follow the counter to well-formed records and batches.
GrowsBy(n) ==
    /\ counter' = counter + n
    /\ newRecords \cup newBatches = (counter + 1)..(counter + n)
    /\ newRecords \cap newBatches = {}
    /\ DOMAIN data \subseteq DOMAIN data'
    /\ \A id \in DOMAIN data : data'[id] = data[id]
    /\ DOMAIN batches \subseteq DOMAIN batches'
    /\ \A id \in DOMAIN batches : batches'[id] = batches[id]
    /\ \A id \in newRecords : /\ data'[id] \in EnergyData
                              /\ data'[id].height = height
    /\ \A id \in newBatches : /\ batches'[id] \in BatchSubmission
                              /\ BatchAuditable(id)'
    /\ byCategory' = byCategory \cup {<<data'[id].category, id>> : id \in newRecords}
    /\ bySubmitter' = bySubmitter \cup {<<data'[id].submitter, id>> : id \in newRecords}
    /\ OneSubmission(n)
    /\ params' = params
    /\ height' \in height..MaxHeight
    /\ accepted' \in 0..MaxMessages

\* A single submission grows the store by one.
LEMMA SubmitGrows ==
    ASSUME TypeOK, IdentifiersIssuedOnce,
           NEW s \in Submitter, NEW c \in Category, NEW h \in DataHash,
           MsgSubmitEnergyData(s, c, h)
    PROVE  GrowsBy(1)
<1> DEFINE R == [id \in GeneratedIDs(1) |-> Record(c, s, h)]
<1>1. /\ data' = Put(data, R)
      /\ byCategory' = byCategory \cup CategoryKeys(R)
      /\ bySubmitter' = bySubmitter \cup SubmitterKeys(R)
      /\ UNCHANGED <<batches, params, height>>
      /\ counter' = counter + 1
      /\ accepted' \in 0..MaxMessages
  BY EnergyAssumption DEF MsgSubmitEnergyData, SubmitEnergyData, TypeOK
<1>2. DOMAIN R = {counter + 1} /\ counter + 1 \notin DOMAIN data
  BY DEF GeneratedIDs, IdentifiersIssuedOnce, TypeOK
<1>3. \A id \in DOMAIN R : R[id] \in EnergyData /\ R[id].height = height
  BY DEF Record, EnergyData, TypeOK
<1> HIDE DEF R
<1>4. /\ DOMAIN data' = DOMAIN data \cup DOMAIN R
      /\ \A k \in DOMAIN R : data'[k] = R[k]
      /\ \A k \in DOMAIN data : data'[k] = data[k]
  <2>1. DOMAIN data \cap DOMAIN R = {}
    BY <1>2
  <2> QED
    BY <1>1, <2>1 DEF Put
<1>5. newRecords = DOMAIN R /\ newBatches = {}
  BY <1>1, <1>2, <1>4 DEF newRecords, newBatches
<1>6. newRecords \cup newBatches = (counter + 1)..(counter + 1)
  BY <1>2, <1>5 DEF TypeOK
<1>7. /\ CategoryKeys(R) = {<<data'[id].category, id>> : id \in newRecords}
      /\ SubmitterKeys(R) = {<<data'[id].submitter, id>> : id \in newRecords}
  BY <1>4, <1>5 DEF CategoryKeys, SubmitterKeys
<1>8. height' \in height..MaxHeight
  BY <1>1, EnergyAssumption DEF TypeOK
<1> QED
  BY <1>1, <1>3, <1>4, <1>5, <1>6, <1>7, <1>8 DEF GrowsBy, OneSubmission

\* A batch of n items grows the store by 1 + n.
LEMMA BatchGrows ==
    ASSUME TypeOK, IdentifiersIssuedOnce,
           NEW s \in Submitter, NEW c \in Category,
           NEW items \in Items, NEW root \in Roots,
           MsgBatchSubmit(s, c, items, root)
    PROVE  GrowsBy(1 + Len(items))
<1>0. PICK b : b = counter + 1
  OBVIOUS
<1> DEFINE n == Len(items)
           R == [id \in GeneratedIDs(1 + n) \ {b} |-> Record(c, s, items[id - b])]
           batch == [submitter |-> s, category |-> c,
                     dataCount |-> n, merkleRoot |-> root]
           B == [id \in {b} |-> batch]
<1>1. n \in 0..MaxItems /\ items \in [1..n -> DataHash]
  BY EnergyAssumption DEF Items
<1>2. /\ data' = Put(data, R)
      /\ byCategory' = byCategory \cup CategoryKeys(R)
      /\ bySubmitter' = bySubmitter \cup SubmitterKeys(R)
      /\ batches' = Put(batches, B)
      /\ UNCHANGED <<params, height>>
      /\ counter' = counter + (1 + n)
      /\ accepted' \in 0..MaxMessages
      /\ items # << >>
      /\ computeMerkleRoot(leafHashes(items)) = root
  BY <1>0, <1>1, EnergyAssumption
     DEF MsgBatchSubmit, SubmitEnergyData, TypeOK, verifyMerkleRoot
<1>3. counter \in Nat /\ b \in Nat /\ n \in Nat \ {0}
  BY <1>0, <1>1, <1>2 DEF TypeOK
<1>4. DOMAIN R = (b + 1)..(b + n) /\ DOMAIN B = {b}
  BY <1>0, <1>3 DEF GeneratedIDs
<1>5. DOMAIN data \cap DOMAIN R = {} /\ DOMAIN batches \cap DOMAIN B = {}
  BY <1>0, <1>3, <1>4 DEF IdentifiersIssuedOnce
<1>6. \A id \in DOMAIN R : /\ R[id] = Record(c, s, items[id - b])
                           /\ id - b \in 1..n
  BY <1>3, <1>4
<1>7. \A id \in DOMAIN R : R[id] \in EnergyData /\ R[id].height = height
  <2> SUFFICES ASSUME NEW id \in DOMAIN R
               PROVE  R[id] \in EnergyData /\ R[id].height = height
    OBVIOUS
  <2>1. R[id] = Record(c, s, items[id - b]) /\ items[id - b] \in DataHash
    BY <1>1, <1>6
  <2> HIDE DEF R
  <2> QED
    BY <2>1 DEF Record, EnergyData, TypeOK
<1>8. B[b] = batch /\ batch \in BatchSubmission
  BY <1>1, <1>3 DEF BatchSubmission
<1> HIDE DEF R, B
<1>9. /\ DOMAIN data' = DOMAIN data \cup DOMAIN R
      /\ \A k \in DOMAIN R : data'[k] = R[k]
      /\ \A k \in DOMAIN data : data'[k] = data[k]
  BY <1>2, <1>5 DEF Put
<1>10. /\ DOMAIN batches' = DOMAIN batches \cup DOMAIN B
       /\ \A k \in DOMAIN B : batches'[k] = B[k]
       /\ \A k \in DOMAIN batches : batches'[k] = batches[k]
  BY <1>2, <1>5 DEF Put
<1>11. newRecords = DOMAIN R /\ newBatches = {b}
  BY <1>4, <1>5, <1>9, <1>10 DEF newRecords, newBatches
<1>12. /\ newRecords \cup newBatches = (counter + 1)..(counter + (1 + n))
       /\ newRecords \cap newBatches = {}
  BY <1>0, <1>3, <1>4, <1>11
<1>13. /\ CategoryKeys(R) = {<<data'[id].category, id>> : id \in newRecords}
       /\ SubmitterKeys(R) = {<<data'[id].submitter, id>> : id \in newRecords}
  BY <1>9, <1>11 DEF CategoryKeys, SubmitterKeys
<1>14. BatchAuditable(b)'
  <2>1. batches'[b] = batch
    BY <1>4, <1>8, <1>10
  <2>2. \A i \in (b + 1)..(b + n) :
            i \in DOMAIN data' /\ data'[i] = Record(c, s, items[i - b])
    BY <1>4, <1>6, <1>9
  <2>3. \A i \in (b + 1)..(b + n) : /\ data'[i].category = c
                                    /\ data'[i].submitter = s
                                    /\ data'[i].height = height
                                    /\ data'[i].dataHash = items[i - b]
    <3> TAKE i \in (b + 1)..(b + n)
    <3>1. data'[i] = Record(c, s, items[i - b])
      BY <2>2
    <3> QED
      BY <3>1 DEF Record
  <2>4. b + 1 \in (b + 1)..(b + n)
    BY <1>3
  <2>5. BatchHashes(b)' = items
    <3>1. BatchHashes(b)' = [i \in 1..n |-> data'[b + i].dataHash]
      BY <2>1 DEF BatchHashes
    <3>2. \A i \in 1..n : data'[b + i].dataHash = items[i]
      BY <1>3, <2>3
    <3> QED
      BY <1>1, <3>1, <3>2
  <2>6. BatchIDs(b)' = (b + 1)..(b + n)
    BY <2>1 DEF BatchIDs
  <2>7. computeMerkleRoot(leafHashes(BatchHashes(b)))' = batches'[b].merkleRoot
    <3>1. leafHashes(BatchHashes(b))' = leafHashes(items)
      BY <2>5 DEF leafHashes
    <3> QED
      BY <1>2, <2>1, <3>1 DEF computeMerkleRoot, rounds
  <2> QED
    BY <2>1, <2>2, <2>3, <2>4, <2>6, <2>7 DEF BatchAuditable
<1>15. height' \in height..MaxHeight
  BY <1>2, EnergyAssumption DEF TypeOK
<1>16. \A id \in newBatches : /\ batches'[id] \in BatchSubmission
                              /\ BatchAuditable(id)'
  BY <1>4, <1>8, <1>10, <1>11, <1>14
<1>17. \A id \in newRecords : data'[id] \in EnergyData /\ data'[id].height = height
  BY <1>7, <1>9, <1>11
<1>18. OneSubmission(1 + n)
  BY <1>0, <1>4, <1>8, <1>10, <1>11 DEF OneSubmission
<1> QED
  BY <1>2, <1>9, <1>10, <1>12, <1>13, <1>15, <1>16, <1>17, <1>18 DEF GrowsBy

\* A step that leaves the store alone grows it by nothing.
LEMMA NothingGrows ==
    ASSUME TypeOK, height' \in height..MaxHeight,
           UNCHANGED <<data, byCategory, bySubmitter, batches, counter,
                       params, accepted>>
    PROVE  GrowsBy(0)
<1>1. newRecords = {} /\ newBatches = {}
  BY DEF newRecords, newBatches
<1>2. newRecords \cup newBatches = (counter + 1)..(counter + 0)
  BY <1>1 DEF TypeOK
<1> QED
  BY <1>1, <1>2 DEF GrowsBy, OneSubmission, TypeOK

\* Whatever a running chain does, its store only grows.
LEMMA StepGrows ==
    ASSUME TypeOK, IdentifiersIssuedOnce, [Next]_vars
    PROVE  \E n \in Nat : GrowsBy(n)
<1>1. ASSUME NEW s \in Submitter, NEW c \in Category, NEW h \in DataHash,
             MsgSubmitEnergyData(s, c, h)
      PROVE  \E n \in Nat : GrowsBy(n)
  BY <1>1, SubmitGrows
<1>2. ASSUME NEW s \in Submitter, NEW c \in Category,
             NEW items \in Items, NEW root \in Roots,
             MsgBatchSubmit(s, c, items, root)
      PROVE  \E n \in Nat : GrowsBy(n)
  <2>1. 1 + Len(items) \in Nat
    BY EnergyAssumption DEF Items
  <2> QED
    BY <1>2, <2>1, BatchGrows
<1>3. CASE EndBlock
  <2>1. height' \in height..MaxHeight
    BY <1>3, EnergyAssumption DEF EndBlock, TypeOK
  <2> QED
    BY <1>3, <2>1, NothingGrows DEF EndBlock
<1>4. CASE UNCHANGED vars
  <2>1. height' \in height..MaxHeight
    BY <1>4, EnergyAssumption DEF vars, TypeOK
  <2> QED
    BY <1>4, <2>1, NothingGrows DEF vars
<1> QED
  BY <1>1, <1>2, <1>3, <1>4 DEF Next, Message

---------------------------------------------------------------------------

LEMMA InitIInv == Init => IInv
<1> SUFFICES ASSUME Init PROVE IInv
  OBVIOUS
<1>1. DOMAIN data = {} /\ DOMAIN batches = {}
  BY DEF Init, EmptyStore
<1>2. TypeOK
  BY <1>1, EnergyAssumption DEF Init, TypeOK
<1>3. IdentifiersIssuedOnce
  BY <1>1 DEF Init, IdentifiersIssuedOnce
<1>4. IndexesMatch
  BY <1>1 DEF Init, IndexesMatch, CategoryKeys, SubmitterKeys
<1> QED
  BY <1>1, <1>2, <1>3, <1>4
     DEF IInv, BatchesAuditable, NothingFromTheFuture, IdentifiersFollowTheChain

\* A store that grows stays one the invariant describes.
LEMMA GrowthKeepsIInv ==
    ASSUME IInv, NEW n \in Nat, GrowsBy(n)
    PROVE  IInv'
<1>1. /\ DOMAIN data' = DOMAIN data \cup newRecords
      /\ DOMAIN batches' = DOMAIN batches \cup newBatches
      /\ newRecords \cap DOMAIN data = {}
      /\ newBatches \cap DOMAIN batches = {}
  BY DEF GrowsBy, newRecords, newBatches
<1>2. /\ newRecords \cup newBatches = (counter + 1)..(counter + n)
      /\ newRecords \cap newBatches = {}
      /\ counter' = counter + n
      /\ counter \in Nat
  BY DEF GrowsBy, IInv, TypeOK
<1>3. /\ \A id \in DOMAIN data : data'[id] = data[id]
      /\ \A id \in DOMAIN batches : batches'[id] = batches[id]
      /\ \A id \in newRecords : /\ data'[id] \in EnergyData
                                /\ data'[id].height = height
      /\ \A id \in newBatches : batches'[id] \in BatchSubmission
  BY DEF GrowsBy
<1>4. IdentifiersIssuedOnce'
  <2>1. DOMAIN data' \cup DOMAIN batches' = 1..counter'
    BY <1>1, <1>2 DEF IInv, IdentifiersIssuedOnce
  <2>2. DOMAIN data' \cap DOMAIN batches' = {}
    BY <1>1, <1>2 DEF IInv, IdentifiersIssuedOnce
  <2> QED
    BY <2>1, <2>2 DEF IdentifiersIssuedOnce
<1>5. IndexesMatch'
  <2>1. CategoryKeys(data)' =
            CategoryKeys(data) \cup {<<data'[id].category, id>> : id \in newRecords}
    BY <1>1, <1>3 DEF CategoryKeys
  <2>2. SubmitterKeys(data)' =
            SubmitterKeys(data) \cup {<<data'[id].submitter, id>> : id \in newRecords}
    BY <1>1, <1>3 DEF SubmitterKeys
  <2> QED
    BY <2>1, <2>2 DEF IInv, IndexesMatch, GrowsBy
<1>6. TypeOK'
  <2>1. DOMAIN data' \subseteq Nat \ {0} /\ DOMAIN batches' \subseteq Nat \ {0}
    BY <1>1, <1>2 DEF IInv, TypeOK
  <2>2. /\ \A id \in DOMAIN data' : data'[id] \in EnergyData
        /\ \A id \in DOMAIN batches' : batches'[id] \in BatchSubmission
    BY <1>1, <1>3 DEF IInv, TypeOK
  <2>3. byCategory' \subseteq Category \X Nat /\ bySubmitter' \subseteq Submitter \X Nat
    BY <1>5, <2>1, <2>2
       DEF IndexesMatch, CategoryKeys, SubmitterKeys, EnergyData
  <2>4. counter' \in Nat /\ params' \in Params
    BY <1>2 DEF GrowsBy, IInv, TypeOK
  <2>5. height' \in 1..MaxHeight /\ accepted' \in 0..MaxMessages
    BY EnergyAssumption DEF GrowsBy, IInv, TypeOK
  <2> QED
    BY <2>1, <2>2, <2>3, <2>4, <2>5 DEF TypeOK
<1>7. BatchesAuditable'
  <2>1. ASSUME NEW b \in DOMAIN batches
        PROVE  BatchAuditable(b)'
    <3>1. BatchAuditable(b) /\ batches'[b] = batches[b]
      BY <1>3 DEF IInv, BatchesAuditable
    <3>2. b \in Nat /\ batches[b].dataCount \in Nat \ {0}
      BY EnergyAssumption DEF IInv, TypeOK, BatchSubmission
    <3>3. BatchIDs(b)' = BatchIDs(b) /\ b + 1 \in BatchIDs(b)
      BY <3>1, <3>2 DEF BatchIDs
    <3>4. \A i \in BatchIDs(b) : i \in DOMAIN data' /\ data'[i] = data[i]
      BY <1>1, <1>3, <3>1 DEF BatchAuditable
    <3>5. BatchHashes(b)' = BatchHashes(b)
      <4>1. \A i \in 1..batches[b].dataCount : b + i \in BatchIDs(b)
        BY <3>2 DEF BatchIDs
      <4> QED
        BY <3>1, <3>4, <4>1 DEF BatchHashes
    <3> QED
      BY <3>1, <3>3, <3>4, <3>5 DEF BatchAuditable
  <2>2. ASSUME NEW b \in newBatches
        PROVE  BatchAuditable(b)'
    BY <2>2 DEF GrowsBy
  <2> QED
    BY <1>1, <2>1, <2>2 DEF BatchesAuditable
<1>8. /\ height \in Nat /\ height' \in Nat /\ height <= height'
      /\ \A id \in DOMAIN data : data[id].height \in Nat
  BY EnergyAssumption DEF GrowsBy, IInv, TypeOK, EnergyData
<1>9. NothingFromTheFuture'
  BY <1>1, <1>3, <1>8 DEF IInv, NothingFromTheFuture
<1>10. IdentifiersFollowTheChain'
  <2> SUFFICES ASSUME NEW i \in DOMAIN data', NEW j \in DOMAIN data', i < j
               PROVE  data'[i].height <= data'[j].height
    BY DEF IdentifiersFollowTheChain
  <2>1. CASE i \in DOMAIN data /\ j \in DOMAIN data
    BY <1>3, <2>1 DEF IInv, IdentifiersFollowTheChain
  <2>2. CASE i \in DOMAIN data /\ j \in newRecords
    BY <1>3, <2>2 DEF IInv, NothingFromTheFuture
  <2>3. CASE i \in newRecords /\ j \in newRecords
    BY <1>3, <1>8, <2>3
  <2>4. ~(i \in newRecords /\ j \in DOMAIN data)
    <3> SUFFICES ASSUME i \in newRecords, j \in DOMAIN data PROVE FALSE
      OBVIOUS
    <3>1. j \in 1..counter /\ i \in (counter + 1)..(counter + n)
      BY <1>2 DEF IInv, IdentifiersIssuedOnce
    <3> QED
      BY <1>2, <3>1
  <2> QED
    BY <1>1, <2>1, <2>2, <2>3, <2>4
<1> QED
  BY <1>4, <1>5, <1>6, <1>7, <1>9, <1>10 DEF IInv

LEMMA InductiveInvariant == Spec => []IInv
<1>1. IInv /\ [Next]_vars => IInv'
  BY StepGrows, GrowthKeepsIInv DEF IInv
<1> QED
  BY InitIInv, <1>1, PTL DEF Spec

---------------------------------------------------------------------------
(* Merkle trees *)

\* Every set of numbers that is not empty has a least element.  The lemmas
\* below that speak of all rounds argue by a least round that fails.
LEMMA LeastNumber ==
    ASSUME NEW T \in SUBSET Nat, T # {}
    PROVE  \E n \in T : \A m \in T : n <= m
<1> DEFINE R == OpToRel(<, Nat)
<1>1. IsWellFoundedOn(R, Nat)
  BY NatLessThanWellFounded
<1>2. \A a, b \in Nat : a < b => <<a,b>> \in R
  BY DEF OpToRel
<1> HIDE DEF R
<1>3. PICK x \in T : \A y \in T : ~(<<y, x>> \in R)
  BY <1>1, WFMin
<1>4. \A m \in T : ~(m < x)
  BY <1>2, <1>3
<1>5. \A m \in T : x <= m
  BY <1>4
<1> QED
  BY <1>5

\* This function gives the nodes after each of the first n rounds.
Rounds(leaves, n, f) == f[0] = leaves /\ \A m \in 1..n : f[m] = pairLevel(f[m - 1])

\* Any number of rounds can be made.
LEMMA RoundsExist ==
    ASSUME NEW leaves, NEW n \in Nat
    PROVE  \E f : Rounds(leaves, n, f)
<1> DEFINE T == {k \in Nat : ~\E f : Rounds(leaves, k, f)}
<1> SUFFICES ASSUME T # {} PROVE FALSE
  OBVIOUS
<1>1. PICK k \in T : \A m \in T : k <= m
  <2> HIDE DEF T
  <2>1. T \in SUBSET Nat
    BY DEF T
  <2> QED
    BY <2>1, LeastNumber
<1>2. k # 0
  <2>1. Rounds(leaves, 0, [m \in {0} |-> leaves])
    BY DEF Rounds
  <2> QED
    BY <2>1, <1>1
<1>3. k - 1 \in Nat /\ k - 1 \notin T
  BY <1>1, <1>2
<1>4. PICK f : Rounds(leaves, k - 1, f)
  BY <1>3
<1> DEFINE g == [m \in 0..k |-> IF m = k THEN pairLevel(f[k - 1]) ELSE f[m]]
<1>5. Rounds(leaves, k, g)
  <2>1. g[0] = leaves
    BY <1>2, <1>3, <1>4 DEF Rounds
  <2>2. ASSUME NEW m \in 1..k PROVE g[m] = pairLevel(g[m - 1])
    <3>1. g[m - 1] = f[m - 1]
      BY <1>3
    <3>2. CASE m = k
      BY <3>1, <3>2
    <3>3. CASE m # k
      <4>1. m \in 1..(k - 1) /\ g[m] = f[m]
        BY <1>3, <3>3
      <4>2. f[m] = pairLevel(f[m - 1])
        BY <4>1, <1>4 DEF Rounds
      <4> QED
        BY <3>1, <4>1, <4>2
    <3> QED
      BY <3>2, <3>3
  <2> HIDE DEF g
  <2> QED
    BY <2>1, <2>2 DEF Rounds
<1> QED
  BY <1>1, <1>5

\* What a round gives does not depend on how many follow.
LEMMA RoundsAgree ==
    ASSUME NEW leaves, NEW n \in Nat, NEW k \in Nat, NEW f, NEW g,
           Rounds(leaves, n, f), Rounds(leaves, k, g), NEW m \in 0..n, m <= k
    PROVE  f[m] = g[m]
<1> DEFINE T == {i \in 0..n : i <= k /\ f[i] # g[i]}
<1> SUFFICES ASSUME T # {} PROVE FALSE
  OBVIOUS
<1>1. PICK i \in T : \A j \in T : i <= j
  <2>1. T \in SUBSET Nat
    OBVIOUS
  <2> HIDE DEF T
  <2> QED
    BY <2>1, LeastNumber
<1>2. i # 0
  BY DEF Rounds
<1>3. i - 1 \in 0..n /\ i - 1 <= k /\ f[i - 1] = g[i - 1]
  BY <1>1, <1>2
<1>4. i \in 1..n /\ i \in 1..k
  BY <1>2
<1>5. f[i] = pairLevel(f[i - 1]) /\ g[i] = pairLevel(g[i - 1])
  BY <1>4 DEF Rounds
<1> QED
  BY <1>3, <1>5

\* levelAfter is what its recursive definition says.
LEMMA LevelsRecur ==
    ASSUME NEW leaves
    PROVE  /\ levelAfter(leaves)[0] = leaves
           /\ \A n \in Nat : levelAfter(leaves)[n + 1] = pairLevel(levelAfter(leaves)[n])
<1> DEFINE U(n) == CHOOSE f : Rounds(leaves, n, f)
           F == [n \in Nat |-> U(n)[n]]
<1>1. \A n \in Nat : Rounds(leaves, n, U(n))
  BY RoundsExist
<1>2. \A n \in Nat : F[n] = U(n)[n]
  OBVIOUS
<1> HIDE DEF U
<1>3. F[0] = leaves
  BY <1>1, <1>2 DEF Rounds
<1>4. ASSUME NEW n \in Nat, n # 0 PROVE F[n] = pairLevel(F[n - 1])
  <2>1. Rounds(leaves, n, U(n)) /\ Rounds(leaves, n - 1, U(n - 1)) /\ n - 1 \in Nat
    BY <1>1, <1>4
  <2>2. U(n)[n - 1] = U(n - 1)[n - 1]
    <3>1. n - 1 \in 0..n /\ n - 1 <= n - 1
      BY <1>4
    <3> QED
      BY <2>1, <3>1, RoundsAgree
  <2>3. U(n)[n] = pairLevel(U(n)[n - 1])
    <3>1. n \in 1..n
      BY <1>4
    <3> QED
      BY <3>1, <2>1 DEF Rounds
  <2> QED
    BY <1>2, <2>1, <2>2, <2>3
<1>5. F = [n \in Nat |-> IF n = 0 THEN leaves ELSE pairLevel(F[n - 1])]
  <2>1. \A n \in Nat : F[n] = IF n = 0 THEN leaves ELSE pairLevel(F[n - 1])
    BY <1>3, <1>4
  <2>2. F = [n \in Nat |-> F[n]]
    OBVIOUS
  <2> HIDE DEF F
  <2> QED
    BY <2>1, <2>2
<1> HIDE DEF F
<1> DEFINE L == CHOOSE f :
                    f = [n \in Nat |-> IF n = 0 THEN leaves ELSE pairLevel(f[n - 1])]
<1>6. L = [n \in Nat |-> IF n = 0 THEN leaves ELSE pairLevel(L[n - 1])]
  BY <1>5
<1>7. levelAfter(leaves) = L
  BY DEF levelAfter
<1> HIDE DEF L
<1>8. \A n \in Nat : L[n] = IF n = 0 THEN leaves ELSE pairLevel(L[n - 1])
  BY <1>6
<1>9. \A n \in Nat : n + 1 \in Nat /\ n + 1 # 0 /\ (n + 1) - 1 = n
  OBVIOUS
<1>10. \A n \in Nat : L[n + 1] = pairLevel(L[n])
  BY <1>8, <1>9
<1> QED
  BY <1>7, <1>8, <1>10

\* The nodes of a level: a sequence of n of them, and not of none.
IsLevel(s, n) == n \in Nat \ {0} /\ s = [i \in 1..n |-> s[i]]

\* The length of a level.
LEMMA LevelLength ==
    ASSUME NEW s, NEW n, IsLevel(s, n)
    PROVE  Len(s) = n /\ DOMAIN s = 1..n
<1>1. s = [i \in 1..n |-> s[i]] /\ n \in Nat
  BY DEF IsLevel
<1> QED
  BY <1>1

\* A round halves the number of nodes, rounded up.
LEMMA PairLevelShape ==
    ASSUME NEW s, NEW n, IsLevel(s, n)
    PROVE  /\ IsLevel(pairLevel(s), (n + 1) \div 2)
           /\ \A i \in 1..((n + 1) \div 2) :
                pairLevel(s)[i] = <<{s[2*i - 1], s[IF 2*i <= n THEN 2*i ELSE 2*i - 1]}>>
<1>1. n \in Nat \ {0} /\ (n + 1) \div 2 \in Nat \ {0}
  BY DEF IsLevel
<1>2. Len(s) = n
  BY LevelLength
<1>3. pairLevel(s) = [i \in 1..((n + 1) \div 2) |->
                        <<{s[2*i - 1], s[IF 2*i <= n THEN 2*i ELSE 2*i - 1]}>>]
  BY <1>2 DEF pairLevel, hashPair, keccak256
<1> QED
  BY <1>1, <1>3 DEF IsLevel

\* The digests in the texts that were hashed for the nodes of a level.
Halves(s) == UNION {node[1] : node \in Range(s)}

\* Nothing is lost in a round: the nodes of a level are the digests hashed for
\* the next.
LEMMA PairLevelKeeps ==
    ASSUME NEW s, NEW n, IsLevel(s, n)
    PROVE  Halves(pairLevel(s)) = Range(s)
<1> DEFINE p == pairLevel(s)
           m == (n + 1) \div 2
<1>1. n \in Nat \ {0} /\ m \in Nat \ {0}
  BY DEF IsLevel
<1>2. /\ DOMAIN s = 1..n /\ DOMAIN p = 1..m
      /\ \A i \in 1..m : p[i][1] = {s[2*i - 1], s[IF 2*i <= n THEN 2*i ELSE 2*i - 1]}
  <2>1. /\ DOMAIN s = 1..n /\ DOMAIN p = 1..m
        /\ \A i \in 1..m : p[i] = <<{s[2*i - 1], s[IF 2*i <= n THEN 2*i ELSE 2*i - 1]}>>
    BY PairLevelShape, LevelLength
  <2> HIDE DEF p, m
  <2> QED
    BY <2>1
<1> HIDE DEF p
<1>3. ASSUME NEW i \in 1..m PROVE p[i][1] \subseteq Range(s)
  <2>1. 2*i - 1 \in 1..n
    BY <1>1
  <2>2. (IF 2*i <= n THEN 2*i ELSE 2*i - 1) \in 1..n
    BY <1>1
  <2> HIDE DEF m
  <2> QED
    BY <1>2, <2>1, <2>2 DEF Range
<1>4. ASSUME NEW j \in 1..n PROVE \E i \in 1..m : s[j] \in p[i][1]
  <2>1. CASE \E i \in 1..m : j = 2*i
    <3>1. PICK i \in 1..m : j = 2*i
      BY <2>1
    <3>2. (IF 2*i <= n THEN 2*i ELSE 2*i - 1) = j
      BY <3>1
    <3> HIDE DEF m
    <3> QED
      BY <1>2, <3>2
  <2>2. CASE \E i \in 1..m : j = 2*i - 1
    <3>1. PICK i \in 1..m : j = 2*i - 1
      BY <2>2
    <3> HIDE DEF m
    <3> QED
      BY <1>2, <3>1
  <2>3. /\ (j + 1) \div 2 \in 1..m
        /\ j = 2 * ((j + 1) \div 2) \/ j = 2 * ((j + 1) \div 2) - 1
    BY <1>1
  <2> QED
    BY <2>1, <2>2, <2>3
<1> HIDE DEF m
<1>5. Range(s) = {s[j] : j \in 1..n} /\ Range(p) = {p[i] : i \in 1..m}
  BY <1>2 DEF Range
<1>6. Halves(p) = UNION {p[i][1] : i \in 1..m}
  BY <1>5 DEF Halves
<1>7. UNION {p[i][1] : i \in 1..m} \subseteq Range(s)
  BY <1>3
<1>8. Range(s) \subseteq UNION {p[i][1] : i \in 1..m}
  BY <1>4, <1>5
<1>9. Halves(p) = Range(s)
  BY <1>6, <1>7, <1>8
<1> QED
  BY <1>9 DEF p

\* Every round leaves fewer nodes, down to one.
LEMMA LevelsShrink ==
    ASSUME NEW leaves, NEW len, IsLevel(leaves, len), NEW k \in Nat
    PROVE  \E n : IsLevel(levelAfter(leaves)[k], n) /\ (n = 1 \/ n <= len - k)
<1> DEFINE L == levelAfter(leaves)
           T == {j \in Nat : ~\E n : IsLevel(L[j], n) /\ (n = 1 \/ n <= len - j)}
<1> HIDE DEF L
<1> SUFFICES ASSUME T # {} PROVE FALSE
  BY DEF L
<1>1. PICK j \in T : \A i \in T : j <= i
  <2>1. T \in SUBSET Nat
    OBVIOUS
  <2> HIDE DEF T
  <2> QED
    BY <2>1, LeastNumber
<1>2. L[0] = leaves /\ \A n \in Nat : L[n + 1] = pairLevel(L[n])
  BY LevelsRecur DEF L
<1>3. len \in Nat \ {0}
  BY DEF IsLevel
<1>4. j # 0
  BY <1>2, <1>3
<1>5. j - 1 \in Nat /\ j - 1 \notin T /\ (j - 1) + 1 = j
  BY <1>1, <1>4
<1>6. PICK n : IsLevel(L[j - 1], n) /\ (n = 1 \/ n <= len - (j - 1))
  BY <1>5
<1>7. L[j] = pairLevel(L[j - 1])
  BY <1>2, <1>5
<1>8. IsLevel(L[j], (n + 1) \div 2)
  BY <1>6, <1>7, PairLevelShape
<1>9. n \in Nat \ {0}
  BY <1>6 DEF IsLevel
<1>10. (n + 1) \div 2 = 1 \/ (n + 1) \div 2 <= len - j
  BY <1>3, <1>5, <1>6, <1>9
<1> QED
  BY <1>1, <1>8, <1>10

\* The recursion of computeMerkleRoot ends, after no more rounds than there
\* are leaves, with a level that holds the root alone.
LEMMA RootReached ==
    ASSUME NEW leaves, NEW len, IsLevel(leaves, len)
    PROVE  /\ rounds(leaves) \in 0..Len(leaves)
           /\ levelAfter(leaves)[rounds(leaves)] = <<computeMerkleRoot(leaves)>>
<1> DEFINE L == levelAfter(leaves)
           Done == {k \in 0..Len(leaves) : Len(L[k]) = 1}
           last == CHOOSE n \in 0..Len(leaves) :
                    /\ Len(L[n]) = 1
                    /\ \A m \in 0..(n - 1) : Len(L[m]) # 1
<1> HIDE DEF L
<1>1. Len(leaves) = len /\ len \in Nat \ {0}
  BY LevelLength DEF IsLevel
<1>2. len \in Done
  <2>1. PICK n : IsLevel(L[len], n) /\ (n = 1 \/ n <= len - len)
    BY <1>1, LevelsShrink DEF L
  <2>2. n = 1
    BY <1>1, <2>1 DEF IsLevel
  <2>3. Len(L[len]) = 1
    BY <2>1, <2>2, LevelLength
  <2> QED
    BY <1>1, <2>3
<1>3. PICK k \in Done : \A i \in Done : k <= i
  <2>1. Done \in SUBSET Nat /\ Done # {}
    BY <1>1, <1>2
  <2> HIDE DEF Done
  <2> QED
    BY <2>1, LeastNumber
<1>4. /\ last \in 0..Len(leaves)
      /\ Len(L[last]) = 1
  <2>1. k \in 0..Len(leaves) /\ Len(L[k]) = 1
    OBVIOUS
  <2>2. \A m \in 0..(k - 1) : Len(L[m]) # 1
    BY <1>1, <1>3
  <2> QED
    BY <2>1, <2>2
<1>5. rounds(leaves) = last /\ computeMerkleRoot(leaves) = L[last][1]
  BY DEF rounds, computeMerkleRoot, L
<1> HIDE DEF last
<1>6. PICK n : IsLevel(L[last], n)
  <2>1. last \in Nat
    BY <1>1, <1>4
  <2> QED
    BY <2>1, LevelsShrink DEF L
<1>7. n = 1
  BY <1>4, <1>6, LevelLength
<1>8. L[last] = [i \in 1..1 |-> L[last][i]]
  BY <1>6, <1>7 DEF IsLevel
<1>9. L[last] = <<L[last][1]>>
  BY <1>8
<1> QED
  BY <1>4, <1>5, <1>9 DEF L

\* The nodes there are after n rounds.
NodesAfter(leaves, n) == Range(levelAfter(leaves)[n])

\* Levels of two trees that hold the same nodes do so as well any number of
\* rounds earlier.
LEMMA GoingDown ==
    ASSUME NEW x, NEW xlen, IsLevel(x, xlen), NEW y, NEW ylen, IsLevel(y, ylen),
           NEW a \in Nat, NEW b \in Nat, NEW p \in Nat, NEW q \in Nat,
           a <= p, p - a = q - b, NodesAfter(x, p) = NodesAfter(y, q)
    PROVE  NodesAfter(x, a) = NodesAfter(y, b)
<1> DEFINE X == levelAfter(x)
           Y == levelAfter(y)
           T == {j \in Nat : Range(X[a + j]) = Range(Y[b + j])}
<1> HIDE DEF X, Y
<1>1. PICK j \in T : \A i \in T : j <= i
  <2>1. p - a \in T
    <3>1. p - a \in Nat /\ a + (p - a) = p /\ b + (p - a) = q
      OBVIOUS
    <3> QED
      BY <3>1 DEF X, Y, NodesAfter
  <2>2. T \in SUBSET Nat /\ T # {}
    BY <2>1
  <2> HIDE DEF T
  <2> QED
    BY <2>2, LeastNumber
<1>2. SUFFICES ASSUME j # 0 PROVE FALSE
  <2>1. a + 0 = a /\ b + 0 = b
    OBVIOUS
  <2> QED
    BY <1>1, <2>1 DEF X, Y, NodesAfter
<1>3. j - 1 \in Nat /\ a + (j - 1) \in Nat /\ b + (j - 1) \in Nat
      /\ (a + (j - 1)) + 1 = a + j /\ (b + (j - 1)) + 1 = b + j
  BY <1>2
<1>4. X[a + j] = pairLevel(X[a + (j - 1)]) /\ Y[b + j] = pairLevel(Y[b + (j - 1)])
  <2>1. /\ \A i \in Nat : X[i + 1] = pairLevel(X[i])
        /\ \A i \in Nat : Y[i + 1] = pairLevel(Y[i])
    BY LevelsRecur DEF X, Y
  <2> QED
    BY <1>3, <2>1
<1>5. PICK v, w : IsLevel(X[a + (j - 1)], v) /\ IsLevel(Y[b + (j - 1)], w)
  BY <1>3, LevelsShrink DEF X, Y
<1>6. /\ Halves(X[a + j]) = Range(X[a + (j - 1)])
      /\ Halves(Y[b + j]) = Range(Y[b + (j - 1)])
  BY <1>4, <1>5, PairLevelKeeps
<1>7. j - 1 \in T
  <2>1. Halves(X[a + j]) = Halves(Y[b + j])
    BY <1>1 DEF Halves
  <2> QED
    BY <1>3, <1>6, <2>1
<1> QED
  BY <1>1, <1>7

\* The leaves of a batch are its data hashes, hashed, and as different.
LEMMA Leaves ==
    ASSUME NEW x, NEW xlen \in 1..MaxItems, x \in [1..xlen -> DataHash]
    PROVE  /\ IsLevel(leafHashes(x), xlen)
           /\ Range(x) = {leaf[1] : leaf \in Range(leafHashes(x))}
<1>1. xlen \in Nat \ {0} /\ DOMAIN x = 1..xlen
  BY EnergyAssumption
<1>2. leafHashes(x) = [i \in 1..xlen |-> <<x[i]>>]
  BY <1>1 DEF leafHashes, keccak256
<1>3. /\ DOMAIN leafHashes(x) = 1..xlen
      /\ \A i \in 1..xlen : leafHashes(x)[i] = <<x[i]>> /\ leafHashes(x)[i][1] = x[i]
  BY <1>2
<1>4. Range(x) = {x[i] : i \in 1..xlen}
  BY <1>1 DEF Range
<1>5. {leaf[1] : leaf \in Range(leafHashes(x))} = {leafHashes(x)[i][1] : i \in 1..xlen}
  BY <1>3 DEF Range
<1>6. {leafHashes(x)[i][1] : i \in 1..xlen} = {x[i] : i \in 1..xlen}
  BY <1>3
<1> QED
  BY <1>1, <1>2, <1>4, <1>5, <1>6 DEF IsLevel

\* Going down from equal roots, the lower tree comes to its leaves first: they
\* are the nodes of the other as many rounds below its root.
LEMMA RootCommits ==
    ASSUME NEW x, NEW xlen, IsLevel(x, xlen), NEW y, NEW ylen, IsLevel(y, ylen),
           computeMerkleRoot(x) = computeMerkleRoot(y), rounds(x) <= rounds(y)
    PROVE  Range(x) = Range(levelAfter(y)[rounds(y) - rounds(x)])
<1>1. Len(x) = xlen /\ Len(y) = ylen /\ xlen \in Nat /\ ylen \in Nat
  BY LevelLength DEF IsLevel
<1> DEFINE a == rounds(x)
           b == rounds(y)
<1>2. /\ a \in Nat /\ levelAfter(x)[a] = <<computeMerkleRoot(x)>>
      /\ b \in Nat /\ levelAfter(y)[b] = <<computeMerkleRoot(y)>>
  BY <1>1, RootReached
<1> HIDE DEF a, b
<1>3. NodesAfter(x, a) = NodesAfter(y, b)
  BY <1>2 DEF NodesAfter
<1>4. b - a \in Nat /\ 0 <= a /\ a - 0 = b - (b - a) /\ 0 \in Nat
  BY <1>2 DEF a, b
<1>5. NodesAfter(x, 0) = NodesAfter(y, b - a)
  BY <1>2, <1>3, <1>4, GoingDown
<1>6. levelAfter(x)[0] = x
  BY LevelsRecur
<1> QED
  BY <1>5, <1>6 DEF NodesAfter, a, b

---------------------------------------------------------------------------

\* The store always has the shape types.go declares.
THEOREM TypeCorrect == Spec => []TypeOK
<1>1. IInv => TypeOK
  BY DEF IInv
<1> QED
  BY InductiveInvariant, <1>1, PTL

\* GenerateID never hands out a number twice and none is lost: each names
\* exactly one record or one batch.
THEOREM IssuedOnce == Spec => []IdentifiersIssuedOnce
<1>1. IInv => IdentifiersIssuedOnce
  BY DEF IInv
<1> QED
  BY InductiveInvariant, <1>1, PTL

\* The index queries return exactly the records they are asked for.
THEOREM QueriesAreExact == Spec => []QueriesExact
<1>1. IInv => QueriesExact
  BY DEF IInv, IndexesMatch, QueriesExact, CategoryKeys, SubmitterKeys,
         GetEnergyDataByCategory, GetEnergyDataBySubmitter
<1> QED
  BY InductiveInvariant, <1>1, PTL

\* The Merkle root of a batch can be recomputed from the store for ever.
THEOREM BatchesStayAuditable == Spec => []BatchesAuditable
<1>1. IInv => BatchesAuditable
  BY DEF IInv
<1> QED
  BY InductiveInvariant, <1>1, PTL

\* The roots of two batches are the same only if the leaves of the lower tree are
\* nodes of the other one, and for trees equally high only if the batches attest
\* the same set of data hashes.
THEOREM RootsCommit == Spec => []RootCommitsToHashes
<1>1. IInv => RootCommitsToHashes
  <2> SUFFICES ASSUME IInv, NEW b1 \in DOMAIN batches, NEW b2 \in DOMAIN batches,
                      batches[b1].merkleRoot = batches[b2].merkleRoot
               PROVE  LET x == leafHashes(BatchHashes(b1))
                          y == leafHashes(BatchHashes(b2))
                      IN /\ rounds(x) = rounds(y)
                              => Range(BatchHashes(b1)) = Range(BatchHashes(b2))
                         /\ rounds(x) < rounds(y)
                              => Range(x) = Range(levelAfter(y)[rounds(y) - rounds(x)])
    BY DEF RootCommitsToHashes
  <2>1. ASSUME NEW b \in DOMAIN batches
        PROVE  /\ batches[b].dataCount \in 1..MaxItems
               /\ BatchHashes(b) \in [1..batches[b].dataCount -> DataHash]
               /\ computeMerkleRoot(leafHashes(BatchHashes(b))) = batches[b].merkleRoot
    <3>1. BatchAuditable(b)
      BY DEF IInv, BatchesAuditable
    <3>2. b \in Nat /\ batches[b].dataCount \in 1..MaxItems
      BY DEF IInv, TypeOK, BatchSubmission
    <3>3. \A i \in 1..batches[b].dataCount : b + i \in BatchIDs(b)
      BY <3>2, EnergyAssumption DEF BatchIDs
    <3>4. \A i \in 1..batches[b].dataCount : data[b + i].dataHash \in DataHash
      BY <3>1, <3>3 DEF BatchAuditable, IInv, TypeOK, EnergyData
    <3> QED
      BY <3>1, <3>2, <3>4 DEF BatchAuditable, BatchHashes
  <2> DEFINE x == leafHashes(BatchHashes(b1))
             y == leafHashes(BatchHashes(b2))
  <2>2. /\ IsLevel(x, batches[b1].dataCount)
        /\ IsLevel(y, batches[b2].dataCount)
        /\ Range(BatchHashes(b1)) = {leaf[1] : leaf \in Range(x)}
        /\ Range(BatchHashes(b2)) = {leaf[1] : leaf \in Range(y)}
    BY <2>1, Leaves
  <2>3. computeMerkleRoot(x) = computeMerkleRoot(y)
    BY <2>1
  <2> HIDE DEF x, y
  <2>4. rounds(x) \in Nat /\ rounds(y) \in Nat
    <3>1. /\ Len(x) \in Nat /\ rounds(x) \in 0..Len(x)
          /\ Len(y) \in Nat /\ rounds(y) \in 0..Len(y)
      BY <2>2, RootReached, LevelLength DEF IsLevel
    <3> QED
      BY <3>1
  <2>5. rounds(x) <= rounds(y) => Range(x) = Range(levelAfter(y)[rounds(y) - rounds(x)])
    BY <2>2, <2>3, RootCommits
  <2>6. ASSUME rounds(x) = rounds(y)
        PROVE  Range(BatchHashes(b1)) = Range(BatchHashes(b2))
    <3>1. rounds(y) - rounds(x) = 0 /\ rounds(x) <= rounds(y)
      BY <2>4, <2>6
    <3>2. levelAfter(y)[0] = y
      BY LevelsRecur
    <3>3. Range(x) = Range(y)
      BY <2>5, <3>1, <3>2
    <3> QED
      BY <2>2, <3>3
  <2>7. ASSUME rounds(x) < rounds(y)
        PROVE  Range(x) = Range(levelAfter(y)[rounds(y) - rounds(x)])
    BY <2>4, <2>5, <2>7
  <2> QED
    BY <2>6, <2>7 DEF x, y
<1> QED
  BY InductiveInvariant, <1>1, PTL

\* The order of the identifiers is the order of the blocks.
THEOREM ChainOrder == Spec => []IdentifiersFollowTheChain
<1>1. IInv => IdentifiersFollowTheChain
  BY DEF IInv
<1> QED
  BY InductiveInvariant, <1>1, PTL

\* No message of a running chain modifies or deletes a record or a batch.
THEOREM Immutability == Spec => RecordsImmutable
<1>1. IInv /\ [Next]_vars
      => [/\ \A id \in DOMAIN data : id \in DOMAIN data' /\ data'[id] = data[id]
          /\ \A id \in DOMAIN batches :
                id \in DOMAIN batches' /\ batches'[id] = batches[id]]_vars
  BY StepGrows DEF IInv, GrowsBy
<1> QED
  BY InductiveInvariant, <1>1, PTL DEF Spec, RecordsImmutable

---------------------------------------------------------------------------

\* Records and batches are told apart by their fields.
LEMMA RecordsAreNotBatches ==
    /\ \A e \in EnergyData : IsRecord(e)
    /\ \A e \in BatchSubmission : ~IsRecord(e)
BY DEF IsRecord, EnergyData, BatchSubmission

\* The log is a sequence as long as the counter says, of which a growing
\* store extends the end.
LEMMA IssuedExtends ==
    ASSUME IInv, IInv', NEW n \in Nat, GrowsBy(n)
    PROVE  /\ Len(issued) = counter
           /\ Len(issued') = counter + n
           /\ SubSeq(issued', 1, Len(issued)) = issued
           /\ n = 0 => issued' = issued
           /\ Log!added = [i \in 1..n |-> issued'[counter + i]]
           /\ \A k \in newRecords : issued'[k] = data'[k]
           /\ \A k \in newBatches : issued'[k] = batches'[k]
<1>1. counter \in Nat /\ counter' = counter + n
  BY DEF IInv, TypeOK, GrowsBy
<1>2. Len(issued) = counter /\ Len(issued') = counter + n
  BY <1>1 DEF issued
<1>3. \A k \in 1..counter : issued'[k] = issued[k]
  <2> TAKE k \in 1..counter
  <2>1. k \in DOMAIN data \/ k \in DOMAIN batches
    BY DEF IInv, IdentifiersIssuedOnce
  <2>2. k \notin newRecords
    BY <1>1 DEF GrowsBy
  <2>3. k \in DOMAIN data' <=> k \in DOMAIN data
    BY <2>2 DEF GrowsBy, newRecords
  <2>4. /\ k \in DOMAIN data => data'[k] = data[k]
        /\ k \in DOMAIN batches => batches'[k] = batches[k]
    BY DEF GrowsBy
  <2> QED
    BY <1>1, <2>1, <2>3, <2>4 DEF issued
<1>4. SubSeq(issued', 1, counter) = issued
  BY <1>1, <1>2, <1>3 DEF issued
<1>8. n = 0 => issued' = issued
  BY <1>1, <1>3 DEF issued
<1>5. Log!added = [i \in 1..n |-> issued'[counter + i]]
  BY <1>1, <1>2 DEF Log!added, issued
<1>6. \A k \in newRecords \cup newBatches : k \in 1..counter'
  BY <1>1 DEF GrowsBy
<1>7. /\ \A k \in newRecords : issued'[k] = data'[k]
      /\ \A k \in newBatches : issued'[k] = batches'[k]
  BY <1>6 DEF issued, newRecords, newBatches, IInv, IdentifiersIssuedOnce
<1> QED
  BY <1>2, <1>4, <1>5, <1>7, <1>8

\* The energy module implements the append-only log of attestations.
THEOREM Refinement == Spec => ImplementsLog
<1>1. Init => Log!Init
  BY DEF Init, Log!Init, issued
<1>2. IInv /\ IInv' /\ [Next]_vars => [Log!Accept]_issued
  <2> SUFFICES ASSUME IInv, IInv', [Next]_vars
               PROVE  [Log!Accept]_issued
    OBVIOUS
  <2>1. PICK n \in Nat : GrowsBy(n)
    BY StepGrows DEF IInv
  <2>2. /\ counter \in Nat
        /\ newRecords \cup newBatches = (counter + 1)..(counter + n)
        /\ newRecords \cap newBatches = {}
        /\ \A k \in newRecords : data'[k] \in EnergyData
        /\ \A k \in newBatches : /\ batches'[k] \in BatchSubmission
                                 /\ BatchAuditable(k)'
    BY <2>1 DEF GrowsBy, IInv, TypeOK
  <2>3. ASSUME n > 0, EnergySubmission(Log!added)
        PROVE  Log!Accept
    <3>1. Len(issued') > Len(issued)
      BY <2>1, <2>2, <2>3, IssuedExtends
    <3> QED
      BY <2>1, <2>3, <3>1, IssuedExtends DEF Log!Accept
  <2>4. CASE n = 0
    BY <2>1, <2>4, IssuedExtends
  <2>5. CASE n = 1 /\ newBatches = {}
    <3>1. counter + 1 \in newRecords
      BY <2>2, <2>5
    <3>2. Log!added = [i \in 1..1 |-> issued'[counter + i]]
      BY <2>1, <2>5, IssuedExtends
    <3>3. issued'[counter + 1] \in EnergyData
      BY <2>1, <2>2, <3>1, IssuedExtends
    <3>4. Len(Log!added) = 1 /\ IsRecord(Log!added[1])
      BY <3>2, <3>3, RecordsAreNotBatches
    <3> QED
      BY <2>3, <2>5, <3>4 DEF EnergySubmission
  <2>6. CASE /\ newBatches = {counter + 1}
             /\ n = 1 + batches'[counter + 1].dataCount
    <3>1. PICK b : b = counter + 1
      OBVIOUS
    <3>2. /\ Log!added = [i \in 1..n |-> issued'[counter + i]]
          /\ \A k \in newRecords : issued'[k] = data'[k]
          /\ \A k \in newBatches : issued'[k] = batches'[k]
      BY <2>1, IssuedExtends
    <3>3. /\ issued'[b] = batches'[b]
          /\ batches'[b] \in BatchSubmission
          /\ BatchAuditable(b)'
      BY <2>2, <2>6, <3>1, <3>2
    <3>4. /\ Len(Log!added) = n
          /\ n = 1 + batches'[b].dataCount
          /\ Log!added[1] = batches'[b]
      BY <2>2, <2>6, <3>1, <3>2, <3>3, EnergyAssumption DEF BatchSubmission
    <3>5. ~IsRecord(Log!added[1])
      BY <3>3, <3>4, RecordsAreNotBatches
    <3>6. ASSUME NEW i \in 2..n
          PROVE  /\ IsRecord(Log!added[i])
                 /\ Log!added[i].category = Log!added[1].category
                 /\ Log!added[i].submitter = Log!added[1].submitter
      <4>1. counter + i \in newRecords
        BY <2>2, <2>6
      <4>2. Log!added[i] = data'[counter + i] /\ data'[counter + i] \in EnergyData
        BY <2>2, <3>2, <4>1
      <4>3. counter + i \in BatchIDs(b)'
        BY <2>2, <3>1, <3>3, <3>4, EnergyAssumption DEF BatchIDs, BatchSubmission
      <4>4. /\ data'[counter + i].category = batches'[b].category
            /\ data'[counter + i].submitter = batches'[b].submitter
        BY <3>3, <4>3 DEF BatchAuditable
      <4> QED
        BY <3>4, <4>2, <4>4, RecordsAreNotBatches
    <3>7. EnergySubmission(Log!added)
      BY <3>4, <3>5, <3>6 DEF EnergySubmission
    <3>8. n > 0
      BY <3>3, <3>4, EnergyAssumption DEF BatchSubmission
    <3> QED
      BY <2>3, <3>7, <3>8
  <2> QED
    BY <2>1, <2>4, <2>5, <2>6 DEF GrowsBy, OneSubmission
<1> QED
  BY InductiveInvariant, <1>1, <1>2, PTL DEF Spec, ImplementsLog, Log!Spec
===========================================================================
