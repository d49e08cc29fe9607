-------------------- MODULE EnergyDataAttestationProofs --------------------
(***************************************************************************)
(* Proofs about the attestation contract for every set of accounts, hashes *)
(* and type labels, every limit of a batch and every bound.                *)
(*                                                                         *)
(* Both calls store a sequence of hashes that are new and distinct, see    *)
(* Fresh; the lemma CallStores reduces them to that case.                  *)
(***************************************************************************)
EXTENDS EnergyDataAttestation, TLAPS

\* The inductive invariant.
IInv == TypeOK /\ AttestedOnce /\ ListsExact

\* What the require statements leave: none of the hashes is zero or was
\* attested, and no two are equal.
Fresh(hashes) ==
    /\ hashes \in Seq(DataHash)
    /\ Len(hashes) \in 1..MaxBatch
    /\ \A i \in 1..Len(hashes) : hashes[i] # ZeroHash /\ hashToId[hashes[i]] = 0
    /\ \A i, j \in 1..Len(hashes) : i # j => hashes[i] # hashes[j]

\* A step is a call that stores fresh hashes, or changes nothing stored.
LEMMA CallStores ==
    ASSUME TypeOK, [Next]_vars
    PROVE  \/ \E s \in Sender, t \in DataType, hashes \in Seq(DataHash) :
                Fresh(hashes) /\ Store(s, hashes, t)
           \/ /\ UNCHANGED <<totalAttestations, attestations, hashToId,
                             submitterAttestations, typeAttestations>>
              /\ block' \in 1..MaxBlock
<1>1. ASSUME NEW s \in Sender, NEW t \in DataType, NEW h \in DataHash, attest(s, h, t)
      PROVE  \E hashes \in Seq(DataHash) : Fresh(hashes) /\ Store(s, hashes, t)
  <2>1. Fresh(<<h>>)
    BY <1>1, AttestationAssumption DEF attest, Fresh
  <2>2. <<h>> \in Seq(DataHash) /\ Store(s, <<h>>, t)
    BY <1>1 DEF attest
  <2> QED
    BY <2>1, <2>2
<1>2. ASSUME NEW s \in Sender, NEW t \in DataType, NEW hashes \in Batches,
             batchAttest(s, hashes, t)
      PROVE  \E hs \in Seq(DataHash) : Fresh(hs) /\ Store(s, hs, t)
  <2>1. hashes \in Seq(DataHash)
    BY AttestationAssumption DEF Batches
  <2>2. Len(hashes) \in 1..MaxBatch
    BY <1>2, <2>1, AttestationAssumption DEF batchAttest
  <2>3. Fresh(hashes)
    BY <1>2, <2>1, <2>2 DEF batchAttest, Fresh
  <2> QED
    BY <1>2, <2>1, <2>3 DEF batchAttest
<1>3. CASE NextBlock
  BY <1>3, AttestationAssumption DEF NextBlock, TypeOK
<1>4. CASE UNCHANGED vars
  BY <1>4 DEF vars, TypeOK
<1> QED
  BY <1>1, <1>2, <1>3, <1>4 DEF Next, Call

\* Pushing the next ids to a list adds exactly them to what it lists.
LEMMA PushLists ==
    ASSUME totalAttestations \in Nat, NEW n \in Nat,
           NEW seq \in Seq(1..totalAttestations),
           NEW S \in SUBSET (1..totalAttestations), Lists(seq, S)
    PROVE  /\ Lists(seq \o NextIDs(n),
                    S \cup (totalAttestations + 1)..(totalAttestations + n))
           /\ seq \o NextIDs(n) \in Seq(1..(totalAttestations + n))
<1> DEFINE m == Len(seq)
           longer == seq \o NextIDs(n)
<1>1. m \in Nat /\ \A i \in 1..m : seq[i] \in 1..totalAttestations
  OBVIOUS
<1>2. NextIDs(n) \in Seq(Nat) /\ Len(NextIDs(n)) = n
  BY DEF NextIDs
<1>3. /\ Len(longer) = m + n
      /\ \A i \in 1..m : longer[i] = seq[i]
      /\ \A i \in (m + 1)..(m + n) : longer[i] = totalAttestations + (i - m)
  BY <1>1, <1>2 DEF NextIDs
<1>4. longer \in Seq(1..(totalAttestations + n))
  <2>1. seq \in Seq(1..(totalAttestations + n))
    BY <1>1
  <2>2. NextIDs(n) \in Seq(1..(totalAttestations + n))
    BY DEF NextIDs
  <2> QED
    BY <2>1, <2>2
<1> HIDE DEF longer
<1>5. {longer[i] : i \in 1..(m + n)} =
          S \cup (totalAttestations + 1)..(totalAttestations + n)
  <2>1. {longer[i] : i \in 1..m} = S
    BY <1>3 DEF Lists
  <2>2. {longer[i] : i \in (m + 1)..(m + n)} =
            (totalAttestations + 1)..(totalAttestations + n)
    <3>1. \A k \in (totalAttestations + 1)..(totalAttestations + n) :
            /\ k - totalAttestations + m \in (m + 1)..(m + n)
            /\ longer[k - totalAttestations + m] = k
      <4> TAKE k \in (totalAttestations + 1)..(totalAttestations + n)
      <4>1. PICK i : i = k - totalAttestations + m
        OBVIOUS
      <4>2. i \in (m + 1)..(m + n) /\ totalAttestations + (i - m) = k
        BY <1>1, <4>1
      <4> QED
        BY <1>3, <4>1, <4>2
    <3>2. \A i \in (m + 1)..(m + n) :
            longer[i] \in (totalAttestations + 1)..(totalAttestations + n)
      BY <1>1, <1>3
    <3> QED
      BY <3>1, <3>2
  <2>3. 1..(m + n) = 1..m \cup (m + 1)..(m + n)
    BY <1>1
  <2> QED
    BY <2>1, <2>2, <2>3
<1>6. \A i, j \in 1..(m + n) : i < j => longer[i] < longer[j]
  <2> SUFFICES ASSUME NEW i \in 1..(m + n), NEW j \in 1..(m + n), i < j
               PROVE  longer[i] < longer[j]
    OBVIOUS
  <2>1. CASE j \in 1..m
    BY <1>1, <1>3, <2>1 DEF Lists
  <2>2. CASE i \in 1..m /\ j \in (m + 1)..(m + n)
    BY <1>1, <1>3, <2>2
  <2>3. CASE i \in (m + 1)..(m + n) /\ j \in (m + 1)..(m + n)
    BY <1>1, <1>3, <2>3
  <2> QED
    BY <1>1, <2>1, <2>2, <2>3
<1>7. Lists(longer, S \cup (totalAttestations + 1)..(totalAttestations + n))
  BY <1>3, <1>5, <1>6 DEF Lists
<1> QED
  BY <1>4, <1>7 DEF longer

\* What storing fresh hashes does to the attestations and to the look-up.
LEMMA StoreAdds ==
    ASSUME TypeOK, NEW s \in Sender, NEW t \in DataType,
           NEW hashes \in Seq(DataHash), Fresh(hashes), Store(s, hashes, t)
    PROVE  /\ totalAttestations \in Nat /\ Len(hashes) \in Nat \ {0}
           /\ totalAttestations' = totalAttestations + Len(hashes)
           /\ attestations' \in [1..totalAttestations' -> Attestation]
           /\ \A id \in 1..totalAttestations : attestations'[id] = attestations[id]
           /\ \A i \in 1..Len(hashes) :
                /\ attestations'[totalAttestations + i] =
                        [dataHash |-> hashes[i], submitter |-> s,
                         dataType |-> t, blockNumber |-> block]
                /\ hashToId'[hashes[i]] = totalAttestations + i
           /\ \A h \in DataHash :
                (\A i \in 1..Len(hashes) : hashes[i] # h) => hashToId'[h] = hashToId[h]
           /\ hashToId' \in [DataHash -> 0..totalAttestations']
           /\ block' = block
<1> DEFINE n == Len(hashes)
<1>1. totalAttestations \in Nat /\ n \in Nat \ {0} /\ block \in 1..MaxBlock
  BY AttestationAssumption DEF TypeOK, Fresh
<1>2. totalAttestations' = totalAttestations + n /\ block' = block
  BY DEF Store
<1>3. \A i \in 1..n : [dataHash |-> hashes[i], submitter |-> s,
                       dataType |-> t, blockNumber |-> block] \in Attestation
  BY <1>1 DEF Attestation
<1>4. attestations' = [id \in 1..(totalAttestations + n) |->
            IF id <= totalAttestations THEN attestations[id]
            ELSE [dataHash |-> hashes[id - totalAttestations], submitter |-> s,
                  dataType |-> t, blockNumber |-> block]]
  BY DEF Store
<1>5. \A id \in 1..totalAttestations : attestations'[id] = attestations[id]
  BY <1>1, <1>4
<1>6. \A i \in 1..n : attestations'[totalAttestations + i] =
            [dataHash |-> hashes[i], submitter |-> s,
             dataType |-> t, blockNumber |-> block]
  <2> TAKE i \in 1..n
  <2>1. /\ totalAttestations + i \in 1..(totalAttestations + n)
        /\ ~(totalAttestations + i <= totalAttestations)
        /\ (totalAttestations + i) - totalAttestations = i
    BY <1>1
  <2> QED
    BY <1>4, <2>1
<1>7. attestations' \in [1..totalAttestations' -> Attestation]
  <2>1. \A id \in 1..(totalAttestations + n) : attestations'[id] \in Attestation
    <3> TAKE id \in 1..(totalAttestations + n)
    <3>1. CASE id <= totalAttestations
      BY <1>1, <1>5, <3>1 DEF TypeOK
    <3>2. CASE id > totalAttestations
      <4>1. PICK i \in 1..n : id = totalAttestations + i
        <5>1. id - totalAttestations \in 1..n /\ id = totalAttestations + (id - totalAttestations)
          BY <1>1, <3>2
        <5> QED
          BY <5>1
      <4> QED
        BY <1>3, <1>6, <4>1
    <3> QED
      BY <1>1, <3>1, <3>2
  <2> QED
    BY <1>2, <1>4, <2>1
<1>8. hashToId' = [h \in DataHash |->
            IF \E i \in 1..n : hashes[i] = h
            THEN totalAttestations + (CHOOSE i \in 1..n : hashes[i] = h)
            ELSE hashToId[h]]
  BY DEF Store
<1>9. \A i \in 1..n : hashToId'[hashes[i]] = totalAttestations + i
  <2> TAKE i \in 1..n
  <2>1. hashes[i] \in DataHash
    OBVIOUS
  <2>2. (CHOOSE k \in 1..n : hashes[k] = hashes[i]) = i
    BY DEF Fresh
  <2> QED
    BY <1>8, <2>1, <2>2
<1>10. \A h \in DataHash :
            (\A i \in 1..n : hashes[i] # h) => hashToId'[h] = hashToId[h]
  BY <1>8
<1>11. hashToId' \in [DataHash -> 0..totalAttestations']
  <2>1. \A h \in DataHash : hashToId'[h] \in 0..(totalAttestations + n)
    <3> TAKE h \in DataHash
    <3>1. CASE \E i \in 1..n : hashes[i] = h
      BY <1>1, <1>9, <3>1
    <3>2. CASE \A i \in 1..n : hashes[i] # h
      <4>1. hashToId'[h] = hashToId[h] /\ hashToId[h] \in 0..totalAttestations
        BY <1>10, <3>2 DEF TypeOK
      <4> QED
        BY <1>1, <4>1
    <3> QED
      BY <3>1, <3>2
  <2> QED
    BY <1>2, <1>8, <2>1
<1> QED
  BY <1>1, <1>2, <1>5, <1>6, <1>7, <1>9, <1>10, <1>11

---------------------------------------------------------------------------

LEMMA InitIInv == Init => IInv
<1> SUFFICES ASSUME Init PROVE IInv
  OBVIOUS
<1>1. TypeOK
  BY AttestationAssumption DEF Init, TypeOK
<1>2. AttestedOnce
  BY DEF Init, AttestedOnce
<1>3. ListsExact
  BY DEF Init, ListsExact, Lists
<1> QED
  BY <1>1, <1>2, <1>3 DEF IInv

\* The two kinds of lists grow as the attestations do.
LEMMA StoreKeepsLists ==
    ASSUME IInv, NEW s \in Sender, NEW t \in DataType,
           NEW hashes \in Seq(DataHash), Fresh(hashes), Store(s, hashes, t)
    PROVE  /\ ListsExact'
           /\ submitterAttestations' \in [Sender -> Seq(1..totalAttestations')]
           /\ typeAttestations' \in [DataType -> Seq(1..totalAttestations')]
<1> DEFINE n == Len(hashes)
           old == 1..totalAttestations
           new == (totalAttestations + 1)..(totalAttestations + n)
<1>1. /\ totalAttestations \in Nat /\ n \in Nat
      /\ totalAttestations' = totalAttestations + n
      /\ 1..totalAttestations' = old \cup new
  <2>1. totalAttestations \in Nat /\ n \in Nat /\ totalAttestations' = totalAttestations + n
    BY StoreAdds DEF IInv
  <2> QED
    BY <2>1
<1>2. /\ \A id \in old : attestations'[id] = attestations[id]
      /\ \A id \in new : attestations'[id].submitter = s /\ attestations'[id].dataType = t
  <2>1. \A id \in new : id - totalAttestations \in 1..n
                        /\ id = totalAttestations + (id - totalAttestations)
    BY <1>1
  <2>2. \A i \in 1..n : attestations'[totalAttestations + i] =
            [dataHash |-> hashes[i], submitter |-> s,
             dataType |-> t, blockNumber |-> block]
    BY StoreAdds DEF IInv
  <2>3. \A i \in 1..n : /\ attestations'[totalAttestations + i].submitter = s
                        /\ attestations'[totalAttestations + i].dataType = t
    <3> TAKE i \in 1..n
    <3>1. attestations'[totalAttestations + i] =
            [dataHash |-> hashes[i], submitter |-> s,
             dataType |-> t, blockNumber |-> block]
      BY <2>2
    <3> QED
      BY <3>1
  <2>4. \A id \in old : attestations'[id] = attestations[id]
    BY StoreAdds DEF IInv
  <2> QED
    BY <2>1, <2>3, <2>4
<1>3. ASSUME NEW x \in Sender
      PROVE  /\ Lists(submitterAttestations'[x],
                      {id \in 1..totalAttestations' : attestations'[id].submitter = x})
             /\ submitterAttestations'[x] \in Seq(1..totalAttestations')
  <2> DEFINE mine == {id \in old : attestations[id].submitter = x}
  <2>1. Lists(submitterAttestations[x], mine) /\ submitterAttestations[x] \in Seq(old)
    BY DEF IInv, ListsExact, TypeOK
  <2>2. CASE x = s
    <3>1. submitterAttestations'[x] = submitterAttestations[x] \o NextIDs(n)
      BY <2>2 DEF Store, IInv, TypeOK
    <3>2. {id \in 1..totalAttestations' : attestations'[id].submitter = x} = mine \cup new
      BY <1>1, <1>2, <2>2
    <3>3. mine \in SUBSET old
      OBVIOUS
    <3> HIDE DEF mine
    <3>4. /\ Lists(submitterAttestations[x] \o NextIDs(n), mine \cup new)
          /\ submitterAttestations[x] \o NextIDs(n) \in Seq(1..(totalAttestations + n))
      BY <1>1, <2>1, <3>3, PushLists
    <3> QED
      BY <1>1, <3>1, <3>2, <3>4
  <2>3. CASE x # s
    <3>1. submitterAttestations'[x] = submitterAttestations[x]
      BY <2>3 DEF Store, IInv, TypeOK
    <3>2. {id \in 1..totalAttestations' : attestations'[id].submitter = x} = mine
      BY <1>1, <1>2, <2>3
    <3>3. submitterAttestations[x] \in Seq(1..totalAttestations')
      BY <1>1, <2>1
    <3> QED
      BY <2>1, <3>1, <3>2, <3>3
  <2> QED
    BY <2>2, <2>3
<1>4. ASSUME NEW x \in DataType
      PROVE  /\ Lists(typeAttestations'[x],
                      {id \in 1..totalAttestations' : attestations'[id].dataType = x})
             /\ typeAttestations'[x] \in Seq(1..totalAttestations')
  <2> DEFINE mine == {id \in old : attestations[id].dataType = x}
  <2>1. Lists(typeAttestations[x], mine) /\ typeAttestations[x] \in Seq(old)
    BY DEF IInv, ListsExact, TypeOK
  <2>2. CASE x = t
    <3>1. typeAttestations'[x] = typeAttestations[x] \o NextIDs(n)
      BY <2>2 DEF Store, IInv, TypeOK
    <3>2. {id \in 1..totalAttestations' : attestations'[id].dataType = x} = mine \cup new
      BY <1>1, <1>2, <2>2
    <3>3. mine \in SUBSET old
      OBVIOUS
    <3> HIDE DEF mine
    <3>4. /\ Lists(typeAttestations[x] \o NextIDs(n), mine \cup new)
          /\ typeAttestations[x] \o NextIDs(n) \in Seq(1..(totalAttestations + n))
      BY <1>1, <2>1, <3>3, PushLists
    <3> QED
      BY <1>1, <3>1, <3>2, <3>4
  <2>3. CASE x # t
    <3>1. typeAttestations'[x] = typeAttestations[x]
      BY <2>3 DEF Store, IInv, TypeOK
    <3>2. {id \in 1..totalAttestations' : attestations'[id].dataType = x} = mine
      BY <1>1, <1>2, <2>3
    <3>3. typeAttestations[x] \in Seq(1..totalAttestations')
      BY <1>1, <2>1
    <3> QED
      BY <2>1, <3>1, <3>2, <3>3
  <2> QED
    BY <2>2, <2>3
<1>5. /\ DOMAIN submitterAttestations' = Sender
      /\ submitterAttestations' = [x \in Sender |-> submitterAttestations'[x]]
      /\ typeAttestations' = [x \in DataType |-> typeAttestations'[x]]
  BY DEF Store, IInv, TypeOK
<1> QED
  BY <1>3, <1>4, <1>5 DEF ListsExact

LEMMA StoreKeepsIInv ==
    ASSUME IInv, NEW s \in Sender, NEW t \in DataType,
           NEW hashes \in Seq(DataHash), Fresh(hashes), Store(s, hashes, t)
    PROVE  IInv'
<1> DEFINE n == Len(hashes)
<1>1. TypeOK
  BY DEF IInv
<1>2. TypeOK'
  BY <1>1, StoreAdds, StoreKeepsLists DEF TypeOK
<1>3. \A id \in 1..totalAttestations' :
        id \in 1..totalAttestations \/ \E i \in 1..n : id = totalAttestations + i
  <2>1. /\ totalAttestations \in Nat /\ n \in Nat
        /\ totalAttestations' = totalAttestations + n
    BY <1>1, StoreAdds
  <2>2. \A id \in (totalAttestations + 1)..(totalAttestations + n) :
            id - totalAttestations \in 1..n /\ id = totalAttestations + (id - totalAttestations)
    BY <2>1
  <2>3. 1..totalAttestations' =
            1..totalAttestations \cup (totalAttestations + 1)..(totalAttestations + n)
    BY <2>1
  <2> QED
    BY <2>2, <2>3
<1>4. \A i \in 1..n : /\ attestations'[totalAttestations + i].dataHash = hashes[i]
                      /\ hashToId'[hashes[i]] = totalAttestations + i
  <2>1. \A i \in 1..n : attestations'[totalAttestations + i] =
            [dataHash |-> hashes[i], submitter |-> s,
             dataType |-> t, blockNumber |-> block]
    BY <1>1, StoreAdds
  <2>2. \A i \in 1..n : hashToId'[hashes[i]] = totalAttestations + i
    BY <1>1, StoreAdds
  <2> TAKE i \in 1..n
  <2>3. attestations'[totalAttestations + i].dataHash = hashes[i]
    <3>1. attestations'[totalAttestations + i] =
            [dataHash |-> hashes[i], submitter |-> s,
             dataType |-> t, blockNumber |-> block]
      BY <2>1
    <3> QED
      BY <3>1
  <2> QED
    BY <2>2, <2>3
<1>5. \A id \in 1..totalAttestations :
        /\ attestations'[id] = attestations[id]
        /\ attestations[id].dataHash \in DataHash
        /\ hashToId[attestations[id].dataHash] = id
        /\ id # 0
  <2>1. \A id \in 1..totalAttestations : attestations'[id] = attestations[id]
    BY <1>1, StoreAdds
  <2>2. \A id \in 1..totalAttestations : attestations[id] \in Attestation
    BY <1>1 DEF TypeOK
  <2> QED
    BY <2>1, <2>2 DEF IInv, Attestation, AttestedOnce
<1>6. \A id \in 1..totalAttestations' : hashToId'[attestations'[id].dataHash] = id
  <2> TAKE id \in 1..totalAttestations'
  <2>1. CASE id \in 1..totalAttestations
    <3>1. \A i \in 1..n : hashes[i] # attestations[id].dataHash
      BY <1>5, <2>1 DEF Fresh
    <3>2. \A h \in DataHash :
            (\A i \in 1..n : hashes[i] # h) => hashToId'[h] = hashToId[h]
      BY <1>1, StoreAdds
    <3>3. hashToId'[attestations[id].dataHash] = hashToId[attestations[id].dataHash]
      BY <1>5, <2>1, <3>1, <3>2
    <3> QED
      BY <1>5, <2>1, <3>3
  <2>2. ASSUME NEW i \in 1..n, id = totalAttestations + i
        PROVE  hashToId'[attestations'[id].dataHash] = id
    BY <1>4, <2>2
  <2> QED
    BY <1>3, <2>1, <2>2
<1>7. ASSUME NEW h \in DataHash, hashToId'[h] # 0
      PROVE  h # ZeroHash /\ attestations'[hashToId'[h]].dataHash = h
  <2>1. CASE \E i \in 1..n : hashes[i] = h
    BY <1>4, <2>1 DEF Fresh
  <2>2. CASE \A i \in 1..n : hashes[i] # h
    <3>1. hashToId'[h] = hashToId[h]
      BY <1>1, <2>2, StoreAdds
    <3>2. hashToId[h] \in 1..totalAttestations
      BY <1>1, <1>7, <3>1 DEF TypeOK
    <3> QED
      BY <1>5, <1>7, <3>1, <3>2 DEF IInv, AttestedOnce
  <2> QED
    BY <2>1, <2>2
<1>8. AttestedOnce'
  BY <1>6, <1>7 DEF AttestedOnce
<1> QED
  BY <1>2, <1>8, StoreKeepsLists DEF IInv

LEMMA InductiveInvariant == Spec => []IInv
<1>1. ASSUME IInv,
             UNCHANGED <<totalAttestations, attestations, hashToId,
                         submitterAttestations, typeAttestations>>,
             block' \in 1..MaxBlock
      PROVE  IInv'
  BY <1>1 DEF IInv, TypeOK, AttestedOnce, ListsExact
<1>2. IInv /\ [Next]_vars => IInv'
  BY <1>1, CallStores, StoreKeepsIInv DEF IInv
<1> QED
  BY InitIInv, <1>2, PTL DEF Spec

---------------------------------------------------------------------------

\* The contract's storage always has its declared shape.
THEOREM TypeCorrect == Spec => []TypeOK
<1>1. IInv => TypeOK
  BY DEF IInv
<1> QED
  BY InductiveInvariant, <1>1, PTL

\* No hash is attested twice, each attestation is found by its hash, and the
\* lists by submitter and by type are complete and in order.
THEOREM CopiesAlwaysAgree == Spec => []CopiesAgree
<1>1. IInv => CopiesAgree
  BY DEF IInv, CopiesAgree
<1> QED
  BY InductiveInvariant, <1>1, PTL

\* The answer to a look-up by hash, once positive, never changes.
THEOREM VerificationStands == Spec => VerificationIsStable
<1>1. ASSUME IInv, [Next]_vars, NEW h \in DataHash, verifyByHash(h).exists
      PROVE  verifyByHash(h)' = verifyByHash(h)
  <2>1. hashToId[h] \in 1..totalAttestations
    BY <1>1 DEF verifyByHash, NotFound, IInv, TypeOK
  <2>2. ASSUME NEW s \in Sender, NEW t \in DataType, NEW hashes \in Seq(DataHash),
               Fresh(hashes), Store(s, hashes, t)
        PROVE  hashToId'[h] = hashToId[h] /\ attestations'[hashToId[h]] = attestations[hashToId[h]]
    <3>1. \A i \in 1..Len(hashes) : hashes[i] # h
      BY <2>1, <2>2 DEF Fresh
    <3> QED
      BY <1>1, <2>1, <2>2, <3>1, StoreAdds DEF IInv
  <2>3. hashToId'[h] = hashToId[h] /\ attestations'[hashToId[h]] = attestations[hashToId[h]]
    BY <1>1, <2>2, CallStores DEF IInv
  <2> QED
    BY <2>1, <2>3 DEF verifyByHash
<1>2. IInv /\ [Next]_vars =>
        [\A h \in DataHash :
            verifyByHash(h).exists => verifyByHash(h)' = verifyByHash(h)]_vars
  BY <1>1
<1> QED
  BY InductiveInvariant, <1>2, PTL DEF Spec, VerificationIsStable

\* The contract implements the append-only log of attestations.
THEOREM Refinement == Spec => ImplementsLog
<1>1. Init => Log!Init
  BY DEF Init, Log!Init
<1>2. IInv /\ [Next]_vars => [Log!Accept]_attestations
  <2> SUFFICES ASSUME IInv, [Next]_vars
               PROVE  [Log!Accept]_attestations
    OBVIOUS
  <2>1. ASSUME NEW s \in Sender, NEW t \in DataType, NEW hashes \in Seq(DataHash),
               Fresh(hashes), Store(s, hashes, t)
        PROVE  Log!Accept
    <3> DEFINE n == Len(hashes)
               total == totalAttestations
    <3>1. /\ total \in Nat /\ n \in Nat \ {0} /\ totalAttestations' = total + n
          /\ attestations' \in [1..(total + n) -> Attestation]
          /\ attestations \in [1..total -> Attestation]
          /\ \A id \in 1..total : attestations'[id] = attestations[id]
          /\ \A i \in 1..n : attestations'[total + i] =
                [dataHash |-> hashes[i], submitter |-> s,
                 dataType |-> t, blockNumber |-> block]
      BY <2>1, StoreAdds DEF IInv, TypeOK
    <3> HIDE DEF n, total
    <3>2. Len(attestations) = total /\ Len(attestations') = total + n
      BY <3>1
    <3>3. SubSeq(attestations', 1, Len(attestations)) = attestations
      BY <3>1, <3>2
    <3>4. Log!added = [i \in 1..n |-> attestations'[total + i]]
      BY <3>1, <3>2 DEF Log!added
    <3>5. /\ Len(Log!added) = n
          /\ \A i \in 1..n : Log!added[i] =
                [dataHash |-> hashes[i], submitter |-> s,
                 dataType |-> t, blockNumber |-> block]
      BY <3>1, <3>4
    <3>6. \A i \in 1..n : /\ Log!added[i].submitter = s
                          /\ Log!added[i].dataType = t
                          /\ Log!added[i].blockNumber = block
      BY <3>5
    <3>7. n <= MaxBatch /\ 1 \in 1..n
      BY <2>1, <3>1, AttestationAssumption DEF Fresh, n
    <3>8. AttestationSubmission(Log!added)
      BY <3>5, <3>6, <3>7 DEF AttestationSubmission
    <3> QED
      BY <3>1, <3>2, <3>3, <3>8 DEF Log!Accept
  <2> QED
    BY <2>1, CallStores DEF IInv
<1> QED
  BY InductiveInvariant, <1>1, <1>2, PTL DEF Spec, ImplementsLog, Log!Spec
===========================================================================
