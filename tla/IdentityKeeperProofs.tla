----------------------- MODULE IdentityKeeperProofs -----------------------
(***************************************************************************)
(* Proofs about the identity module for every set of accounts, roles and   *)
(* names.  A message changes at most one identity: it registers a new one, *)
(* renames one, or revokes one.  Writes says so, and the properties follow *)
(* from it.                                                                *)
(***************************************************************************)
EXTENDS IdentityKeeper, TLAPS

\* The inductive invariant.  A role never changes, so that the index keys
\* of the present roles are all the keys there are.
IInv == TypeOK /\ byRole = RoleKeys(identities)

Admins == {Authority, adminAddress}

Registers(a, i) == a \notin DOMAIN identities /\ signer' \in Admins

Renames(a, i) ==
    /\ a \in DOMAIN identities
    /\ signer' \in Admins \cup {a}
    /\ i.role = identities[a].role
    /\ i.status = identities[a].status
    /\ i.registeredAt = identities[a].registeredAt

Revokes(a, i) ==
    /\ a \in DOMAIN identities
    /\ signer' \in Admins
    /\ i.role = identities[a].role
    /\ identities[a].status # "revoked"

\* The step writes identity i to address a and nothing else.
Writes(a, i) ==
    /\ SetIdentity(a, i)
    /\ Registers(a, i) \/ Renames(a, i) \/ Revokes(a, i)
    /\ signer' \in Account
    /\ UNCHANGED <<adminAddress, now>>

\* The step leaves the store alone.
Keeps ==
    /\ UNCHANGED <<identities, byRole, adminAddress>>
    /\ now' \in 1..MaxTime
    /\ signer' \in Account \cup {""}

LEMMA AdminsAre ==
    ASSUME NEW creator \in Account, isAdmin(creator)
    PROVE  creator \in Admins
BY DEF isAdmin, Admins

LEMMA RegisterWrites ==
    ASSUME IInv, NEW creator \in Account, NEW a \in Address, NEW name \in Name,
           NEW role \in Role, MsgRegisterIdentity(creator, a, name, role)
    PROVE  \E i \in Identity : Writes(a, i)
<1> DEFINE i == [name |-> name, role |-> role, status |-> "active",
                 registeredAt |-> now, updatedAt |-> now]
<1>1. i \in Identity
  BY DEF IInv, TypeOK, Identity, Status
<1>2. SetIdentity(a, i) /\ signer' = creator /\ UNCHANGED <<adminAddress, now>>
  BY DEF MsgRegisterIdentity
<1>3. Registers(a, i)
  BY AdminsAre DEF MsgRegisterIdentity, IsRegistered, Registers
<1> HIDE DEF i
<1> QED
  BY <1>1, <1>2, <1>3 DEF Writes

LEMMA UpdateWrites ==
    ASSUME IInv, NEW creator \in Account, NEW a \in Address,
           NEW name \in Name \cup {""}, MsgUpdateIdentity(creator, a, name)
    PROVE  \E i \in Identity : Writes(a, i)
<1> DEFINE i == [identities[a] EXCEPT
                    !.name = IF name # "" THEN name ELSE @, !.updatedAt = now]
<1>1. a \in DOMAIN identities /\ identities[a] \in Identity
  BY DEF MsgUpdateIdentity, IsRegistered, IInv, TypeOK
<1>2. /\ i \in Identity
      /\ i.role = identities[a].role
      /\ i.status = identities[a].status
      /\ i.registeredAt = identities[a].registeredAt
  BY <1>1 DEF Identity, IInv, TypeOK
<1>3. SetIdentity(a, i) /\ signer' = creator /\ UNCHANGED <<adminAddress, now>>
  BY DEF MsgUpdateIdentity
<1> HIDE DEF i
<1>4. creator \in Admins \cup {a}
  BY AdminsAre DEF MsgUpdateIdentity
<1>5. Renames(a, i)
  BY <1>1, <1>2, <1>3, <1>4 DEF Renames
<1> QED
  BY <1>2, <1>3, <1>5 DEF Writes

LEMMA RevokeWrites ==
    ASSUME IInv, NEW creator \in Account, NEW a \in Address,
           MsgRevokeIdentity(creator, a)
    PROVE  \E i \in Identity : Writes(a, i)
<1> DEFINE i == [identities[a] EXCEPT !.status = "revoked", !.updatedAt = now]
<1>1. a \in DOMAIN identities /\ identities[a] \in Identity
  BY DEF MsgRevokeIdentity, IsRegistered, IInv, TypeOK
<1>2. i \in Identity /\ i.role = identities[a].role
  BY <1>1 DEF Identity, Status, IInv, TypeOK
<1>3. SetIdentity(a, i) /\ signer' = creator /\ UNCHANGED <<adminAddress, now>>
  BY DEF MsgRevokeIdentity
<1> HIDE DEF i
<1>4. Revokes(a, i)
  BY <1>1, <1>2, <1>3, AdminsAre DEF MsgRevokeIdentity, Revokes
<1> QED
  BY <1>2, <1>3, <1>4 DEF Writes

LEMMA RelaunchKeeps ==
    ASSUME IInv, Relaunch
    PROVE  Keeps
BY DEF Relaunch, InitGenesis, ExportGenesis, IInv, TypeOK, Keeps

\* A step writes one identity or leaves the store alone.
LEMMA StepWrites ==
    ASSUME IInv, [Next]_vars
    PROVE  Keeps \/ \E a \in Address, i \in Identity : Writes(a, i)
<1>1. CASE Message
  BY <1>1, RegisterWrites, UpdateWrites, RevokeWrites DEF Message
<1>2. CASE EndBlock
  <2>1. now' \in 1..MaxTime
    <3>1. now \in 1..MaxTime /\ MaxTime \in Nat /\ now' \in now..MaxTime
      BY <1>2, IdentityAssumption DEF EndBlock, IInv, TypeOK
    <3> QED
      BY <3>1
  <2> QED
    BY <1>2, <2>1 DEF EndBlock, Keeps
<1>3. CASE Relaunch
  BY <1>3, RelaunchKeeps
<1>4. CASE UNCHANGED vars
  BY <1>4 DEF vars, Keeps, IInv, TypeOK
<1> QED
  BY <1>1, <1>2, <1>3, <1>4 DEF Next

\* What a write leaves behind.
LEMMA AfterWrite ==
    ASSUME IInv, NEW a \in Address, NEW i \in Identity, Writes(a, i)
    PROVE  /\ DOMAIN identities' = DOMAIN identities \cup {a}
           /\ identities'[a] = i
           /\ \A x \in DOMAIN identities : x # a => identities'[x] = identities[x]
           /\ \A x \in DOMAIN identities' : identities'[x] \in Identity
           /\ identities' \in [DOMAIN identities' -> Identity]
           /\ byRole' = byRole \cup {<<i.role, a>>}
           /\ a \in DOMAIN identities => i.role = identities[a].role
BY DEF Writes, SetIdentity, Registers, Renames, Revokes, IInv, TypeOK

---------------------------------------------------------------------------

LEMMA InitIInv == Init => IInv
<1> SUFFICES ASSUME Init PROVE IInv
  OBVIOUS
<1>1. PICK registered \in SUBSET Address :
          \E gs \in GenesisState(registered) :
            /\ identities = gs.identities
            /\ byRole = RoleKeys(gs.identities)
            /\ adminAddress = gs.adminAddress
  BY DEF Init, InitGenesis
<1>2. /\ identities \in [registered -> Identity]
      /\ byRole = RoleKeys(identities)
      /\ adminAddress \in Address \cup {""}
  BY <1>1 DEF GenesisState
<1>3. byRole \subseteq Role \X Address
  <2>1. DOMAIN identities = registered /\ registered \subseteq Address
    BY <1>2
  <2>2. \A a \in registered : identities[a].role \in Role
    BY <1>2 DEF Identity
  <2> QED
    <3>1. \A a \in registered : <<identities[a].role, a>> \in Role \X Address
      BY <2>1, <2>2
    <3>2. byRole = {<<identities[a].role, a>> : a \in registered}
      BY <1>2, <2>1 DEF RoleKeys
    <3> QED
      BY <3>1, <3>2
<1>4. now \in 1..MaxTime /\ signer \in Account \cup {""}
  <2>1. now = 1 /\ MaxTime \in Nat \ {0}
    BY IdentityAssumption DEF Init
  <2>2. now \in 1..MaxTime
    BY <2>1
  <2>3. signer = ""
    BY DEF Init
  <2> QED
    BY <2>2, <2>3
<1> QED
  BY <1>2, <1>3, <1>4 DEF IInv, TypeOK

LEMMA StepKeepsIInv == IInv /\ [Next]_vars => IInv'
<1> SUFFICES ASSUME IInv, [Next]_vars PROVE IInv'
  OBVIOUS
<1>1. CASE Keeps
  BY <1>1 DEF Keeps, IInv, TypeOK, RoleKeys
<1>2. ASSUME NEW a \in Address, NEW i \in Identity, Writes(a, i)
      PROVE  IInv'
  <2>1. RoleKeys(identities)' = RoleKeys(identities) \cup {<<i.role, a>>}
    <3>1. \A x \in DOMAIN identities : identities'[x].role = identities[x].role
      BY <1>2, AfterWrite
    <3>2. DOMAIN identities' = DOMAIN identities \cup {a} /\ identities'[a].role = i.role
      BY <1>2, AfterWrite
    <3> QED
      BY <3>1, <3>2 DEF RoleKeys
  <2>2. byRole' = RoleKeys(identities)'
    BY <1>2, <2>1, AfterWrite DEF IInv
  <2>3. <<i.role, a>> \in Role \X Address
    BY DEF Identity
  <2>4. byRole' \subseteq Role \X Address
    <3>1. byRole' = byRole \cup {<<i.role, a>>}
      BY <1>2, AfterWrite
    <3> QED
      BY <2>3, <3>1 DEF IInv, TypeOK
  <2>5. signer' \in Account \cup {""} /\ UNCHANGED <<adminAddress, now>>
    BY <1>2 DEF Writes
  <2> QED
    BY <1>2, <2>2, <2>4, <2>5, AfterWrite DEF IInv, TypeOK
<1> QED
  BY <1>1, <1>2, StepWrites

LEMMA InductiveInvariant == Spec => []IInv
BY InitIInv, StepKeepsIInv, PTL DEF Spec

---------------------------------------------------------------------------

\* The store always has the shape types.go declares.
THEOREM TypeCorrect == Spec => []TypeOK
<1>1. IInv => TypeOK
  BY DEF IInv
<1> QED
  BY InductiveInvariant, <1>1, PTL

\* The index of roles never has a stale or a missing entry.
THEOREM RoleIndexIsExact == Spec => []RoleIndexExact
<1>1. IInv => RoleIndexExact
  BY DEF IInv, RoleIndexExact, GetIdentitiesByRole, RoleKeys
<1> QED
  BY InductiveInvariant, <1>1, PTL

\* A revoked address keeps its revoked identity for ever.
THEOREM RevocationStands == Spec => RevocationIsFinal
<1>1. ASSUME IInv, [Next]_vars,
             NEW a \in DOMAIN identities, identities[a].status = "revoked"
      PROVE  /\ a \in DOMAIN identities'
             /\ identities'[a].status = "revoked"
             /\ identities'[a].role = identities[a].role
             /\ identities'[a].registeredAt = identities[a].registeredAt
  <2>1. CASE Keeps
    BY <1>1, <2>1 DEF Keeps
  <2>2. ASSUME NEW b \in Address, NEW i \in Identity, Writes(b, i), b # a
        PROVE  a \in DOMAIN identities' /\ identities'[a] = identities[a]
    BY <1>1, <2>2, AfterWrite
  <2>3. ASSUME NEW i \in Identity, Writes(a, i)
        PROVE  Renames(a, i) /\ a \in DOMAIN identities' /\ identities'[a] = i
    <3>1. a \in Address
      BY <1>1 DEF IInv, TypeOK
    <3>2. Renames(a, i)
      BY <1>1, <2>3 DEF Writes, Registers, Revokes
    <3> QED
      BY <1>1, <2>3, <3>1, <3>2, AfterWrite
  <2>4. ASSUME NEW b \in Address, NEW i \in Identity, Writes(b, i)
        PROVE  /\ a \in DOMAIN identities'
               /\ identities'[a].status = "revoked"
               /\ identities'[a].role = identities[a].role
               /\ identities'[a].registeredAt = identities[a].registeredAt
    <3>1. CASE b # a
      BY <1>1, <2>2, <2>4, <3>1
    <3>2. CASE b = a
      BY <1>1, <2>3, <2>4, <3>2 DEF Renames
    <3> QED
      BY <3>1, <3>2
  <2> QED
    BY <1>1, <2>1, <2>4, StepWrites
<1>2. IInv /\ [Next]_vars =>
        [\A a \in DOMAIN identities :
            identities[a].status = "revoked" =>
                /\ a \in DOMAIN identities'
                /\ identities'[a].status = "revoked"
                /\ identities'[a].role = identities[a].role
                /\ identities'[a].registeredAt = identities[a].registeredAt]_vars
  BY <1>1
<1> QED
  BY InductiveInvariant, <1>2, PTL DEF Spec, RevocationIsFinal

\* Roles are granted and taken by the administrator alone.
THEOREM GrantsAreAdmins == Spec => OnlyAdminGrants
<1>1. ASSUME IInv, [Next]_vars, NEW a \in Address
      PROVE  /\ (\E r \in Role : HasRole(a, r)' # HasRole(a, r)) => signer' \in Admins
             /\ (a \in DOMAIN identities /\ identities'[a] # identities[a])
                    => signer' \in Admins \cup {a}
  <2>1. CASE Keeps
    BY <2>1 DEF Keeps, HasRole, IsRegistered
  <2>2. ASSUME NEW b \in Address, NEW i \in Identity, Writes(b, i), b # a
        PROVE  /\ \A r \in Role : HasRole(a, r)' = HasRole(a, r)
               /\ a \in DOMAIN identities => identities'[a] = identities[a]
    <3>1. a \in DOMAIN identities' <=> a \in DOMAIN identities
      BY <1>1, <2>2, AfterWrite
    <3>2. a \in DOMAIN identities => identities'[a] = identities[a]
      BY <1>1, <2>2, AfterWrite
    <3> QED
      BY <3>1, <3>2 DEF HasRole, IsRegistered
  <2>3. ASSUME NEW i \in Identity, Writes(a, i)
        PROVE  /\ (\E r \in Role : HasRole(a, r)' # HasRole(a, r)) => signer' \in Admins
               /\ signer' \in Admins \cup {a}
    <3>1. CASE Renames(a, i)
      <4>1. /\ a \in DOMAIN identities /\ a \in DOMAIN identities'
            /\ identities'[a] = i
            /\ i.role = identities[a].role
            /\ i.status = identities[a].status
        BY <1>1, <2>3, <3>1, AfterWrite DEF Renames
      <4>2. \A r \in Role : HasRole(a, r)' = HasRole(a, r)
        BY <4>1 DEF HasRole, IsRegistered
      <4> QED
        BY <3>1, <4>2 DEF Renames
    <3>2. CASE Registers(a, i) \/ Revokes(a, i)
      BY <3>2 DEF Registers, Revokes
    <3> QED
      BY <2>3, <3>1, <3>2 DEF Writes
  <2>4. ASSUME NEW b \in Address, NEW i \in Identity, Writes(b, i)
        PROVE  /\ (\E r \in Role : HasRole(a, r)' # HasRole(a, r)) => signer' \in Admins
               /\ (a \in DOMAIN identities /\ identities'[a] # identities[a])
                    => signer' \in Admins \cup {a}
    <3>1. CASE b # a
      BY <2>2, <2>4, <3>1
    <3>2. CASE b = a
      BY <2>3, <2>4, <3>2
    <3> QED
      BY <3>1, <3>2
  <2> QED
    BY <1>1, <2>1, <2>4, StepWrites
<1>2. IInv /\ [Next]_vars =>
        [\A a \in Address :
            /\ (\E r \in Role : HasRole(a, r)' # HasRole(a, r))
                    => signer' \in {Authority, adminAddress}
            /\ (a \in DOMAIN identities /\ identities'[a] # identities[a])
                    => signer' \in {Authority, adminAddress, a}]_vars
  BY <1>1 DEF Admins
<1> QED
  BY InductiveInvariant, <1>2, PTL DEF Spec, OnlyAdminGrants

\* A relaunch gives back the store it was exported from.
THEOREM RoundTrip == Spec => RelaunchRestoresTheStore
<1>1. IInv => [Relaunch => UNCHANGED <<identities, byRole, adminAddress>>]_vars
  BY RelaunchKeeps DEF Keeps
<1> QED
  BY InductiveInvariant, <1>1, PTL DEF RelaunchRestoresTheStore
===========================================================================
