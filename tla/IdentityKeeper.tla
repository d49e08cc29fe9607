-------------------------- MODULE IdentityKeeper --------------------------
(***************************************************************************)
(* The identity module of the chain (chain/x/identity): identities by      *)
(* address, an index by role, an administrator, and the export and import  *)
(* of the genesis state.                                                   *)
(*                                                                         *)
(* Messages run one at a time and a refused one changes nothing.  Name and *)
(* metadata are one field here, the name: both are replaced only by a text *)
(* that is not empty.  A role is a text without the byte 0x00, so that the *)
(* keys of two roles differ.                                               *)
(***************************************************************************)
EXTENDS Integers

CONSTANTS
    Address,        \* the accounts that may be given an identity
    Authority,      \* the account of the governance module
    Role,           \* the role strings used
    Name,           \* the names used, none of them empty
    MaxTime         \* bound: the time of the last block

ASSUME IdentityAssumption ==
    /\ Authority \notin Address
    /\ MaxTime \in Nat \ {0}

ASSUME NoEmptyText == "" \notin Address \cup {Authority} \cup Name

VARIABLES
    identities,     \* 0x01 | address               -> identity
    byRole,         \* 0x02 | role | 0x00 | address
    adminAddress,   \* identity_params, "" when there is none
    now,            \* the time of the block being executed
    signer          \* who signed the message of the last step, "" if none

vars == <<identities, byRole, adminAddress, now, signer>>

Account == Address \cup {Authority}
Status == {"pending", "active", "revoked"}
Identity == [name : Name, role : Role, status : Status,
             registeredAt : 1..MaxTime, updatedAt : 1..MaxTime]

---------------------------------------------------------------------------
(* The store *)

\* Mutant of SetIdentity: the index entry of the role is forgotten.
SetIdentityNoIndex(a, identity) ==
    /\ identities' = [x \in DOMAIN identities \cup {a} |->
                        IF x = a THEN identity ELSE identities[x]]
    /\ UNCHANGED byRole

\* The identity and its index key; the key of an earlier role would stay.
SetIdentity(a, identity) ==
    /\ identities' = [x \in DOMAIN identities \cup {a} |->
                        IF x = a THEN identity ELSE identities[x]]
    /\ byRole' = byRole \cup {<<identity.role, a>>}

\* Mutant of IsRegistered: a revoked identity no longer counts.
IsRegisteredUnlessRevoked(a) ==
    a \in DOMAIN identities /\ identities[a].status # "revoked"

IsRegistered(a) == a \in DOMAIN identities

isAdmin(creator) ==
    creator = Authority \/ (adminAddress # "" /\ creator = adminAddress)

---------------------------------------------------------------------------
(* Messages *)

MsgRegisterIdentity(creator, a, name, role) ==
    /\ isAdmin(creator)
    /\ ~IsRegistered(a)
    /\ SetIdentity(a, [name |-> name, role |-> role, status |-> "active",
                       registeredAt |-> now, updatedAt |-> now])
    /\ signer' = creator
    /\ UNCHANGED <<adminAddress, now>>

\* Mutant of MsgUpdateIdentity: an empty name replaces the name.
MsgUpdateIdentityToEmpty(creator, a, name) ==
    /\ IsRegistered(a)
    /\ isAdmin(creator) \/ creator = a
    /\ SetIdentity(a, [identities[a] EXCEPT !.name = name, !.updatedAt = now])
    /\ signer' = creator
    /\ UNCHANGED <<adminAddress, now>>

\* The status is not looked at: the owner of a revoked identity may still
\* change its name, and the identity stays revoked.
MsgUpdateIdentity(creator, a, name) ==
    /\ IsRegistered(a)
    /\ isAdmin(creator) \/ creator = a
    /\ SetIdentity(a, [identities[a] EXCEPT
                        !.name = IF name # "" THEN name ELSE @,
                        !.updatedAt = now])
    /\ signer' = creator
    /\ UNCHANGED <<adminAddress, now>>

MsgRevokeIdentity(creator, a) ==
    /\ isAdmin(creator)
    /\ IsRegistered(a)
    /\ identities[a].status # "revoked"
    /\ SetIdentity(a, [identities[a] EXCEPT !.status = "revoked",
                                            !.updatedAt = now])
    /\ signer' = creator
    /\ UNCHANGED <<adminAddress, now>>

\* The next block has a time that is not earlier.
EndBlock ==
    /\ now' \in now..MaxTime
    /\ signer' = ""
    /\ UNCHANGED <<identities, byRole, adminAddress>>

---------------------------------------------------------------------------
(* Genesis *)

\* The index keys of these identities.
RoleKeys(ids) == {<<ids[a].role, a>> : a \in DOMAIN ids}

ExportGenesis == [identities |-> identities, adminAddress |-> adminAddress]

\* The store made of a genesis state: every identity is set anew.
InitGenesis(gs) ==
    [identities |-> gs.identities, byRole |-> RoleKeys(gs.identities),
     adminAddress |-> gs.adminAddress]

\* A new chain is started from the exported state of this one.
Relaunch ==
    LET store == InitGenesis(ExportGenesis) IN
    /\ identities' = store.identities
    /\ byRole' = store.byRole
    /\ adminAddress' = store.adminAddress
    /\ signer' = ""
    /\ UNCHANGED now

---------------------------------------------------------------------------
(* Specification *)

\* What the genesis file may hold: identities of any status, as of time 1.
GenesisState(registered) ==
    [identities : [registered -> {i \in Identity : i.registeredAt = 1 /\ i.updatedAt = 1}],
     adminAddress : Address \cup {""}]

Init ==
    /\ \E registered \in SUBSET Address :
        \E gs \in GenesisState(registered) :
            LET store == InitGenesis(gs) IN
            /\ identities = store.identities
            /\ byRole = store.byRole
            /\ adminAddress = store.adminAddress
    /\ now = 1
    /\ signer = ""

Message ==
    \E creator \in Account, a \in Address :
        \/ \E name \in Name, role \in Role : MsgRegisterIdentity(creator, a, name, role)
        \/ \E name \in Name \cup {""} : MsgUpdateIdentity(creator, a, name)
        \/ MsgRevokeIdentity(creator, a)

Next == Message \/ EndBlock \/ Relaunch

Spec == Init /\ [][Next]_vars

---------------------------------------------------------------------------
(* Queries *)

GetIdentitiesByRole(r) == {a \in DOMAIN identities : <<r, a>> \in byRole}

HasRole(a, r) ==
    IsRegistered(a) /\ identities[a].role = r /\ identities[a].status = "active"

---------------------------------------------------------------------------
(* Properties *)

\* The type of the store: identities have the shape of types.go.
TypeOK ==
    /\ DOMAIN identities \subseteq Address
    /\ identities \in [DOMAIN identities -> Identity]
    /\ byRole \subseteq Role \X Address
    /\ adminAddress \in Address \cup {""}
    /\ now \in 1..MaxTime
    /\ signer \in Account \cup {""}

\* The query by role returns the identities of that role, revoked ones
\* included, all of them and no other: no entry of the index is stale,
\* though SetIdentity never removes one (keeper.go:57-67, 98-114).
RoleIndexExact ==
    \A r \in Role :
        GetIdentitiesByRole(r) = {a \in DOMAIN identities : identities[a].role = r}

\* A revocation is final: whatever is registered, updated, exported and
\* relaunched later, the address keeps the revoked identity, so it never
\* has a role again, neither this one nor another (msg_server.go:33-128; docs/公链架构与功能清单.md:280).
RevocationIsFinal ==
    [][\A a \in DOMAIN identities :
            identities[a].status = "revoked" =>
                /\ a \in DOMAIN identities'
                /\ identities'[a].status = "revoked"
                /\ identities'[a].role = identities[a].role
                /\ identities'[a].registeredAt = identities[a].registeredAt]_vars

\* Nobody gains a role, and nobody loses one, but by a message the
\* administrator signed, and beside the administrator only the owner
\* changes an identity (msg_server.go:36, 74-78, 102).
OnlyAdminGrants ==
    [][\A a \in Address :
        /\ (\E r \in Role : HasRole(a, r)' # HasRole(a, r))
                => signer' \in {Authority, adminAddress}
        /\ (a \in DOMAIN identities /\ identities'[a] # identities[a])
                => signer' \in {Authority, adminAddress, a}]_vars

\* Export and import bring back every identity, the index of roles and the
\* administrator (keeper.go:134-139, module.go:83-94).
RelaunchRestoresTheStore ==
    [][Relaunch => UNCHANGED <<identities, byRole, adminAddress>>]_vars
===========================================================================
