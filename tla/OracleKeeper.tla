--------------------------- MODULE OracleKeeper ---------------------------
(***************************************************************************)
(* The oracle module of the chain (chain/x/oracle): registered oracles     *)
(* submit values for categories of off-chain data; the store keeps, per    *)
(* category, one value for each time stamp and a copy of the latest.       *)
(*                                                                         *)
(* Messages run one at a time and a refused one changes nothing.  Names,   *)
(* metadata and the block height of a datum are carried through unread and *)
(* are left out.                                                           *)
(***************************************************************************)
EXTENDS Integers, FiniteSets

CONSTANTS
    Category,       \* the category strings used
    Oracle,         \* the accounts that may be registered as oracles
    Authority,      \* the account of the governance module
    Value,          \* the values submitted
    MaxAges,        \* values of DataMaxAge considered; InitGenesis takes any
    DefaultDrift,   \* 3600: the drift allowed when DataMaxAge is not positive
    MaxBlockTime,   \* bound: the time of the last block
    MaxSubmissions  \* bound: the number of accepted submissions

ASSUME OracleAssumption ==
    /\ MaxAges \subseteq Int
    /\ DefaultDrift \in Nat \ {0}
    /\ MaxBlockTime \in Nat \ {0}
    /\ MaxSubmissions \in Nat
    /\ Authority \notin Oracle

VARIABLES
    history,        \* 0x01 | category | timestamp -> datum
    oracles,        \* 0x02 | address              -> oracle
    latest,         \* 0x03 | category             -> datum
    dataMaxAge,     \* oracle_params (MinSubmissions is never read)
    blockTime,      \* the time of the block being executed
    submissions     \* bound only: how many submissions were accepted

oracleVars == <<history, oracles, latest, dataMaxAge, blockTime, submissions>>

OracleData == [value : Value, submitter : Oracle, timestamp : Nat \ {0}]
OracleInfo == [active : BOOLEAN, authorizedCategories : SUBSET Category]

---------------------------------------------------------------------------
(* The store *)

\* store.Set of one key.
Set(store, key, v) ==
    [k \in DOMAIN store \cup {key} |-> IF k = key THEN v ELSE store[k]]

\* The time stamps for which a category has data.
Timestamps(c) == {key[2] : key \in {k \in DOMAIN history : k[1] = c}}
Covered == {key[1] : key \in DOMAIN history}

\* Mutant of SetOracleData: only a newer datum becomes the latest.
SetOracleDataNewerOnly(c, d) ==
    /\ history' = Set(history, <<c, d.timestamp>>, d)
    /\ latest' = IF c \in DOMAIN latest /\ latest[c].timestamp >= d.timestamp
                 THEN latest
                 ELSE Set(latest, c, d)

\* Mutant of SetOracleData: the key has the time of the block.
SetOracleDataAtBlockTime(c, d) ==
    /\ history' = Set(history, <<c, blockTime>>, d)
    /\ latest' = Set(latest, c, d)

\* A datum replaces what is stored for its category and time stamp, and
\* becomes the latest of its category whatever its time stamp.
SetOracleData(c, d) ==
    /\ history' = Set(history, <<c, d.timestamp>>, d)
    /\ latest' = Set(latest, c, d)

\* An oracle without a list of categories is authorized for all.
IsAuthorizedFor(o, c) ==
    /\ o.active
    /\ o.authorizedCategories = {} \/ c \in o.authorizedCategories

IsAuthorizedOracle(a, c) == a \in DOMAIN oracles /\ IsAuthorizedFor(oracles[a], c)

maxDrift == IF dataMaxAge <= 0 THEN DefaultDrift ELSE dataMaxAge

---------------------------------------------------------------------------
(* Messages *)

\* Mutant of MsgSubmitData: a time stamp too far in the past is accepted.
MsgSubmitDataAnyPast(a, c, v, t) ==
    /\ submissions < MaxSubmissions
    /\ IsAuthorizedOracle(a, c)
    /\ t <= blockTime + maxDrift
    /\ SetOracleData(c, [value |-> v, submitter |-> a, timestamp |-> t])
    /\ submissions' = submissions + 1
    /\ UNCHANGED <<oracles, dataMaxAge, blockTime>>

MsgSubmitData(a, c, v, t) ==
    /\ submissions < MaxSubmissions
    /\ IsAuthorizedOracle(a, c)
    /\ t <= blockTime + maxDrift
    /\ t >= blockTime - maxDrift
    /\ SetOracleData(c, [value |-> v, submitter |-> a, timestamp |-> t])
    /\ submissions' = submissions + 1
    /\ UNCHANGED <<oracles, dataMaxAge, blockTime>>

\* Adding an oracle that is already there replaces it and activates it.
MsgAddOracle(signer, a, categories) ==
    /\ signer = Authority
    /\ oracles' = Set(oracles, a, [active |-> TRUE,
                                   authorizedCategories |-> categories])
    /\ UNCHANGED <<history, latest, dataMaxAge, blockTime, submissions>>

MsgRemoveOracle(signer, a) ==
    /\ signer = Authority
    /\ a \in DOMAIN oracles
    /\ oracles' = [o \in DOMAIN oracles \ {a} |-> oracles[o]]
    /\ UNCHANGED <<history, latest, dataMaxAge, blockTime, submissions>>

\* The next block has a time that is not earlier.
OracleEndBlock ==
    /\ blockTime' \in blockTime..MaxBlockTime
    /\ UNCHANGED <<history, oracles, latest, dataMaxAge, submissions>>

---------------------------------------------------------------------------
(* Genesis *)

\* Mutant of Newest: the export lists the data from the newest down.
NewestExportedFirst(c) ==
    CHOOSE t \in Timestamps(c) : \A u \in Timestamps(c) : t <= u

\* The time stamp of a category that comes last in the order of the keys.
Newest(c) == CHOOSE t \in Timestamps(c) : \A u \in Timestamps(c) : u <= t

\* The chain is started anew from its exported state.  The export lists the
\* data in the order of their keys and InitGenesis submits them in the order
\* of the list, so the newest datum of a category becomes its latest.
OracleRelaunch ==
    /\ history' = history
    /\ latest' = [c \in Covered |-> history[<<c, Newest(c)>>]]
    /\ UNCHANGED <<oracles, dataMaxAge, blockTime, submissions>>

---------------------------------------------------------------------------
(* Specification *)

NoData == [k \in {} |-> 0]

\* The genesis state may name oracles, active or not.
OracleInit ==
    /\ history = NoData
    /\ latest = NoData
    /\ \E registered \in SUBSET Oracle : oracles \in [registered -> OracleInfo]
    /\ dataMaxAge \in MaxAges
    /\ blockTime = 1
    /\ submissions = 0

Submit ==
    \E a \in Oracle, c \in Category, v \in Value, t \in 1..(blockTime + maxDrift) :
        MsgSubmitData(a, c, v, t)

Manage ==
    \E signer \in Oracle \cup {Authority}, a \in Oracle :
        \/ \E categories \in SUBSET Category : MsgAddOracle(signer, a, categories)
        \/ MsgRemoveOracle(signer, a)

OracleNext == Submit \/ Manage \/ OracleEndBlock \/ OracleRelaunch

OracleSpec == OracleInit /\ [][OracleNext]_oracleVars

---------------------------------------------------------------------------
(* Properties *)

\* The shape of the store: keys are category and time stamp, and a datum is
\* stored under its own time stamp (types.go, keys.go).
OracleTypeOK ==
    /\ DOMAIN history \subseteq Category \X (Nat \ {0})
    /\ \A key \in DOMAIN history :
        history[key] \in OracleData /\ history[key].timestamp = key[2]
    /\ DOMAIN oracles \subseteq Oracle
    /\ \A a \in DOMAIN oracles : oracles[a] \in OracleInfo
    /\ DOMAIN latest \subseteq Category
    /\ \A c \in DOMAIN latest : latest[c] \in OracleData
    /\ dataMaxAge \in Int
    /\ blockTime \in 1..MaxBlockTime
    /\ submissions \in 0..MaxSubmissions

\* The two copies of a datum never drift apart: a category has a latest
\* datum as soon as it has any, and it is the one the history holds for its
\* time stamp, even after that entry was overwritten
\* (keeper.go:35-41, keeper.go:157-186).
LatestIsInHistory ==
    /\ DOMAIN latest = Covered
    /\ \A c \in DOMAIN latest :
        /\ <<c, latest[c].timestamp>> \in DOMAIN history
        /\ history[<<c, latest[c].timestamp>>] = latest[c]

\* Whatever is written comes from an oracle that is registered, active and
\* authorized for the category when it is written: an oracle that was
\* removed, or whose categories were changed, is held to it at once
\* (msg_server.go:25-28, docs: only registered oracles submit).
OnlyAuthorizedData ==
    [][\A key \in DOMAIN history' :
            (key \notin DOMAIN history \/ history'[key] # history[key])
            => \E a \in DOMAIN oracles :
                /\ a = history'[key].submitter
                /\ oracles[a].active
                /\ \/ oracles[a].authorizedCategories = {}
                   \/ key[1] \in oracles[a].authorizedCategories]_oracleVars

\* The latest datum of a category may be replaced by an older one, but the
\* answer of GetLatestData never goes back by more than twice the drift a
\* submission is allowed (msg_server.go:30-43, keeper.go:40).
LatestRewindIsBounded ==
    [][\A c \in DOMAIN latest :
            /\ c \in DOMAIN latest'
            /\ latest'[c].timestamp >= latest[c].timestamp - 2 * maxDrift]_oracleVars

\* A relaunch loses no datum, and GetLatestData afterwards answers with the
\* newest datum of the category, never with an older one than before
\* (keeper.go:157-186).
RelaunchKeepsData ==
    [][OracleRelaunch => \A key \in DOMAIN history :
            /\ history'[key] = history[key]
            /\ latest'[key[1]].timestamp >= key[2]]_oracleVars
===========================================================================
