---------------------------- MODULE AuditKeeper ----------------------------
(***************************************************************************)
(* The audit module of the chain (chain/x/audit): numbered log entries,    *)
(* three indexes over them, the counter that numbers them, and the export  *)
(* and import of the genesis state, which here carries the counter.        *)
(*                                                                         *)
(* Messages run one at a time and a refused one changes nothing.  Of the   *)
(* payload of an entry only its size matters; target, action, height and   *)
(* transaction hash are carried through unread and are left out.  The keys *)
(* of the time index order as the times do, since no time is negative.     *)
(***************************************************************************)
EXTENDS Integers, Sequences

CONSTANTS
    Actor,          \* the account addresses used
    EventType,      \* the event type strings used
    DataSize,       \* the payload sizes used
    MaxDataSizes,   \* values of the parameter MaxDataSize considered
    MaxTime,        \* bound: the time of the last block
    MaxLogs         \* bound: the number of entries

ASSUME AuditAssumption ==
    /\ DataSize \subseteq Nat
    /\ MaxDataSizes \subseteq Nat
    /\ MaxTime \in Nat \ {0}
    /\ MaxLogs \in Nat

\* ValidateBasic refuses an empty creator and an empty event type.
ASSUME NoEmptyText == "" \notin Actor \cup EventType

VARIABLES
    logs,           \* 0x01 | id                  -> entry
    byActor,        \* 0x02 | actor | 0x00 | id
    byType,         \* 0x03 | event type | 0x00 | id
    byTime,         \* 0x05 | time stamp | id
    counter,        \* 0x04, 0 when unset
    params,         \* 0x06
    now             \* the time of the block being executed

vars == <<logs, byActor, byType, byTime, counter, params, now>>

AuditLog == [actor : Actor, eventType : EventType, size : DataSize,
             timestamp : 1..MaxTime]
Params == [allowedAuditors : SUBSET Actor, maxDataSize : MaxDataSizes]

---------------------------------------------------------------------------
(* The store *)

\* The index keys of these entries.
ActorKeys(entries) == {<<entries[id].actor, id>> : id \in DOMAIN entries}
TypeKeys(entries) == {<<entries[id].eventType, id>> : id \in DOMAIN entries}
TimeKeys(entries) == {<<entries[id].timestamp, id>> : id \in DOMAIN entries}

\* Mutant of GetNextID: the stored number is used as it is.
GetNextIDUnincremented == counter

GetNextID == counter + 1

\* The entry, and its key in each index.
RecordAuditLog(id, log) ==
    /\ logs' = [i \in DOMAIN logs \cup {id} |-> IF i = id THEN log ELSE logs[i]]
    /\ byActor' = byActor \cup {<<log.actor, id>>}
    /\ byType' = byType \cup {<<log.eventType, id>>}
    /\ byTime' = byTime \cup {<<log.timestamp, id>>}

\* An empty list of allowed auditors lets everybody record.
isAllowedAuditor(a) ==
    params.allowedAuditors = {} \/ a \in params.allowedAuditors

---------------------------------------------------------------------------
(* Messages *)

MsgRecordAudit(a, e, n) ==
    /\ counter < MaxLogs
    /\ isAllowedAuditor(a)
    /\ params.maxDataSize > 0 => n <= params.maxDataSize
    /\ RecordAuditLog(GetNextID, [actor |-> a, eventType |-> e, size |-> n,
                                  timestamp |-> now])
    /\ counter' = GetNextID
    /\ UNCHANGED <<params, now>>

\* The next block has a time that is not earlier.
EndBlock ==
    /\ now' \in now..MaxTime
    /\ UNCHANGED <<logs, byActor, byType, byTime, counter, params>>

---------------------------------------------------------------------------
(* Genesis *)

EmptyStore == [i \in {} |-> 0]

DefaultGenesis(p) == [logs |-> EmptyStore, counter |-> 0, params |-> p]

\* What GenesisState.Validate accepts with entries of these distinct
\* identifiers: the counter is not compared with them.
ValidGenesis(ids) == [logs : [ids -> AuditLog], counter : 0..MaxLogs, params : Params]

\* Mutant of ExportGenesis: the counter is left out.
ExportGenesisNoCounter == [logs |-> logs, counter |-> 0, params |-> params]

ExportGenesis == [logs |-> logs, counter |-> counter, params |-> params]

\* The store InitGenesis makes of a genesis state: the entries are recorded
\* anew, and a counter of zero is left unset.
InitGenesis(gs) ==
    [params |-> gs.params,
     logs |-> gs.logs,
     byActor |-> ActorKeys(gs.logs),
     byType |-> TypeKeys(gs.logs),
     byTime |-> TimeKeys(gs.logs),
     counter |-> gs.counter]

\* A new chain is started from the exported state of this one.
Relaunch ==
    LET store == InitGenesis(ExportGenesis) IN
    /\ logs' = store.logs
    /\ byActor' = store.byActor
    /\ byType' = store.byType
    /\ byTime' = store.byTime
    /\ counter' = store.counter
    /\ params' = store.params
    /\ UNCHANGED now

---------------------------------------------------------------------------
(* Specification *)

\* The chain is started from this genesis state.
StartFrom(gs) ==
    LET store == InitGenesis(gs) IN
    /\ logs = store.logs
    /\ byActor = store.byActor
    /\ byType = store.byType
    /\ byTime = store.byTime
    /\ counter = store.counter
    /\ params = store.params

Init == now = 1 /\ \E p \in Params : StartFrom(DefaultGenesis(p))

Record ==
    \E a \in Actor, e \in EventType, n \in DataSize : MsgRecordAudit(a, e, n)

Next == Record \/ EndBlock \/ Relaunch

\* A chain that starts without entries, is exported and started anew.
Spec == Init /\ [][Next]_vars

\* A chain whose genesis file lists entries and passes Validate, as the one
\* of keeper_test.go:139-146, which lists entry 1 and no counter.
GenesisInit ==
    /\ now = 1
    /\ \E ids \in SUBSET (1..MaxLogs) : \E gs \in ValidGenesis(ids) : StartFrom(gs)

GenesisSpec == GenesisInit /\ [][Next]_vars

---------------------------------------------------------------------------
(* Queries *)

GetAuditLogsByActor(a) == {id \in DOMAIN logs : <<a, id>> \in byActor}
GetAuditLogsByType(e) == {id \in DOMAIN logs : <<e, id>> \in byType}

\* Mutant of GetAuditLogsByTimeRange: the end of the range is left out.
GetAuditLogsByTimeRangeHalfOpen(from, to) ==
    {id \in DOMAIN logs : \E t \in from..(to - 1) : <<t, id>> \in byTime}

\* From the first key of from up to, and without, the first of to + 1.
GetAuditLogsByTimeRange(from, to) ==
    {id \in DOMAIN logs : \E t \in from..to : <<t, id>> \in byTime}

\* The first criterion given selects the entries; the others are ignored.
\* A range without an end ends at the time of the block.
QueryAuditLogs(actor, eventType, from, to) ==
    CASE actor # "" -> GetAuditLogsByActor(actor)
      [] actor = "" /\ eventType # "" -> GetAuditLogsByType(eventType)
      [] actor = "" /\ eventType = "" /\ (from > 0 \/ to > 0) ->
            GetAuditLogsByTimeRange(from, IF to = 0 THEN now ELSE to)
      [] OTHER -> DOMAIN logs

---------------------------------------------------------------------------
(* Properties *)

\* The type of the store: entries have the shape of types.go.
TypeOK ==
    /\ DOMAIN logs \subseteq Nat \ {0}
    /\ logs \in [DOMAIN logs -> AuditLog]
    /\ byActor \subseteq Actor \X Nat
    /\ byType \subseteq EventType \X Nat
    /\ byTime \subseteq (1..MaxTime) \X Nat
    /\ counter \in Nat
    /\ params \in Params
    /\ now \in 1..MaxTime

\* The trail has no gap: the entries are numbered 1 to the counter, so that
\* a missing number would show a missing entry (keeper.go:37-49,
\* msg_server.go:48-69).
TrailHasNoGap == DOMAIN logs = 1..counter

\* Later entries have larger numbers, also across a relaunch.
TrailIsInOrder ==
    \A i, j \in DOMAIN logs : i < j => logs[i].timestamp <= logs[j].timestamp

\* A query by one criterion misses no entry that meets it and returns no
\* other; a time range includes both its ends, and one without an end
\* reaches to the present (keeper.go:113-173, query_server.go:31-51).
QueriesExact ==
    /\ \A a \in Actor :
        QueryAuditLogs(a, "", 0, 0) = {id \in DOMAIN logs : logs[id].actor = a}
    /\ \A e \in EventType :
        QueryAuditLogs("", e, 0, 0) = {id \in DOMAIN logs : logs[id].eventType = e}
    /\ \A from, to \in 0..MaxTime :
        QueryAuditLogs("", "", from, to) =
            {id \in DOMAIN logs : /\ from <= logs[id].timestamp
                                  /\ to > 0 => logs[id].timestamp <= to}

\* An entry is never changed or removed, by no message and not by an export
\* and relaunch (docs/公链架构与功能清单.md:286, 351).
LogsImmutable ==
    [][\A id \in DOMAIN logs : id \in DOMAIN logs' /\ logs'[id] = logs[id]]_vars

\* Export and import bring back the same store: the entries, the indexes
\* rebuilt from them, and the counter (keeper.go:201-228).
RelaunchRestoresTheStore == [][Relaunch => UNCHANGED vars]_vars

---------------------------------------------------------------------------
(* Refinement *)

issued == [n \in 1..counter |-> logs[n]]

\* A submission is a single entry.
AuditSubmission(es) == Len(es) = 1

Log == INSTANCE AttestationLog WITH log <- issued, Submission <- AuditSubmission

\* The module keeps an append-only log, which a relaunch continues.
ImplementsLog == Log!Spec
===========================================================================
