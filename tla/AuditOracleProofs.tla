------------------------- MODULE AuditOracleProofs -------------------------
(***************************************************************************)
(* Proofs about two modules of the chain that share nothing: the audit     *)
(* module, for every set of actors, event types and payload sizes, and the *)
(* oracle module, for every set of categories, oracles and values, every   *)
(* drift; both for every bound.                                            *)
(*                                                                         *)
(* Audit: a relaunch is shown to restore the store it was exported from,   *)
(* so that every step either leaves the trail alone or appends one entry   *)
(* to it, and each property follows from that.                             *)
(*                                                                         *)
(* Oracle: OracleRelaunch picks the newest datum of each category; that    *)
(* there is one rests on the time stamps being bounded by the present and  *)
(* the drift.                                                              *)
(***************************************************************************)
EXTENDS AuditKeeper, OracleKeeper, WellFoundedInduction, TLAPS

---------------------------------------------------------------------------
(* The audit module *)

\* The index keys are those of the entries, no other.
IndexesMatch ==
    /\ byActor = ActorKeys(logs)
    /\ byType = TypeKeys(logs)
    /\ byTime = TimeKeys(logs)

\* No entry is from a later block than the one being executed.
NothingFromTheFuture == \A id \in DOMAIN logs : logs[id].timestamp <= now

\* The inductive invariant.
IInv ==
    /\ TypeOK
    /\ TrailHasNoGap
    /\ IndexesMatch
    /\ NothingFromTheFuture
    /\ TrailIsInOrder

trail == <<logs, byActor, byType, byTime, counter, params>>

\* The step leaves the store alone.
Keeps == UNCHANGED trail /\ now' \in now..MaxTime

\* The step appends the entry log to the store.
Appends(log) ==
    /\ log \in AuditLog
    /\ log.timestamp = now
    /\ logs' = [i \in 1..(counter + 1) |-> IF i = counter + 1 THEN log ELSE logs[i]]
    /\ byActor' = byActor \cup {<<log.actor, counter + 1>>}
    /\ byType' = byType \cup {<<log.eventType, counter + 1>>}
    /\ byTime' = byTime \cup {<<log.timestamp, counter + 1>>}
    /\ counter' = counter + 1
    /\ UNCHANGED <<params, now>>

\* Export and import bring the same store back.
LEMMA RelaunchKeeps ==
    ASSUME IInv, Relaunch
    PROVE  UNCHANGED vars
BY DEF Relaunch, InitGenesis, ExportGenesis, IInv, IndexesMatch, vars

LEMMA RecordAppends ==
    ASSUME IInv, NEW a \in Actor, NEW e \in EventType, NEW n \in DataSize,
           MsgRecordAudit(a, e, n)
    PROVE  \E log \in AuditLog : Appends(log)
<1> DEFINE log == [actor |-> a, eventType |-> e, size |-> n, timestamp |-> now]
<1>1. log \in AuditLog /\ log.timestamp = now
  BY DEF AuditLog, IInv, TypeOK
<1>2. DOMAIN logs \cup {counter + 1} = 1..(counter + 1)
  BY DEF IInv, TypeOK, TrailHasNoGap
<1>3. /\ RecordAuditLog(counter + 1, log)
      /\ counter' = counter + 1
      /\ UNCHANGED <<params, now>>
  BY DEF MsgRecordAudit, GetNextID
<1> HIDE DEF log
<1>4. Appends(log)
  BY <1>1, <1>2, <1>3 DEF RecordAuditLog, Appends
<1> QED
  BY <1>1, <1>4

\* A step leaves the trail alone or appends one entry to it.
LEMMA StepAppends ==
    ASSUME IInv, [Next]_vars
    PROVE  Keeps \/ \E log \in AuditLog : Appends(log)
<1>1. now \in now..MaxTime
  <2>1. now \in 1..MaxTime /\ MaxTime \in Nat
    BY AuditAssumption DEF IInv, TypeOK
  <2> QED
    BY <2>1
<1>2. CASE Record
  BY <1>2, RecordAppends DEF Record
<1>3. CASE EndBlock
  BY <1>3 DEF EndBlock, Keeps, trail
<1>4. CASE Relaunch
  BY <1>1, <1>4, RelaunchKeeps DEF Keeps, trail, vars
<1>5. CASE UNCHANGED vars
  BY <1>1, <1>5 DEF Keeps, trail, vars
<1> QED
  BY <1>2, <1>3, <1>4, <1>5 DEF Next

---------------------------------------------------------------------------

LEMMA InitIInv == Init => IInv
<1> SUFFICES ASSUME Init PROVE IInv
  OBVIOUS
<1>1. /\ logs = EmptyStore /\ DOMAIN logs = {}
      /\ counter = 0 /\ params \in Params /\ now = 1
      /\ byActor = ActorKeys(logs)
      /\ byType = TypeKeys(logs)
      /\ byTime = TimeKeys(logs)
  BY DEF Init, StartFrom, InitGenesis, DefaultGenesis, EmptyStore
<1>2. byActor = {} /\ byType = {} /\ byTime = {}
  BY <1>1 DEF ActorKeys, TypeKeys, TimeKeys
<1>3. TypeOK
  <2>1. logs \in [DOMAIN logs -> AuditLog]
    BY <1>1 DEF EmptyStore
  <2>2. 1 \in 1..MaxTime
    BY AuditAssumption
  <2> QED
    BY <1>1, <1>2, <2>1, <2>2 DEF TypeOK
<1>4. TrailHasNoGap
  BY <1>1 DEF TrailHasNoGap
<1> QED
  BY <1>1, <1>3, <1>4 DEF IInv, IndexesMatch, NothingFromTheFuture, TrailIsInOrder

LEMMA KeepsIInv ==
    ASSUME IInv, Keeps
    PROVE  IInv'
<1>1. now' \in 1..MaxTime /\ now <= now'
  BY AuditAssumption DEF IInv, TypeOK, Keeps
<1>2. TypeOK'
  BY <1>1 DEF IInv, TypeOK, Keeps, trail
<1>3. NothingFromTheFuture'
  <2>1. \A id \in DOMAIN logs : logs[id].timestamp \in Nat
    BY AuditAssumption DEF IInv, TypeOK, AuditLog
  <2> QED
    BY <1>1, <2>1 DEF IInv, NothingFromTheFuture, TypeOK, Keeps, trail
<1> QED
  BY <1>2, <1>3 DEF IInv, TrailHasNoGap, IndexesMatch, TrailIsInOrder, Keeps,
                    trail, ActorKeys, TypeKeys, TimeKeys

LEMMA AppendKeepsIInv ==
    ASSUME IInv, NEW log \in AuditLog, Appends(log)
    PROVE  IInv'
<1>1. /\ counter \in Nat /\ counter' = counter + 1
      /\ DOMAIN logs = 1..counter /\ DOMAIN logs' = 1..(counter + 1)
      /\ logs'[counter + 1] = log
      /\ \A i \in 1..counter : logs'[i] = logs[i] /\ logs[i] \in AuditLog
      /\ log.timestamp = now /\ now' = now
  BY DEF IInv, TypeOK, TrailHasNoGap, Appends
<1>2. 1..(counter + 1) = 1..counter \cup {counter + 1}
  BY <1>1
<1>3. TypeOK'
  <2>1. log.actor \in Actor /\ log.eventType \in EventType /\ log.timestamp \in 1..MaxTime
    BY DEF AuditLog
  <2>2. /\ byActor' \subseteq Actor \X Nat
        /\ byType' \subseteq EventType \X Nat
        /\ byTime' \subseteq (1..MaxTime) \X Nat
    BY <1>1, <2>1 DEF Appends, IInv, TypeOK
  <2>3. logs' \in [DOMAIN logs' -> AuditLog]
    BY <1>1, <1>2 DEF Appends
  <2> QED
    BY <1>1, <2>2, <2>3 DEF Appends, IInv, TypeOK
<1>4. TrailHasNoGap'
  BY <1>1 DEF TrailHasNoGap
<1>5. IndexesMatch'
  <2>1. /\ ActorKeys(logs)' = ActorKeys(logs) \cup {<<log.actor, counter + 1>>}
        /\ TypeKeys(logs)' = TypeKeys(logs) \cup {<<log.eventType, counter + 1>>}
        /\ TimeKeys(logs)' = TimeKeys(logs) \cup {<<log.timestamp, counter + 1>>}
    BY <1>1, <1>2 DEF ActorKeys, TypeKeys, TimeKeys
  <2> QED
    BY <2>1 DEF IInv, IndexesMatch, Appends
<1>6. now \in Nat /\ \A i \in 1..counter : logs[i].timestamp \in Nat
  BY <1>1, AuditAssumption DEF IInv, TypeOK, AuditLog
<1>7. NothingFromTheFuture'
  BY <1>1, <1>2, <1>6 DEF IInv, NothingFromTheFuture
<1>8. TrailIsInOrder'
  <2> SUFFICES ASSUME NEW i \in 1..(counter + 1), NEW j \in 1..(counter + 1), i < j
               PROVE  logs'[i].timestamp <= logs'[j].timestamp
    BY <1>1 DEF TrailIsInOrder
  <2>1. i \in 1..counter /\ (j \in 1..counter \/ j = counter + 1)
    BY <1>1
  <2> QED
    BY <1>1, <2>1 DEF IInv, TrailIsInOrder, NothingFromTheFuture
<1> QED
  BY <1>3, <1>4, <1>5, <1>7, <1>8 DEF IInv

LEMMA InductiveInvariant == Spec => []IInv
<1>1. IInv /\ [Next]_vars => IInv'
  BY StepAppends, KeepsIInv, AppendKeepsIInv
<1> QED
  BY InitIInv, <1>1, PTL DEF Spec

---------------------------------------------------------------------------

\* The store always has the shape types.go declares.
THEOREM TypeCorrect == Spec => []TypeOK
<1>1. IInv => TypeOK
  BY DEF IInv
<1> QED
  BY InductiveInvariant, <1>1, PTL

\* Whatever is recorded, exported and relaunched, the numbers have no gap.
THEOREM NoGap == Spec => []TrailHasNoGap
<1>1. IInv => TrailHasNoGap
  BY DEF IInv
<1> QED
  BY InductiveInvariant, <1>1, PTL

\* The order of the numbers is the order of the times.
THEOREM InOrder == Spec => []TrailIsInOrder
<1>1. IInv => TrailIsInOrder
  BY DEF IInv
<1> QED
  BY InductiveInvariant, <1>1, PTL

\* Each criterion of a query selects exactly the entries that meet it; the
\* open end of a time range is the present because no entry is from later.
THEOREM QueriesAreExact == Spec => []QueriesExact
<1>1. IInv => QueriesExact
  <2> SUFFICES ASSUME IInv PROVE QueriesExact
    OBVIOUS
  <2>1. /\ \A id \in DOMAIN logs : logs[id] \in AuditLog /\ logs[id].timestamp <= now
        /\ now \in 1..MaxTime /\ MaxTime \in Nat
    BY AuditAssumption DEF IInv, TypeOK, NothingFromTheFuture
  <2>2. ASSUME NEW a \in Actor
        PROVE  QueryAuditLogs(a, "", 0, 0) = {id \in DOMAIN logs : logs[id].actor = a}
    <3>1. QueryAuditLogs(a, "", 0, 0) = GetAuditLogsByActor(a)
      BY NoEmptyText DEF QueryAuditLogs
    <3> QED
      BY <3>1 DEF GetAuditLogsByActor, IInv, IndexesMatch, ActorKeys
  <2>3. ASSUME NEW e \in EventType
        PROVE  QueryAuditLogs("", e, 0, 0) = {id \in DOMAIN logs : logs[id].eventType = e}
    <3>1. QueryAuditLogs("", e, 0, 0) = GetAuditLogsByType(e)
      BY NoEmptyText DEF QueryAuditLogs
    <3> QED
      BY <3>1 DEF GetAuditLogsByType, IInv, IndexesMatch, TypeKeys
  <2>4. ASSUME NEW from \in 0..MaxTime, NEW to \in 0..MaxTime
        PROVE  QueryAuditLogs("", "", from, to) =
                    {id \in DOMAIN logs : /\ from <= logs[id].timestamp
                                          /\ to > 0 => logs[id].timestamp <= to}
    <3>1. \A id \in DOMAIN logs : logs[id].timestamp \in 1..MaxTime
      BY <2>1 DEF AuditLog
    <3>2. \A f, t \in 0..MaxTime :
            GetAuditLogsByTimeRange(f, t) =
                {id \in DOMAIN logs : f <= logs[id].timestamp /\ logs[id].timestamp <= t}
      BY <2>1, <3>1 DEF GetAuditLogsByTimeRange, IInv, IndexesMatch, TimeKeys
    <3> DEFINE answer == QueryAuditLogs("", "", from, to)
    <3>3. /\ from = 0 /\ to = 0 => answer = DOMAIN logs
          /\ to > 0 => answer = GetAuditLogsByTimeRange(from, to)
          /\ from > 0 /\ to = 0 => answer = GetAuditLogsByTimeRange(from, now)
      BY DEF QueryAuditLogs
    <3> HIDE DEF answer
    <3>4. answer = {id \in DOMAIN logs : /\ from <= logs[id].timestamp
                                         /\ to > 0 => logs[id].timestamp <= to}
      <4>1. CASE from = 0 /\ to = 0
        BY <2>1, <3>1, <3>3, <4>1
      <4>2. CASE to > 0
        BY <3>2, <3>3, <4>2
      <4>3. CASE from > 0 /\ to = 0
        <5>1. now \in 0..MaxTime
          BY <2>1
        <5> QED
          BY <2>1, <3>2, <3>3, <4>3, <5>1
      <4> QED
        BY <2>1, <4>1, <4>2, <4>3
    <3> QED
      BY <3>4 DEF answer
  <2> QED
    BY <2>2, <2>3, <2>4 DEF QueriesExact
<1> QED
  BY InductiveInvariant, <1>1, PTL

\* No message, and no export and relaunch, changes or removes an entry.
THEOREM Immutability == Spec => LogsImmutable
<1>1. IInv /\ [Next]_vars
      => [\A id \in DOMAIN logs : id \in DOMAIN logs' /\ logs'[id] = logs[id]]_vars
  <2> SUFFICES ASSUME IInv, [Next]_vars
               PROVE  \A id \in DOMAIN logs : id \in DOMAIN logs' /\ logs'[id] = logs[id]
    OBVIOUS
  <2>1. CASE Keeps
    BY <2>1 DEF Keeps, trail
  <2>2. ASSUME NEW log \in AuditLog, Appends(log)
        PROVE  \A id \in DOMAIN logs : id \in DOMAIN logs' /\ logs'[id] = logs[id]
    BY <2>2 DEF Appends, IInv, TypeOK, TrailHasNoGap
  <2> QED
    BY <2>1, <2>2, StepAppends
<1> QED
  BY InductiveInvariant, <1>1, PTL DEF Spec, LogsImmutable

\* A relaunch gives back the store it was exported from.
THEOREM RoundTrip == Spec => RelaunchRestoresTheStore
<1>1. IInv => [Relaunch => UNCHANGED vars]_vars
  BY RelaunchKeeps
<1> QED
  BY InductiveInvariant, <1>1, PTL DEF RelaunchRestoresTheStore

\* The audit module implements the append-only log, relaunches included.
THEOREM Refinement == Spec => ImplementsLog
<1>1. Init => Log!Init
  BY DEF Init, StartFrom, InitGenesis, DefaultGenesis, Log!Init, issued
<1>2. IInv /\ [Next]_vars => [Log!Accept]_issued
  <2> SUFFICES ASSUME IInv, [Next]_vars
               PROVE  [Log!Accept]_issued
    OBVIOUS
  <2>1. CASE Keeps
    BY <2>1 DEF Keeps, trail, issued
  <2>2. ASSUME NEW log \in AuditLog, Appends(log)
        PROVE  Log!Accept
    <3>1. /\ counter \in Nat /\ counter' = counter + 1
          /\ DOMAIN logs = 1..counter
          /\ \A i \in 1..counter : logs'[i] = logs[i]
      BY <2>2 DEF Appends, IInv, TypeOK, TrailHasNoGap
    <3>2. Len(issued) = counter /\ Len(issued') = counter + 1
      BY <3>1 DEF issued
    <3>3. SubSeq(issued', 1, Len(issued)) = issued
      BY <3>1, <3>2 DEF issued
    <3>4. AuditSubmission(Log!added)
      BY <3>1, <3>2 DEF AuditSubmission, Log!added, issued
    <3> QED
      BY <3>1, <3>2, <3>3, <3>4 DEF Log!Accept
  <2> QED
    BY <2>1, <2>2, StepAppends
<1> QED
  BY InductiveInvariant, <1>1, <1>2, PTL DEF Spec, ImplementsLog, Log!Spec

---------------------------------------------------------------------------
(* The oracle module *)

\* No datum is from farther in the future than the drift allows.
NothingBeyondTheDrift == \A key \in DOMAIN history : key[2] <= blockTime + maxDrift

\* The inductive invariant.
OracleInv == OracleTypeOK /\ LatestIsInHistory /\ NothingBeyondTheDrift

\* A bounded set of numbers has a largest element: the mirror image of the
\* smallest element of {b - t : t \in S}.
LEMMA Maximum ==
    ASSUME NEW b \in Nat, NEW S \in SUBSET (0..b), S # {}
    PROVE  \E t \in S : \A u \in S : u <= t
<1> DEFINE T == {b - t : t \in S}
<1>1. T \subseteq Nat
  <2>1. \A t \in S : b - t \in Nat
    OBVIOUS
  <2> QED
    BY <2>1
<1>2. T # {}
  OBVIOUS
<1>3. PICK x \in T : \A y \in T : ~(<<y, x>> \in OpToRel(<, Nat))
  <2> HIDE DEF T
  <2> QED
    BY <1>1, <1>2, NatLessThanWellFounded, WFMin
<1>4. \A y \in T : ~(y < x)
  BY <1>1, <1>3 DEF OpToRel
<1>5. PICK t \in S : x = b - t
  BY <1>3
<1>6. \A u \in S : b - u \in T
  OBVIOUS
<1>7. \A u \in S : ~(b - u < b - t)
  BY <1>4, <1>5, <1>6
<1> QED
  BY <1>7

LEMMA DriftIsPositive ==
    ASSUME OracleTypeOK
    PROVE  maxDrift \in Nat \ {0} /\ blockTime \in Nat \ {0}
BY OracleAssumption DEF OracleTypeOK, maxDrift

\* Newest names a time stamp of the category that none exceeds.
LEMMA NewestIsLargest ==
    ASSUME OracleInv, NEW c \in Covered
    PROVE  /\ <<c, Newest(c)>> \in DOMAIN history
           /\ \A key \in DOMAIN history : key[1] = c => key[2] <= Newest(c)
<1>1. /\ DOMAIN history \subseteq Category \X (Nat \ {0})
      /\ blockTime + maxDrift \in Nat
      /\ \A key \in DOMAIN history : key[2] <= blockTime + maxDrift
  BY DriftIsPositive DEF OracleInv, OracleTypeOK, NothingBeyondTheDrift
<1>2. Timestamps(c) \in SUBSET (0..(blockTime + maxDrift))
  BY <1>1 DEF Timestamps
<1>3. Timestamps(c) # {}
  BY DEF Covered, Timestamps
<1>4. \E t \in Timestamps(c) : \A u \in Timestamps(c) : u <= t
  BY <1>1, <1>2, <1>3, Maximum
<1>5. Newest(c) \in Timestamps(c) /\ \A u \in Timestamps(c) : u <= Newest(c)
  BY <1>4 DEF Newest
<1>6. PICK key \in DOMAIN history : key[1] = c /\ key[2] = Newest(c)
  BY <1>5 DEF Timestamps
<1>7. key = <<c, Newest(c)>>
  BY <1>1, <1>6
<1>8. \A k \in DOMAIN history : k[1] = c => k[2] \in Timestamps(c)
  BY DEF Timestamps
<1> QED
  BY <1>5, <1>6, <1>7, <1>8

---------------------------------------------------------------------------

LEMMA InitOracleInv == OracleInit => OracleInv
<1> SUFFICES ASSUME OracleInit PROVE OracleInv
  OBVIOUS
<1>1. DOMAIN history = {} /\ DOMAIN latest = {}
  BY DEF OracleInit, NoData
<1>2. blockTime \in 1..MaxBlockTime /\ submissions \in 0..MaxSubmissions
  BY OracleAssumption DEF OracleInit
<1>3. DOMAIN oracles \subseteq Oracle /\ \A a \in DOMAIN oracles : oracles[a] \in OracleInfo
  BY DEF OracleInit
<1>4. dataMaxAge \in Int
  BY OracleAssumption DEF OracleInit
<1> QED
  BY <1>1, <1>2, <1>3, <1>4
     DEF OracleInv, OracleTypeOK, LatestIsInHistory, Covered, NothingBeyondTheDrift

\* The datum a submission stores.
Datum(v, a, t) == [value |-> v, submitter |-> a, timestamp |-> t]

\* What a submission does to the two copies of the data.
LEMMA SubmitWrites ==
    ASSUME OracleInv, NEW a \in Oracle, NEW c \in Category, NEW v \in Value,
           NEW t \in Nat \ {0}, MsgSubmitData(a, c, v, t)
    PROVE  /\ DOMAIN history' = DOMAIN history \cup {<<c, t>>}
           /\ history'[<<c, t>>] = Datum(v, a, t)
           /\ \A key \in DOMAIN history : key # <<c, t>> => history'[key] = history[key]
           /\ DOMAIN latest' = DOMAIN latest \cup {c}
           /\ latest'[c] = Datum(v, a, t)
           /\ \A d \in DOMAIN latest : d # c => latest'[d] = latest[d]
           /\ UNCHANGED <<oracles, dataMaxAge, blockTime>>
           /\ submissions' \in 0..MaxSubmissions
<1> DEFINE d == Datum(v, a, t)
<1>1. /\ history' = Set(history, <<c, t>>, d)
      /\ latest' = Set(latest, c, d)
      /\ UNCHANGED <<oracles, dataMaxAge, blockTime>>
  BY DEF MsgSubmitData, SetOracleData, Datum
<1>2. submissions' \in 0..MaxSubmissions
  BY OracleAssumption DEF MsgSubmitData, OracleInv, OracleTypeOK
<1> HIDE DEF d
<1>3. /\ DOMAIN history' = DOMAIN history \cup {<<c, t>>}
      /\ history'[<<c, t>>] = d
      /\ \A key \in DOMAIN history : key # <<c, t>> => history'[key] = history[key]
  BY <1>1 DEF Set
<1>4. /\ DOMAIN latest' = DOMAIN latest \cup {c}
      /\ latest'[c] = d
      /\ \A x \in DOMAIN latest : x # c => latest'[x] = latest[x]
  BY <1>1 DEF Set
<1> QED
  BY <1>1, <1>2, <1>3, <1>4 DEF d

LEMMA SubmitKeepsIInv ==
    ASSUME OracleInv, NEW a \in Oracle, NEW c \in Category, NEW v \in Value,
           NEW t \in 1..(blockTime + maxDrift), MsgSubmitData(a, c, v, t)
    PROVE  OracleInv'
<1> DEFINE d == Datum(v, a, t)
<1>1. /\ maxDrift \in Nat \ {0} /\ blockTime \in Nat \ {0} /\ t \in Nat \ {0}
      /\ t <= blockTime + maxDrift
  BY DriftIsPositive DEF OracleInv
<1>2. d \in OracleData /\ d.timestamp = t
  BY <1>1 DEF OracleData, Datum
<1> HIDE DEF d
<1>3. /\ DOMAIN history' = DOMAIN history \cup {<<c, t>>}
      /\ history'[<<c, t>>] = d
      /\ \A key \in DOMAIN history : key # <<c, t>> => history'[key] = history[key]
      /\ DOMAIN latest' = DOMAIN latest \cup {c}
      /\ latest'[c] = d
      /\ \A x \in DOMAIN latest : x # c => latest'[x] = latest[x]
      /\ UNCHANGED <<oracles, dataMaxAge, blockTime>>
      /\ submissions' \in 0..MaxSubmissions
  BY <1>1, SubmitWrites DEF d
<1>4. OracleTypeOK'
  <2>1. DOMAIN history' \subseteq Category \X (Nat \ {0})
    BY <1>1, <1>3 DEF OracleInv, OracleTypeOK
  <2>2. \A key \in DOMAIN history' :
            history'[key] \in OracleData /\ history'[key].timestamp = key[2]
    BY <1>2, <1>3 DEF OracleInv, OracleTypeOK
  <2>3. DOMAIN latest' \subseteq Category
        /\ \A x \in DOMAIN latest' : latest'[x] \in OracleData
    BY <1>2, <1>3 DEF OracleInv, OracleTypeOK
  <2> QED
    BY <1>3, <2>1, <2>2, <2>3 DEF OracleInv, OracleTypeOK
<1>5. LatestIsInHistory'
  <2>1. Covered' = Covered \cup {c}
    BY <1>3 DEF Covered
  <2>2. DOMAIN latest' = Covered'
    BY <1>3, <2>1 DEF OracleInv, LatestIsInHistory
  <2>3. ASSUME NEW x \in DOMAIN latest'
        PROVE  /\ <<x, latest'[x].timestamp>> \in DOMAIN history'
               /\ history'[<<x, latest'[x].timestamp>>] = latest'[x]
    <3>1. CASE x = c
      BY <1>2, <1>3, <3>1
    <3>2. CASE x # c
      <4>1. x \in DOMAIN latest /\ latest'[x] = latest[x]
        BY <1>3, <3>2
      <4>2. <<x, latest[x].timestamp>> # <<c, t>>
        BY <3>2
      <4>3. /\ <<x, latest[x].timestamp>> \in DOMAIN history
            /\ history[<<x, latest[x].timestamp>>] = latest[x]
        BY <4>1 DEF OracleInv, LatestIsInHistory
      <4> QED
        BY <1>3, <4>1, <4>2, <4>3
    <3> QED
      BY <3>1, <3>2
  <2> QED
    BY <2>2, <2>3 DEF LatestIsInHistory
<1>6. NothingBeyondTheDrift'
  <2>1. maxDrift' = maxDrift /\ blockTime' = blockTime
    BY <1>3 DEF maxDrift
  <2>2. \A key \in DOMAIN history' : key[2] <= blockTime + maxDrift
    BY <1>1, <1>3 DEF OracleInv, NothingBeyondTheDrift
  <2> QED
    BY <2>1, <2>2 DEF NothingBeyondTheDrift
<1> QED
  BY <1>4, <1>5, <1>6 DEF OracleInv

\* The messages that manage the oracles leave the data alone.
LEMMA ManageKeepsIInv ==
    ASSUME OracleInv, Manage
    PROVE  OracleInv' /\ UNCHANGED <<history, latest, dataMaxAge, blockTime>>
<1>1. /\ UNCHANGED <<history, latest, dataMaxAge, blockTime, submissions>>
      /\ DOMAIN oracles' \subseteq Oracle
      /\ \A a \in DOMAIN oracles' : oracles'[a] \in OracleInfo
  <2>1. ASSUME NEW signer \in Oracle \cup {Authority}, NEW a \in Oracle,
               NEW categories \in SUBSET Category, MsgAddOracle(signer, a, categories)
        PROVE  <1>1!1 /\ <1>1!2 /\ <1>1!3
    <3> DEFINE info == [active |-> TRUE, authorizedCategories |-> categories]
    <3>1. info \in OracleInfo
      BY DEF OracleInfo
    <3>2. oracles' = Set(oracles, a, info)
          /\ UNCHANGED <<history, latest, dataMaxAge, blockTime, submissions>>
      BY <2>1 DEF MsgAddOracle
    <3> HIDE DEF info
    <3> QED
      BY <3>1, <3>2 DEF Set, OracleInv, OracleTypeOK
  <2>2. ASSUME NEW signer \in Oracle \cup {Authority}, NEW a \in Oracle,
               MsgRemoveOracle(signer, a)
        PROVE  <1>1!1 /\ <1>1!2 /\ <1>1!3
    BY <2>2 DEF MsgRemoveOracle, OracleInv, OracleTypeOK
  <2> QED
    BY <2>1, <2>2 DEF Manage
<1> QED
  BY <1>1 DEF OracleInv, OracleTypeOK, LatestIsInHistory, Covered, NothingBeyondTheDrift, maxDrift

\* A relaunch keeps the data; each latest datum becomes the newest one.
LEMMA RelaunchKeepsIInv ==
    ASSUME OracleInv, OracleRelaunch
    PROVE  /\ OracleInv'
           /\ UNCHANGED <<history, dataMaxAge, blockTime>>
           /\ DOMAIN latest' = DOMAIN latest
           /\ \A c \in DOMAIN latest' : latest'[c] = history[<<c, Newest(c)>>]
           /\ \A key \in DOMAIN history : latest'[key[1]].timestamp >= key[2]
<1>1. /\ UNCHANGED <<history, oracles, dataMaxAge, blockTime, submissions>>
      /\ latest' = [c \in Covered |-> history[<<c, Newest(c)>>]]
  BY DEF OracleRelaunch
<1>2. \A c \in Covered :
        /\ <<c, Newest(c)>> \in DOMAIN history
        /\ latest'[c] = history[<<c, Newest(c)>>]
        /\ latest'[c] \in OracleData
        /\ latest'[c].timestamp = Newest(c)
  BY <1>1, NewestIsLargest DEF OracleInv, OracleTypeOK
<1>3. DOMAIN latest' = Covered /\ Covered = DOMAIN latest /\ Covered' = Covered
  BY <1>1 DEF OracleInv, LatestIsInHistory, Covered
<1>4. OracleTypeOK'
  BY <1>1, <1>2, <1>3 DEF OracleInv, OracleTypeOK
<1>5. LatestIsInHistory'
  BY <1>1, <1>2, <1>3 DEF LatestIsInHistory
<1>6. NothingBeyondTheDrift'
  BY <1>1 DEF OracleInv, NothingBeyondTheDrift, maxDrift
<1>7. \A key \in DOMAIN history : latest'[key[1]].timestamp >= key[2]
  <2> TAKE key \in DOMAIN history
  <2>1. key[1] \in Covered
    BY DEF Covered
  <2>2. key[2] <= Newest(key[1])
    BY <2>1, NewestIsLargest
  <2>3. Newest(key[1]) \in Nat /\ key[2] \in Nat
    BY <1>2, <2>1 DEF OracleInv, OracleTypeOK
  <2> QED
    BY <1>2, <2>1, <2>2, <2>3
<1> QED
  BY <1>1, <1>2, <1>3, <1>4, <1>5, <1>6, <1>7 DEF OracleInv

LEMMA EndBlockKeepsIInv ==
    ASSUME OracleInv, OracleEndBlock
    PROVE  OracleInv'
<1>1. /\ blockTime \in Nat /\ blockTime' \in 1..MaxBlockTime
      /\ blockTime <= blockTime' /\ maxDrift' = maxDrift
  <2>1. /\ blockTime \in 1..MaxBlockTime /\ MaxBlockTime \in Nat
        /\ blockTime' \in blockTime..MaxBlockTime
    BY OracleAssumption DEF OracleInv, OracleTypeOK, OracleEndBlock
  <2> QED
    BY <2>1 DEF OracleEndBlock, maxDrift
<1>2. OracleTypeOK' /\ LatestIsInHistory'
  BY <1>1 DEF OracleInv, OracleTypeOK, OracleEndBlock, LatestIsInHistory, Covered
<1>3. NothingBeyondTheDrift'
  <2>1. \A key \in DOMAIN history : key[2] \in Nat /\ key[2] <= blockTime + maxDrift
    BY DEF OracleInv, OracleTypeOK, NothingBeyondTheDrift
  <2>2. maxDrift \in Nat
    BY DriftIsPositive DEF OracleInv
  <2> QED
    BY <1>1, <2>1, <2>2 DEF NothingBeyondTheDrift, OracleEndBlock
<1> QED
  BY <1>2, <1>3 DEF OracleInv

LEMMA OracleInductive == OracleSpec => []OracleInv
<1>1. ASSUME OracleInv, [OracleNext]_oracleVars
      PROVE  OracleInv'
  <2>1. CASE Submit
    BY <1>1, <2>1, SubmitKeepsIInv DEF Submit
  <2>2. CASE Manage
    BY <1>1, <2>2, ManageKeepsIInv
  <2>3. CASE OracleEndBlock
    BY <1>1, <2>3, EndBlockKeepsIInv
  <2>4. CASE OracleRelaunch
    BY <1>1, <2>4, RelaunchKeepsIInv
  <2>5. CASE UNCHANGED oracleVars
    BY <1>1, <2>5 DEF oracleVars, OracleInv, OracleTypeOK, LatestIsInHistory, Covered,
                      NothingBeyondTheDrift, maxDrift
  <2> QED
    BY <1>1, <2>1, <2>2, <2>3, <2>4, <2>5 DEF OracleNext
<1> QED
  BY InitOracleInv, <1>1, PTL DEF OracleSpec

---------------------------------------------------------------------------

\* The store always has its declared shape.
THEOREM OracleTypeCorrect == OracleSpec => []OracleTypeOK
<1>1. OracleInv => OracleTypeOK
  BY DEF OracleInv
<1> QED
  BY OracleInductive, <1>1, PTL

\* The latest datum of a category is always one of its history.
THEOREM CopiesAgree == OracleSpec => []LatestIsInHistory
<1>1. OracleInv => LatestIsInHistory
  BY DEF OracleInv
<1> QED
  BY OracleInductive, <1>1, PTL

\* GetLatestData goes back by at most twice the drift, and never by a
\* relaunch.
THEOREM RewindBound == OracleSpec => LatestRewindIsBounded
<1>1. ASSUME OracleInv, [OracleNext]_oracleVars, NEW c \in DOMAIN latest
      PROVE  /\ c \in DOMAIN latest'
             /\ latest'[c].timestamp >= latest[c].timestamp - 2 * maxDrift
  <2>1. /\ maxDrift \in Nat /\ blockTime \in Nat
        /\ latest[c].timestamp \in Nat
        /\ latest[c].timestamp <= blockTime + maxDrift
    <3>1. /\ latest[c] \in OracleData
          /\ <<c, latest[c].timestamp>> \in DOMAIN history
      BY <1>1 DEF OracleInv, OracleTypeOK, LatestIsInHistory
    <3>2. latest[c].timestamp \in Nat
      BY <3>1 DEF OracleData
    <3>3. <<c, latest[c].timestamp>>[2] <= blockTime + maxDrift
      BY <1>1, <3>1 DEF OracleInv, NothingBeyondTheDrift
    <3> QED
      BY <1>1, <3>2, <3>3, DriftIsPositive DEF OracleInv
  <2>2. CASE latest' = latest
    BY <2>1, <2>2
  <2>3. ASSUME NEW a \in Oracle, NEW x \in Category, NEW v \in Value,
               NEW t \in 1..(blockTime + maxDrift), MsgSubmitData(a, x, v, t)
        PROVE  /\ c \in DOMAIN latest'
               /\ latest'[c].timestamp >= latest[c].timestamp - 2 * maxDrift
    <3>1. t \in Nat \ {0} /\ t >= blockTime - maxDrift
      BY <2>1, <2>3 DEF MsgSubmitData
    <3>2. /\ DOMAIN latest' = DOMAIN latest \cup {x}
          /\ latest'[x] = Datum(v, a, t)
          /\ x # c => latest'[c] = latest[c]
      <4>1. latest' = Set(latest, x, Datum(v, a, t))
        BY <2>3 DEF MsgSubmitData, SetOracleData, Datum
      <4> QED
        BY <4>1 DEF Set
    <3>3. CASE x = c
      <4>1. latest'[c].timestamp = t
        BY <3>2, <3>3 DEF Datum
      <4> QED
        BY <2>1, <3>1, <3>2, <4>1
    <3> QED
      BY <2>1, <3>2, <3>3
  <2>4. CASE OracleRelaunch
    <3>1. <<c, latest[c].timestamp>> \in DOMAIN history
      BY <1>1 DEF OracleInv, LatestIsInHistory
    <3>2. c \in DOMAIN latest' /\ latest'[c].timestamp >= latest[c].timestamp
      BY <1>1, <2>4, <3>1, RelaunchKeepsIInv
    <3>3. latest'[c].timestamp \in Nat
      <4>1. latest'[c] \in OracleData
        BY <1>1, <2>4, <3>2, RelaunchKeepsIInv DEF OracleInv, OracleTypeOK
      <4> QED
        BY <4>1 DEF OracleData
    <3> QED
      BY <2>1, <3>2, <3>3
  <2>5. Manage \/ OracleEndBlock \/ UNCHANGED oracleVars => latest' = latest
    BY <1>1, ManageKeepsIInv DEF OracleEndBlock, oracleVars
  <2> QED
    BY <1>1, <2>2, <2>3, <2>4, <2>5 DEF OracleNext, Submit
<1>2. OracleInv /\ [OracleNext]_oracleVars =>
        [\A c \in DOMAIN latest :
            /\ c \in DOMAIN latest'
            /\ latest'[c].timestamp >= latest[c].timestamp - 2 * maxDrift]_oracleVars
  BY <1>1
<1> QED
  BY OracleInductive, <1>2, PTL DEF OracleSpec, LatestRewindIsBounded

\* What a step writes was signed by an oracle that may write it.
THEOREM WritersAreAuthorized == OracleSpec => OnlyAuthorizedData
<1>1. ASSUME OracleInv, [OracleNext]_oracleVars, NEW key \in DOMAIN history',
             key \notin DOMAIN history \/ history'[key] # history[key]
      PROVE  \E a \in DOMAIN oracles :
                /\ a = history'[key].submitter
                /\ oracles[a].active
                /\ \/ oracles[a].authorizedCategories = {}
                   \/ key[1] \in oracles[a].authorizedCategories
  <2>1. ~(Manage \/ OracleEndBlock \/ OracleRelaunch \/ UNCHANGED oracleVars)
    BY <1>1, ManageKeepsIInv, RelaunchKeepsIInv DEF OracleEndBlock, oracleVars
  <2>2. PICK a \in Oracle, c \in Category, v \in Value, t \in 1..(blockTime + maxDrift) :
            MsgSubmitData(a, c, v, t)
    BY <1>1, <2>1 DEF OracleNext, Submit
  <2>4. /\ DOMAIN history' = DOMAIN history \cup {<<c, t>>}
        /\ history'[<<c, t>>] = Datum(v, a, t)
        /\ \A k \in DOMAIN history : k # <<c, t>> => history'[k] = history[k]
    <3>1. history' = Set(history, <<c, t>>, Datum(v, a, t))
      BY <2>2 DEF MsgSubmitData, SetOracleData, Datum
    <3> QED
      BY <3>1 DEF Set
  <2>5. key = <<c, t>> /\ history'[key].submitter = a
    BY <1>1, <2>4 DEF Datum
  <2>6. /\ a \in DOMAIN oracles
        /\ oracles[a].active
        /\ oracles[a].authorizedCategories = {} \/ c \in oracles[a].authorizedCategories
    BY <2>2 DEF MsgSubmitData, IsAuthorizedOracle, IsAuthorizedFor
  <2> QED
    BY <2>5, <2>6
<1>2. OracleInv /\ [OracleNext]_oracleVars =>
        [\A key \in DOMAIN history' :
            (key \notin DOMAIN history \/ history'[key] # history[key])
            => \E a \in DOMAIN oracles :
                /\ a = history'[key].submitter
                /\ oracles[a].active
                /\ \/ oracles[a].authorizedCategories = {}
                   \/ key[1] \in oracles[a].authorizedCategories]_oracleVars
  BY <1>1
<1> QED
  BY OracleInductive, <1>2, PTL DEF OracleSpec, OnlyAuthorizedData

\* A relaunch loses no datum and answers with the newest of each category.
THEOREM RelaunchIsSafe == OracleSpec => RelaunchKeepsData
<1>1. OracleInv => [OracleRelaunch => \A key \in DOMAIN history :
                    /\ history'[key] = history[key]
                    /\ latest'[key[1]].timestamp >= key[2]]_oracleVars
  BY RelaunchKeepsIInv
<1> QED
  BY OracleInductive, <1>1, PTL DEF RelaunchKeepsData
===========================================================================
