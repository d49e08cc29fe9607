---------------------------- MODULE EventIndexer ----------------------------
(***************************************************************************)
(* The event indexer of the DEX (dex-indexer/src/indexer/EventIndexer.ts): *)
(* a process that copies the events of the pair contracts from the chain   *)
(* into a database.  On start it loads the pairs it knows and syncs the    *)
(* blocks after lastBlock in batches; then setInterval starts a poll every *)
(* two seconds, whether or not the last one has come to its end.           *)
(*                                                                         *)
(* The program runs on one thread and gives it up at every await, so the   *)
(* actions are the pieces between two awaits that do something another     *)
(* poll, or a process started anew, can see.  A request that only reads    *)
(* blocks up to the head is merged with the piece after it: blocks are     *)
(* final and never change.                                                 *)
(*                                                                         *)
(* An event is a pair and a block: the swaps, mints and burns of one pair  *)
(* in one block are one row here, and the Sync event that goes with them   *)
(* is identified by the same block.  ensureToken stores the two tokens     *)
(* before the pair; they matter to nothing else and are left out.  That    *)
(* two polls may both try to create a token, upon which one of them ends   *)
(* with an error, is among the failures of Fail.                           *)
(***************************************************************************)
EXTENDS Integers, Sequences, FiniteSets, Bags

CONSTANTS
    Pair,           \* the pair contracts
    Poll,           \* the polls that may be in progress at one time
    Sync,           \* the historical sync, a task like the polls
    NoPair,         \* no pair
    startBlock,     \* config.startBlock
    batchSize,      \* blocks per batch of the historical sync
    MaxBlock,       \* bound: the length of the chain
    MaxFaults       \* bound: failed requests and crashes

ASSUME IndexerAssumption ==
    /\ Sync \notin Poll
    /\ NoPair \notin Pair
    /\ startBlock \in Nat
    /\ batchSize \in Nat \ {0}
    /\ MaxBlock \in Nat
    /\ MaxFaults \in Nat

VARIABLES
    chain,          \* the blocks: pairs created, and pairs with events
    pairs,          \* table Pair
    reserves,       \* its columns reserve0, reserve1: the block of a Sync event
    rows,           \* tables Swap, Mint, Burn: no key but a generated one
    lastBlock,      \* IndexerState "lastBlock", -1 when there is no such row
    phase,          \* the process is down, in syncHistorical, or polling
    trackedPairs,   \* in memory
    lastProcessed,  \* in memory
    task,           \* what the sync and each poll is doing
    faults,         \* counts what MaxFaults bounds
    unsynced,       \* history: the first block the last sync left out
    skipped         \* history: blocks between a sync and the first poll

vars == <<chain, pairs, reserves, rows, lastBlock, phase, trackedPairs,
          lastProcessed, task, faults, unsynced, skipped>>

database == <<pairs, reserves, rows, lastBlock>>
memory == <<phase, trackedPairs, lastProcessed>>
history == <<unsynced, skipped>>

Task == Poll \cup {Sync}
Block == [created : SUBSET Pair, active : SUBSET Pair]

---------------------------------------------------------------------------
(* The chain, as the node's JSON-RPC server shows it *)

head == Len(chain)
Created == UNION {chain[b].created : b \in DOMAIN chain}

PairsCreatedIn(from, to) ==
    UNION {chain[b].created : b \in DOMAIN chain \cap (from..to)}

EventsIn(p, from, to) ==
    {b \in DOMAIN chain \cap (from..to) : p \in chain[b].active}

Largest(S) == CHOOSE n \in S : \A m \in S : m <= n
Smallest(S) == CHOOSE n \in S : \A m \in S : n <= m

NextBlock(created, active) ==
    /\ head < MaxBlock
    /\ created \cap Created = {}
    /\ active \subseteq Created \cup created
    /\ chain' = Append(chain, [created |-> created, active |-> active])
    /\ UNCHANGED <<database, memory, task, faults, history>>

---------------------------------------------------------------------------
(* Tasks: where the sync or a poll stands between two awaits.
     asked   getBlockNumber is answered, to is the answer
     range   processBlockRange(from, to), at a pair or between two
     save    the new lastBlock is on its way to the database            *)

TaskAt(pc, from, to, end) ==
    [pc |-> pc, from |-> from, to |-> to, end |-> end,
     done |-> {}, at |-> NoPair, left |-> {}]

Idle == TaskAt("idle", 0, 0, 0)
RangeTask(from, to, end) == TaskAt("range", from, to, end)

Smaller(a, b) == IF a < b THEN a ELSE b

\* Mutant of Batch: the last batch is not cut at the head.
BatchUncut(start, end) == RangeTask(start, start + batchSize - 1, end)

\* The next batch of the historical sync.
Batch(start, end) == RangeTask(start, Smaller(start + batchSize - 1, end), end)

Become(t, state) == task' = [task EXCEPT ![t] = state]

---------------------------------------------------------------------------
(* Start of the process *)

syncFrom == IF lastBlock = -1 THEN startBlock ELSE lastBlock + 1

\* loadExistingPairs, and syncHistorical up to its first range.  With one new
\* block or none there is no sync, and lastBlock is not stored either.
Start ==
    /\ phase = "down"
    /\ trackedPairs' = pairs
    /\ lastProcessed' = 0
    /\ \/ /\ syncFrom >= head
          /\ phase' = "polling"
          /\ UNCHANGED task
       \/ /\ syncFrom < head
          /\ phase' = "syncing"
          /\ Become(Sync, Batch(syncFrom, head))
    /\ unsynced' = syncFrom
    /\ skipped' = {b \in skipped : b < syncFrom}
    /\ UNCHANGED <<chain, database, faults>>

---------------------------------------------------------------------------
(* pollNewBlocks *)

\* The timer fires, and the node answers with the head.
Tick(t) ==
    /\ phase = "polling"
    /\ task[t].pc = "idle"
    /\ Become(t, TaskAt("asked", 0, head, head))
    /\ UNCHANGED <<chain, database, memory, faults, history>>

\* There is nothing new for this poll.
Return(t) ==
    /\ task[t].pc = "asked"
    /\ task[t].to <= lastProcessed
    /\ Become(t, Idle)
    /\ UNCHANGED <<chain, database, memory, faults, history>>

\* What the first poll of a process leaves out.
Skip(t) ==
    skipped' = IF lastProcessed = 0 THEN skipped \cup (unsynced..task[t].to - 1)
                                    ELSE skipped

\* Mutant of TakeRange: the range is claimed before it is processed, as one
\* would do to keep polls apart.
TakeRangeClaiming(t) ==
    /\ task[t].pc = "asked"
    /\ task[t].to > lastProcessed
    /\ LET from == IF lastProcessed = 0 THEN task[t].to ELSE lastProcessed + 1
       IN  Become(t, RangeTask(from, task[t].to, task[t].to))
    /\ Skip(t)
    /\ lastProcessed' = task[t].to
    /\ UNCHANGED <<chain, database, phase, trackedPairs, faults, unsynced>>

\* Mutant of TakeRange: the last block of the range before is in this one too.
TakeRangeInclusive(t) ==
    /\ task[t].pc = "asked"
    /\ task[t].to > lastProcessed
    /\ LET from == IF lastProcessed = 0 THEN task[t].to ELSE lastProcessed
       IN  Become(t, RangeTask(from, task[t].to, task[t].to))
    /\ Skip(t)
    /\ UNCHANGED <<chain, database, memory, faults, unsynced>>

\* The blocks after lastProcessed, or the head alone in the first poll.
TakeRange(t) ==
    /\ task[t].pc = "asked"
    /\ task[t].to > lastProcessed
    /\ LET from == IF lastProcessed = 0 THEN task[t].to ELSE lastProcessed + 1
       IN  Become(t, RangeTask(from, task[t].to, task[t].to))
    /\ Skip(t)
    /\ UNCHANGED <<chain, database, memory, faults, unsynced>>

---------------------------------------------------------------------------
(* processBlockRange *)

found(t) == PairsCreatedIn(task[t].from, task[t].to)

\* handlePairCreated: an upsert that leaves a pair alone that is there.
RegisterPair(t, p) ==
    /\ task[t].pc = "range"
    /\ p \in found(t) \ trackedPairs
    /\ pairs' = pairs \cup {p}
    /\ trackedPairs' = trackedPairs \cup {p}
    /\ UNCHANGED <<chain, reserves, rows, lastBlock, phase, lastProcessed,
                   task, faults, history>>

\* The loop over trackedPairs is at pair p, whose logs are fetched.  A pair
\* that another poll adds during the loop is visited too.
VisitPair(t, p) ==
    /\ task[t].pc = "range"
    /\ task[t].at = NoPair
    /\ found(t) \subseteq trackedPairs
    /\ p \in trackedPairs \ task[t].done
    /\ LET events == EventsIn(p, task[t].from, task[t].to)
       IN  Become(t, IF events = {}
                     THEN [task[t] EXCEPT !.done = @ \cup {p}]
                     ELSE [task[t] EXCEPT !.at = p, !.left = events])
    /\ UNCHANGED <<chain, database, memory, faults, history>>

\* indexPairEvents: the rows of one pair, one request each.
StoreRow(t) ==
    /\ task[t].left # {}
    /\ LET b == Smallest(task[t].left)
       IN  /\ rows' = rows (+) SetToBag({<<task[t].at, b>>})
           /\ Become(t, [task[t] EXCEPT !.left = @ \ {b}])
    /\ UNCHANGED <<chain, pairs, reserves, lastBlock, memory, faults, history>>

\* Mutant of lastSync: the first Sync event of the range.
firstSync(t) == Smallest(EventsIn(task[t].at, task[t].from, task[t].to))

lastSync(t) == Largest(EventsIn(task[t].at, task[t].from, task[t].to))

\* indexPairEvents, its last request: the reserves of the pair.
StoreReserves(t) ==
    /\ task[t].at # NoPair
    /\ task[t].left = {}
    /\ reserves' = [reserves EXCEPT ![task[t].at] = lastSync(t)]
    /\ Become(t, [task[t] EXCEPT !.done = @ \cup {task[t].at}, !.at = NoPair])
    /\ UNCHANGED <<chain, pairs, rows, lastBlock, memory, faults, history>>

\* Every tracked pair has been visited: the sync goes on to its next batch, or
\* lastBlock is next; a poll sets lastProcessed at once.
EndRange(t) ==
    /\ task[t].pc = "range"
    /\ task[t].at = NoPair
    /\ found(t) \subseteq trackedPairs
    /\ trackedPairs \subseteq task[t].done
    /\ Become(t, IF task[t].to < task[t].end
                 THEN Batch(task[t].to + 1, task[t].end)
                 ELSE TaskAt("save", 0, task[t].to, task[t].end))
    /\ lastProcessed' = IF t \in Poll THEN task[t].to ELSE lastProcessed
    /\ UNCHANGED <<chain, database, phase, trackedPairs, faults, history>>

\* The upsert of lastBlock; after that of the sync the polls begin.
SaveLastBlock(t) ==
    /\ task[t].pc = "save"
    /\ lastBlock' = task[t].end
    /\ Become(t, Idle)
    /\ phase' = "polling"
    /\ unsynced' = IF t = Sync THEN task[t].end + 1 ELSE unsynced
    /\ UNCHANGED <<chain, pairs, reserves, rows, trackedPairs, lastProcessed,
                   faults, skipped>>

---------------------------------------------------------------------------
(* Failures *)

\* All that is in memory is gone.
Down ==
    /\ phase' = "down"
    /\ trackedPairs' = {}
    /\ lastProcessed' = 0
    /\ task' = [t \in Task |-> Idle]

Crash ==
    /\ phase # "down"
    /\ faults < MaxFaults
    /\ faults' = faults + 1
    /\ Down
    /\ UNCHANGED <<chain, database, history>>

\* Mutant of Fail: a poll that failed is never started again, as with a guard
\* against overlapping polls that an error does not reset.
FailStuck(t) ==
    /\ task[t].pc # "idle"
    /\ faults < MaxFaults
    /\ faults' = faults + 1
    /\ IF t = Sync THEN Down
                   ELSE Become(t, TaskAt("busy", 0, 0, 0))
                        /\ UNCHANGED memory
    /\ UNCHANGED <<chain, database, history>>

\* A request to the node or to the database fails.  A poll is given up by its
\* catch, and what it has stored stays; the sync takes start, and with it main,
\* to its end.
Fail(t) ==
    /\ task[t].pc # "idle"
    /\ faults < MaxFaults
    /\ faults' = faults + 1
    /\ IF t = Sync THEN Down
                   ELSE Become(t, Idle) /\ UNCHANGED memory
    /\ UNCHANGED <<chain, database, history>>

---------------------------------------------------------------------------
Init ==
    /\ chain = <<>>
    /\ pairs = {}
    /\ reserves = [p \in Pair |-> 0]
    /\ rows = EmptyBag
    /\ lastBlock = -1
    /\ phase = "down"
    /\ trackedPairs = {}
    /\ lastProcessed = 0
    /\ task = [t \in Task |-> Idle]
    /\ faults = 0
    /\ unsynced = startBlock
    /\ skipped = {}

\* What the event loop does for one task when it is its turn.
Work(t) ==
    \/ t \in Poll /\ (Tick(t) \/ Return(t) \/ TakeRange(t))
    \/ \E p \in Pair : RegisterPair(t, p) \/ VisitPair(t, p)
    \/ StoreRow(t)
    \/ StoreReserves(t)
    \/ EndRange(t)
    \/ SaveLastBlock(t)

Next ==
    \/ \E created, active \in SUBSET Pair : NextBlock(created, active)
    \/ Start
    \/ \E t \in Task : Work(t) \/ Fail(t)
    \/ Crash

Spec == Init /\ [][Next]_vars

\* The timer fires for ever and every request is answered or fails: no task
\* rests while it has something to do.  Nothing starts the process again.
FairSpec == Spec /\ \A t \in Task : WF_vars(Work(t))

---------------------------------------------------------------------------
(* Properties *)

\* The states of a task over a chain of n blocks.
TaskState(n) == [pc : {"idle", "asked", "range", "save"},
                 from : 0..n, to : 0..n, end : 0..n,
                 done : SUBSET Pair, at : Pair \cup {NoPair}, left : SUBSET (1..n)]

\* Every variable has its shape, and no task looks beyond the head.
TypeOK ==
    /\ chain \in Seq(Block)
    /\ pairs \subseteq Pair /\ trackedPairs \subseteq pairs
    /\ reserves \in [Pair -> 0..head]
    /\ DOMAIN rows \subseteq pairs \X (1..head)
    /\ \A r \in DOMAIN rows : rows[r] \in Nat \ {0}
    /\ lastBlock \in -1..head
    /\ phase \in {"down", "syncing", "polling"}
    /\ lastProcessed \in 0..head
    /\ task \in [Task -> TaskState(head)]
    /\ faults \in 0..MaxFaults
    /\ unsynced \in Nat
    /\ skipped \subseteq 0..head

Stored(p, b) == <<p, b>> \in DOMAIN rows

\* The indexer cannot know of an event of a block it skipped, or of a pair that
\* was created in one, or before the first block it reads.
Hidden(p, b) ==
    \/ b \in skipped \/ b < startBlock
    \/ \E c \in DOMAIN chain : /\ p \in chain[c].created
                               /\ c \in skipped \/ c < startBlock

\* lastBlock can be trusted: a restart begins after it, so whatever happened up
\* to it must be in the database, with polls that overlap and set lastBlock
\* back, after failed polls and after crashes.  Only what a first poll skips
\* (TakeRange) is missing.
TrustedBlocksStored ==
    \A b \in 1..lastBlock : \A p \in chain[b].active :
        Stored(p, b) \/ Hidden(p, b)

\* When each poll ends within the interval and nothing fails, nothing is stored
\* twice but the last block of the sync, which the first poll reads again when
\* there is no newer one.  (Overlap, failures and crashes do store twice: rows
\* have generated keys.)
StoredOnce ==
    faults = 0 => \A r \in DOMAIN rows : rows[r] = 1 \/ r[2] = unsynced - 1

\* The blocks this process has processed, of those the indexer is to read.
Processed(b) ==
    /\ b >= startBlock /\ b \notin skipped
    /\ b <= IF lastProcessed = 0 THEN unsynced - 1 ELSE lastProcessed

\* When each poll ends within the interval, the reserves shown for a pair are
\* those of its newest row once the block of that row is processed, although
\* after a fault older events are stored, and older reserves written, again.
ReservesAreNewest ==
    phase = "polling" =>
        \A r \in DOMAIN rows :
            Processed(r[2]) /\ (\A s \in DOMAIN rows : s[1] = r[1] => s[2] <= r[2])
                => reserves[r[1]] = r[2]

\* Every event comes to be stored for good unless the indexer skipped over it,
\* whatever failed in between, or else the process stays down.
EventuallyStored ==
    \A p \in Pair, b \in 1..MaxBlock :
        <>[](phase = "down")
        \/ <>[](b \in DOMAIN chain /\ p \in chain[b].active
                    => Stored(p, b) \/ Hidden(p, b))
=============================================================================
