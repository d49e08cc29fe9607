------------------------ MODULE EventIndexerProofs ------------------------
(***************************************************************************)
(* Proofs about the event indexer for every set of pairs, every number of  *)
(* polls in progress, every batch size, start block, length of the chain   *)
(* and number of faults.                                                   *)
(*                                                                         *)
(* The argument: whatever mark the indexer keeps (lastBlock, the end of    *)
(* the sync, lastProcessed, the start of a range in progress), the blocks  *)
(* up to it are stored and the pairs created up to it are known, so that   *)
(* it does not matter which task sets a mark, when, or back to what.       *)
(*                                                                         *)
(* With one poll at a time there is one mark, and a task that is in        *)
(* progress begins behind it, or at it when the first poll reads the last  *)
(* block of the sync again.  Then the rows behind the mark are whole: the  *)
(* reserves written with them are those of the newest, and as long as      *)
(* nothing fails there is one row of each kind.                            *)
(***************************************************************************)
EXTENDS EventIndexer, WellFoundedInduction, TLAPS

\* A pair is created once, and before or in the block of its first event.
ChainInv ==
    /\ \A b \in DOMAIN chain : \A p \in chain[b].active :
          \E c \in DOMAIN chain : c <= b /\ p \in chain[c].created
    /\ \A b, c \in DOMAIN chain :
          chain[b].created \cap chain[c].created # {} => b = c

\* The blocks up to n are in the database.
CompleteTo(n) ==
    \A b \in DOMAIN chain : b <= n =>
        \A p \in chain[b].active : Stored(p, b) \/ Hidden(p, b)

\* The pairs created up to block n are in S.
KnownTo(S, n) ==
    \A c \in DOMAIN chain :
        startBlock <= c /\ c <= n /\ c \notin skipped => chain[c].created \subseteq S

Covers(S, n) == CompleteTo(n) /\ KnownTo(S, n)

\* What a task with state w has behind it: the blocks before its range, the
\* pairs it has visited, and the rows of the pair it visits.
Behind(w) ==
    /\ w.pc = "range" =>
          /\ Covers(trackedPairs, w.from - 1)
          /\ \A p \in w.done : \A b \in EventsIn(p, w.from, w.to) : Stored(p, b)
          /\ w.at # NoPair => \A b \in EventsIn(w.at, w.from, w.to) \ w.left :
                                  Stored(w.at, b)
    /\ w.pc = "save" => Covers(trackedPairs, w.end)

\* A task is at a pair only within a range, and the pair has events there.
Shape(w) ==
    /\ w.left # {} => w.at # NoPair
    /\ w.at # NoPair => /\ w.pc = "range"
                        /\ w.at \in trackedPairs
                        /\ EventsIn(w.at, w.from, w.to) # {}

\* Polls and sync exclude each other, and nothing is processed before polls.
PhaseInv ==
    /\ \A t \in Poll : task[t].pc # "idle" => phase = "polling"
    /\ task[Sync].pc # "idle" => phase = "syncing"
    /\ phase # "polling" => lastProcessed = 0
    /\ unsynced - 1 <= head \/ unsynced = startBlock

TaskInv == \A t \in Task : Shape(task[t]) /\ Behind(task[t])

MemoryInv ==
    phase = "polling" => /\ Covers(trackedPairs, unsynced - 1)
                         /\ Covers(trackedPairs, lastProcessed)

DatabaseInv == Covers(pairs, lastBlock)

\* The inductive invariant.
IInv == TypeOK /\ ChainInv /\ PhaseInv /\ TaskInv /\ MemoryInv /\ DatabaseInv

---------------------------------------------------------------------------
(* Facts about the operators *)

\* The smallest of a set of numbers is one of them.
LEMMA SmallestIsIn ==
    ASSUME NEW S \in SUBSET Nat, S # {}
    PROVE  Smallest(S) \in S
<1>1. PICK x \in S : \A y \in S : ~(<<y, x>> \in OpToRel(<, Nat))
  BY NatLessThanWellFounded, WFMin
<1>2. \A y \in S : ~(y < x)
  BY <1>1 DEF OpToRel
<1>3. \A y \in S : x <= y
  BY <1>2
<1> QED
  BY <1>3 DEF Smallest

\* So is the largest of a set of blocks: the mirror image.
LEMMA LargestIsIn ==
    ASSUME NEW b \in Nat, NEW S \in SUBSET (0..b), S # {}
    PROVE  Largest(S) \in S /\ \A m \in S : m <= Largest(S)
<1> DEFINE T == {b - n : n \in S}
<1>1. \A n \in S : b - n \in Nat
  OBVIOUS
<1>2. T \in SUBSET Nat /\ T # {}
  BY <1>1
<1>3. PICK x \in T : \A y \in T : ~(<<y, x>> \in OpToRel(<, Nat))
  <2> HIDE DEF T
  <2> QED
    BY <1>2, NatLessThanWellFounded, WFMin
<1>4. \A y \in T : ~(y < x)
  BY <1>2, <1>3 DEF OpToRel
<1>5. PICK n \in S : x = b - n
  BY <1>3
<1>6. \A m \in S : b - m \in T
  OBVIOUS
<1>7. \A m \in S : ~(b - m < b - n)
  BY <1>4, <1>5, <1>6
<1>8. \A m \in S : m <= n
  BY <1>7
<1> QED
  BY <1>8 DEF Largest

\* A row added to the table is there, and so are the others.
LEMMA AddedRow ==
    ASSUME NEW B, \A r \in DOMAIN B : B[r] \in Nat \ {0}, NEW x
    PROVE  /\ DOMAIN (B (+) SetToBag({x})) = DOMAIN B \cup {x}
           /\ \A r \in DOMAIN B \cup {x} :
                 (B (+) SetToBag({x}))[r] \in Nat \ {0}
           /\ \A r \in DOMAIN B \ {x} : (B (+) SetToBag({x}))[r] = B[r]
           /\ x \notin DOMAIN B => (B (+) SetToBag({x}))[x] = 1
BY DEF (+), SetToBag

\* The next batch lies between its start and its end, and covers nothing yet.
LEMMA BatchShape ==
    ASSUME NEW end \in Nat, NEW start \in 0..end
    PROVE  \E to \in start..end :
              Batch(start, end) = [pc |-> "range", from |-> start, to |-> to,
                                   end |-> end, done |-> {}, at |-> NoPair,
                                   left |-> {}]
<1> DEFINE to == Smaller(start + batchSize - 1, end)
<1>1. to \in start..end
  BY IndexerAssumption DEF Smaller
<1>2. Batch(start, end) = [pc |-> "range", from |-> start, to |-> to, end |-> end,
                           done |-> {}, at |-> NoPair, left |-> {}]
  BY DEF Batch, RangeTask, TaskAt
<1> QED
  BY <1>1, <1>2

\* What one task does leaves the others alone.
LEMMA OthersRest ==
    ASSUME TypeOK, NEW t \in Task, NEW w, Become(t, w)
    PROVE  /\ task'[t] = w
           /\ \A u \in Task \ {t} : task'[u] = task[u]
BY DEF Become, TypeOK

\* Events of blocks that are there do not change when a block is added.
LEMMA EventsStay ==
    ASSUME TypeOK, NEW p \in Pair, NEW from \in Nat, NEW to \in 0..head,
           NEW x \in Block, chain' = Append(chain, x)
    PROVE  EventsIn(p, from, to)' = EventsIn(p, from, to)
<1>1. /\ DOMAIN chain = 1..head
      /\ DOMAIN chain' = 1..(head + 1)
      /\ head \in Nat
      /\ \A b \in DOMAIN chain : chain'[b] = chain[b]
  BY DEF TypeOK, head
<1> QED
  BY <1>1 DEF EventsIn

---------------------------------------------------------------------------
(* Types *)

LEMMA TypeFacts ==
    ASSUME TypeOK
    PROVE  /\ head \in Nat /\ DOMAIN chain = 1..head
           /\ task \in [Task -> TaskState(head)]
           /\ Sync \in Task /\ Poll \subseteq Task
BY DEF TypeOK, head, Task

\* A step that changes a task and leaves the chain alone keeps the type of task.
LEMMA TaskTyped ==
    ASSUME TypeOK, chain' = chain, NEW t \in Task,
           NEW w \in TaskState(head), Become(t, w)
    PROVE  task' \in [Task -> TaskState(head)]'
<1>1. head' = head
  BY DEF head
<1> QED
  BY <1>1, TypeFacts DEF Become, TaskState

\* A task at rest, or asking, or saving.
LEMMA RestTyped ==
    ASSUME NEW n \in Nat, NEW pc \in {"idle", "asked", "range", "save"},
           NEW from \in 0..n, NEW to \in 0..n, NEW end \in 0..n
    PROVE  TaskAt(pc, from, to, end) \in TaskState(n)
BY DEF TaskAt, TaskState

LEMMA BatchTyped ==
    ASSUME NEW n \in Nat, NEW end \in 0..n, NEW start \in 0..end
    PROVE  Batch(start, end) \in TaskState(n)
<1>1. end \in Nat
  OBVIOUS
<1>2. PICK to \in 0..end : Batch(start, end) = TaskAt("range", start, to, end)
  BY <1>1, BatchShape DEF TaskAt
<1>3. to \in 0..n /\ start \in 0..n
  BY <1>1
<1> QED
  BY <1>2, <1>3, RestTyped

LEMMA InitTyped == Init => TypeOK
<1> SUFFICES ASSUME Init PROVE TypeOK
  OBVIOUS
<1>1. chain \in Seq(Block) /\ head = 0
  BY DEF Init, head
<1>2. rows = EmptyBag /\ DOMAIN rows = {}
  BY DEF Init, EmptyBag, SetToBag
<1>3. Idle \in TaskState(0)
  BY RestTyped DEF Idle
<1>4. task \in [Task -> TaskState(head)]
  BY <1>1, <1>3 DEF Init
<1> QED
  BY <1>1, <1>2, <1>4, IndexerAssumption DEF Init, TypeOK

LEMMA NextBlockTyped ==
    ASSUME TypeOK, NEW created \in SUBSET Pair, NEW active \in SUBSET Pair,
           NextBlock(created, active)
    PROVE  TypeOK'
<1> DEFINE x == [created |-> created, active |-> active]
<1>1. x \in Block /\ chain' = Append(chain, x)
  BY DEF NextBlock, Block
<1>2. chain' \in Seq(Block) /\ head' = head + 1 /\ head \in Nat
  BY <1>1 DEF TypeOK, head
<1>3. task' \in [Task -> TaskState(head')]
  BY <1>2, TypeFacts DEF NextBlock, TaskState
<1> QED
  BY <1>2, <1>3 DEF NextBlock, TypeOK, database, memory, history

LEMMA StartTyped ==
    ASSUME TypeOK, Start
    PROVE  TypeOK'
<1>1. head' = head /\ head \in Nat /\ DOMAIN rows = DOMAIN rows'
  BY TypeFacts DEF Start, head, database
<1>2. syncFrom \in Nat
  BY IndexerAssumption DEF syncFrom, TypeOK
<1>3. task' \in [Task -> TaskState(head)]
  <2>1. CASE syncFrom >= head
    BY <1>2, <1>1, <2>1, TypeFacts DEF Start
  <2>2. CASE syncFrom < head
    <3>1. Batch(syncFrom, head) \in TaskState(head)
      BY <1>1, <1>2, <2>2, BatchTyped
    <3>2. Become(Sync, Batch(syncFrom, head)) /\ chain' = chain
      BY <1>1, <1>2, <2>2 DEF Start
    <3> QED
      BY <1>1, <3>1, <3>2, TaskTyped, TypeFacts
  <2> QED
    BY <1>1, <1>2, <2>1, <2>2
<1>4. /\ phase' \in {"down", "syncing", "polling"} /\ chain' \in Seq(Block)
      /\ pairs' \subseteq Pair /\ trackedPairs' \subseteq pairs'
      /\ reserves' \in [Pair -> 0..head] /\ lastBlock' \in -1..head
      /\ lastProcessed' \in 0..head /\ faults' \in 0..MaxFaults
  BY <1>1 DEF Start, TypeOK, database
<1>5. DOMAIN rows' \subseteq pairs' \X (1..head) /\ \A r \in DOMAIN rows' : rows'[r] \in Nat \ {0}
  BY DEF Start, TypeOK, database
<1>6. unsynced' \in Nat /\ skipped' \subseteq 0..head
  BY <1>2 DEF Start, TypeOK
<1> QED
  BY <1>1, <1>3, <1>4, <1>5, <1>6 DEF TypeOK

LEMMA TickTyped ==
    ASSUME TypeOK, NEW t \in Poll, Tick(t)
    PROVE  TypeOK'
<1>1. TaskAt("asked", 0, head, head) \in TaskState(head)
  BY TypeFacts, RestTyped
<1>2. head' = head /\ task' \in [Task -> TaskState(head)]'
  BY <1>1, TypeFacts, TaskTyped DEF Tick, head
<1> QED
  BY <1>2 DEF Tick, TypeOK, database, memory, history

LEMMA ReturnTyped ==
    ASSUME TypeOK, NEW t \in Poll, Return(t)
    PROVE  TypeOK'
<1>1. Idle \in TaskState(head)
  BY TypeFacts, RestTyped DEF Idle
<1>2. head' = head /\ task' \in [Task -> TaskState(head)]'
  BY <1>1, TypeFacts, TaskTyped DEF Return, head
<1> QED
  BY <1>2 DEF Return, TypeOK, database, memory, history

\* The range a poll takes lies within the chain.
LEMMA TakenRange ==
    ASSUME TypeOK, NEW t \in Poll, TakeRange(t)
    PROVE  /\ task[t].to \in 1..head
           /\ \E from \in 1..task[t].to :
                 /\ Become(t, RangeTask(from, task[t].to, task[t].to))
                 /\ from = IF lastProcessed = 0 THEN task[t].to ELSE lastProcessed + 1
<1>1. task[t].to \in 0..head /\ lastProcessed \in 0..head /\ head \in Nat
  BY TypeFacts DEF TaskState, TypeOK
<1> QED
  BY <1>1 DEF TakeRange

LEMMA TakeRangeTyped ==
    ASSUME TypeOK, NEW t \in Poll, TakeRange(t)
    PROVE  TypeOK'
<1>1. /\ task[t].to \in 1..head /\ head \in Nat
      /\ \E from \in 1..task[t].to : Become(t, RangeTask(from, task[t].to, task[t].to))
  BY TakenRange, TypeFacts
<1>2. PICK from \in 1..task[t].to : Become(t, RangeTask(from, task[t].to, task[t].to))
  BY <1>1
<1>3. RangeTask(from, task[t].to, task[t].to) \in TaskState(head)
  BY <1>1, RestTyped DEF RangeTask
<1>4. head' = head /\ task' \in [Task -> TaskState(head)]'
  BY <1>2, <1>3, TypeFacts, TaskTyped DEF TakeRange, head
<1>5. skipped' \subseteq 0..head
  <2>1. unsynced \in Nat /\ skipped \subseteq 0..head
    BY DEF TypeOK
  <2>2. unsynced..(task[t].to - 1) \subseteq 0..head
    BY <1>1, <2>1
  <2> QED
    BY <2>1, <2>2 DEF TakeRange, Skip
<1> QED
  BY <1>4, <1>5 DEF TakeRange, TypeOK, database, memory

LEMMA RegisterPairTyped ==
    ASSUME TypeOK, NEW t \in Task, NEW p \in Pair, RegisterPair(t, p)
    PROVE  TypeOK'
<1>1. head' = head
  BY DEF RegisterPair, head
<1> QED
  BY <1>1 DEF RegisterPair, TypeOK, history

LEMMA VisitPairTyped ==
    ASSUME TypeOK, NEW t \in Task, NEW p \in Pair, VisitPair(t, p)
    PROVE  TypeOK'
<1> DEFINE events == EventsIn(p, task[t].from, task[t].to)
           w == IF events = {} THEN [task[t] EXCEPT !.done = @ \cup {p}]
                               ELSE [task[t] EXCEPT !.at = p, !.left = events]
<1>1. events \subseteq 1..head
  BY TypeFacts DEF EventsIn
<1>2. task[t] \in TaskState(head)
  BY TypeFacts
<1>3. w \in TaskState(head)
  BY <1>1, <1>2 DEF TaskState
<1>4. Become(t, w) /\ chain' = chain
  BY DEF VisitPair
<1>5. head' = head /\ task' \in [Task -> TaskState(head)]'
  BY <1>3, <1>4, TaskTyped DEF head
<1> QED
  BY <1>5 DEF VisitPair, TypeOK, database, memory, history

\* The row that is stored next belongs to a known pair and a block.
LEMMA NextRow ==
    ASSUME TypeOK, TaskInv, NEW t \in Task, task[t].left # {}
    PROVE  /\ task[t].pc = "range" /\ task[t].at # NoPair
           /\ task[t].at \in pairs
           /\ Smallest(task[t].left) \in task[t].left
           /\ task[t].left \subseteq 1..head
<1>1. task[t] \in TaskState(head)
  BY TypeFacts
<1>2. task[t].left \subseteq 1..head /\ task[t].left \in SUBSET Nat
  BY <1>1 DEF TaskState
<1>3. Smallest(task[t].left) \in task[t].left
  BY <1>2, SmallestIsIn
<1> QED
  BY <1>2, <1>3 DEF TaskInv, Shape, TypeOK

LEMMA StoreRowTyped ==
    ASSUME TypeOK, TaskInv, NEW t \in Task, StoreRow(t)
    PROVE  TypeOK'
<1> DEFINE b == Smallest(task[t].left)
           w == [task[t] EXCEPT !.left = @ \ {b}]
<1>1. /\ task[t].left # {} /\ chain' = chain /\ Become(t, w)
      /\ rows' = rows (+) SetToBag({<<task[t].at, b>>})
  BY DEF StoreRow
<1>2. <<task[t].at, b>> \in pairs \X (1..head)
  BY <1>1, NextRow
<1>3. \A r \in DOMAIN rows : rows[r] \in Nat \ {0}
  BY DEF TypeOK
<1>4. DOMAIN rows' = DOMAIN rows \cup {<<task[t].at, b>>}
  BY <1>1, <1>3, AddedRow
<1>5. \A r \in DOMAIN rows' : rows'[r] \in Nat \ {0}
  BY <1>1, <1>3, <1>4, AddedRow
<1>6. w \in TaskState(head)
  BY TypeFacts DEF TaskState
<1>7. head' = head /\ task' \in [Task -> TaskState(head)]'
  BY <1>1, <1>6, TaskTyped DEF head
<1>8. DOMAIN rows' \subseteq pairs \X (1..head)
  BY <1>2, <1>4 DEF TypeOK
<1> HIDE DEF b
<1> QED
  BY <1>5, <1>7, <1>8 DEF StoreRow, TypeOK, memory, history

LEMMA StoreReservesTyped ==
    ASSUME TypeOK, TaskInv, NEW t \in Task, StoreReserves(t)
    PROVE  TypeOK'
<1> DEFINE events == EventsIn(task[t].at, task[t].from, task[t].to)
           w == [task[t] EXCEPT !.done = @ \cup {task[t].at}, !.at = NoPair]
<1>1. task[t].at # NoPair /\ chain' = chain /\ Become(t, w)
  BY DEF StoreReserves
<1>2. task[t] \in TaskState(head) /\ head \in Nat
  BY TypeFacts
<1>3. events \in SUBSET (0..head) /\ events # {}
  BY <1>1, TypeFacts DEF EventsIn, TaskInv, Shape
<1>4. lastSync(t) \in 0..head
  <2> HIDE DEF events
  <2>1. Largest(events) \in events
    BY <1>2, <1>3, LargestIsIn
  <2> QED
    BY <1>3, <2>1 DEF lastSync, events
<1>5. w \in TaskState(head)
  BY <1>1, <1>2 DEF TaskState
<1>6. head' = head /\ task' \in [Task -> TaskState(head)]'
  BY <1>1, <1>5, TaskTyped DEF head
<1>7. reserves' \in [Pair -> 0..head]
  BY <1>4 DEF StoreReserves, TypeOK
<1> QED
  BY <1>6, <1>7 DEF StoreReserves, TypeOK, memory, history

\* What comes after a range.
LEMMA AfterRange ==
    ASSUME TypeOK, NEW t \in Task, EndRange(t)
    PROVE  \/ /\ task[t].to < task[t].end
              /\ Become(t, Batch(task[t].to + 1, task[t].end))
              /\ Batch(task[t].to + 1, task[t].end) \in TaskState(head)
           \/ /\ task[t].to >= task[t].end
              /\ Become(t, TaskAt("save", 0, task[t].to, task[t].end))
              /\ TaskAt("save", 0, task[t].to, task[t].end) \in TaskState(head)
<1>1. task[t].to \in 0..head /\ task[t].end \in 0..head /\ head \in Nat
  BY TypeFacts DEF TaskState
<1>2. CASE task[t].to < task[t].end
  <2>1. task[t].to + 1 \in 0..task[t].end
    BY <1>1, <1>2
  <2> QED
    BY <1>1, <1>2, <2>1, BatchTyped DEF EndRange
<1>3. CASE task[t].to >= task[t].end
  BY <1>1, <1>3, RestTyped DEF EndRange
<1> QED
  BY <1>1, <1>2, <1>3

LEMMA EndRangeTyped ==
    ASSUME TypeOK, NEW t \in Task, EndRange(t)
    PROVE  TypeOK'
<1>1. head' = head /\ chain' = chain
  BY DEF EndRange, head
<1>2. task' \in [Task -> TaskState(head)]'
  BY <1>1, AfterRange, TaskTyped
<1>3. lastProcessed' \in 0..head
  BY TypeFacts DEF EndRange, TypeOK, TaskState
<1> QED
  BY <1>1, <1>2, <1>3 DEF EndRange, TypeOK, database, history

LEMMA SaveLastBlockTyped ==
    ASSUME TypeOK, NEW t \in Task, SaveLastBlock(t)
    PROVE  TypeOK'
<1>1. head' = head /\ chain' = chain /\ head \in Nat
  BY TypeFacts DEF SaveLastBlock, head
<1>2. Idle \in TaskState(head)
  BY <1>1, RestTyped DEF Idle
<1>3. task' \in [Task -> TaskState(head)]'
  BY <1>1, <1>2, TaskTyped DEF SaveLastBlock
<1>4. lastBlock' \in -1..head /\ unsynced' \in Nat
  <2>1. task[t].end \in 0..head
    BY TypeFacts DEF TaskState
  <2> QED
    BY <1>1, <2>1 DEF SaveLastBlock, TypeOK
<1> QED
  BY <1>1, <1>3, <1>4 DEF SaveLastBlock, TypeOK

LEMMA DownTyped ==
    ASSUME TypeOK, Down, chain' = chain, faults < MaxFaults, faults' = faults + 1,
           UNCHANGED <<database, history>>
    PROVE  TypeOK'
<1>1. head' = head /\ head \in Nat
  BY TypeFacts DEF head
<1>2. Idle \in TaskState(head)
  BY <1>1, RestTyped DEF Idle
<1>3. task' \in [Task -> TaskState(head)]'
  BY <1>1, <1>2 DEF Down
<1> QED
  BY <1>1, <1>3, IndexerAssumption DEF Down, TypeOK, database, history

LEMMA FailTyped ==
    ASSUME TypeOK, NEW t \in Task, Fail(t)
    PROVE  TypeOK'
<1>1. CASE t = Sync
  BY <1>1, DownTyped DEF Fail
<1>2. CASE t # Sync
  <2>1. head' = head /\ head \in Nat /\ chain' = chain
    BY TypeFacts DEF Fail, head
  <2>2. Idle \in TaskState(head)
    BY <2>1, RestTyped DEF Idle
  <2>3. task' \in [Task -> TaskState(head)]'
    BY <1>2, <2>1, <2>2, TaskTyped DEF Fail
  <2> QED
    BY <1>2, <2>1, <2>3, IndexerAssumption
    DEF Fail, TypeOK, database, memory, history
<1> QED
  BY <1>1, <1>2

LEMMA StepTyped ==
    ASSUME TypeOK, TaskInv, [Next]_vars
    PROVE  TypeOK'
<1>1. ASSUME NEW created \in SUBSET Pair, NEW active \in SUBSET Pair,
             NextBlock(created, active)
      PROVE  TypeOK'
  BY <1>1, NextBlockTyped
<1>2. CASE Start
  BY <1>2, StartTyped
<1>3. ASSUME NEW t \in Task, Work(t)
      PROVE  TypeOK'
  BY <1>3, TickTyped, ReturnTyped, TakeRangeTyped, RegisterPairTyped,
     VisitPairTyped, StoreRowTyped, StoreReservesTyped, EndRangeTyped,
     SaveLastBlockTyped DEF Work
<1>4. ASSUME NEW t \in Task, Fail(t)
      PROVE  TypeOK'
  BY <1>4, FailTyped
<1>5. CASE Crash
  BY <1>5, DownTyped DEF Crash
<1>6. CASE UNCHANGED vars
  BY <1>6 DEF vars, TypeOK, head
<1> QED
  BY <1>1, <1>2, <1>3, <1>4, <1>5, <1>6 DEF Next

---------------------------------------------------------------------------
(* The parts of the invariant that a step can disturb *)

LEMMA ChainStep ==
    ASSUME TypeOK, ChainInv, [Next]_vars
    PROVE  ChainInv'
<1>1. ASSUME NEW created \in SUBSET Pair, NEW active \in SUBSET Pair,
             NextBlock(created, active)
      PROVE  ChainInv'
  <2>1. /\ head \in Nat /\ DOMAIN chain = 1..head /\ DOMAIN chain' = 1..(head + 1)
        /\ \A b \in DOMAIN chain : chain'[b] = chain[b]
        /\ chain'[head + 1] = [created |-> created, active |-> active]
    BY <1>1, TypeFacts DEF NextBlock, TypeOK, head
  <2>2. \A c \in DOMAIN chain : chain[c].created \cap created = {}
    BY <1>1 DEF NextBlock, Created
  <2>3. \A p \in active : p \in created \/ \E c \in DOMAIN chain : p \in chain[c].created
    BY <1>1 DEF NextBlock, Created
  <2>4. \A b \in DOMAIN chain' : \A p \in chain'[b].active :
            \E c \in DOMAIN chain' : c <= b /\ p \in chain'[c].created
    <3> TAKE b \in DOMAIN chain'
    <3> TAKE p \in chain'[b].active
    <3>1. CASE b \in DOMAIN chain
      BY <2>1, <3>1 DEF ChainInv
    <3>2. CASE b = head + 1
      BY <2>1, <2>3, <3>2
    <3> QED
      BY <2>1, <3>1, <3>2
  <2>5. \A b, c \in DOMAIN chain' : chain'[b].created \cap chain'[c].created # {} => b = c
    <3> SUFFICES ASSUME NEW b \in DOMAIN chain', NEW c \in DOMAIN chain',
                        chain'[b].created \cap chain'[c].created # {}, b # c
                 PROVE  FALSE
      OBVIOUS
    <3>1. CASE b \in DOMAIN chain /\ c \in DOMAIN chain
      BY <2>1, <3>1 DEF ChainInv
    <3>2. CASE b = head + 1 /\ c \in DOMAIN chain
      BY <2>1, <2>2, <3>2
    <3>3. CASE c = head + 1 /\ b \in DOMAIN chain
      BY <2>1, <2>2, <3>3
    <3> QED
      BY <2>1, <3>1, <3>2, <3>3
  <2> QED
    BY <2>4, <2>5 DEF ChainInv
<1>2. ASSUME chain' = chain
      PROVE  ChainInv'
  BY <1>2 DEF ChainInv
<1>3. ASSUME NEW t \in Task, Work(t) \/ Fail(t)
      PROVE  chain' = chain
  BY <1>3 DEF Work, Tick, Return, TakeRange, RegisterPair, VisitPair, StoreRow,
     StoreReserves, EndRange, SaveLastBlock, Fail
<1>4. Start \/ Crash \/ UNCHANGED vars => chain' = chain
  BY DEF Start, Crash, vars
<1> QED
  BY <1>1, <1>2, <1>3, <1>4 DEF Next

\* A task that is not at rest says which phase it is.
LEMMA PhaseStep ==
    ASSUME TypeOK, TaskInv, PhaseInv, [Next]_vars
    PROVE  PhaseInv'
<1>0. Sync \notin Poll /\ Sync \in Task /\ Poll \subseteq Task
  BY IndexerAssumption DEF Task
<1>1. ASSUME NEW created \in SUBSET Pair, NEW active \in SUBSET Pair,
             NextBlock(created, active)
      PROVE  PhaseInv'
  <2>1. head' = head + 1 /\ head \in Nat /\ unsynced \in Nat
    BY <1>1, TypeFacts DEF NextBlock, TypeOK, head
  <2> QED
    BY <1>1, <2>1, IndexerAssumption DEF NextBlock, PhaseInv, memory, history
<1>2. CASE Start
  <2>1. head' = head /\ head \in Nat
    BY <1>2, TypeFacts DEF Start, head
  <2>2. syncFrom - 1 <= head \/ syncFrom = startBlock
    BY <2>1 DEF syncFrom, TypeOK
  <2>3. \A t \in Task : task[t].pc = "idle"
    BY <1>2 DEF Start, PhaseInv, Task
  <2>4. \A t \in Poll : task'[t].pc = "idle"
    BY <1>0, <1>2, <2>3, OthersRest DEF Start
  <2>5. phase' = "syncing" \/ task'[Sync].pc = "idle"
    BY <1>0, <1>2, <2>3 DEF Start
  <2> QED
    BY <1>2, <2>1, <2>2, <2>4, <2>5 DEF Start, PhaseInv
<1>3. ASSUME NEW t \in Poll, Tick(t) \/ Return(t) \/ TakeRange(t)
      PROVE  PhaseInv'
  <2>1. phase = "polling" /\ phase' = phase /\ head' = head /\ unsynced' = unsynced
    <3>1. task[t].pc # "idle" => phase = "polling"
      BY DEF PhaseInv
    <3> QED
      BY <1>3, <3>1 DEF Tick, Return, TakeRange, memory, history, head
  <2>2. \A u \in Task \ {t} : task'[u] = task[u]
    BY <1>0, <1>3, OthersRest DEF Tick, Return, TakeRange
  <2> QED
    BY <1>0, <2>1, <2>2 DEF PhaseInv
<1>4. ASSUME NEW t \in Task,
             \/ \E p \in Pair : RegisterPair(t, p) \/ VisitPair(t, p)
             \/ StoreRow(t) \/ StoreReserves(t) \/ EndRange(t)
      PROVE  PhaseInv'
  <2>1. phase' = phase /\ head' = head /\ unsynced' = unsynced
    BY <1>4 DEF RegisterPair, VisitPair, StoreRow, StoreReserves, EndRange,
       memory, history, head
  <2>2. \A u \in Task \ {t} : task'[u] = task[u]
    BY <1>4, OthersRest DEF RegisterPair, VisitPair, StoreRow, StoreReserves,
       EndRange
  <2>3. task[t].pc # "idle"
    <3>1. task[t].left # {} \/ task[t].at # NoPair => task[t].pc = "range"
      BY DEF TaskInv, Shape
    <3> QED
      BY <1>4, <3>1 DEF RegisterPair, VisitPair, StoreRow, StoreReserves, EndRange
  <2>4. t \in Poll => phase = "polling"
    BY <2>3 DEF PhaseInv
  <2>5. t = Sync => phase = "syncing" /\ lastProcessed' = lastProcessed
    BY <1>0, <1>4, <2>3
    DEF PhaseInv, RegisterPair, VisitPair, StoreRow, StoreReserves, EndRange, memory
  <2> QED
    BY <1>0, <2>1, <2>2, <2>4, <2>5 DEF PhaseInv, Task
<1>5. ASSUME NEW t \in Task, SaveLastBlock(t)
      PROVE  PhaseInv'
  <2>1. head' = head /\ head \in Nat /\ task[t].end \in 0..head
    BY <1>5, TypeFacts DEF SaveLastBlock, TaskState, head
  <2>2. phase' = "polling" /\ task'[t].pc = "idle"
    BY <1>5, OthersRest DEF SaveLastBlock, Idle, TaskAt
  <2>3. \A u \in Task \ {t} : task'[u] = task[u]
    BY <1>5, OthersRest DEF SaveLastBlock
  <2>4. task'[Sync].pc = "idle"
    BY <1>0, <1>5, <2>2, <2>3 DEF PhaseInv, SaveLastBlock, Task
  <2>5. unsynced' - 1 <= head \/ unsynced' = startBlock
    BY <1>5, <2>1 DEF SaveLastBlock, PhaseInv
  <2> QED
    BY <2>1, <2>2, <2>4, <2>5 DEF PhaseInv
<1>6. ASSUME NEW t \in Task, Down, UNCHANGED <<chain, database, history>>
      PROVE  PhaseInv'
  BY <1>0, <1>6 DEF Down, PhaseInv, Idle, TaskAt, head, history
<1>7. ASSUME NEW t \in Poll, Fail(t)
      PROVE  PhaseInv'
  <2>1. /\ \A u \in Task \ {t} : task'[u] = task[u]
        /\ task'[t].pc = "idle"
    BY <1>0, <1>7, OthersRest DEF Fail, Idle, TaskAt
  <2> QED
    BY <1>0, <1>7, <2>1 DEF Fail, PhaseInv, memory, history, head
<1>8. CASE UNCHANGED vars
  BY <1>8 DEF vars, PhaseInv, head
<1> QED
  BY <1>0, <1>1, <1>2, <1>3, <1>4, <1>5, <1>6, <1>7, <1>8 DEF Next, Work, Crash, Fail, Task

---------------------------------------------------------------------------
(* What is covered *)

\* A step on an unchanged chain that only adds.
Grows ==
    /\ chain' = chain
    /\ DOMAIN rows \subseteq DOMAIN rows'
    /\ pairs \subseteq pairs' /\ trackedPairs \subseteq trackedPairs'
    /\ skipped \subseteq skipped'

LEMMA GrowingKeeps ==
    ASSUME Grows
    PROVE  /\ \A n : Covers(trackedPairs, n) => Covers(trackedPairs, n)'
           /\ \A n : Covers(pairs, n) => Covers(pairs, n)'
           /\ \A w : Behind(w) => Behind(w)'
           /\ \A w : Shape(w) => Shape(w)'
<1>1. /\ \A n : Covers(trackedPairs, n) => Covers(trackedPairs, n)'
      /\ \A n : Covers(pairs, n) => Covers(pairs, n)'
  BY DEF Grows, Covers, CompleteTo, KnownTo, Stored, Hidden
<1>2. \A w : Behind(w) => Behind(w)'
  BY <1>1 DEF Grows, Behind, EventsIn, Stored
<1>3. \A w : Shape(w) => Shape(w)'
  BY DEF Grows, Shape, EventsIn
<1> QED
  BY <1>1, <1>2, <1>3

\* Such a step keeps MemoryInv and DatabaseInv if it leaves the marks alone.
LEMMA MarksRest ==
    ASSUME Grows, MemoryInv, DatabaseInv,
           phase' = phase, unsynced' = unsynced,
           lastProcessed' = lastProcessed, lastBlock' = lastBlock
    PROVE  MemoryInv' /\ DatabaseInv'
BY GrowingKeeps DEF MemoryInv, DatabaseInv

\* Only the task that takes the step has to be looked at.
LEMMA OneTaskMoves ==
    ASSUME TypeOK, TaskInv, Grows, NEW t \in Task, NEW w, Become(t, w),
           Shape(w)', Behind(w)'
    PROVE  TaskInv'
<1>1. task'[t] = w /\ \A u \in Task \ {t} : task'[u] = task[u]
  BY OthersRest
<1> SUFFICES ASSUME NEW u \in Task
             PROVE  Shape(task[u])' /\ Behind(task[u])'
  BY DEF TaskInv
<1>2. CASE u = t
  BY <1>1, <1>2 DEF Shape, Behind
<1>3. CASE u # t
  <2>1. PICK v : v = task[u]
    OBVIOUS
  <2>2. task'[u] = v /\ Shape(v) /\ Behind(v)
    BY <1>1, <1>3, <2>1 DEF TaskInv
  <2>3. Shape(v)' /\ Behind(v)'
    BY <2>2, GrowingKeeps
  <2> QED
    BY <2>2, <2>3 DEF Shape, Behind
<1> QED
  BY <1>2, <1>3

CoverInv == TaskInv /\ MemoryInv /\ DatabaseInv

\* A new block adds nothing that is covered already.
LEMMA NextBlockCovers ==
    ASSUME TypeOK, PhaseInv, CoverInv,
           NEW created \in SUBSET Pair, NEW active \in SUBSET Pair,
           NextBlock(created, active)
    PROVE  CoverInv'
<1> DEFINE x == [created |-> created, active |-> active]
<1>1. x \in Block /\ chain' = Append(chain, x)
  BY DEF NextBlock, Block
<1>2. /\ head \in Nat /\ DOMAIN chain = 1..head /\ DOMAIN chain' = 1..(head + 1)
      /\ \A b \in DOMAIN chain : chain'[b] = chain[b]
  BY <1>1, TypeFacts DEF TypeOK, head
<1>3. UNCHANGED <<database, memory, task, history>>
  BY DEF NextBlock
<1>4. ASSUME NEW S, NEW n \in Int, n <= head \/ n < startBlock, Covers(S, n)
      PROVE  Covers(S, n)'
  <2>1. \A b \in DOMAIN chain' : b <= n => b \in DOMAIN chain \/ b < startBlock
    BY <1>2, <1>4, IndexerAssumption
  <2>2. CompleteTo(n)'
    BY <1>2, <1>3, <1>4, <2>1
    DEF Covers, CompleteTo, Stored, Hidden, database, history
  <2>3. KnownTo(S, n)'
    BY <1>2, <1>3, <1>4, <2>1, IndexerAssumption DEF Covers, KnownTo, history
  <2> QED
    BY <2>2, <2>3 DEF Covers
<1>5. MemoryInv'
  <2>1. lastProcessed \in 0..head /\ unsynced \in Nat
    BY DEF TypeOK
  <2>2. unsynced - 1 <= head \/ unsynced - 1 < startBlock
    BY <2>1, IndexerAssumption DEF PhaseInv
  <2>3. PICK S, n, m : S = trackedPairs /\ n = unsynced - 1 /\ m = lastProcessed
    OBVIOUS
  <2>4. phase = "polling" => Covers(S, n)' /\ Covers(S, m)'
    BY <1>2, <1>4, <2>1, <2>2, <2>3 DEF CoverInv, MemoryInv
  <2>5. S = trackedPairs' /\ n = unsynced' - 1 /\ m = lastProcessed' /\ phase' = phase
    BY <1>3, <2>3 DEF memory, history
  <2> QED
    BY <2>4, <2>5 DEF MemoryInv, Covers, CompleteTo, KnownTo
<1>6. DatabaseInv'
  <2>1. PICK S, n : S = pairs /\ n = lastBlock
    OBVIOUS
  <2>2. Covers(S, n)'
    BY <1>2, <1>4, <2>1 DEF CoverInv, DatabaseInv, TypeOK
  <2>3. S = pairs' /\ n = lastBlock'
    BY <1>3, <2>1 DEF database
  <2> QED
    BY <2>2, <2>3 DEF DatabaseInv, Covers, CompleteTo, KnownTo
<1>7. TaskInv'
  <2> SUFFICES ASSUME NEW t \in Task
               PROVE  Shape(task[t])' /\ Behind(task[t])'
    BY DEF TaskInv
  <2>1. PICK w, S : w = task[t] /\ S = trackedPairs
    OBVIOUS
  <2>2. /\ task'[t] = w /\ S = trackedPairs' /\ w \in TaskState(head)
        /\ Shape(w) /\ Behind(w)
    BY <1>3, <2>1, TypeFacts DEF CoverInv, TaskInv, memory
  <2>3. /\ w.from \in 0..head /\ w.to \in 0..head /\ w.end \in 0..head
        /\ w.done \subseteq Pair /\ w.at \in Pair \cup {NoPair}
    BY <2>2 DEF TaskState
  <2>4. \A p \in Pair : EventsIn(p, w.from, w.to)' = EventsIn(p, w.from, w.to)
    BY <1>1, <1>2, <2>3, EventsStay
  <2>5. Shape(w)'
    BY <1>3, <2>2, <2>3, <2>4 DEF Shape, memory
  <2>6. w.pc = "range" => Covers(S, w.from - 1)'
    BY <1>2, <1>4, <2>1, <2>2, <2>3 DEF Behind
  <2>7. w.pc = "save" => Covers(S, w.end)'
    BY <1>2, <1>4, <2>1, <2>2, <2>3 DEF Behind
  <2>8. Covers(trackedPairs, w.from - 1)' <=> Covers(S, w.from - 1)'
    BY <2>2 DEF Covers, KnownTo
  <2>9. Covers(trackedPairs, w.end)' <=> Covers(S, w.end)'
    BY <2>2 DEF Covers, KnownTo
  <2>10. Behind(w)'
    BY <1>3, <2>2, <2>3, <2>4, <2>6, <2>7, <2>8, <2>9 DEF Behind, Stored, database
  <2> QED
    BY <2>2, <2>5, <2>10 DEF Shape, Behind
<1> QED
  BY <1>5, <1>6, <1>7 DEF CoverInv

\* A task that holds no range and saves nothing has nothing to answer for.
LEMMA RestCovers ==
    ASSUME NEW pc \in {"idle", "asked"}, NEW from, NEW to, NEW end,
           NEW w, w = TaskAt(pc, from, to, end)
    PROVE  Shape(w)' /\ Behind(w)'
BY DEF TaskAt, Shape, Behind

LEMMA TickCovers ==
    ASSUME TypeOK, CoverInv, NEW t \in Poll, Tick(t) \/ Return(t)
    PROVE  CoverInv'
<1>1. Grows /\ t \in Task
  BY DEF Tick, Return, Grows, database, memory, history, Task
<1>2. PICK w : /\ Become(t, w)
               /\ w = TaskAt("asked", 0, head, head) \/ w = TaskAt("idle", 0, 0, 0)
  BY DEF Tick, Return, Idle
<1>3. Shape(w)' /\ Behind(w)'
  BY <1>2, RestCovers
<1>4. TaskInv'
  BY <1>1, <1>2, <1>3, OneTaskMoves DEF CoverInv
<1>5. MemoryInv' /\ DatabaseInv'
  BY <1>1, MarksRest DEF CoverInv, Tick, Return, database, memory, history
<1> QED
  BY <1>4, <1>5 DEF CoverInv

\* After a crash, or a failed sync, nothing is in memory; the database stands.
LEMMA DownCovers ==
    ASSUME CoverInv, Down, UNCHANGED <<chain, database, history>>
    PROVE  CoverInv'
<1>1. DatabaseInv'
  BY DEF CoverInv, DatabaseInv, Covers, CompleteTo, KnownTo, Stored, Hidden,
     database, history
<1>2. MemoryInv'
  BY DEF Down, MemoryInv
<1>3. TaskInv'
  <2> SUFFICES ASSUME NEW t \in Task
               PROVE  Shape(task[t])' /\ Behind(task[t])'
    BY DEF TaskInv
  <2>1. task'[t] = TaskAt("idle", 0, 0, 0)
    BY DEF Down, Idle
  <2> QED
    BY <2>1 DEF TaskAt, Shape, Behind
<1> QED
  BY <1>1, <1>2, <1>3 DEF CoverInv

LEMMA FailCovers ==
    ASSUME TypeOK, CoverInv, NEW t \in Task, Fail(t)
    PROVE  CoverInv'
<1>1. CASE t = Sync
  BY <1>1, DownCovers DEF Fail
<1>2. CASE t # Sync
  <2>1. Grows
    BY <1>2 DEF Fail, Grows, database, memory, history
  <2>2. PICK w : Become(t, w) /\ w = TaskAt("idle", 0, 0, 0)
    BY <1>2 DEF Fail, Idle
  <2>3. Shape(w)' /\ Behind(w)'
    BY <2>2, RestCovers
  <2>4. TaskInv'
    BY <2>1, <2>2, <2>3, OneTaskMoves DEF CoverInv
  <2>5. MemoryInv' /\ DatabaseInv'
    BY <1>2, <2>1, MarksRest DEF CoverInv, Fail, database, memory, history
  <2> QED
    BY <2>4, <2>5 DEF CoverInv
<1> QED
  BY <1>1, <1>2

LEMMA RegisterPairCovers ==
    ASSUME TypeOK, CoverInv, NEW t \in Task, NEW p \in Pair, RegisterPair(t, p)
    PROVE  CoverInv'
<1>1. Grows
  BY DEF RegisterPair, Grows, history
<1>2. MemoryInv' /\ DatabaseInv'
  BY <1>1, MarksRest DEF CoverInv, RegisterPair, history
<1>3. PICK w : w = task[t]
  OBVIOUS
<1>4. Become(t, w) /\ Shape(w) /\ Behind(w)
  BY <1>3 DEF RegisterPair, Become, TypeOK, CoverInv, TaskInv
<1>5. TaskInv'
  BY <1>1, <1>4, GrowingKeeps, OneTaskMoves DEF CoverInv
<1> QED
  BY <1>2, <1>5 DEF CoverInv

LEMMA VisitPairCovers ==
    ASSUME TypeOK, CoverInv, NEW t \in Task, NEW p \in Pair, VisitPair(t, p)
    PROVE  CoverInv'
<1>1. Grows
  BY DEF VisitPair, Grows, database, memory, history
<1>2. MemoryInv' /\ DatabaseInv'
  BY <1>1, MarksRest DEF CoverInv, VisitPair, database, memory, history
<1>3. PICK v : v = task[t]
  OBVIOUS
<1>4. /\ v.pc = "range" /\ v.at = NoPair /\ p \in trackedPairs /\ p # NoPair
      /\ Shape(v) /\ Behind(v) /\ v \in TaskState(head)
  BY <1>3, TypeFacts, IndexerAssumption DEF VisitPair, CoverInv, TaskInv
<1>5. PICK w : /\ Become(t, w)
               /\ w = IF EventsIn(p, v.from, v.to) = {}
                      THEN [v EXCEPT !.done = @ \cup {p}]
                      ELSE [v EXCEPT !.at = p, !.left = EventsIn(p, v.from, v.to)]
  BY <1>3 DEF VisitPair
<1>6. Shape(w) /\ Behind(w)
  <2>1. CASE EventsIn(p, v.from, v.to) = {}
    <3>1. /\ w.pc = v.pc /\ w.from = v.from /\ w.to = v.to /\ w.end = v.end
          /\ w.at = v.at /\ w.left = v.left /\ w.done = v.done \cup {p}
      BY <1>4, <1>5, <2>1 DEF TaskState
    <3> QED
      BY <1>4, <2>1, <3>1 DEF Shape, Behind
  <2>2. CASE EventsIn(p, v.from, v.to) # {}
    <3>1. /\ w.pc = v.pc /\ w.from = v.from /\ w.to = v.to /\ w.end = v.end
          /\ w.at = p /\ w.left = EventsIn(p, v.from, v.to) /\ w.done = v.done
      BY <1>4, <1>5, <2>2 DEF TaskState
    <3> QED
      BY <1>4, <2>2, <3>1 DEF Shape, Behind
  <2> QED
    BY <2>1, <2>2
<1>7. TaskInv'
  BY <1>1, <1>5, <1>6, GrowingKeeps, OneTaskMoves DEF CoverInv
<1> QED
  BY <1>2, <1>7 DEF CoverInv

LEMMA StoreRowCovers ==
    ASSUME TypeOK, CoverInv, NEW t \in Task, StoreRow(t)
    PROVE  CoverInv'
<1>1. PICK v, b : v = task[t] /\ b = Smallest(v.left)
  OBVIOUS
<1>2. /\ v.pc = "range" /\ v.at # NoPair /\ b \in v.left
      /\ Shape(v) /\ Behind(v) /\ v \in TaskState(head)
  BY <1>1, NextRow, TypeFacts DEF StoreRow, CoverInv, TaskInv
<1>3. DOMAIN rows' = DOMAIN rows \cup {<<v.at, b>>}
  BY <1>1, AddedRow DEF StoreRow, TypeOK
<1>4. Grows
  BY <1>3 DEF StoreRow, Grows, memory, history
<1>5. MemoryInv' /\ DatabaseInv'
  BY <1>4, MarksRest DEF CoverInv, StoreRow, memory, history
<1>6. PICK w : Become(t, w) /\ w = [v EXCEPT !.left = @ \ {b}]
  BY <1>1 DEF StoreRow
<1>7. /\ w.pc = v.pc /\ w.from = v.from /\ w.to = v.to /\ w.end = v.end
      /\ w.at = v.at /\ w.left = v.left \ {b} /\ w.done = v.done
  BY <1>2, <1>6 DEF TaskState
<1>8. Shape(v)' /\ Behind(v)'
  BY <1>2, <1>4, GrowingKeeps
<1>9. Shape(w)'
  BY <1>2, <1>7, <1>8 DEF Shape
<1>10. Stored(v.at, b)'
  BY <1>3 DEF Stored
<1>11. Behind(w)'
  BY <1>2, <1>7, <1>8, <1>10 DEF Behind
<1>12. TaskInv'
  BY <1>4, <1>6, <1>9, <1>11, OneTaskMoves DEF CoverInv
<1> QED
  BY <1>5, <1>12 DEF CoverInv

LEMMA StoreReservesCovers ==
    ASSUME TypeOK, CoverInv, NEW t \in Task, StoreReserves(t)
    PROVE  CoverInv'
<1>1. Grows
  BY DEF StoreReserves, Grows, memory, history
<1>2. MemoryInv' /\ DatabaseInv'
  BY <1>1, MarksRest DEF CoverInv, StoreReserves, memory, history
<1>3. PICK v : v = task[t]
  OBVIOUS
<1>4. /\ v.at # NoPair /\ v.left = {} /\ v.pc = "range"
      /\ Shape(v) /\ Behind(v) /\ v \in TaskState(head)
  BY <1>3, TypeFacts DEF StoreReserves, CoverInv, TaskInv, Shape
<1>5. PICK w : Become(t, w) /\ w = [v EXCEPT !.done = @ \cup {v.at}, !.at = NoPair]
  BY <1>3 DEF StoreReserves
<1>6. /\ w.pc = v.pc /\ w.from = v.from /\ w.to = v.to /\ w.end = v.end
      /\ w.at = NoPair /\ w.left = {} /\ w.done = v.done \cup {v.at}
  BY <1>4, <1>5 DEF TaskState
<1>7. Shape(w) /\ Behind(w)
  BY <1>4, <1>6 DEF Shape, Behind
<1>8. TaskInv'
  BY <1>1, <1>5, <1>7, GrowingKeeps, OneTaskMoves DEF CoverInv
<1> QED
  BY <1>2, <1>8 DEF CoverInv

\* Whatever lies before the range of a poll is covered, or skipped now.
LEMMA TakeRangeCovers ==
    ASSUME TypeOK, PhaseInv, CoverInv, NEW t \in Poll, TakeRange(t)
    PROVE  CoverInv'
<1>1. Grows /\ t \in Task
  BY DEF TakeRange, Skip, Grows, database, memory, Task
<1>2. MemoryInv' /\ DatabaseInv'
  BY <1>1, MarksRest DEF CoverInv, TakeRange, database, memory
<1>3. PICK to, from : /\ to = task[t].to /\ to \in 1..head /\ from \in 1..to
                      /\ Become(t, RangeTask(from, to, to))
                      /\ from = IF lastProcessed = 0 THEN to ELSE lastProcessed + 1
  BY TakenRange
<1>4. /\ Covers(trackedPairs, unsynced - 1)'
      /\ Covers(trackedPairs, lastProcessed)'
  <2>1. phase = "polling"
    BY DEF TakeRange, PhaseInv
  <2> QED
    BY <1>1, <2>1, GrowingKeeps DEF CoverInv, MemoryInv, TakeRange, memory, Covers,
       CompleteTo, KnownTo
<1>5. Covers(trackedPairs, from - 1)'
  <2>1. CASE lastProcessed = 0
    <3>1. skipped' = skipped \cup (unsynced..(to - 1)) /\ unsynced' = unsynced
      BY <1>3, <2>1 DEF TakeRange, Skip
    <3>2. \A b \in DOMAIN chain' : b <= from - 1 =>
              b <= unsynced' - 1 \/ b \in skipped'
      BY <1>1, <1>3, <2>1, <3>1, TypeFacts DEF TypeOK, Grows
    <3> QED
      BY <1>4, <3>2 DEF Covers, CompleteTo, KnownTo, Hidden
  <2>2. CASE lastProcessed # 0
    <3>1. from - 1 = lastProcessed /\ lastProcessed' = lastProcessed
      BY <1>3, <2>2 DEF TypeOK, TakeRange, memory
    <3> QED
      BY <1>4, <3>1 DEF Covers, CompleteTo, KnownTo
  <2> QED
    BY <2>1, <2>2
<1>6. PICK w : Become(t, w) /\ w = TaskAt("range", from, to, to)
  BY <1>3 DEF RangeTask
<1>7. Shape(w)' /\ Behind(w)'
  BY <1>5, <1>6 DEF TaskAt, Shape, Behind
<1>8. TaskInv'
  BY <1>1, <1>6, <1>7, OneTaskMoves DEF CoverInv
<1> QED
  BY <1>2, <1>8 DEF CoverInv

\* At its end a range is covered: a pair with an event in it is either tracked,
\* and was visited, or was created where the indexer does not look.
LEMMA RangeIsCovered ==
    ASSUME TypeOK, ChainInv, CoverInv, NEW t \in Task, EndRange(t)
    PROVE  Covers(trackedPairs, task[t].to)
<1>1. PICK v : v = task[t]
  OBVIOUS
<1>2. /\ v.pc = "range" /\ Behind(v) /\ v \in TaskState(head)
      /\ PairsCreatedIn(v.from, v.to) \subseteq trackedPairs
      /\ trackedPairs \subseteq v.done
  BY <1>1, TypeFacts DEF EndRange, CoverInv, TaskInv, found
<1>3. /\ v.from \in Nat /\ v.to \in Nat /\ DOMAIN chain = 1..head /\ head \in Nat
  BY <1>2, TypeFacts DEF TaskState
<1>4. Covers(trackedPairs, v.from - 1)
  BY <1>2 DEF Behind
<1>5. \A c \in DOMAIN chain : c <= v.to =>
          c <= v.from - 1 \/ chain[c].created \subseteq trackedPairs
  <2> SUFFICES ASSUME NEW c \in DOMAIN chain, c <= v.to, ~(c <= v.from - 1)
               PROVE  chain[c].created \subseteq trackedPairs
    OBVIOUS
  <2>1. c \in DOMAIN chain \cap (v.from..v.to)
    BY <1>3
  <2> QED
    BY <1>2, <2>1 DEF PairsCreatedIn
<1>6. KnownTo(trackedPairs, v.to)
  BY <1>4, <1>5 DEF Covers, KnownTo
<1>7. CompleteTo(v.to)
  <2> SUFFICES ASSUME NEW b \in DOMAIN chain, b <= v.to, NEW p \in chain[b].active
               PROVE  Stored(p, b) \/ Hidden(p, b)
    BY DEF CompleteTo
  <2>1. CASE b <= v.from - 1
    BY <1>4, <2>1 DEF Covers, CompleteTo
  <2>2. CASE ~(b <= v.from - 1) /\ p \in trackedPairs
    <3>1. b \in EventsIn(p, v.from, v.to)
      BY <1>3, <2>2 DEF EventsIn
    <3> QED
      BY <1>2, <2>2, <3>1 DEF Behind
  <2>3. CASE p \notin trackedPairs
    <3>1. PICK c \in DOMAIN chain : c <= b /\ p \in chain[c].created
      BY DEF ChainInv
    <3>2. c <= v.to
      BY <1>3, <3>1
    <3>3. c \in skipped \/ c < startBlock
      BY <1>3, <1>6, <2>3, <3>1, <3>2, IndexerAssumption DEF KnownTo
    <3> QED
      BY <3>1, <3>3 DEF Hidden
  <2> QED
    BY <2>1, <2>2, <2>3
<1> QED
  BY <1>1, <1>6, <1>7 DEF Covers

LEMMA EndRangeCovers ==
    ASSUME TypeOK, ChainInv, CoverInv, NEW t \in Task, EndRange(t)
    PROVE  CoverInv'
<1>1. Grows /\ trackedPairs' = trackedPairs
  BY DEF EndRange, Grows, database, history
<1>2. PICK to, end : to = task[t].to /\ end = task[t].end
  OBVIOUS
<1>3. to \in Nat /\ end \in Nat
  BY <1>2, TypeFacts DEF TaskState
<1>4. Covers(trackedPairs, to)'
  BY <1>1, <1>2, RangeIsCovered, GrowingKeeps
<1>5. PICK w : /\ Become(t, w)
               /\ \/ w = Batch(to + 1, end) /\ to < end
                  \/ w = TaskAt("save", 0, to, end) /\ to >= end
  BY <1>2, AfterRange
<1>6. Shape(w)' /\ Behind(w)'
  <2>1. CASE w = Batch(to + 1, end) /\ to < end
    <3>1. PICK last : w = [pc |-> "range", from |-> to + 1, to |-> last,
                           end |-> end, done |-> {}, at |-> NoPair, left |-> {}]
      <4>1. to + 1 \in 0..end
        BY <1>3, <2>1
      <4> QED
        BY <1>3, <2>1, <4>1, BatchShape
    <3>2. w.from - 1 = to
      BY <1>3, <3>1
    <3> QED
      BY <1>4, <3>1, <3>2 DEF Shape, Behind
  <2>2. CASE w = TaskAt("save", 0, to, end) /\ to >= end
    <3>1. Covers(trackedPairs, end)'
      <4>1. \A b \in DOMAIN chain' : b <= end => b <= to
        BY <1>1, <1>3, <2>2, TypeFacts DEF Grows
      <4> QED
        BY <1>4, <4>1 DEF Covers, CompleteTo, KnownTo
    <3> QED
      BY <2>2, <3>1 DEF TaskAt, Shape, Behind
  <2> QED
    BY <1>5, <2>1, <2>2
<1>7. TaskInv'
  BY <1>1, <1>5, <1>6, OneTaskMoves DEF CoverInv
<1>8. DatabaseInv'
  BY <1>1, GrowingKeeps DEF CoverInv, DatabaseInv, EndRange, database, Covers,
     CompleteTo, KnownTo
<1>9. MemoryInv'
  <2> SUFFICES ASSUME phase' = "polling"
               PROVE  /\ Covers(trackedPairs, unsynced - 1)'
                      /\ Covers(trackedPairs, lastProcessed)'
    BY DEF MemoryInv
  <2>1. /\ Covers(trackedPairs, unsynced - 1) /\ Covers(trackedPairs, lastProcessed)
        /\ unsynced' = unsynced
        /\ lastProcessed' = to \/ lastProcessed' = lastProcessed
    BY <1>2 DEF EndRange, CoverInv, MemoryInv, history
  <2>2. PICK n, m : n = unsynced - 1 /\ m = lastProcessed
    OBVIOUS
  <2>3. Covers(trackedPairs, n)' /\ Covers(trackedPairs, m)'
    BY <1>1, <2>1, <2>2, GrowingKeeps
  <2> QED
    BY <1>4, <2>1, <2>2, <2>3 DEF Covers, CompleteTo, KnownTo
<1> QED
  BY <1>7, <1>8, <1>9 DEF CoverInv

LEMMA SaveLastBlockCovers ==
    ASSUME TypeOK, PhaseInv, CoverInv, NEW t \in Task, SaveLastBlock(t)
    PROVE  CoverInv'
<1>1. Grows /\ trackedPairs' = trackedPairs /\ trackedPairs \subseteq pairs
  BY DEF SaveLastBlock, Grows, TypeOK
<1>2. PICK v : v = task[t]
  OBVIOUS
<1>3. v.pc = "save" /\ Covers(trackedPairs, v.end) /\ v.end \in Nat
  BY <1>2, TypeFacts DEF SaveLastBlock, CoverInv, TaskInv, Behind, TaskState
<1>4. Covers(trackedPairs, v.end)'
  BY <1>1, <1>3, GrowingKeeps
<1>5. TaskInv'
  <2>1. PICK w : Become(t, w) /\ w = TaskAt("idle", 0, 0, 0)
    BY DEF SaveLastBlock, Idle
  <2> QED
    BY <1>1, <2>1, RestCovers, OneTaskMoves DEF CoverInv
<1>6. DatabaseInv'
  <2>1. lastBlock' = v.end /\ pairs' = pairs
    BY <1>2 DEF SaveLastBlock
  <2> QED
    BY <1>1, <1>4, <2>1 DEF DatabaseInv, Covers, CompleteTo, KnownTo
<1>7. MemoryInv'
  <2>1. CASE t = Sync
    <3>1. unsynced' - 1 = v.end /\ lastProcessed' = 0
      BY <1>2, <1>3, <2>1 DEF SaveLastBlock, PhaseInv
    <3>2. \A b \in DOMAIN chain' : b <= 0 => FALSE
      BY <1>1, TypeFacts DEF Grows
    <3> QED
      BY <1>4, <3>1, <3>2 DEF MemoryInv, Covers, CompleteTo, KnownTo
  <2>2. CASE t # Sync
    <3>1. t \in Poll /\ phase = "polling" /\ phase' = phase
      BY <1>2, <1>3, <2>2 DEF SaveLastBlock, PhaseInv, Task
    <3>2. unsynced' = unsynced /\ lastProcessed' = lastProcessed
      BY <2>2 DEF SaveLastBlock
    <3> QED
      BY <1>1, <3>1, <3>2, GrowingKeeps DEF CoverInv, MemoryInv, Covers, CompleteTo,
         KnownTo
  <2> QED
    BY <2>1, <2>2
<1> QED
  BY <1>5, <1>6, <1>7 DEF CoverInv

\* A start forgets skipped blocks after lastBlock, and answers only for what
\* comes up to lastBlock.
LEMMA StartCovers ==
    ASSUME TypeOK, ChainInv, PhaseInv, CoverInv, Start
    PROVE  CoverInv'
<1>1. /\ chain' = chain /\ rows' = rows /\ pairs' = pairs /\ lastBlock' = lastBlock
      /\ trackedPairs' = pairs /\ lastProcessed' = 0 /\ unsynced' = syncFrom
      /\ skipped' = {b \in skipped : b < syncFrom}
  BY DEF Start, database
<1>2. DOMAIN chain = 1..head /\ head \in Nat /\ lastBlock \in Int /\ syncFrom \in Nat
  BY TypeFacts, IndexerAssumption DEF TypeOK, syncFrom
<1>3. lastBlock < syncFrom
  BY <1>2, IndexerAssumption DEF syncFrom
<1>4. \A b \in DOMAIN chain : b <= lastBlock =>
          \A p \in chain[b].active : Hidden(p, b) => Hidden(p, b)'
  <2> SUFFICES ASSUME NEW b \in DOMAIN chain, b <= lastBlock,
                      NEW p \in chain[b].active, Hidden(p, b)
               PROVE  Hidden(p, b)'
    OBVIOUS
  <2>1. PICK c \in DOMAIN chain : c <= b /\ p \in chain[c].created
    BY DEF ChainInv
  <2>2. \A d \in DOMAIN chain : p \in chain[d].created => d = c
    BY <2>1 DEF ChainInv
  <2>3. b < syncFrom /\ c < syncFrom
    BY <1>2, <1>3, <2>1
  <2> QED
    BY <1>1, <2>1, <2>2, <2>3 DEF Hidden
<1>5. Covers(pairs, lastBlock)'
  <2>1. CompleteTo(lastBlock)'
    BY <1>1, <1>4 DEF CoverInv, DatabaseInv, Covers, CompleteTo, Stored
  <2>2. KnownTo(pairs, lastBlock)'
    BY <1>1, <1>2, <1>3 DEF CoverInv, DatabaseInv, Covers, KnownTo
  <2> QED
    BY <2>1, <2>2 DEF Covers
<1>6. Covers(trackedPairs, syncFrom - 1)'
  <2>1. syncFrom' = syncFrom
    BY <1>1 DEF syncFrom
  <2>2. CASE lastBlock = -1
    <3>1. syncFrom = startBlock
      BY <2>2 DEF syncFrom
    <3>2. \A b \in DOMAIN chain : b <= syncFrom - 1 => b < startBlock
      BY <1>2, <3>1, IndexerAssumption
    <3>3. \A b \in DOMAIN chain : b < startBlock => ~(startBlock <= b)
      BY <1>2, IndexerAssumption
    <3> QED
      BY <1>1, <2>1, <3>2, <3>3 DEF Covers, CompleteTo, KnownTo, Hidden
  <2>3. CASE lastBlock # -1
    <3>1. syncFrom - 1 = lastBlock
      BY <1>2, <2>3 DEF syncFrom
    <3> QED
      BY <1>1, <1>5, <2>1, <3>1 DEF Covers, CompleteTo, KnownTo
  <2> QED
    BY <2>2, <2>3
<1>7. DatabaseInv'
  BY <1>5 DEF DatabaseInv
<1>8. MemoryInv'
  <2>1. unsynced' - 1 = syncFrom - 1 /\ syncFrom' = syncFrom
    BY <1>1 DEF syncFrom
  <2>2. \A b \in DOMAIN chain' : b <= 0 => FALSE
    BY <1>1, <1>2
  <2> QED
    BY <1>1, <1>6, <2>1, <2>2 DEF MemoryInv, Covers, CompleteTo, KnownTo
<1>9. TaskInv'
  <2>1. \A u \in Task : task[u].pc = "idle"
    BY DEF Start, PhaseInv, Task
  <2>2. \A u \in Task : task[u].left = {} /\ task[u].at = NoPair
    BY <2>1 DEF CoverInv, TaskInv, Shape
  <2>3. \A w : w.pc = "idle" /\ w.left = {} /\ w.at = NoPair => Shape(w)' /\ Behind(w)'
    BY DEF Shape, Behind
  <2>4. CASE syncFrom >= head
    <3>1. task' = task
      BY <1>2, <2>4 DEF Start
    <3> QED
      BY <2>1, <2>2, <3>1 DEF TaskInv, Shape, Behind
  <2>5. CASE syncFrom < head
    <3>1. syncFrom \in 0..head
      BY <1>2, <2>5
    <3>2. PICK w, to : /\ Become(Sync, w)
                       /\ w = [pc |-> "range", from |-> syncFrom, to |-> to,
                               end |-> head, done |-> {}, at |-> NoPair, left |-> {}]
      <4>1. Become(Sync, Batch(syncFrom, head))
        BY <1>2, <2>5 DEF Start
      <4>2. PICK to \in syncFrom..head :
                Batch(syncFrom, head) = [pc |-> "range", from |-> syncFrom, to |-> to,
                    end |-> head, done |-> {}, at |-> NoPair, left |-> {}]
        BY <1>2, <3>1, BatchShape
      <4> QED
        BY <4>1, <4>2
    <3>3. /\ task'[Sync] = w /\ Sync \in Task
          /\ \A u \in Task \ {Sync} : task'[u] = task[u]
      BY <3>2, TypeFacts, OthersRest
    <3>4. syncFrom' = syncFrom
      BY <1>1 DEF syncFrom
    <3>5. Shape(w)' /\ Behind(w)'
      BY <1>6, <3>2, <3>4 DEF Shape, Behind, Covers, CompleteTo, KnownTo
    <3> SUFFICES ASSUME NEW u \in Task
                 PROVE  Shape(task[u])' /\ Behind(task[u])'
      BY DEF TaskInv
    <3>6. CASE u = Sync
      BY <3>3, <3>5, <3>6 DEF Shape, Behind
    <3>7. CASE u # Sync
      BY <2>1, <2>2, <3>3, <3>7 DEF Shape, Behind
    <3> QED
      BY <3>6, <3>7
  <2> QED
    BY <1>2, <2>4, <2>5
<1> QED
  BY <1>7, <1>8, <1>9 DEF CoverInv

LEMMA CoverStep ==
    ASSUME TypeOK, ChainInv, PhaseInv, CoverInv, [Next]_vars
    PROVE  CoverInv'
<1>1. ASSUME NEW created \in SUBSET Pair, NEW active \in SUBSET Pair,
             NextBlock(created, active)
      PROVE  CoverInv'
  BY <1>1, NextBlockCovers
<1>2. CASE Start
  BY <1>2, StartCovers
<1>3. ASSUME NEW t \in Task, Work(t)
      PROVE  CoverInv'
  BY <1>3, TickCovers, TakeRangeCovers, RegisterPairCovers, VisitPairCovers,
     StoreRowCovers, StoreReservesCovers, EndRangeCovers, SaveLastBlockCovers
  DEF Work
<1>4. ASSUME NEW t \in Task, Fail(t)
      PROVE  CoverInv'
  BY <1>4, FailCovers
<1>5. CASE Crash
  BY <1>5, DownCovers DEF Crash
<1>6. CASE UNCHANGED vars
  BY <1>6 DEF vars, CoverInv, TaskInv, Shape, Behind, MemoryInv, DatabaseInv,
     Covers, CompleteTo, KnownTo, Stored, Hidden, EventsIn
<1> QED
  BY <1>1, <1>2, <1>3, <1>4, <1>5, <1>6 DEF Next

---------------------------------------------------------------------------
(* The theorems *)

LEMMA InitInv == Init => IInv
<1> SUFFICES ASSUME Init PROVE IInv
  OBVIOUS
<1>1. TypeOK
  BY InitTyped
<1>2. chain = <<>> /\ DOMAIN chain = {}
  BY DEF Init
<1>3. \A t \in Task : task[t] = TaskAt("idle", 0, 0, 0)
  BY DEF Init, Idle
<1>4. ChainInv /\ DatabaseInv
  BY <1>2 DEF ChainInv, DatabaseInv, Covers, CompleteTo, KnownTo
<1>5. PhaseInv /\ MemoryInv
  BY <1>3 DEF Init, PhaseInv, MemoryInv, TaskAt, Task
<1>6. TaskInv
  BY <1>3 DEF TaskInv, TaskAt, Shape, Behind
<1> QED
  BY <1>1, <1>4, <1>5, <1>6 DEF IInv

LEMMA StepInv ==
    ASSUME IInv, [Next]_vars
    PROVE  IInv'
<1>1. CoverInv
  BY DEF IInv, CoverInv
<1>2. TypeOK'
  BY StepTyped DEF IInv
<1>3. ChainInv' /\ PhaseInv'
  BY ChainStep, PhaseStep DEF IInv
<1>4. CoverInv'
  BY <1>1, CoverStep DEF IInv
<1> QED
  BY <1>2, <1>3, <1>4 DEF IInv, CoverInv

LEMMA Invariance == Spec => []IInv
BY InitInv, StepInv, PTL DEF Spec

\* The database, the memory and the tasks of the indexer have their shape.
THEOREM TypeCorrect == Spec => []TypeOK
<1>1. IInv => TypeOK
  BY DEF IInv
<1> QED
  BY <1>1, Invariance, PTL

\* lastBlock can be trusted: polls that overlap, fail or set it back, crashes
\* and restarts never leave an event before it out, unless a first poll skipped
\* its block or the creation of its pair.
THEOREM LastBlockIsTrue == Spec => []TrustedBlocksStored
<1>1. IInv => TrustedBlocksStored
  <2> SUFFICES ASSUME IInv, NEW b \in 1..lastBlock, NEW p \in chain[b].active
               PROVE  Stored(p, b) \/ Hidden(p, b)
    BY DEF TrustedBlocksStored
  <2>1. lastBlock \in -1..head /\ head \in Nat /\ DOMAIN chain = 1..head
    BY TypeFacts DEF IInv, TypeOK
  <2>2. b \in DOMAIN chain /\ b <= lastBlock
    BY <2>1
  <2> QED
    BY <2>2 DEF IInv, DatabaseInv, Covers, CompleteTo
<1> QED
  BY <1>1, Invariance, PTL

---------------------------------------------------------------------------
(* One poll at a time *)

\* Each poll ends within the interval, so that no two are in progress at once.
Serial == \A s, t \in Poll : s = t

\* The block up to which the process has come, or the one before it that died.
Mark ==
    IF phase = "polling"
    THEN IF lastProcessed = 0 THEN unsynced - 1 ELSE lastProcessed
    ELSE IF phase = "syncing"
         THEN IF task[Sync].pc = "range" THEN task[Sync].from - 1 ELSE task[Sync].end
         ELSE lastBlock

\* The newest row of its pair.
Newest(r) == \A s \in DOMAIN rows : s[1] = r[1] => s[2] <= r[2]

\* The reserves are those of the newest row of a pair, when it lies up to n.
FreshTo(n) ==
    \A r \in DOMAIN rows :
        Newest(r) /\ r[2] \notin skipped /\ startBlock <= r[2] /\ r[2] <= n
            => reserves[r[1]] = r[2]

\* The events up to n of the pairs in S are stored.
FullTo(S, n) ==
    \A b \in DOMAIN chain : startBlock <= b /\ b <= n /\ b \notin skipped =>
        \A p \in S \cap chain[b].active : Stored(p, b)

\* The first poll after a sync that found no newer block reads the last block
\* of the sync again.
Again(w, n) ==
    /\ phase = "polling" /\ lastProcessed = 0
    /\ w.from = w.to
    /\ n <= w.to \/ n < startBlock

\* What task t, in state w, takes up where the process has come to block n.
Turn(t, w, n) ==
    /\ w.pc = "asked" => lastBlock <= w.to /\ (n <= w.to \/ n < startBlock)
    /\ w.pc = "range" =>
          /\ w.from <= w.to /\ w.to <= w.end /\ lastBlock <= w.to
          /\ n < w.from \/ Again(w, n)
          /\ \A b \in Nat : n < b /\ b < w.from => b \in skipped
          /\ w.at # NoPair => /\ w.at \notin w.done
                              /\ w.left \subseteq EventsIn(w.at, w.from, w.to)
          /\ \A r \in DOMAIN rows :
                Newest(r) /\ r[1] \in w.done /\ w.from <= r[2] /\ r[2] <= w.to
                    => reserves[r[1]] = r[2]
          /\ t \in Poll => w.end = w.to /\ 1 <= w.from
    /\ w.pc = "save" /\ t \in Poll => lastProcessed = w.end /\ w.end # 0

RowsAreEvents == \A r \in DOMAIN rows : r[1] \in chain[r[2]].active

\* What holds beside IInv when polls do not overlap.
SerialInv ==
    /\ RowsAreEvents
    /\ phase # "down" => trackedPairs = pairs
    /\ phase = "syncing" => task[Sync].pc \in {"range", "save"}
    /\ lastBlock <= Mark
    /\ FreshTo(Mark)
    /\ FullTo(pairs, Mark)
    /\ \A t \in Task : Turn(t, task[t], Mark)

\* Then no other task is in progress beside one that is.
LEMMA Alone ==
    ASSUME Serial, PhaseInv, NEW t \in Task, task[t].pc # "idle"
    PROVE  \A u \in Task \ {t} : task[u].pc = "idle"
<1>1. CASE t = Sync
  BY <1>1 DEF PhaseInv, Task
<1>2. CASE t \in Poll
  BY <1>2 DEF PhaseInv, Serial, Task
<1> QED
  BY <1>1, <1>2 DEF Task

\* A row is a pair and a block of the chain.
LEMMA RowShape ==
    ASSUME TypeOK, NEW r \in DOMAIN rows
    PROVE  /\ r = <<r[1], r[2]>> /\ r[1] \in pairs /\ r[1] \in Pair
           /\ r[2] \in 1..head /\ r[2] \in Nat /\ r[2] \in DOMAIN chain
BY TypeFacts DEF TypeOK

\* The process has come to the head at most, unless it is to begin beyond it.
LEMMA MarkBound ==
    ASSUME TypeOK, PhaseInv
    PROVE  Mark \in Int /\ (Mark <= head \/ Mark < startBlock)
<1>1. /\ task[Sync].from \in 0..head /\ task[Sync].end \in 0..head /\ head \in Nat
      /\ unsynced \in Nat /\ lastProcessed \in 0..head /\ lastBlock \in -1..head
      /\ startBlock \in Nat
  BY TypeFacts, IndexerAssumption DEF TaskState, TypeOK
<1> QED
  BY <1>1 DEF Mark, PhaseInv

\* Only the task that takes a step has to be looked at.
LEMMA OneTurn ==
    ASSUME TypeOK, NEW t \in Task, NEW w, NEW n, Become(t, w),
           \A u \in Task \ {t} : task[u].pc = "idle",
           Turn(t, w, n)'
    PROVE  \A u \in Task : Turn(u, task[u], n)'
<1>1. task'[t] = w /\ \A u \in Task \ {t} : task'[u] = task[u]
  BY OthersRest
<1> SUFFICES ASSUME NEW u \in Task
             PROVE  Turn(u, task[u], n)'
  OBVIOUS
<1>2. CASE u = t
  BY <1>1, <1>2 DEF Turn, Again
<1>3. CASE u # t
  BY <1>1, <1>3 DEF Turn
<1> QED
  BY <1>2, <1>3

\* The parts put together.
LEMMA Together ==
    ASSUME NEW n, n = Mark', RowsAreEvents',
           phase' # "down" => trackedPairs' = pairs',
           phase' = "syncing" => task'[Sync].pc \in {"range", "save"},
           lastBlock' <= n, FreshTo(n)', FullTo(pairs, n)',
           \A t \in Task : Turn(t, task[t], n)'
    PROVE  SerialInv'
BY DEF SerialInv, FreshTo, FullTo, Turn, Again

\* A step that leaves chain, database and skipped blocks alone.
Keeps ==
    /\ chain' = chain /\ rows' = rows /\ reserves' = reserves
    /\ pairs' = pairs /\ skipped' = skipped

LEMMA KeptParts ==
    ASSUME Keeps, NEW n, FreshTo(n), FullTo(pairs, n), RowsAreEvents
    PROVE  FreshTo(n)' /\ FullTo(pairs, n)' /\ RowsAreEvents'
BY DEF Keeps, FreshTo, FullTo, RowsAreEvents, Newest, Stored

LEMMA NextBlockTurns ==
    ASSUME TypeOK, PhaseInv, SerialInv,
           NEW created \in SUBSET Pair, NEW active \in SUBSET Pair,
           NextBlock(created, active)
    PROVE  SerialInv'
<1> DEFINE x == [created |-> created, active |-> active]
<1>1. x \in Block /\ chain' = Append(chain, x)
  BY DEF NextBlock, Block
<1>2. /\ head \in Nat /\ DOMAIN chain = 1..head /\ DOMAIN chain' = 1..(head + 1)
      /\ \A b \in DOMAIN chain : chain'[b] = chain[b]
  BY <1>1, TypeFacts DEF TypeOK, head
<1>3. UNCHANGED <<database, memory, task, history>>
  BY DEF NextBlock
<1>4. PICK n : n = Mark
  OBVIOUS
<1>5. /\ n = Mark' /\ n \in Int /\ (n <= head \/ n < startBlock) /\ startBlock \in Nat
  BY <1>3, <1>4, MarkBound, IndexerAssumption DEF Mark, database, memory, history
<1>6. RowsAreEvents'
  <2>1. rows' = rows
    BY <1>3 DEF database
  <2> QED
    BY <1>2, <2>1, RowShape DEF SerialInv, RowsAreEvents
<1>7. FreshTo(n)'
  BY <1>3, <1>4 DEF SerialInv, FreshTo, Newest, database, history
<1>8. FullTo(pairs, n)'
  <2>1. \A b \in DOMAIN chain' : startBlock <= b /\ b <= n => b \in DOMAIN chain
    BY <1>2, <1>5
  <2> QED
    BY <1>2, <1>3, <1>4, <2>1 DEF SerialInv, FullTo, Stored, database, history
<1>9. \A t \in Task : Turn(t, task[t], n)'
  <2> SUFFICES ASSUME NEW t \in Task
               PROVE  Turn(t, task[t], n)'
    OBVIOUS
  <2>1. PICK w : w = task[t]
    OBVIOUS
  <2>2. w = task'[t] /\ w \in TaskState(head) /\ Turn(t, w, n)
    BY <1>3, <1>4, <2>1, TypeFacts DEF SerialInv
  <2>3. /\ w.from \in Nat /\ w.to \in 0..head /\ w.at \in Pair \cup {NoPair}
    BY <2>2, TypeFacts DEF TaskState
  <2>4. \A p \in Pair : EventsIn(p, w.from, w.to)' = EventsIn(p, w.from, w.to)
    BY <1>1, <2>3, EventsStay
  <2>5. Turn(t, w, n)'
    BY <1>3, <2>2, <2>3, <2>4
    DEF Turn, Again, Newest, database, memory, history
  <2> QED
    BY <2>2, <2>5 DEF Turn, Again
<1> QED
  BY <1>3, <1>4, <1>5, <1>6, <1>7, <1>8, <1>9, Together
  DEF SerialInv, database, memory

LEMMA StartTurns ==
    ASSUME TypeOK, PhaseInv, SerialInv, Start
    PROVE  SerialInv'
<1>1. /\ chain' = chain /\ rows' = rows /\ pairs' = pairs /\ lastBlock' = lastBlock
      /\ reserves' = reserves
      /\ trackedPairs' = pairs /\ lastProcessed' = 0 /\ unsynced' = syncFrom
      /\ skipped' = {b \in skipped : b < syncFrom} /\ phase = "down"
  BY DEF Start, database
<1>2. /\ DOMAIN chain = 1..head /\ head \in Nat /\ lastBlock \in -1..head
      /\ syncFrom \in Nat /\ Mark = lastBlock
  BY <1>1, TypeFacts, IndexerAssumption DEF TypeOK, syncFrom, Mark
<1>3. PICK n : n = syncFrom - 1
  OBVIOUS
<1>4. \A t \in Task : task[t].pc = "idle"
  BY <1>1 DEF PhaseInv, Task
<1>5. lastBlock <= n /\ n \in Int
  BY <1>2, <1>3, IndexerAssumption DEF syncFrom
<1>6. \A b \in Nat : startBlock <= b /\ b <= n => b <= lastBlock
  BY <1>2, <1>3, IndexerAssumption DEF syncFrom
<1>7. RowsAreEvents'
  BY <1>1 DEF SerialInv, RowsAreEvents
<1>8. FreshTo(n)'
  <2> SUFFICES ASSUME NEW r \in DOMAIN rows', Newest(r)', r[2] \notin skipped',
                      startBlock <= r[2], r[2] <= n
               PROVE  reserves'[r[1]] = r[2]
    BY DEF FreshTo
  <2>1. r \in DOMAIN rows /\ r[2] \in Nat
    BY <1>1, RowShape
  <2>2. r[2] <= lastBlock /\ r[2] < syncFrom
    BY <1>2, <1>3, <1>6, <2>1
  <2>3. Newest(r) /\ r[2] \notin skipped
    BY <1>1, <2>2 DEF Newest
  <2> QED
    BY <1>1, <1>2, <2>1, <2>2, <2>3 DEF SerialInv, FreshTo
<1>9. FullTo(pairs, n)'
  <2> SUFFICES ASSUME NEW b \in DOMAIN chain', startBlock <= b, b <= n,
                      b \notin skipped', NEW p \in pairs' \cap chain'[b].active
               PROVE  Stored(p, b)'
    BY DEF FullTo
  <2>1. b \in DOMAIN chain /\ b \in Nat
    BY <1>1, <1>2
  <2>2. b <= lastBlock /\ b < syncFrom
    BY <1>2, <1>3, <1>6, <2>1
  <2> QED
    BY <1>1, <1>2, <2>1, <2>2 DEF SerialInv, FullTo, Stored
<1>10. CASE syncFrom >= head
  <2>1. task' = task /\ phase' = "polling"
    BY <1>2, <1>10 DEF Start
  <2>2. n = Mark'
    BY <1>1, <1>3, <2>1 DEF Mark
  <2>3. \A t \in Task : Turn(t, task[t], n)'
    BY <1>4, <2>1 DEF Turn
  <2> QED
    BY <1>1, <1>5, <1>7, <1>8, <1>9, <2>1, <2>2, <2>3, Together
<1>11. CASE syncFrom < head
  <2>1. phase' = "syncing" /\ Become(Sync, Batch(syncFrom, head))
    BY <1>2, <1>11 DEF Start
  <2>2. syncFrom \in 0..head
    BY <1>2, <1>11
  <2>3. PICK to \in syncFrom..head :
            Batch(syncFrom, head) = [pc |-> "range", from |-> syncFrom, to |-> to,
                end |-> head, done |-> {}, at |-> NoPair, left |-> {}]
    BY <1>2, <2>2, BatchShape
  <2>4. PICK w : w = [pc |-> "range", from |-> syncFrom, to |-> to,
                      end |-> head, done |-> {}, at |-> NoPair, left |-> {}]
    OBVIOUS
  <2>5. Become(Sync, w) /\ Sync \in Task /\ task'[Sync] = w
    BY <2>1, <2>3, <2>4, TypeFacts, OthersRest
  <2>6. n = Mark'
    BY <1>3, <2>1, <2>4, <2>5 DEF Mark
  <2>7. to \in Nat /\ syncFrom <= to /\ to <= head /\ n < syncFrom /\ lastBlock <= to
    BY <1>2, <1>3, <1>5
  <2>8. \A b \in Nat : n < b /\ b < syncFrom => FALSE
    BY <1>2, <1>3
  <2>9. Turn(Sync, w, n)'
    BY <1>1, <2>4, <2>7, <2>8, IndexerAssumption DEF Turn
  <2>10. \A t \in Task : Turn(t, task[t], n)'
    BY <1>4, <2>5, <2>9, OneTurn
  <2> QED
    BY <1>1, <1>5, <1>7, <1>8, <1>9, <2>1, <2>4, <2>5, <2>6, <2>10, Together
<1> QED
  BY <1>2, <1>10, <1>11

LEMMA TickTurns ==
    ASSUME Serial, TypeOK, PhaseInv, SerialInv, NEW t \in Poll, Tick(t)
    PROVE  SerialInv'
<1>1. /\ Keeps /\ lastBlock' = lastBlock /\ UNCHANGED memory /\ unsynced' = unsynced
      /\ phase = "polling" /\ t \in Task
  BY DEF Tick, Keeps, database, history, Task
<1>2. \A u \in Task : task[u].pc = "idle"
  BY <1>1 DEF Tick, PhaseInv, Serial, Task
<1>3. PICK n, w : n = Mark /\ w = TaskAt("asked", 0, head, head)
  OBVIOUS
<1>4. n = Mark' /\ Become(t, w)
  BY <1>1, <1>3 DEF Mark, memory, Tick
<1>5. lastBlock <= head /\ (n <= head \/ n < startBlock)
  BY <1>3, MarkBound, TypeFacts DEF TypeOK
<1>6. Turn(t, w, n)'
  BY <1>1, <1>3, <1>5 DEF Turn, TaskAt
<1>7. \A u \in Task : Turn(u, task[u], n)'
  BY <1>1, <1>2, <1>4, <1>6, OneTurn
<1>8. FreshTo(n)' /\ FullTo(pairs, n)' /\ RowsAreEvents'
  BY <1>1, <1>3, KeptParts DEF SerialInv
<1> QED
  BY <1>1, <1>3, <1>4, <1>7, <1>8, Together DEF SerialInv, Keeps, memory

LEMMA ReturnTurns ==
    ASSUME Serial, TypeOK, PhaseInv, SerialInv, NEW t \in Poll, Return(t)
    PROVE  SerialInv'
<1>1. /\ Keeps /\ lastBlock' = lastBlock /\ UNCHANGED memory /\ unsynced' = unsynced
      /\ phase = "polling" /\ t \in Task /\ task[t].pc # "idle"
  BY DEF Return, Keeps, database, history, Task, PhaseInv
<1>2. PICK n, w : n = Mark /\ w = TaskAt("idle", 0, 0, 0)
  OBVIOUS
<1>3. n = Mark' /\ Become(t, w)
  BY <1>1, <1>2 DEF Mark, memory, Return, Idle
<1>4. Turn(t, w, n)'
  BY <1>2 DEF Turn, TaskAt
<1>5. \A u \in Task : Turn(u, task[u], n)'
  BY <1>1, <1>3, <1>4, OneTurn, Alone
<1>6. FreshTo(n)' /\ FullTo(pairs, n)' /\ RowsAreEvents'
  BY <1>1, <1>2, KeptParts DEF SerialInv
<1> QED
  BY <1>1, <1>2, <1>3, <1>5, <1>6, Together DEF SerialInv, Keeps, memory

LEMMA TakeRangeTurns ==
    ASSUME Serial, TypeOK, PhaseInv, SerialInv, NEW t \in Poll, TakeRange(t)
    PROVE  SerialInv'
<1>1. /\ UNCHANGED <<chain, database, memory, unsynced>>
      /\ phase = "polling" /\ t \in Task /\ task[t].pc = "asked"
      /\ skipped \subseteq skipped'
  BY DEF TakeRange, Task, PhaseInv, Skip
<1>2. PICK to, from : /\ to = task[t].to /\ to \in 1..head /\ from \in 1..to
                      /\ Become(t, RangeTask(from, to, to))
                      /\ from = IF lastProcessed = 0 THEN to ELSE lastProcessed + 1
  BY TakenRange
<1>3. PICK n, w : n = Mark /\ w = TaskAt("range", from, to, to)
  OBVIOUS
<1>4. n = Mark' /\ Become(t, w) /\ n \in Int /\ to \in Nat /\ from \in Nat
  BY <1>1, <1>2, <1>3, MarkBound, TypeFacts DEF Mark, memory, RangeTask
<1>5. lastBlock <= to /\ (n <= to \/ n < startBlock)
  BY <1>1, <1>2, <1>3 DEF SerialInv, Turn
<1>6. \A b \in Nat : n < b /\ b < from => b \in skipped'
  <2>1. CASE lastProcessed = 0
    <3>1. skipped' = skipped \cup (unsynced..(to - 1)) /\ n = unsynced - 1 /\ from = to
      BY <1>1, <1>2, <1>3, <2>1 DEF TakeRange, Skip, Mark
    <3>2. unsynced \in Nat
      BY DEF TypeOK
    <3> QED
      BY <1>4, <3>1, <3>2
  <2>2. CASE lastProcessed # 0
    <3>1. n = lastProcessed /\ from = n + 1
      BY <1>1, <1>2, <1>3, <2>2 DEF Mark
    <3> QED
      BY <1>4, <3>1
  <2> QED
    BY <2>1, <2>2
<1>7. n < from \/ Again(w, n)'
  <2>1. CASE lastProcessed = 0
    BY <1>1, <1>2, <1>3, <1>5, <2>1 DEF Again, TaskAt, memory
  <2>2. CASE lastProcessed # 0
    BY <1>1, <1>2, <1>3, <1>4, <2>2 DEF Mark
  <2> QED
    BY <2>1, <2>2
<1>8. Turn(t, w, n)'
  <2>1. /\ w.pc = "range" /\ w.from = from /\ w.to = to /\ w.end = to
        /\ w.done = {} /\ w.at = NoPair
    BY <1>3 DEF TaskAt
  <2>2. from <= to /\ 1 <= from /\ to <= to
    BY <1>2, <1>4
  <2>3. lastBlock' = lastBlock
    BY <1>1 DEF database
  <2> QED
    BY <1>5, <1>6, <1>7, <2>1, <2>2, <2>3 DEF Turn
<1>9. \A u \in Task : Turn(u, task[u], n)'
  BY <1>1, <1>4, <1>8, OneTurn, Alone
<1>10. FreshTo(n)' /\ FullTo(pairs, n)' /\ RowsAreEvents'
  BY <1>1, <1>3
  DEF SerialInv, FreshTo, FullTo, RowsAreEvents, Newest, Stored, database
<1> QED
  BY <1>1, <1>3, <1>4, <1>9, <1>10, Together DEF SerialInv, database, memory

\* A step of a task in a range that goes on with it leaves the mark alone.
LEMMA MarkStays ==
    ASSUME TypeOK, PhaseInv, NEW t \in Task, NEW w, Become(t, w),
           task[t].pc = "range", w.pc = "range", w.from = task[t].from,
           phase' = phase, lastProcessed' = lastProcessed, unsynced' = unsynced
    PROVE  Mark' = Mark
<1>1. task'[t] = w /\ \A u \in Task \ {t} : task'[u] = task[u]
  BY OthersRest
<1>2. CASE t = Sync
  BY <1>1, <1>2 DEF PhaseInv, Mark
<1>3. CASE t # Sync
  <2>1. phase = "polling"
    BY <1>3 DEF PhaseInv, Task
  <2> QED
    BY <2>1 DEF Mark
<1> QED
  BY <1>2, <1>3

\* So the sync is in a range or saves.
LEMMA SyncStaysBusy ==
    ASSUME TypeOK, SerialInv, NEW t \in Task, NEW w, Become(t, w),
           w.pc \in {"range", "save"}, phase' = phase
    PROVE  phase' = "syncing" => task'[Sync].pc \in {"range", "save"}
<1>1. Sync \in Task /\ task'[t] = w /\ \A u \in Task \ {t} : task'[u] = task[u]
  BY OthersRest, TypeFacts
<1> QED
  BY <1>1 DEF SerialInv

\* A block of the range that lies up to the mark is the last block of the sync.
LEMMA OnlyAgain ==
    ASSUME TypeOK, NEW t \in Task, NEW n \in Int, Turn(t, task[t], n),
           task[t].pc = "range", NEW b \in Nat,
           task[t].from <= b, b <= n, startBlock <= b \/ n <= task[t].to
    PROVE  /\ phase = "polling" /\ lastProcessed = 0
           /\ task[t].from = b /\ task[t].to = b /\ n = b
<1>1. task[t].from \in Nat /\ task[t].to \in Nat /\ startBlock \in Nat
  BY TypeFacts, IndexerAssumption DEF TaskState
<1> QED
  BY <1>1 DEF Turn, Again

LEMMA RegisterPairTurns ==
    ASSUME Serial, TypeOK, ChainInv, PhaseInv, MemoryInv, SerialInv,
           NEW t \in Task, NEW p \in Pair, RegisterPair(t, p)
    PROVE  SerialInv'
<1>1. /\ task[t].pc = "range" /\ p \in found(t) \ trackedPairs
      /\ pairs' = pairs \cup {p} /\ trackedPairs' = trackedPairs \cup {p}
      /\ UNCHANGED <<chain, reserves, rows, lastBlock, phase, lastProcessed,
                     task, unsynced, skipped>>
  BY DEF RegisterPair, history
<1>2. phase # "down" /\ trackedPairs = pairs
  BY <1>1 DEF PhaseInv, SerialInv, Task
<1>3. PICK n : n = Mark
  OBVIOUS
<1>4. n = Mark' /\ n \in Int
  BY <1>1, <1>3, MarkBound DEF Mark
<1>5. FullTo(pairs, n)'
  <2> SUFFICES ASSUME NEW b \in DOMAIN chain, startBlock <= b, b <= n,
                      b \notin skipped, p \in chain[b].active
               PROVE  Stored(p, b)
    BY <1>1, <1>3 DEF SerialInv, FullTo, Stored
  <2>1. PICK c \in DOMAIN chain :
            p \in chain[c].created /\ task[t].from <= c /\ c <= task[t].to
    <3>1. task[t].from \in Nat /\ task[t].to \in Nat
      BY TypeFacts DEF TaskState
    <3> QED
      BY <1>1, <3>1 DEF found, PairsCreatedIn
  <2>2. c <= b
    BY <2>1 DEF ChainInv
  <2>3. b \in Nat /\ c \in Nat /\ task[t].from \in Nat /\ task[t].to \in Nat
    BY TypeFacts DEF TaskState
  <2>4. task[t].from <= b
    BY <2>1, <2>2, <2>3
  <2>5. /\ phase = "polling" /\ lastProcessed = 0
        /\ task[t].from = b /\ task[t].to = b /\ n = b
    BY <1>1, <1>3, <1>4, <2>3, <2>4, OnlyAgain DEF SerialInv
  <2>6. c = b
    BY <2>1, <2>2, <2>3, <2>5
  <2>7. n = unsynced - 1 /\ unsynced \in Nat
    BY <1>3, <2>5 DEF Mark, TypeOK
  <2>8. KnownTo(trackedPairs, unsynced - 1)
    BY <2>5 DEF MemoryInv, Covers
  <2>9. c <= unsynced - 1
    BY <2>3, <2>5, <2>6, <2>7
  <2> QED
    BY <1>1, <2>1, <2>6, <2>8, <2>9 DEF KnownTo
<1>6. RowsAreEvents' /\ FreshTo(n)'
  BY <1>1, <1>3 DEF SerialInv, RowsAreEvents, FreshTo, Newest
<1>7. \A u \in Task : Turn(u, task[u], n)'
  <2> SUFFICES ASSUME NEW u \in Task
               PROVE  Turn(u, task[u], n)'
    OBVIOUS
  <2>1. PICK w : w = task[u]
    OBVIOUS
  <2>2. Turn(u, w, n) /\ w = task'[u]
    BY <1>1, <1>3, <2>1 DEF SerialInv
  <2>3. Turn(u, w, n)'
    BY <1>1, <2>2 DEF Turn, Again, Newest, EventsIn
  <2> QED
    BY <2>2, <2>3 DEF Turn, Again
<1> QED
  BY <1>1, <1>2, <1>3, <1>4, <1>5, <1>6, <1>7, Together DEF SerialInv

\* What a task in a range has of its turn, in short.
LEMMA TurnInRange ==
    ASSUME NEW t, NEW n, NEW v, NEW w, Turn(t, v, n), v.pc = "range",
           w.pc = "range", w.from = v.from, w.to = v.to, w.end = v.end,
           UNCHANGED <<chain, lastBlock, phase, lastProcessed, skipped>>,
           w.at # NoPair => /\ w.at \notin w.done
                            /\ w.left \subseteq EventsIn(w.at, w.from, w.to),
           \A r \in DOMAIN rows' :
              Newest(r)' /\ r[1] \in w.done /\ w.from <= r[2] /\ r[2] <= w.to
                  => reserves'[r[1]] = r[2]
    PROVE  Turn(t, w, n)'
<1>1. n < w.from \/ Again(w, n)'
  BY DEF Turn, Again
<1>2. w.at # NoPair => w.left \subseteq EventsIn(w.at, w.from, w.to)'
  BY DEF EventsIn
<1> QED
  BY <1>1, <1>2 DEF Turn

LEMMA VisitPairTurns ==
    ASSUME Serial, TypeOK, PhaseInv, SerialInv,
           NEW t \in Task, NEW p \in Pair, VisitPair(t, p)
    PROVE  SerialInv'
<1>1. /\ Keeps /\ lastBlock' = lastBlock /\ UNCHANGED memory /\ unsynced' = unsynced
      /\ task[t].pc = "range" /\ task[t].at = NoPair /\ p \notin task[t].done
  BY DEF VisitPair, Keeps, database, history
<1>2. PICK v, n : v = task[t] /\ n = Mark
  OBVIOUS
<1>3. v \in TaskState(head) /\ Turn(t, v, n) /\ p # NoPair
  BY <1>2, TypeFacts, IndexerAssumption DEF SerialInv
<1>4. PICK w : /\ Become(t, w)
               /\ w = IF EventsIn(p, v.from, v.to) = {}
                      THEN [v EXCEPT !.done = @ \cup {p}]
                      ELSE [v EXCEPT !.at = p, !.left = EventsIn(p, v.from, v.to)]
  BY <1>2 DEF VisitPair
<1>5. /\ w.pc = "range" /\ w.from = v.from /\ w.to = v.to /\ w.end = v.end
      /\ \/ /\ EventsIn(p, v.from, v.to) = {}
            /\ w.done = v.done \cup {p} /\ w.at = NoPair
         \/ w.done = v.done /\ w.at = p /\ w.left = EventsIn(p, v.from, v.to)
  <2>1. CASE EventsIn(p, v.from, v.to) = {}
    BY <1>1, <1>2, <1>3, <1>4, <2>1 DEF TaskState
  <2>2. CASE EventsIn(p, v.from, v.to) # {}
    BY <1>1, <1>2, <1>3, <1>4, <2>2 DEF TaskState
  <2> QED
    BY <2>1, <2>2
<1>6. n = Mark'
  BY <1>1, <1>2, <1>4, <1>5, MarkStays DEF memory
<1>7. \A r \in DOMAIN rows' :
          Newest(r)' /\ r[1] \in w.done /\ w.from <= r[2] /\ r[2] <= w.to
              => reserves'[r[1]] = r[2]
  <2> SUFFICES ASSUME NEW r \in DOMAIN rows, Newest(r), r[1] \in w.done,
                      w.from <= r[2], r[2] <= w.to
               PROVE  reserves[r[1]] = r[2]
    BY <1>1 DEF Keeps, Newest
  <2>1. CASE r[1] \in v.done
    BY <1>1, <1>2, <1>3, <1>5, <2>1 DEF Turn
  <2>2. CASE r[1] \notin v.done
    <3>1. r[1] = p /\ EventsIn(p, v.from, v.to) = {}
      BY <1>5, <2>2
    <3>2. p \in chain[r[2]].active /\ r[2] \in DOMAIN chain /\ r[2] \in Nat
      BY <3>1, RowShape DEF SerialInv, RowsAreEvents
    <3>3. v.from \in Nat /\ v.to \in Nat
      BY <1>3, TypeFacts DEF TaskState
    <3>4. r[2] \in EventsIn(p, v.from, v.to)
      BY <1>5, <3>2, <3>3 DEF EventsIn
    <3> QED
      BY <3>1, <3>4
  <2> QED
    BY <2>1, <2>2
<1>8. w.at # NoPair => /\ w.at \notin w.done
                       /\ w.left \subseteq EventsIn(w.at, w.from, w.to)
  BY <1>1, <1>2, <1>5
<1>9. Turn(t, w, n)'
  BY <1>1, <1>2, <1>3, <1>5, <1>7, <1>8, TurnInRange DEF Keeps, memory
<1>10. \A u \in Task : Turn(u, task[u], n)'
  BY <1>1, <1>4, <1>9, OneTurn, Alone
<1>11. FreshTo(n)' /\ FullTo(pairs, n)' /\ RowsAreEvents'
  BY <1>1, <1>2, KeptParts DEF SerialInv
<1>12. phase' = "syncing" => task'[Sync].pc \in {"range", "save"}
  BY <1>1, <1>4, <1>5, SyncStaysBusy DEF memory
<1> QED
  BY <1>1, <1>2, <1>6, <1>10, <1>11, <1>12, Together DEF SerialInv, Keeps, memory

LEMMA StoreRowTurns ==
    ASSUME Serial, TypeOK, PhaseInv, TaskInv, SerialInv,
           NEW t \in Task, StoreRow(t)
    PROVE  SerialInv'
<1>1. PICK v, b, n : v = task[t] /\ b = Smallest(v.left) /\ n = Mark
  OBVIOUS
<1>2. /\ v.pc = "range" /\ v.at # NoPair /\ v.at \in pairs /\ b \in v.left
      /\ b \in 1..head /\ v \in TaskState(head) /\ Turn(t, v, n) /\ n \in Int
  BY <1>1, NextRow, TypeFacts, MarkBound DEF StoreRow, SerialInv
<1>3. v.at \in chain[b].active /\ v.from <= b /\ b <= v.to /\ b \in DOMAIN chain
  <2>1. b \in EventsIn(v.at, v.from, v.to)
    BY <1>2 DEF Turn
  <2>2. v.from \in Nat /\ v.to \in Nat
    BY <1>2, TypeFacts DEF TaskState
  <2> QED
    BY <2>1, <2>2 DEF EventsIn
<1>4. DOMAIN rows' = DOMAIN rows \cup {<<v.at, b>>}
  BY <1>1, AddedRow DEF StoreRow, TypeOK
<1>5. UNCHANGED <<chain, pairs, reserves, lastBlock, memory, history>>
  BY DEF StoreRow
<1>6. PICK w : Become(t, w) /\ w = [v EXCEPT !.left = @ \ {b}]
  BY <1>1 DEF StoreRow
<1>7. /\ w.pc = v.pc /\ w.from = v.from /\ w.to = v.to /\ w.end = v.end
      /\ w.at = v.at /\ w.left = v.left \ {b} /\ w.done = v.done
  BY <1>2, <1>6 DEF TaskState
<1>8. n = Mark'
  BY <1>1, <1>2, <1>5, <1>6, <1>7, MarkStays DEF memory, history
<1>9. RowsAreEvents'
  BY <1>3, <1>4, <1>5 DEF SerialInv, RowsAreEvents
<1>10. \A r \in DOMAIN rows : Newest(r)' => Newest(r)
  BY <1>4 DEF Newest
<1>11. FreshTo(n)'
  <2> SUFFICES ASSUME NEW r \in DOMAIN rows', Newest(r)', r[2] \notin skipped,
                      startBlock <= r[2], r[2] <= n
               PROVE  reserves[r[1]] = r[2]
    BY <1>5 DEF FreshTo, history
  <2>1. r \in DOMAIN rows
    <3>1. CASE r = <<v.at, b>>
      <4>1. b \in Nat /\ startBlock <= b /\ b <= n /\ b \notin skipped
        BY <1>2, <3>1
      <4> QED
        BY <1>1, <1>2, <1>3, <3>1, <4>1 DEF SerialInv, FullTo, Stored
    <3>2. CASE r # <<v.at, b>>
      BY <1>4, <3>2
    <3> QED
      BY <3>1, <3>2
  <2> QED
    BY <1>1, <1>10, <2>1 DEF SerialInv, FreshTo
<1>12. FullTo(pairs, n)'
  BY <1>1, <1>4, <1>5 DEF SerialInv, FullTo, Stored, history
<1>13. \A r \in DOMAIN rows' :
          Newest(r)' /\ r[1] \in w.done /\ w.from <= r[2] /\ r[2] <= w.to
              => reserves'[r[1]] = r[2]
  <2> SUFFICES ASSUME NEW r \in DOMAIN rows', Newest(r)', r[1] \in w.done,
                      w.from <= r[2], r[2] <= w.to
               PROVE  reserves[r[1]] = r[2]
    BY <1>5
  <2>1. r \in DOMAIN rows
    BY <1>2, <1>4, <1>7 DEF Turn
  <2> QED
    BY <1>2, <1>7, <1>10, <2>1 DEF Turn
<1>14. w.at # NoPair => /\ w.at \notin w.done
                        /\ w.left \subseteq EventsIn(w.at, w.from, w.to)
  BY <1>2, <1>7 DEF Turn
<1>15. Turn(t, w, n)'
  BY <1>2, <1>5, <1>7, <1>13, <1>14, TurnInRange DEF memory, history
<1>16. \A u \in Task : Turn(u, task[u], n)'
  BY <1>1, <1>2, <1>6, <1>15, OneTurn, Alone
<1>17. phase' = "syncing" => task'[Sync].pc \in {"range", "save"}
  BY <1>2, <1>5, <1>6, <1>7, SyncStaysBusy DEF memory
<1> QED
  BY <1>1, <1>5, <1>8, <1>9, <1>11, <1>12, <1>16, <1>17, Together
  DEF SerialInv, memory

LEMMA StoreReservesTurns ==
    ASSUME Serial, TypeOK, PhaseInv, TaskInv, SerialInv,
           NEW t \in Task, StoreReserves(t)
    PROVE  SerialInv'
<1>1. PICK v, p, n : v = task[t] /\ p = v.at /\ n = Mark
  OBVIOUS
<1>2. /\ v.pc = "range" /\ p # NoPair /\ v.left = {} /\ EventsIn(p, v.from, v.to) # {}
      /\ v \in TaskState(head) /\ Turn(t, v, n) /\ n \in Int /\ Behind(v)
  BY <1>1, TypeFacts, MarkBound DEF StoreReserves, SerialInv, TaskInv, Shape
<1>3. PICK last : last = Largest(EventsIn(p, v.from, v.to))
  OBVIOUS
<1>4. v.from \in Nat /\ v.to \in Nat /\ p \in Pair /\ DOMAIN chain = 1..head /\ head \in Nat
  BY <1>1, <1>2, TypeFacts DEF TaskState
<1>5. /\ last \in EventsIn(p, v.from, v.to)
      /\ \A b \in EventsIn(p, v.from, v.to) : b <= last
  <2>1. PICK S : S = EventsIn(p, v.from, v.to)
    OBVIOUS
  <2>2. S \in SUBSET (0..head)
    BY <1>4, <2>1 DEF EventsIn
  <2> QED
    BY <1>2, <1>3, <1>4, <2>1, <2>2, LargestIsIn
<1>6. v.from <= last /\ last <= v.to /\ last \in Nat
  BY <1>4, <1>5 DEF EventsIn
<1>7. <<p, last>> \in DOMAIN rows
  BY <1>1, <1>2, <1>5 DEF Behind, Stored
<1>8. /\ UNCHANGED <<chain, pairs, rows, lastBlock, memory, history>>
      /\ reserves' = [reserves EXCEPT ![p] = last]
  BY <1>1, <1>3 DEF StoreReserves, lastSync
<1>9. /\ reserves'[p] = last
      /\ \A q \in Pair \ {p} : reserves'[q] = reserves[q]
  BY <1>4, <1>8 DEF TypeOK
<1>10. PICK w : Become(t, w) /\ w = [v EXCEPT !.done = @ \cup {p}, !.at = NoPair]
  BY <1>1 DEF StoreReserves
<1>11. /\ w.pc = v.pc /\ w.from = v.from /\ w.to = v.to /\ w.end = v.end
       /\ w.at = NoPair /\ w.left = {} /\ w.done = v.done \cup {p}
  BY <1>2, <1>10 DEF TaskState
<1>12. n = Mark'
  BY <1>1, <1>2, <1>8, <1>10, <1>11, MarkStays DEF memory, history
<1>13. \A r \in DOMAIN rows : Newest(r) /\ r[1] = p => last <= r[2]
  <2> SUFFICES ASSUME NEW r \in DOMAIN rows, Newest(r), r[1] = p
               PROVE  last <= r[2]
    OBVIOUS
  <2>1. PICK s : s = <<p, last>>
    OBVIOUS
  <2>2. s \in DOMAIN rows /\ s[1] = r[1] /\ s[2] = last
    BY <1>7, <2>1
  <2> QED
    BY <2>2 DEF Newest
<1>14. FreshTo(n)'
  <2> SUFFICES ASSUME NEW r \in DOMAIN rows, Newest(r), r[2] \notin skipped,
                      startBlock <= r[2], r[2] <= n
               PROVE  reserves'[r[1]] = r[2]
    BY <1>8 DEF FreshTo, Newest, history
  <2>1. r[2] \in Nat /\ r[1] \in Pair
    BY RowShape
  <2>2. CASE r[1] = p
    <3>1. v.from <= r[2] /\ last <= r[2]
      BY <1>4, <1>6, <1>13, <2>1, <2>2
    <3>2. v.from = r[2] /\ v.to = r[2]
      BY <1>1, <1>2, <2>1, <3>1, OnlyAgain
    <3> QED
      BY <1>6, <1>9, <2>1, <2>2, <3>1, <3>2
  <2>3. CASE r[1] # p
    BY <1>1, <1>9, <2>1, <2>3 DEF SerialInv, FreshTo
  <2> QED
    BY <2>2, <2>3
<1>15. \A r \in DOMAIN rows' :
          Newest(r)' /\ r[1] \in w.done /\ w.from <= r[2] /\ r[2] <= w.to
              => reserves'[r[1]] = r[2]
  <2> SUFFICES ASSUME NEW r \in DOMAIN rows, Newest(r), r[1] \in w.done,
                      w.from <= r[2], r[2] <= w.to
               PROVE  reserves'[r[1]] = r[2]
    BY <1>8 DEF Newest
  <2>1. r[2] \in Nat /\ r[1] \in Pair /\ r[2] \in DOMAIN chain
    BY RowShape
  <2>2. CASE r[1] = p
    <3>1. r[2] \in EventsIn(p, v.from, v.to)
      BY <1>4, <1>11, <2>1, <2>2 DEF EventsIn, SerialInv, RowsAreEvents
    <3>2. r[2] <= last /\ last <= r[2]
      BY <1>5, <1>13, <2>2, <3>1
    <3> QED
      BY <1>6, <1>9, <2>1, <2>2, <3>2
  <2>3. CASE r[1] # p
    BY <1>2, <1>9, <1>11, <2>1, <2>3 DEF Turn
  <2> QED
    BY <2>2, <2>3
<1>16. Turn(t, w, n)'
  BY <1>2, <1>8, <1>11, <1>15, TurnInRange DEF memory, history
<1>17. \A u \in Task : Turn(u, task[u], n)'
  BY <1>1, <1>2, <1>10, <1>16, OneTurn, Alone
<1>18. RowsAreEvents' /\ FullTo(pairs, n)'
  BY <1>1, <1>8 DEF SerialInv, RowsAreEvents, FullTo, Stored, history
<1>19. phase' = "syncing" => task'[Sync].pc \in {"range", "save"}
  BY <1>2, <1>8, <1>10, <1>11, SyncStaysBusy DEF memory
<1> QED
  BY <1>1, <1>8, <1>12, <1>14, <1>17, <1>18, <1>19, Together DEF SerialInv, memory

\* At its end the range joins what lies up to the mark.
LEMMA RangeIsDone ==
    ASSUME TypeOK, PhaseInv, TaskInv, SerialInv, NEW t \in Task, EndRange(t)
    PROVE  FreshTo(task[t].to) /\ FullTo(pairs, task[t].to)
<1>1. PICK v, n : v = task[t] /\ n = Mark
  OBVIOUS
<1>2. /\ v.pc = "range" /\ v \in TaskState(head) /\ Turn(t, v, n) /\ n \in Int /\ Behind(v)
      /\ trackedPairs \subseteq v.done
  BY <1>1, TypeFacts, MarkBound DEF EndRange, SerialInv, TaskInv
<1>3. pairs \subseteq v.done
  BY <1>1, <1>2 DEF PhaseInv, SerialInv, Task
<1>4. v.from \in Nat /\ v.to \in Nat
  BY <1>2, TypeFacts DEF TaskState
<1>5. \A b \in Nat : b \notin skipped /\ b <= v.to =>
          b <= n \/ (v.from <= b /\ b <= v.to)
  BY <1>2, <1>4 DEF Turn
<1>6. FreshTo(v.to)
  <2> SUFFICES ASSUME NEW r \in DOMAIN rows, Newest(r), r[2] \notin skipped,
                      startBlock <= r[2], r[2] <= v.to
               PROVE  reserves[r[1]] = r[2]
    BY DEF FreshTo
  <2>1. r[2] \in Nat /\ r[1] \in pairs
    BY RowShape
  <2>2. CASE r[2] <= n
    BY <1>1, <2>2 DEF SerialInv, FreshTo
  <2>3. CASE ~(r[2] <= n)
    BY <1>2, <1>3, <1>5, <2>1, <2>3 DEF Turn
  <2> QED
    BY <2>2, <2>3
<1>7. FullTo(pairs, v.to)
  <2> SUFFICES ASSUME NEW b \in DOMAIN chain, startBlock <= b, b <= v.to,
                      b \notin skipped, NEW p \in pairs \cap chain[b].active
               PROVE  Stored(p, b)
    BY DEF FullTo
  <2>1. b \in Nat
    BY TypeFacts
  <2>2. CASE b <= n
    BY <1>1, <2>2 DEF SerialInv, FullTo
  <2>3. CASE ~(b <= n)
    <3>1. b \in EventsIn(p, v.from, v.to)
      BY <1>4, <1>5, <2>1, <2>3 DEF EventsIn
    <3> QED
      BY <1>2, <1>3, <3>1 DEF Behind
  <2> QED
    BY <2>2, <2>3
<1> QED
  BY <1>1, <1>6, <1>7

LEMMA EndRangeTurns ==
    ASSUME Serial, TypeOK, PhaseInv, TaskInv, SerialInv,
           NEW t \in Task, EndRange(t)
    PROVE  SerialInv'
<1>1. PICK to, end, m : to = task[t].to /\ end = task[t].end /\ m = Mark
  OBVIOUS
<1>2. /\ task[t].pc = "range" /\ to \in 0..head /\ end \in 0..head /\ head \in Nat
      /\ task[t].from \in Nat /\ Turn(t, task[t], m)
  BY <1>1, TypeFacts DEF EndRange, TaskState, SerialInv
<1>3. /\ Keeps /\ lastBlock' = lastBlock /\ phase' = phase /\ unsynced' = unsynced
      /\ trackedPairs' = trackedPairs
      /\ lastProcessed' = IF t \in Poll THEN to ELSE lastProcessed
  BY <1>1 DEF EndRange, Keeps, database, history
<1>4. to \in Nat /\ end \in Nat /\ to <= end /\ lastBlock <= to
  BY <1>1, <1>2 DEF Turn
<1>5. t \in Poll => to = end /\ to # 0
  BY <1>1, <1>2 DEF Turn
<1>6. PICK w : /\ Become(t, w)
               /\ \/ w = Batch(to + 1, end) /\ to < end
                  \/ w = TaskAt("save", 0, to, end) /\ to >= end
  BY <1>1, AfterRange
<1>7. task'[t] = w /\ \A u \in Task \ {t} : task'[u] = task[u]
  BY <1>6, OthersRest
<1>8. \/ /\ w.pc = "range" /\ w.from = to + 1 /\ w.end = end /\ to < end
         /\ w.from <= w.to /\ w.to <= w.end /\ w.done = {} /\ w.at = NoPair
         /\ w.to \in Nat
      \/ w.pc = "save" /\ w.end = end /\ to = end
  <2>1. CASE w = Batch(to + 1, end) /\ to < end
    <3>1. PICK last \in (to + 1)..end :
              w = [pc |-> "range", from |-> to + 1, to |-> last,
                   end |-> end, done |-> {}, at |-> NoPair, left |-> {}]
      <4>1. to + 1 \in 0..end
        BY <1>4, <2>1
      <4> QED
        BY <1>4, <2>1, <4>1, BatchShape
    <3>2. last \in Nat /\ to + 1 <= last /\ last <= end
      BY <1>4
    <3> QED
      BY <2>1, <3>1, <3>2
  <2>2. CASE w = TaskAt("save", 0, to, end) /\ to >= end
    BY <1>4, <2>2 DEF TaskAt
  <2> QED
    BY <1>6, <2>1, <2>2
<1>9. to = Mark'
  <2>1. CASE t = Sync
    <3>1. phase' = "syncing"
      BY <1>2, <1>3, <2>1 DEF PhaseInv
    <3>2. w.pc = "range" => w.from - 1 = to
      BY <1>4, <1>8
    <3>3. w.pc # "range" => w.end = to
      BY <1>8
    <3> QED
      BY <1>7, <2>1, <3>1, <3>2, <3>3 DEF Mark
  <2>2. CASE t # Sync
    <3>1. t \in Poll /\ phase' = "polling"
      BY <1>2, <1>3, <2>2 DEF PhaseInv, Task
    <3> QED
      BY <1>3, <1>5, <3>1 DEF Mark
  <2> QED
    BY <2>1, <2>2
<1>10. Turn(t, w, to)'
  <2>1. CASE w.pc = "range"
    <3>1. t \notin Poll /\ w.from = to + 1
      BY <1>4, <1>5, <1>8, <2>1
    <3>2. to < w.from /\ \A b \in Nat : to < b /\ b < w.from => FALSE
      BY <1>4, <3>1
    <3>3. lastBlock <= w.to
      <4>1. lastBlock \in Int
        BY DEF TypeOK
      <4> QED
        BY <1>4, <1>8, <2>1, <4>1
    <3> QED
      BY <1>3, <1>8, <2>1, <3>1, <3>2, <3>3 DEF Turn
  <2>2. CASE w.pc = "save"
    BY <1>3, <1>5, <1>8, <2>2 DEF Turn
  <2> QED
    BY <1>8, <2>1, <2>2
<1>11. \A u \in Task : Turn(u, task[u], to)'
  BY <1>2, <1>6, <1>10, OneTurn, Alone
<1>12. FreshTo(to) /\ FullTo(pairs, to)
  BY <1>1, RangeIsDone
<1>13. FreshTo(to)' /\ FullTo(pairs, to)' /\ RowsAreEvents'
  BY <1>3, <1>12, KeptParts DEF SerialInv
<1>14. phase' = "syncing" => task'[Sync].pc \in {"range", "save"}
  BY <1>3, <1>6, <1>8, SyncStaysBusy
<1> QED
  BY <1>3, <1>4, <1>9, <1>11, <1>13, <1>14, Together DEF SerialInv, Keeps

LEMMA SaveLastBlockTurns ==
    ASSUME Serial, TypeOK, PhaseInv, SerialInv, NEW t \in Task, SaveLastBlock(t)
    PROVE  SerialInv'
<1>1. PICK n, w : n = Mark /\ w = TaskAt("idle", 0, 0, 0)
  OBVIOUS
<1>2. /\ Keeps /\ lastBlock' = task[t].end /\ phase' = "polling"
      /\ task[t].pc = "save" /\ Become(t, w) /\ UNCHANGED <<trackedPairs, lastProcessed>>
      /\ unsynced' = IF t = Sync THEN task[t].end + 1 ELSE unsynced
  BY <1>1 DEF SaveLastBlock, Keeps, Idle
<1>3. task[t].end \in Nat
  BY TypeFacts DEF TaskState
<1>4. n = task[t].end /\ n = Mark'
  <2>1. CASE t = Sync
    <3>1. phase = "syncing" /\ lastProcessed = 0
      BY <1>2, <2>1 DEF PhaseInv
    <3>2. unsynced' - 1 = task[t].end
      BY <1>2, <1>3, <2>1
    <3> QED
      BY <1>1, <1>2, <2>1, <3>1, <3>2 DEF Mark
  <2>2. CASE t # Sync
    <3>1. t \in Poll /\ phase = "polling"
      BY <1>2, <2>2 DEF PhaseInv, Task
    <3>2. lastProcessed = task[t].end /\ task[t].end # 0
      BY <1>2, <3>1 DEF SerialInv, Turn
    <3> QED
      BY <1>1, <1>2, <3>1, <3>2 DEF Mark
  <2> QED
    BY <2>1, <2>2
<1>5. Turn(t, w, n)'
  BY <1>1 DEF Turn, TaskAt
<1>6. \A u \in Task : Turn(u, task[u], n)'
  BY <1>2, <1>5, OneTurn, Alone
<1>7. FreshTo(n)' /\ FullTo(pairs, n)' /\ RowsAreEvents'
  BY <1>1, <1>2, KeptParts DEF SerialInv
<1>8. trackedPairs = pairs
  BY <1>2 DEF PhaseInv, SerialInv, Task
<1>9. lastBlock' <= n
  BY <1>2, <1>3, <1>4
<1> QED
  BY <1>2, <1>4, <1>6, <1>7, <1>8, <1>9, Together DEF Keeps

\* A process that starts anew begins at lastBlock, which the mark never passes
\* downwards.
LEMMA DownTurns ==
    ASSUME TypeOK, PhaseInv, SerialInv, Down, UNCHANGED <<chain, database, history>>
    PROVE  SerialInv'
<1>1. PICK n : n = lastBlock
  OBVIOUS
<1>2. Keeps /\ lastBlock' = lastBlock /\ phase' = "down"
  BY DEF Keeps, Down, database, history
<1>3. n = Mark'
  BY <1>1, <1>2 DEF Mark
<1>4. n <= Mark /\ n \in Int /\ Mark \in Int
  BY <1>1, MarkBound DEF SerialInv, TypeOK
<1>5. FreshTo(n) /\ FullTo(pairs, n)
  <2>1. \A b \in Nat : b <= n => b <= Mark
    BY <1>4
  <2>2. \A r \in DOMAIN rows : r[2] \in Nat
    BY RowShape
  <2>3. \A b \in DOMAIN chain : b \in Nat
    BY TypeFacts
  <2> QED
    BY <2>1, <2>2, <2>3 DEF SerialInv, FreshTo, FullTo
<1>6. \A u \in Task : Turn(u, task[u], n)'
  BY DEF Down, Idle, TaskAt, Turn
<1>7. FreshTo(n)' /\ FullTo(pairs, n)' /\ RowsAreEvents'
  BY <1>2, <1>5, KeptParts DEF SerialInv
<1>8. lastBlock' <= n
  BY <1>1, <1>2, <1>4
<1> QED
  BY <1>2, <1>3, <1>6, <1>7, <1>8, Together

LEMMA FailTurns ==
    ASSUME Serial, TypeOK, PhaseInv, SerialInv, NEW t \in Task, Fail(t)
    PROVE  SerialInv'
<1>1. CASE t = Sync
  BY <1>1, DownTurns DEF Fail
<1>2. CASE t # Sync
  <2>1. /\ Keeps /\ lastBlock' = lastBlock /\ UNCHANGED memory /\ unsynced' = unsynced
        /\ phase = "polling" /\ task[t].pc # "idle"
    BY <1>2 DEF Fail, Keeps, database, history, Task, PhaseInv
  <2>2. PICK n, w : n = Mark /\ w = TaskAt("idle", 0, 0, 0)
    OBVIOUS
  <2>3. n = Mark' /\ Become(t, w)
    BY <1>2, <2>1, <2>2 DEF Mark, memory, Fail, Idle
  <2>4. Turn(t, w, n)'
    BY <2>2 DEF Turn, TaskAt
  <2>5. \A u \in Task : Turn(u, task[u], n)'
    BY <2>1, <2>3, <2>4, OneTurn, Alone
  <2>6. FreshTo(n)' /\ FullTo(pairs, n)' /\ RowsAreEvents'
    BY <2>1, <2>2, KeptParts DEF SerialInv
  <2> QED
    BY <2>1, <2>2, <2>3, <2>5, <2>6, Together DEF SerialInv, Keeps, memory
<1> QED
  BY <1>1, <1>2

LEMMA SerialStep ==
    ASSUME Serial, IInv, SerialInv, [Next]_vars
    PROVE  SerialInv'
<1>1. ASSUME NEW created \in SUBSET Pair, NEW active \in SUBSET Pair,
             NextBlock(created, active)
      PROVE  SerialInv'
  BY <1>1, NextBlockTurns DEF IInv
<1>2. CASE Start
  BY <1>2, StartTurns DEF IInv
<1>3. ASSUME NEW t \in Task, Work(t)
      PROVE  SerialInv'
  BY <1>3, TickTurns, ReturnTurns, TakeRangeTurns, RegisterPairTurns,
     VisitPairTurns, StoreRowTurns, StoreReservesTurns, EndRangeTurns,
     SaveLastBlockTurns DEF Work, IInv
<1>4. ASSUME NEW t \in Task, Fail(t)
      PROVE  SerialInv'
  BY <1>4, FailTurns DEF IInv
<1>5. CASE Crash
  BY <1>5, DownTurns DEF Crash, IInv
<1>6. CASE UNCHANGED vars
  BY <1>6 DEF vars, SerialInv, RowsAreEvents, Mark, FreshTo, FullTo, Newest, Stored,
     Turn, Again, EventsIn
<1> QED
  BY <1>1, <1>2, <1>3, <1>4, <1>5, <1>6 DEF Next

LEMMA SerialInit == Init => SerialInv
<1> SUFFICES ASSUME Init PROVE SerialInv
  OBVIOUS
<1>1. DOMAIN rows = {} /\ chain = <<>> /\ phase = "down"
  BY DEF Init, EmptyBag, SetToBag
<1>2. \A t \in Task : task[t].pc = "idle"
  BY DEF Init, Idle, TaskAt
<1>3. Mark = lastBlock /\ lastBlock = -1
  BY <1>1 DEF Mark, Init
<1>4. DOMAIN chain = {}
  BY <1>1
<1> QED
  BY <1>1, <1>2, <1>3, <1>4 DEF SerialInv, RowsAreEvents, FreshTo, FullTo, Turn

LEMMA SerialInvariance == ASSUME Serial PROVE Spec => [](IInv /\ SerialInv)
BY InitInv, StepInv, SerialInit, SerialStep, PTL DEF Spec

\* When each poll ends within the interval, the reserves shown for a pair are
\* those of its newest row, whatever failed before: the events of a block are
\* stored again only together with everything after them, and the reserves with
\* the last of them.
THEOREM ReservesFollowRows == ASSUME Serial PROVE Spec => []ReservesAreNewest
<1>1. IInv /\ SerialInv => ReservesAreNewest
  <2> SUFFICES ASSUME IInv, SerialInv, phase = "polling",
                      NEW r \in DOMAIN rows, Processed(r[2]),
                      \A s \in DOMAIN rows : s[1] = r[1] => s[2] <= r[2]
               PROVE  reserves[r[1]] = r[2]
    BY DEF ReservesAreNewest
  <2>1. Newest(r)
    BY DEF Newest
  <2>2. r[2] \in Nat /\ startBlock \in Nat
    BY RowShape, IndexerAssumption DEF IInv
  <2>3. r[2] \notin skipped /\ startBlock <= r[2] /\ r[2] <= Mark
    BY <2>2 DEF Processed, Mark
  <2> QED
    BY <2>1, <2>3 DEF SerialInv, FreshTo
<1> QED
  BY <1>1, SerialInvariance, PTL

---------------------------------------------------------------------------
(* Nothing stored twice *)

\* The task in state w has stored row r in its range.
StoredBy(w, r) ==
    /\ w.pc = "range" /\ w.from <= r[2] /\ r[2] <= w.to
    /\ r[1] \in w.done \/ (r[1] = w.at /\ r[2] \notin w.left)

\* Row r lies up to block n, which no task in progress falls behind of.
Settled(r, n) ==
    /\ r[2] <= n /\ n <= head
    /\ \A t \in Task : task[t].pc \in {"asked", "range"} => n <= task[t].to

\* Row r is the only one of its kind, or of the last block of the sync.
Once(r) == rows[r] = 1 \/ (phase = "polling" /\ r[2] = unsynced - 1)

\* What holds beside SerialInv until something fails.
OnceInv ==
    faults = 0 =>
        /\ phase = "down" => DOMAIN rows = {}
        /\ \A r \in DOMAIN rows :
              /\ Once(r)
              /\ Settled(r, Mark) \/ \E t \in Task : StoredBy(task[t], r)

\* A row that no task has in its range lies up to the mark.
LEMMA SettledRows ==
    ASSUME OnceInv, faults = 0, \A t \in Task : task[t].pc # "range",
           NEW r \in DOMAIN rows
    PROVE  Settled(r, Mark)
BY DEF OnceInv, StoredBy

\* Where no row is added and the mark stays, only what the task that takes the
\* step has stored and where its range ends has to be looked at.
LEMMA OnceKept ==
    ASSUME Serial, TypeOK, PhaseInv, OnceInv, faults = 0, NEW t \in Task, NEW w,
           Become(t, w), task[t].pc # "idle", head' = head, rows' = rows,
           phase' = phase, unsynced' = unsynced, Mark' = Mark, phase # "down",
           w.pc \in {"asked", "range"} =>
              task[t].pc \in {"asked", "range"} /\ w.to = task[t].to,
           \A r \in DOMAIN rows : StoredBy(task[t], r) => StoredBy(w, r)
    PROVE  OnceInv'
<1>1. task'[t] = w /\ \A u \in Task \ {t} : task'[u] = task[u]
  BY OthersRest
<1>2. \A u \in Task \ {t} : task[u].pc = "idle"
  BY Alone
<1> SUFFICES ASSUME NEW r \in DOMAIN rows
             PROVE  /\ Once(r)'
                    /\ Settled(r, Mark)' \/ \E u \in Task : StoredBy(task[u], r)'
  BY DEF OnceInv
<1>3. Once(r)'
  BY DEF OnceInv, Once
<1>4. CASE Settled(r, Mark)
  <2>1. \A u \in Task : task'[u].pc \in {"asked", "range"} => Mark <= task'[u].to
    BY <1>1, <1>2, <1>4 DEF Settled
  <2>2. Settled(r, Mark)'
    BY <1>4, <2>1 DEF Settled
  <2> QED
    BY <1>3, <2>2
<1>5. CASE \E u \in Task : StoredBy(task[u], r)
  <2>1. StoredBy(task[t], r)
    BY <1>2, <1>5 DEF StoredBy
  <2>2. StoredBy(w, r)
    BY <2>1
  <2>3. StoredBy(task[t], r)'
    BY <1>1, <2>2 DEF StoredBy
  <2> QED
    BY <1>3, <2>3
<1> QED
  BY <1>4, <1>5 DEF OnceInv

LEMMA NextBlockOnce ==
    ASSUME TypeOK, PhaseInv, OnceInv,
           NEW created \in SUBSET Pair, NEW active \in SUBSET Pair,
           NextBlock(created, active)
    PROVE  OnceInv'
<1>1. UNCHANGED <<database, memory, task, faults, history>>
  BY DEF NextBlock
<1>2. head \in Nat /\ head' = head + 1
  BY TypeFacts DEF NextBlock, TypeOK, head
<1>3. Mark' = Mark /\ Mark \in Int
  BY <1>1, MarkBound DEF Mark, database, memory, history
<1>4. rows' = rows /\ task' = task /\ phase' = phase /\ unsynced' = unsynced
  BY <1>1 DEF database, memory, history
<1>5. \A r : Settled(r, Mark) => Settled(r, Mark)'
  BY <1>2, <1>3, <1>4 DEF Settled
<1>6. \A r : \A t \in Task : StoredBy(task[t], r) => StoredBy(task[t], r)'
  BY <1>4 DEF StoredBy
<1>7. \A r \in DOMAIN rows : Once(r) => Once(r)'
  BY <1>4 DEF Once
<1> QED
  BY <1>1, <1>4, <1>5, <1>6, <1>7 DEF OnceInv

LEMMA StartOnce ==
    ASSUME OnceInv, Start
    PROVE  OnceInv'
BY DEF Start, OnceInv, database

\* The poll sees at least the head that the rows lie up to.
LEMMA TickOnce ==
    ASSUME Serial, TypeOK, PhaseInv, OnceInv, NEW t \in Poll, Tick(t)
    PROVE  OnceInv'
<1>1. /\ UNCHANGED <<chain, database, memory, faults, history>>
      /\ phase = "polling" /\ t \in Task
  BY DEF Tick, Task
<1>2. \A u \in Task : task[u].pc = "idle"
  BY <1>1 DEF Tick, PhaseInv, Serial, Task
<1>3. PICK w : Become(t, w) /\ w = TaskAt("asked", 0, head, head)
  BY DEF Tick
<1>4. task'[t] = w /\ \A u \in Task \ {t} : task'[u] = task[u]
  BY <1>1, <1>3, OthersRest
<1>5. Mark' = Mark /\ head' = head /\ head \in Nat
  BY <1>1, TypeFacts DEF Mark, memory, history, head
<1>6. rows' = rows /\ phase' = phase /\ unsynced' = unsynced
  BY <1>1 DEF database, memory, history
<1> SUFFICES ASSUME faults = 0, NEW r \in DOMAIN rows
             PROVE  Once(r)' /\ Settled(r, Mark)'
  BY <1>1, <1>6 DEF OnceInv
<1>7. Settled(r, Mark)
  BY <1>2, SettledRows
<1>8. \A u \in Task : task'[u].pc \in {"asked", "range"} => Mark <= task'[u].to
  <2>1. w.to = head /\ Mark <= head
    BY <1>3, <1>7 DEF TaskAt, Settled
  <2> QED
    BY <1>2, <1>4, <2>1
<1> QED
  BY <1>5, <1>6, <1>7, <1>8 DEF Settled, OnceInv, Once

LEMMA ReturnOnce ==
    ASSUME Serial, TypeOK, PhaseInv, OnceInv, NEW t \in Poll, Return(t) \/ TakeRange(t)
    PROVE  OnceInv'
<1>1. /\ UNCHANGED <<chain, database, memory, faults, unsynced>>
      /\ phase = "polling" /\ t \in Task /\ task[t].pc = "asked"
  BY DEF Return, TakeRange, Task, PhaseInv, history
<1>2. PICK w : /\ Become(t, w) /\ w.pc \in {"idle", "range"}
               /\ w.pc = "range" => w.to = task[t].to
  <2>1. CASE Return(t)
    BY <2>1 DEF Return, Idle, TaskAt
  <2>2. CASE TakeRange(t)
    <3>1. PICK from, to : Become(t, RangeTask(from, to, to)) /\ to = task[t].to
      BY <2>2, TakenRange
    <3>2. RangeTask(from, to, to).pc = "range" /\ RangeTask(from, to, to).to = to
      BY DEF RangeTask, TaskAt
    <3> QED
      BY <3>1, <3>2
  <2> QED
    BY <2>1, <2>2
<1>3. Mark' = Mark /\ head' = head
  BY <1>1 DEF Mark, memory, head
<1>4. \A r : ~StoredBy(task[t], r)
  BY <1>1 DEF StoredBy
<1>5. rows' = rows /\ phase' = phase /\ faults' = faults
  BY <1>1 DEF database, memory
<1> QED
  BY <1>1, <1>2, <1>3, <1>4, <1>5, OnceKept DEF OnceInv

LEMMA RegisterPairOnce ==
    ASSUME OnceInv, NEW t \in Task, NEW p \in Pair, RegisterPair(t, p)
    PROVE  OnceInv'
<1>1. /\ UNCHANGED <<chain, rows, phase, lastProcessed, lastBlock, task, faults, unsynced>>
  BY DEF RegisterPair, history
<1>2. Mark' = Mark /\ head' = head
  BY <1>1 DEF Mark, head
<1>3. \A r : (Settled(r, Mark) <=> Settled(r, Mark)') /\ (Once(r) <=> Once(r)')
  BY <1>1, <1>2 DEF Settled, Once
<1>4. \A r : \A u \in Task : StoredBy(task[u], r) => StoredBy(task[u], r)'
  BY <1>1 DEF StoredBy
<1> QED
  BY <1>1, <1>3, <1>4 DEF OnceInv

LEMMA VisitPairOnce ==
    ASSUME Serial, TypeOK, PhaseInv, OnceInv,
           NEW t \in Task, NEW p \in Pair, VisitPair(t, p)
    PROVE  OnceInv'
<1>1. /\ UNCHANGED <<chain, rows, phase, lastProcessed, faults, unsynced>>
      /\ task[t].pc = "range" /\ task[t].at = NoPair
  BY DEF VisitPair, database, memory, history
<1>2. PICK v : v = task[t] /\ v \in TaskState(head)
  BY TypeFacts
<1>3. PICK w : /\ Become(t, w)
               /\ w = IF EventsIn(p, v.from, v.to) = {}
                      THEN [v EXCEPT !.done = @ \cup {p}]
                      ELSE [v EXCEPT !.at = p, !.left = EventsIn(p, v.from, v.to)]
  BY <1>2 DEF VisitPair
<1>4. w.pc = v.pc /\ w.from = v.from /\ w.to = v.to /\ v.done \subseteq w.done
  <2>1. CASE EventsIn(p, v.from, v.to) = {}
    BY <1>2, <1>3, <2>1 DEF TaskState
  <2>2. CASE EventsIn(p, v.from, v.to) # {}
    BY <1>2, <1>3, <2>2 DEF TaskState
  <2> QED
    BY <2>1, <2>2
<1>5. \A r \in DOMAIN rows : StoredBy(v, r) => StoredBy(w, r)
  <2>1. \A r \in DOMAIN rows : r[1] # NoPair
    BY RowShape, IndexerAssumption
  <2> QED
    BY <1>1, <1>2, <1>4, <2>1 DEF StoredBy
<1>6. Mark' = Mark /\ head' = head
  BY <1>1, <1>2, <1>3, <1>4, MarkStays DEF head
<1>7. phase # "down"
  BY <1>1 DEF PhaseInv, Task
<1> QED
  BY <1>1, <1>2, <1>3, <1>4, <1>5, <1>6, <1>7, OnceKept DEF OnceInv

\* A row that is stored again is one of the last block of the sync.
LEMMA StoreRowOnce ==
    ASSUME Serial, TypeOK, PhaseInv, TaskInv, SerialInv, OnceInv,
           NEW t \in Task, StoreRow(t)
    PROVE  OnceInv'
<1>1. PICK v, b, x, n : /\ v = task[t] /\ b = Smallest(v.left) /\ x = <<v.at, b>>
                        /\ n = Mark
  OBVIOUS
<1>2. /\ v.pc = "range" /\ b \in v.left /\ b \in 1..head /\ v \in TaskState(head)
      /\ Turn(t, v, n) /\ v.at # NoPair /\ n \in Int
  BY <1>1, NextRow, TypeFacts, MarkBound DEF StoreRow, SerialInv
<1>3. v.from <= b /\ b <= v.to /\ v.at \notin v.done /\ b \in Nat
  <2>1. b \in EventsIn(v.at, v.from, v.to)
    BY <1>2 DEF Turn
  <2>2. v.from \in Nat /\ v.to \in Nat
    BY <1>2, TypeFacts DEF TaskState
  <2> QED
    BY <1>2, <2>1, <2>2 DEF EventsIn, Turn
<1>4. UNCHANGED <<chain, phase, lastProcessed, lastBlock, faults, unsynced>>
  BY DEF StoreRow, memory, history
<1>5. /\ DOMAIN rows' = DOMAIN rows \cup {x}
      /\ \A r \in DOMAIN rows \ {x} : rows'[r] = rows[r]
      /\ x \notin DOMAIN rows => rows'[x] = 1
  <2>1. \A r \in DOMAIN rows : rows[r] \in Nat \ {0}
    BY DEF TypeOK
  <2>2. rows' = rows (+) SetToBag({x})
    BY <1>1 DEF StoreRow
  <2>3. PICK B : B = rows
    OBVIOUS
  <2>4. /\ DOMAIN (B (+) SetToBag({x})) = DOMAIN B \cup {x}
        /\ \A r \in DOMAIN B \ {x} : (B (+) SetToBag({x}))[r] = B[r]
        /\ x \notin DOMAIN B => (B (+) SetToBag({x}))[x] = 1
    <3>1. \A r \in DOMAIN B : B[r] \in Nat \ {0}
      BY <2>1, <2>3
    <3> QED
      BY <3>1, AddedRow, Zenon
  <2> QED
    BY <2>2, <2>3, <2>4
<1>6. PICK w : Become(t, w) /\ w = [v EXCEPT !.left = @ \ {b}]
  BY <1>1 DEF StoreRow
<1>7. /\ w.pc = v.pc /\ w.from = v.from /\ w.to = v.to
      /\ w.at = v.at /\ w.left = v.left \ {b} /\ w.done = v.done
  BY <1>2, <1>6 DEF TaskState
<1>8. Mark' = n /\ head' = head
  BY <1>1, <1>2, <1>4, <1>6, <1>7, MarkStays DEF head
<1>9. task'[t] = w /\ \A u \in Task \ {t} : task'[u] = task[u]
  BY <1>6, OthersRest
<1>10. \A u \in Task \ {t} : task[u].pc = "idle"
  BY <1>1, <1>2, Alone
<1>11. phase # "down"
  BY <1>1, <1>2 DEF PhaseInv, Task
<1> SUFFICES ASSUME faults = 0, NEW r \in DOMAIN rows'
             PROVE  /\ Once(r)'
                    /\ Settled(r, Mark)' \/ \E u \in Task : StoredBy(task[u], r)'
  BY <1>4, <1>11 DEF OnceInv
<1>12. CASE r = x
  <2>1. r[1] = v.at /\ r[2] = b
    BY <1>1, <1>12
  <2>2. StoredBy(w, r)
    BY <1>2, <1>3, <1>7, <2>1 DEF StoredBy
  <2>3. StoredBy(task[t], r)'
    BY <1>9, <2>2 DEF StoredBy
  <2>4. CASE r \notin DOMAIN rows
    <3>1. rows'[r] = 1
      BY <1>5, <1>12, <2>4
    <3> QED
      BY <2>3, <3>1 DEF Once
  <2>5. CASE r \in DOMAIN rows
    <3>1. \A u \in Task : ~StoredBy(task[u], r)
      BY <1>1, <1>2, <1>3, <1>10, <2>1 DEF StoredBy
    <3>2. Settled(r, n)
      BY <1>1, <2>5, <3>1 DEF OnceInv
    <3>3. b <= n /\ n <= v.to
      BY <1>1, <1>2, <2>1, <3>2 DEF Settled
    <3>4. phase = "polling" /\ lastProcessed = 0 /\ n = b
      BY <1>1, <1>2, <1>3, <3>3, OnlyAgain
    <3>5. n = unsynced - 1
      BY <1>1, <3>4 DEF Mark
    <3> QED
      BY <1>4, <2>1, <2>3, <3>4, <3>5 DEF Once
  <2> QED
    BY <2>4, <2>5
<1>13. CASE r # x
  <2>1. r \in DOMAIN rows /\ rows'[r] = rows[r]
    BY <1>5, <1>13
  <2>2. Once(r)'
    BY <1>4, <2>1 DEF OnceInv, Once
  <2>3. ASSUME Settled(r, n)
        PROVE  Settled(r, Mark)'
    <3>1. \A u \in Task : task'[u].pc \in {"asked", "range"} => n <= task'[u].to
      BY <1>1, <1>2, <1>7, <1>9, <1>10, <2>3 DEF Settled
    <3> QED
      BY <1>8, <2>3, <3>1 DEF Settled
  <2>4. ASSUME NEW u \in Task, StoredBy(task[u], r)
        PROVE  StoredBy(task[t], r)'
    <3>1. u = t
      BY <1>10, <2>4 DEF StoredBy
    <3>2. StoredBy(w, r)
      BY <1>1, <1>7, <2>4, <3>1 DEF StoredBy
    <3> QED
      BY <1>9, <3>2 DEF StoredBy
  <2> QED
    BY <1>1, <2>1, <2>2, <2>3, <2>4 DEF OnceInv
<1> QED
  BY <1>12, <1>13

LEMMA StoreReservesOnce ==
    ASSUME Serial, TypeOK, PhaseInv, TaskInv, OnceInv,
           NEW t \in Task, StoreReserves(t)
    PROVE  OnceInv'
<1>1. UNCHANGED <<chain, rows, phase, lastProcessed, faults, unsynced>>
  BY DEF StoreReserves, memory, history
<1>2. PICK v : v = task[t]
  OBVIOUS
<1>3. v.at # NoPair /\ v.left = {} /\ v.pc = "range" /\ v \in TaskState(head)
  BY <1>2, TypeFacts DEF StoreReserves, TaskInv, Shape
<1>4. PICK w : Become(t, w) /\ w = [v EXCEPT !.done = @ \cup {v.at}, !.at = NoPair]
  BY <1>2 DEF StoreReserves
<1>5. /\ w.pc = v.pc /\ w.from = v.from /\ w.to = v.to
      /\ w.done = v.done \cup {v.at}
  BY <1>3, <1>4 DEF TaskState
<1>6. \A r \in DOMAIN rows : StoredBy(v, r) => StoredBy(w, r)
  BY <1>5 DEF StoredBy
<1>7. Mark' = Mark /\ head' = head
  BY <1>1, <1>2, <1>3, <1>4, <1>5, MarkStays DEF head
<1>8. phase # "down"
  BY <1>2, <1>3 DEF PhaseInv, Task
<1> QED
  BY <1>1, <1>2, <1>3, <1>4, <1>5, <1>6, <1>7, <1>8, OnceKept DEF OnceInv

LEMMA EndRangeOnce ==
    ASSUME Serial, TypeOK, PhaseInv, TaskInv, SerialInv, OnceInv,
           NEW t \in Task, EndRange(t)
    PROVE  OnceInv'
<1>1. PICK to, end, m : to = task[t].to /\ end = task[t].end /\ m = Mark
  OBVIOUS
<1>2. /\ task[t].pc = "range" /\ to \in 0..head /\ end \in 0..head /\ head \in Nat
      /\ Turn(t, task[t], m) /\ task[t].from \in Nat
  BY <1>1, TypeFacts DEF EndRange, TaskState, SerialInv
<1>3. /\ UNCHANGED <<chain, rows, lastBlock, phase, faults, unsynced>>
      /\ lastProcessed' = IF t \in Poll THEN to ELSE lastProcessed
  BY <1>1 DEF EndRange, database, history
<1>4. to \in Nat /\ end \in Nat /\ to <= end /\ (t \in Poll => to = end /\ to # 0)
  BY <1>1, <1>2 DEF Turn
<1>5. PICK w : /\ Become(t, w)
               /\ \/ w = Batch(to + 1, end) /\ to < end
                  \/ w = TaskAt("save", 0, to, end) /\ to >= end
  BY <1>1, AfterRange
<1>6. task'[t] = w /\ \A u \in Task \ {t} : task'[u] = task[u] /\ task[u].pc = "idle"
  BY <1>2, <1>5, OthersRest, Alone
<1>7. \/ /\ w.pc = "range" /\ w.from = to + 1 /\ to < end
         /\ w.to \in Nat /\ to <= w.to
      \/ w.pc = "save" /\ w.end = end /\ to = end
  <2>1. CASE w = Batch(to + 1, end) /\ to < end
    <3>1. PICK last \in (to + 1)..end :
              w = [pc |-> "range", from |-> to + 1, to |-> last,
                   end |-> end, done |-> {}, at |-> NoPair, left |-> {}]
      <4>1. to + 1 \in 0..end
        BY <1>4, <2>1
      <4> QED
        BY <1>4, <2>1, <4>1, BatchShape
    <3>2. last \in Nat /\ to <= last
      BY <1>4
    <3> QED
      BY <2>1, <3>1, <3>2
  <2>2. CASE w = TaskAt("save", 0, to, end) /\ to >= end
    BY <1>4, <2>2 DEF TaskAt
  <2> QED
    BY <1>5, <2>1, <2>2
<1>8. Mark' = to
  <2>1. CASE t = Sync
    <3>1. phase' = "syncing"
      BY <1>2, <1>3, <2>1 DEF PhaseInv
    <3>2. w.pc = "range" => w.from - 1 = to
      BY <1>4, <1>7
    <3>3. w.pc # "range" => w.end = to
      BY <1>7
    <3> QED
      BY <1>6, <2>1, <3>1, <3>2, <3>3 DEF Mark
  <2>2. CASE t # Sync
    <3>1. t \in Poll /\ phase' = "polling"
      BY <1>2, <1>3, <2>2 DEF PhaseInv, Task
    <3> QED
      BY <1>3, <1>4, <3>1 DEF Mark
  <2> QED
    BY <2>1, <2>2
<1>9. phase # "down"
  BY <1>2 DEF PhaseInv, Task
<1> SUFFICES ASSUME faults = 0, NEW r \in DOMAIN rows
             PROVE  Once(r)' /\ Settled(r, Mark)'
  BY <1>3, <1>9 DEF OnceInv
<1>10. Once(r)'
  BY <1>3 DEF OnceInv, Once
<1>11. r[2] \in Nat /\ m \in Int
  BY <1>1, RowShape, MarkBound
<1>12. r[2] <= to
  <2>1. CASE Settled(r, m)
    <3>1. r[2] <= m /\ m <= to
      BY <1>1, <1>2, <2>1 DEF Settled
    <3> QED
      BY <1>4, <1>11, <3>1
  <2>2. CASE \E u \in Task : StoredBy(task[u], r)
    BY <1>1, <1>6, <2>2 DEF StoredBy
  <2> QED
    BY <1>1, <2>1, <2>2 DEF OnceInv
<1>13. \A u \in Task : task'[u].pc \in {"asked", "range"} => to <= task'[u].to
  BY <1>6, <1>7
<1>14. head' = head /\ to <= head
  BY <1>2, <1>3 DEF head
<1> QED
  BY <1>8, <1>10, <1>12, <1>13, <1>14 DEF Settled

LEMMA SaveLastBlockOnce ==
    ASSUME Serial, TypeOK, PhaseInv, SerialInv, OnceInv, NEW t \in Task, SaveLastBlock(t)
    PROVE  OnceInv'
<1>1. PICK w : Become(t, w) /\ w = TaskAt("idle", 0, 0, 0)
  BY DEF SaveLastBlock, Idle
<1>2. /\ UNCHANGED <<chain, rows, lastProcessed, faults>>
      /\ phase' = "polling" /\ task[t].pc = "save"
      /\ unsynced' = IF t = Sync THEN task[t].end + 1 ELSE unsynced
  BY DEF SaveLastBlock
<1>3. task'[t] = w /\ \A u \in Task \ {t} : task'[u] = task[u] /\ task[u].pc = "idle"
  BY <1>1, <1>2, OthersRest, Alone
<1>4. Mark' = Mark
  <2>1. task[t].end \in Nat
    BY TypeFacts DEF TaskState
  <2>2. CASE t = Sync
    <3>1. phase = "syncing" /\ lastProcessed = 0
      BY <1>2, <2>2 DEF PhaseInv
    <3>2. unsynced' - 1 = task[t].end
      BY <1>2, <2>1, <2>2
    <3> QED
      BY <1>2, <2>2, <3>1, <3>2 DEF Mark
  <2>3. CASE t # Sync
    <3>1. phase = "polling"
      BY <1>2, <2>3 DEF PhaseInv, Task
    <3> QED
      BY <1>2, <2>3, <3>1 DEF Mark
  <2> QED
    BY <2>2, <2>3
<1> SUFFICES ASSUME faults = 0, NEW r \in DOMAIN rows
             PROVE  Once(r)' /\ Settled(r, Mark)'
  BY <1>2 DEF OnceInv
<1>5. Once(r)'
  <2>1. CASE t = Sync
    <3>1. phase = "syncing"
      BY <1>2, <2>1 DEF PhaseInv
    <3> QED
      BY <1>2, <3>1 DEF OnceInv, Once
  <2>2. CASE t # Sync
    BY <1>2, <2>2 DEF OnceInv, Once
  <2> QED
    BY <2>1, <2>2
<1>6. \A u \in Task : task[u].pc # "range"
  BY <1>2, <1>3
<1>7. Settled(r, Mark)
  BY <1>6, SettledRows
<1>8. \A u \in Task : task'[u].pc = "idle"
  BY <1>1, <1>3 DEF TaskAt
<1>9. Settled(r, Mark)'
  BY <1>2, <1>4, <1>7, <1>8 DEF Settled, head
<1> QED
  BY <1>5, <1>9

LEMMA OnceStep ==
    ASSUME Serial, IInv, SerialInv, OnceInv, [Next]_vars
    PROVE  OnceInv'
<1>1. ASSUME NEW created \in SUBSET Pair, NEW active \in SUBSET Pair,
             NextBlock(created, active)
      PROVE  OnceInv'
  BY <1>1, NextBlockOnce DEF IInv
<1>2. CASE Start
  BY <1>2, StartOnce
<1>3. ASSUME NEW t \in Task, Work(t)
      PROVE  OnceInv'
  BY <1>3, TickOnce, ReturnOnce, RegisterPairOnce, VisitPairOnce, StoreRowOnce,
     StoreReservesOnce, EndRangeOnce, SaveLastBlockOnce DEF Work, IInv
<1>4. ASSUME faults' = faults + 1
      PROVE  OnceInv'
  BY <1>4 DEF OnceInv, IInv, TypeOK
<1>5. CASE UNCHANGED vars
  BY <1>5 DEF vars, OnceInv, Once, Settled, StoredBy, Mark, head
<1> QED
  BY <1>1, <1>2, <1>3, <1>4, <1>5 DEF Next, Fail, Crash

LEMMA OnceInit == Init => OnceInv
BY DEF Init, OnceInv, EmptyBag, SetToBag

LEMMA OnceInvariance ==
    ASSUME Serial PROVE Spec => [](IInv /\ SerialInv /\ OnceInv)
BY InitInv, StepInv, SerialInit, SerialStep, OnceInit, OnceStep, PTL DEF Spec

\* When each poll ends within the interval and nothing fails, no row is stored
\* twice but those of the last block of the sync.
THEOREM RowsStoredOnce == ASSUME Serial PROVE Spec => []StoredOnce
<1>1. IInv /\ OnceInv => StoredOnce
  BY DEF OnceInv, Once, StoredOnce
<1> QED
  BY <1>1, OnceInvariance, PTL
=============================================================================
