--------------------------- MODULE ExplorerProofs ---------------------------
(***************************************************************************)
(* Proofs about the block explorer's consensus page and about the blocks   *)
(* it shows, for every number of visits, blocks, fetches and failures and  *)
(* for every limit of what is kept.                                        *)
(*                                                                         *)
(* The consensus page: an answer that arrives starts an interval, and what *)
(* it replaces may run on, so that each wait is an interval to be.  The    *)
(* step that asks for the positions of a new endpoint stops the interval,  *)
(* which makes up for the first wait; every further wait is one of an      *)
(* action that did not let the page load.  So the waits and the intervals  *)
(* nobody can stop together are bounded by these actions.                  *)
(*                                                                         *)
(* The blocks: what is in order is not the recent blocks alone, but they   *)
(* with the skipped ones a fetch holds while it waits for the next, and    *)
(* not the strip alone, but the strip with the blocks it still loads,      *)
(* which are all below it.                                                 *)
(***************************************************************************)
EXTENDS Explorer, Integers, FiniteSetTheorems, TLAPS

(* The page's record, said as a function: a step that sets some of its      *)
(* fields leaves the others as they were.                                   *)
Fields == {"open", "loads", "status", "timer", "timers", "running", "asking", "hurried", "moves"}
WellFormed(w) == w = [f \in Fields |-> w[f]]
Shape == WellFormed(watch)
(* What the page waits for.                                                 *)
Waits == Seq({"validators", "opening", "change"})
(* The intervals nobody can stop.                                           *)
Loose(w) == w.running \ (IF w.open THEN {w.timer} ELSE {})
(* A page that waits and runs no interval it can stop has one to start.     *)
Room(w) == IF w.open /\ w.loads # <<>> /\ w.timer \notin w.running THEN 1 ELSE 0

(* The inductive invariant.                                                 *)
WatchInv ==
  /\ Shape /\ watch.loads \in Waits /\ watch.timers \in Nat /\ watch.hurried \in Nat
  /\ IsFiniteSet(watch.running) /\ 0 \notin watch.running
  /\ Cardinality(Loose(watch)) + Len(watch.loads) <= watch.hurried + Room(watch)

(* A sequence has its elements in its set.                                  *)
LEMMA Element == ASSUME NEW S, NEW s \in Seq(S), NEW i \in DOMAIN s PROVE s[i] \in S
OBVIOUS

(* The waits are still waits when one ends (AnswerLoad).                    *)
LEMMA FewerWaits ==
  ASSUME NEW s \in Waits, NEW i \in DOMAIN s
  PROVE  RemoveAt(s, i) \in Waits /\ Len(RemoveAt(s, i)) = Len(s) - 1 /\ Len(s) \in Nat /\ s # <<>>
BY DEF RemoveAt, Waits

(* And when one begins (onChange, AnswerLoad).                              *)
LEMMA MoreWaits ==
  ASSUME NEW s \in Waits, NEW x \in {"validators", "opening", "change"}
  PROVE  /\ Append(s, x) \in Waits /\ Len(Append(s, x)) = Len(s) + 1 /\ Append(s, x) # <<>>
         /\ Len(s) \in Nat /\ (s # <<>> <=> Len(s) # 0)
BY DEF Waits

(* An interval more or less.                                                *)
LEMMA Intervals ==
  ASSUME NEW S, IsFiniteSet(S), NEW x
  PROVE  /\ IsFiniteSet(S \cup {x}) /\ IsFiniteSet(S \ {x})
         /\ Cardinality(S) \in Nat /\ Cardinality(S \ {x}) \in Nat /\ Cardinality(S \cup {x}) \in Nat
         /\ Cardinality(S \cup {x}) <= Cardinality(S) + 1
         /\ Cardinality(S \ {x}) <= Cardinality(S) /\ Cardinality(S) <= Cardinality(S \ {x}) + 1
<1>1. /\ IsFiniteSet(S \cup {x})
      /\ Cardinality(S \cup {x}) = IF x \in S THEN Cardinality(S) ELSE Cardinality(S) + 1
  BY FS_AddElement
<1>2. /\ IsFiniteSet(S \ {x})
      /\ Cardinality(S \ {x}) = IF x \in S THEN Cardinality(S) - 1 ELSE Cardinality(S)
  BY FS_RemoveElement
<1>3. Cardinality(S) \in Nat /\ Cardinality(S \ {x}) \in Nat /\ Cardinality(S \cup {x}) \in Nat
  BY <1>1, <1>2, FS_CardinalityType
<1>. QED BY <1>1, <1>2, <1>3

(* Of some intervals there are no more than of all.                         *)
LEMMA FewerIntervals ==
  ASSUME NEW S, NEW T \in SUBSET S, IsFiniteSet(S)
  PROVE  IsFiniteSet(T) /\ Cardinality(T) <= Cardinality(S) /\ Cardinality(T) \in Nat /\ Cardinality(S) \in Nat
<1>1. IsFiniteSet(T) /\ Cardinality(T) <= Cardinality(S)
  BY FS_Subset
<1>. QED BY <1>1, FS_CardinalityType

(* update: only what is asked changes.                                      *)
LEMMA Updated ==
  ASSUME NEW w, WellFormed(w)
  PROVE  /\ WellFormed(update(w))
         /\ update(w).open = w.open /\ update(w).loads = w.loads /\ update(w).hurried = w.hurried
         /\ update(w).running = w.running /\ update(w).timer = w.timer /\ update(w).timers = w.timers
BY DEF update, WellFormed, Fields

(* setInterval: one more interval runs, the one it can stop.                *)
LEMMA Started ==
  ASSUME NEW w, WellFormed(w)
  PROVE  /\ WellFormed(setInterval(w))
         /\ setInterval(w).open = w.open /\ setInterval(w).loads = w.loads
         /\ setInterval(w).hurried = w.hurried
         /\ setInterval(w).timer = w.timers + 1 /\ setInterval(w).timers = w.timers + 1
         /\ setInterval(w).running = w.running \cup {setInterval(w).timer}
BY DEF setInterval, WellFormed, Fields

(* clearTime: the interval it can stop does not run.                        *)
LEMMA Cleared ==
  ASSUME NEW w, WellFormed(w)
  PROVE  /\ WellFormed(clearTime(w))
         /\ clearTime(w).open = w.open /\ clearTime(w).loads = w.loads
         /\ clearTime(w).hurried = w.hurried /\ clearTime(w).timers = w.timers /\ clearTime(w).timer = 0
         /\ clearTime(w).running = w.running \ {w.timer}
BY DEF clearTime, WellFormed, Fields

(* A step that leaves alone what the invariant speaks of keeps it.          *)
LEMMA Aside ==
  ASSUME WatchInv, Shape', watch'.open = watch.open, watch'.loads = watch.loads,
         watch'.running = watch.running, watch'.timer = watch.timer, watch'.hurried = watch.hurried,
         watch'.timers = watch.timers
  PROVE WatchInv'
BY DEF WatchInv, Loose, Room

(* An interval is started when an answer is in: the wait is over, and what  *)
(* it leaves running, or stops, is no more than was allowed.                *)
LEMMA StartKeeps ==
  ASSUME WatchInv, Shape', NEW i \in DOMAIN watch.loads, watch'.loads = RemoveAt(watch.loads, i),
         watch'.open = watch.open, watch'.hurried = watch.hurried,
         watch'.timer = watch.timers + 1, watch'.timers = watch.timers + 1,
         NEW R \in {watch.running, watch.running \ {watch.timer}},
         watch'.running = R \cup {watch.timers + 1}
  PROVE  WatchInv'
<1> DEFINE n == Len(watch.loads)
           loose == Loose(watch)
           looseAfter == Loose(watch)'
<1>1. /\ watch.loads \in Waits /\ watch.timers \in Nat /\ watch.hurried \in Nat
      /\ IsFiniteSet(watch.running) /\ 0 \notin watch.running
      /\ Cardinality(loose) + n <= watch.hurried + Room(watch)
  BY DEF WatchInv
<1>2. /\ watch'.loads \in Waits /\ Len(watch'.loads) = n - 1 /\ n \in Nat /\ watch.loads # <<>>
  BY <1>1, FewerWaits
<1>3. IsFiniteSet(R) /\ IsFiniteSet(watch'.running) /\ 0 \notin watch'.running
  <2>1. IsFiniteSet(watch.running \ {watch.timer})
    BY <1>1, Intervals
  <2>2. IsFiniteSet(R)
    BY <1>1, <2>1
  <2>3. IsFiniteSet(R \cup {watch.timers + 1})
    BY <2>2, Intervals
  <2>. QED BY <1>1, <2>2, <2>3
<1>4. Cardinality(looseAfter) + (n - 1) <= watch.hurried
  <2>1. CASE watch.open
    <3>1. looseAfter \subseteq R /\ loose = watch.running \ {watch.timer}
      BY <2>1 DEF Loose
    <3>2. /\ Cardinality(looseAfter) <= Cardinality(watch.running)
          /\ Cardinality(looseAfter) \in Nat /\ Cardinality(watch.running) \in Nat
      BY <1>1, <3>1, FewerIntervals
    <3>3. CASE watch.timer \in watch.running
      <4>1. Cardinality(watch.running) <= Cardinality(loose) + 1 /\ Cardinality(loose) \in Nat
        BY <1>1, <3>1, Intervals
      <4>2. Room(watch) = 0
        BY <3>3 DEF Room
      <4>. HIDE DEF loose, looseAfter, n
      <4>. QED BY <1>1, <1>2, <3>2, <4>1, <4>2
    <3>4. CASE watch.timer \notin watch.running
      <4>1. loose = watch.running /\ Room(watch) = 1
        BY <1>2, <2>1, <3>1, <3>4 DEF Room
      <4>. HIDE DEF loose, looseAfter, n
      <4>. QED BY <1>1, <1>2, <3>2, <4>1
    <3>. QED BY <3>3, <3>4
  <2>2. CASE ~watch.open
    <3>1. looseAfter = R \cup {watch.timers + 1} /\ loose = watch.running /\ Room(watch) = 0
      BY <2>2 DEF Loose, Room
    <3>2. /\ Cardinality(R \cup {watch.timers + 1}) <= Cardinality(R) + 1
          /\ Cardinality(R \cup {watch.timers + 1}) \in Nat
      BY <1>3, Intervals
    <3>3. Cardinality(R) <= Cardinality(watch.running) /\ Cardinality(R) \in Nat
          /\ Cardinality(watch.running) \in Nat
      BY <1>1, FewerIntervals
    <3>. HIDE DEF loose, looseAfter, n
    <3>. QED BY <1>1, <1>2, <3>1, <3>2, <3>3
  <2>. QED BY <2>1, <2>2
<1>5. Room(watch)' = 0
  BY DEF Room
<1>. HIDE DEF looseAfter, n
<1>6. Cardinality(looseAfter) + Len(watch'.loads) <= watch'.hurried + Room(watch)'
  BY <1>1, <1>2, <1>4, <1>5
<1>. QED BY <1>1, <1>2, <1>3, <1>6 DEF WatchInv, looseAfter

(* Every step of the consensus page keeps the invariant, one by one.        *)
LEMMA WatchStepInv == ASSUME WatchInv, WatchStep PROVE WatchInv'
<1>0. /\ Shape /\ watch.loads \in Waits /\ watch.timers \in Nat /\ watch.hurried \in Nat
      /\ IsFiniteSet(watch.running) /\ 0 \notin watch.running
      /\ Cardinality(Loose(watch)) + Len(watch.loads) <= watch.hurried + Room(watch)
      /\ Len(watch.loads) \in Nat /\ (watch.loads # <<>> <=> Len(watch.loads) # 0)
  BY MoreWaits DEF WatchInv
<1>8. /\ IsFiniteSet(watch.running \ {watch.timer}) /\ Cardinality(watch.running \ {watch.timer}) \in Nat
      /\ Cardinality(watch.running) \in Nat
  BY <1>0, Intervals
<1>1. ASSUME OpenWatch PROVE WatchInv'
  <2>1. /\ Shape' /\ watch'.open /\ watch'.loads = <<"validators">> /\ watch'.timer = watch.timer
        /\ watch'.running = watch.running /\ watch'.hurried = 0 /\ watch'.timers = watch.timers
        /\ ~watch.open /\ watch.hurried = 0
    BY <1>0, <1>1 DEF OpenWatch, Shape, WellFormed, Fields
  <2>2. <<"validators">> \in Waits /\ Len(<<"validators">>) = 1 /\ <<"validators">> # <<>>
    BY DEF Waits
  <2>3. Cardinality(watch.running) = 0
    BY <1>0, <1>8, <2>1 DEF Loose, Room
  <2>4. watch.running = {}
    BY <1>0, <2>3, FS_EmptySet
  <2>5. Loose(watch)' = {} /\ Room(watch)' = 1 /\ Cardinality({}) = 0
    BY <2>1, <2>2, <2>4, FS_EmptySet DEF Loose, Room
  <2>. QED BY <1>0, <2>1, <2>2, <2>5 DEF WatchInv
<1>2. ASSUME onChange PROVE WatchInv'
  <2>1. /\ Shape' /\ watch'.open /\ watch.open /\ watch'.running = watch.running \ {watch.timer}
        /\ watch'.loads = Append(watch.loads, "change") /\ watch'.timer = 0 /\ watch'.timers = watch.timers
        /\ watch'.hurried = IF watch.loads # <<>> THEN watch.hurried + 1 ELSE watch.hurried
    BY <1>0, <1>2 DEF onChange, clearTime, Shape, WellFormed, Fields
  <2>2. /\ watch'.loads \in Waits /\ Len(watch'.loads) = Len(watch.loads) + 1 /\ watch'.loads # <<>>
    BY <1>0, <2>1, MoreWaits
  <2>3. Loose(watch)' = Loose(watch) /\ Room(watch)' = 1
    BY <1>0, <2>1, <2>2 DEF Loose, Room
  <2>4. Cardinality(Loose(watch)) \in Nat
    BY <1>8, <2>1 DEF Loose
  <2>5. Room(watch) = 0 \/ (Room(watch) = 1 /\ watch.loads # <<>>)
    BY DEF Room
  <2>6. Cardinality(Loose(watch)) + Len(watch'.loads) <= watch'.hurried + 1 /\ watch'.hurried \in Nat
    BY <1>0, <2>1, <2>2, <2>4, <2>5
  <2>. QED BY <1>0, <1>8, <2>1, <2>2, <2>3, <2>6 DEF WatchInv
<1>3. ASSUME LeaveWatch PROVE WatchInv'
  <2>1. /\ Shape' /\ ~watch'.open /\ watch.open /\ watch'.running = watch.running \ {watch.timer}
        /\ watch'.loads = watch.loads /\ watch'.timers = watch.timers
        /\ watch'.hurried = IF watch.loads # <<>> THEN watch.hurried + 1 ELSE watch.hurried
    BY <1>0, <1>3 DEF LeaveWatch, clearTime, Shape, WellFormed, Fields
  <2>2. Loose(watch)' = Loose(watch) /\ Room(watch)' = 0
    BY <2>1 DEF Loose, Room
  <2>3. Cardinality(Loose(watch)) \in Nat
    BY <1>8, <2>1 DEF Loose
  <2>4. Room(watch) = 0 \/ (Room(watch) = 1 /\ watch.loads # <<>>)
    BY DEF Room
  <2>5. Cardinality(Loose(watch)) + Len(watch.loads) <= watch'.hurried /\ watch'.hurried \in Nat
    BY <1>0, <2>1, <2>3, <2>4
  <2>6. Cardinality(Loose(watch)') + Len(watch'.loads) <= watch'.hurried + Room(watch)'
    BY <1>0, <2>1, <2>2, <2>5
  <2>. QED BY <1>0, <1>8, <2>1, <2>5, <2>6 DEF WatchInv
<1>4. ASSUME NEW i \in DOMAIN watch.loads, AnswerLoad(i) PROVE WatchInv'
  <2>1. PICK good \in BOOLEAN :
          LET w == [watch EXCEPT !.loads = RemoveAt(@, i)]
              told == [w EXCEPT !.status = IF good THEN 200 ELSE 500]
          IN watch' = CASE watch.loads[i] = "validators" ->
                             IF good THEN [w EXCEPT !.loads = Append(@, "opening")] ELSE w
                        [] watch.loads[i] = "opening" -> setInterval(clearTime(update(told)))
                        [] watch.loads[i] = "change" -> setInterval(update(told))
    BY <1>4 DEF AnswerLoad
  <2> DEFINE w == [watch EXCEPT !.loads = RemoveAt(@, i)]
             told == [w EXCEPT !.status = IF good THEN 200 ELSE 500]
             more == [w EXCEPT !.loads = Append(@, "opening")]
  <2>0. WellFormed(watch) /\ watch.loads \in Waits
    BY DEF WatchInv, Shape
  <2>2. \A v \in {w, told} : /\ WellFormed(v) /\ v.open = watch.open /\ v.hurried = watch.hurried
                             /\ v.running = watch.running /\ v.timer = watch.timer /\ v.timers = watch.timers
                             /\ v.loads = RemoveAt(watch.loads, i)
    <3>1. /\ WellFormed(w) /\ w.open = watch.open /\ w.hurried = watch.hurried /\ w.timers = watch.timers
          /\ w.running = watch.running /\ w.timer = watch.timer /\ w.loads = RemoveAt(watch.loads, i)
      BY <2>0 DEF WellFormed, Fields
    <3>. HIDE DEF w
    <3>2. /\ WellFormed(told) /\ told.open = w.open /\ told.hurried = w.hurried /\ told.timers = w.timers
          /\ told.running = w.running /\ told.timer = w.timer /\ told.loads = w.loads
      BY <3>1 DEF WellFormed, Fields
    <3>. QED BY <3>1, <3>2
  <2>3. /\ WellFormed(more) /\ more.open = watch.open /\ more.hurried = watch.hurried
        /\ more.running = watch.running /\ more.timer = watch.timer /\ more.timers = watch.timers
        /\ more.loads = Append(RemoveAt(watch.loads, i), "opening")
    BY <2>0 DEF WellFormed, Fields
  <2>. HIDE DEF w, told, more
  <2>8. /\ RemoveAt(watch.loads, i) \in Waits /\ Len(RemoveAt(watch.loads, i)) = Len(watch.loads) - 1
        /\ watch.loads # <<>>
    BY <2>0, FewerWaits
  <2>4. CASE watch.loads[i] = "validators"
    <3>1. watch' = more \/ watch' = w
      BY <2>1, <2>4 DEF w, more
    <3>2. CASE watch' = more
      <4>1. /\ watch'.loads \in Waits /\ Len(watch'.loads) = Len(watch.loads) /\ watch'.loads # <<>>
        <5>1. /\ more.loads \in Waits /\ Len(more.loads) = Len(RemoveAt(watch.loads, i)) + 1
              /\ more.loads # <<>>
          BY <2>3, <2>8, MoreWaits
        <5>. QED BY <1>0, <2>8, <3>2, <5>1
      <4>2. Loose(watch)' = Loose(watch) /\ Room(watch)' = Room(watch)
        BY <2>3, <2>8, <3>2, <4>1 DEF Loose, Room
      <4>. QED BY <1>0, <2>3, <3>2, <4>1, <4>2 DEF WatchInv, Shape
    <3>3. CASE watch' = w
      <4>1. Loose(watch)' = Loose(watch)
        BY <2>2, <3>3 DEF Loose
      <4>2. Room(watch)' \in {0, 1} /\ Room(watch) \in {0, 1}
        BY DEF Room
      <4>3. Cardinality(Loose(watch)) \in Nat
        BY <1>8 DEF Loose
      <4>4. Len(watch'.loads) = Len(watch.loads) - 1
        BY <2>2, <2>8, <3>3
      <4>5. Cardinality(Loose(watch)') + Len(watch'.loads) <= watch.hurried + Room(watch)'
        BY <1>0, <4>1, <4>2, <4>3, <4>4
      <4>. QED BY <1>0, <2>2, <2>8, <3>3, <4>5 DEF WatchInv, Shape
    <3>. QED BY <3>1, <3>2, <3>3
  <2>5. CASE watch.loads[i] = "opening"
    <3>1. watch' = setInterval(clearTime(update(told)))
      BY <2>1, <2>5 DEF told, w
    <3>3. WellFormed(update(told)) /\ WellFormed(clearTime(update(told)))
      BY <2>2, Updated, Cleared
    <3>4. /\ WellFormed(watch') /\ watch'.open = watch.open /\ watch'.hurried = watch.hurried
          /\ watch'.loads = RemoveAt(watch.loads, i)
          /\ watch'.timer = watch.timers + 1 /\ watch'.timers = watch.timers + 1
          /\ watch'.running = (watch.running \ {watch.timer}) \cup {watch.timers + 1}
      BY <3>1, <3>3, <2>2, Updated, Cleared, Started
    <3>. QED BY <3>4, StartKeeps DEF Shape
  <2>6. CASE watch.loads[i] = "change"
    <3>1. watch' = setInterval(update(told))
      BY <2>1, <2>6 DEF told, w
    <3>3. WellFormed(update(told))
      BY <2>2, Updated
    <3>4. /\ WellFormed(watch') /\ watch'.open = watch.open /\ watch'.hurried = watch.hurried
          /\ watch'.loads = RemoveAt(watch.loads, i)
          /\ watch'.timer = watch.timers + 1 /\ watch'.timers = watch.timers + 1
          /\ watch'.running = watch.running \cup {watch.timers + 1}
      BY <3>1, <3>3, <2>2, Updated, Started
    <3>. QED BY <3>4, StartKeeps DEF Shape
  <2>7. watch.loads[i] \in {"validators", "opening", "change"}
    <3>1. watch.loads \in Seq({"validators", "opening", "change"}) /\ i \in DOMAIN watch.loads
      BY <1>4, <2>0 DEF Waits
    <3>. QED BY <3>1, Element
  <2>. QED BY <2>4, <2>5, <2>6, <2>7
<1>5. ASSUME TickWatch PROVE WatchInv'
  BY <1>5, Updated, Aside DEF TickWatch, WatchInv, Shape
<1>6. ASSUME AnswerRound PROVE WatchInv'
  <2>1. PICK s \in {200, 500} : watch' = [watch EXCEPT !.asking = @ - 1, !.status = s]
    BY <1>6 DEF AnswerRound
  <2>2. Shape' /\ watch'.open = watch.open /\ watch'.loads = watch.loads /\ watch'.running = watch.running
          /\ watch'.timer = watch.timer /\ watch'.hurried = watch.hurried /\ watch'.timers = watch.timers
    <3>1. WellFormed(watch)
      BY DEF WatchInv, Shape
    <3>. QED BY <2>1, <3>1 DEF Shape, WellFormed, Fields
  <2>. QED BY <2>2, Aside
<1>. QED BY <1>1, <1>2, <1>3, <1>4, <1>5, <1>6 DEF WatchStep

(* It holds of a page that was not opened yet.                              *)
LEMMA WatchInit == Init => WatchInv
<1>. SUFFICES ASSUME Init PROVE WatchInv
  OBVIOUS
<1>1. watch = [open |-> FALSE, loads |-> <<>>, status |-> 200, timer |-> 0, timers |-> 0,
               running |-> {}, asking |-> 0, hurried |-> 0, moves |-> 0]
  BY DEF Init, BlocksInit
<1>2. Shape
  BY <1>1 DEF Shape, WellFormed, Fields
<1>3. Loose(watch) = {} /\ Cardinality({}) = 0 /\ IsFiniteSet({}) /\ Room(watch) = 0
  BY <1>1, FS_EmptySet DEF Loose, Room
<1>4. <<>> \in Waits /\ Len(<<>>) = 0 /\ watch.loads = <<>> /\ watch.running = {}
      /\ watch.timers = 0 /\ watch.hurried = 0
  BY <1>1 DEF Waits
<1>5. Cardinality(Loose(watch)) + Len(watch.loads) <= watch.hurried + Room(watch)
  BY <1>3, <1>4
<1>. QED BY <1>2, <1>3, <1>4, <1>5 DEF WatchInv

(* The pages, the polling and the strip leave the consensus page alone.     *)
LEMMA WatchNext == ASSUME WatchInv, [Next]_vars PROVE WatchInv'
<1>1. ASSUME UNCHANGED watch PROVE WatchInv'
  BY <1>1 DEF WatchInv, Shape, Loose, Room
<1>2. ASSUME StripStep PROVE UNCHANGED watch
  BY <1>2 DEF StripStep, OpenStrip, FillBlock, LeaveStrip, ValidatorsKnown
<1>3. ASSUME PollStep PROVE UNCHANGED watch
  BY <1>3 DEF PollStep, Tick, initial, Produce, AnswerPoll, AnswerLatest, AnswerBlock, FailLatest
<1>. QED BY <1>1, <1>2, <1>3, WatchStepInv
  DEF Next, PagesStep, BlocksStep, vars, blockVars

(* An action while the consensus page still waits for something leaves at   *)
(* most one interval that nobody can stop, and nothing else leaves any: the *)
(* timer that onMounted, onChange and onUnmounted of consensus/index.vue    *)
(* share (lines 18 to 92), for any number of visits, changes and failures   *)
(* and any order of the answers.  Who lets the page load leaves none.       *)
THEOREM NoTimerIsLeft == Spec => []NoTimerLeftBehind
<1>1. WatchInv => NoTimerLeftBehind
  <2>. SUFFICES ASSUME WatchInv PROVE Cardinality(Loose(watch)) <= watch.hurried
    BY DEF NoTimerLeftBehind, Loose
  <2>1. /\ watch.loads \in Waits /\ watch.hurried \in Nat /\ IsFiniteSet(watch.running)
        /\ Cardinality(Loose(watch)) + Len(watch.loads) <= watch.hurried + Room(watch)
    BY DEF WatchInv
  <2>2. Loose(watch) \subseteq watch.running
    BY DEF Loose
  <2>3. Cardinality(Loose(watch)) \in Nat
    BY <2>1, <2>2, FewerIntervals
  <2>4. Len(watch.loads) \in Nat /\ (watch.loads # <<>> <=> Len(watch.loads) # 0)
    BY <2>1, MoreWaits
  <2>5. Room(watch) = 0 \/ (Room(watch) = 1 /\ watch.loads # <<>>)
    BY DEF Room
  <2>. QED BY <2>1, <2>3, <2>4, <2>5
<1>. QED BY WatchInit, WatchNext, <1>1, PTL DEF Spec
-----------------------------------------------------------------------------
(* How blocks may be ordered, without duplicates or gaps, and where they    *)
(* end.                                                                     *)
Increasing(s) == \A i, j \in 1..Len(s) : i < j => s[i] < s[j]
Rising(s) == \A i, j \in 1..Len(s) : i < j => s[i] <= s[j]
Falling(s) == \A i, j \in 1..Len(s) : i < j => s[i] > s[j]
Gapless(s) == \A i, j \in 1..Len(s) : s[j] = s[i] + (j - i)
Distinct(s) == \A i, j \in 1..Len(s) : s[i] = s[j] => i = j
UpTo(s, n) == \A i \in 1..Len(s) : s[i] <= n
EndsAt(s, n) == \A i \in 1..Len(s) : s[i] + (Len(s) - i) = n

(* The last part of a sequence is a shifted copy of its end (LastOf).       *)
LEMMA LastPart ==
  ASSUME NEW s \in Seq(Nat), NEW n \in Nat
  PROVE  /\ LastOf(s, n) \in Seq(Nat) /\ Len(LastOf(s, n)) \in Nat
         /\ Len(LastOf(s, n)) <= Len(s)
         /\ \A i \in 1..Len(LastOf(s, n)) : LastOf(s, n)[i] = s[i + (Len(s) - Len(LastOf(s, n)))]
<1> DEFINE m == IF Len(s) > n THEN Len(s) - n + 1 ELSE 1
<1>1. m \in 1..Len(s) + 1
  OBVIOUS
<1>. HIDE DEF m
<1>2. LastOf(s, n) = SubSeq(s, m, Len(s))
  BY DEF LastOf, m
<1>3. /\ SubSeq(s, m, Len(s)) \in Seq(Nat) /\ Len(SubSeq(s, m, Len(s))) = Len(s) - m + 1
      /\ \A i \in 1..Len(s) - m + 1 : SubSeq(s, m, Len(s))[i] = s[i + m - 1]
  BY <1>1
<1>. QED BY <1>1, <1>2, <1>3

(* What orders a sequence, or bounds its elements, does so with its last    *)
(* part.                                                                    *)
LEMMA LastPartKeeps ==
  ASSUME NEW s \in Seq(Nat), NEW n \in Nat
  PROVE  /\ Increasing(s) => Increasing(LastOf(s, n))
         /\ Rising(s) => Rising(LastOf(s, n))
         /\ Gapless(s) => Gapless(LastOf(s, n))
         /\ Distinct(s) => Distinct(LastOf(s, n))
         /\ \A m \in Nat : UpTo(s, m) => UpTo(LastOf(s, n), m)
         /\ \A m \in Nat : (\A i \in 1..Len(s) : s[i] >= m)
              => \A i \in 1..Len(LastOf(s, n)) : LastOf(s, n)[i] >= m
<1> DEFINE t == LastOf(s, n)
           d == Len(s) - Len(t)
<1>1. /\ t \in Seq(Nat) /\ d \in Nat /\ Len(t) = Len(s) - d
      /\ \A i \in 1..Len(t) : t[i] = s[i + d] /\ i + d \in 1..Len(s)
  BY LastPart
<1>. HIDE DEF t, d
<1>2. Increasing(s) => Increasing(t)
  <2>. SUFFICES ASSUME Increasing(s), NEW i \in 1..Len(t), NEW j \in 1..Len(t), i < j PROVE t[i] < t[j]
    BY DEF Increasing
  <2>1. i + d \in 1..Len(s) /\ j + d \in 1..Len(s) /\ i + d < j + d
    BY <1>1
  <2>2. s[i + d] < s[j + d]
    BY <2>1 DEF Increasing
  <2>. QED BY <1>1, <2>2
<1>3. Rising(s) => Rising(t)
  <2>. SUFFICES ASSUME Rising(s), NEW i \in 1..Len(t), NEW j \in 1..Len(t), i < j PROVE t[i] <= t[j]
    BY DEF Rising
  <2>1. i + d \in 1..Len(s) /\ j + d \in 1..Len(s) /\ i + d < j + d
    BY <1>1
  <2>2. s[i + d] <= s[j + d]
    BY <2>1 DEF Rising
  <2>. QED BY <1>1, <2>2
<1>4. Gapless(s) => Gapless(t)
  <2>. SUFFICES ASSUME Gapless(s), NEW i \in 1..Len(t), NEW j \in 1..Len(t) PROVE t[j] = t[i] + (j - i)
    BY DEF Gapless
  <2>1. s[j + d] = s[i + d] + ((j + d) - (i + d))
    BY <1>1 DEF Gapless
  <2>2. i + d \in 1..Len(s) /\ s[i + d] \in Nat
    BY <1>1
  <2>. QED BY <1>1, <2>1, <2>2
<1>5. Distinct(s) => Distinct(t)
  <2>. SUFFICES ASSUME Distinct(s), NEW i \in 1..Len(t), NEW j \in 1..Len(t), t[i] = t[j] PROVE i = j
    BY DEF Distinct
  <2>1. i + d = j + d
    BY <1>1 DEF Distinct
  <2>. QED BY <1>1, <2>1
<1>6. ASSUME NEW m \in Nat, UpTo(s, m) PROVE UpTo(t, m)
  <2>. SUFFICES ASSUME NEW i \in 1..Len(t) PROVE t[i] <= m
    BY DEF UpTo
  <2>. QED BY <1>1, <1>6 DEF UpTo
<1>7. ASSUME NEW m \in Nat, \A i \in 1..Len(s) : s[i] >= m, NEW i \in 1..Len(t) PROVE t[i] >= m
  <2>1. t[i] = s[i + d] /\ i + d \in 1..Len(s)
    BY <1>1
  <2>. QED BY <1>7, <2>1
<1>. QED BY <1>2, <1>3, <1>4, <1>5, <1>6, <1>7 DEF t

(* What orders a sequence still does when a larger element follows.         *)
LEMMA Longer ==
  ASSUME NEW s \in Seq(Nat), NEW n \in Nat
  PROVE  /\ Append(s, n) \in Seq(Nat) /\ s \o <<n>> = Append(s, n)
         /\ (Increasing(s) /\ \A i \in 1..Len(s) : s[i] < n) =>
              Increasing(Append(s, n)) /\ UpTo(Append(s, n), n)
         /\ (Rising(s) /\ UpTo(s, n)) => Rising(Append(s, n)) /\ UpTo(Append(s, n), n)
         /\ EndsAt(s, n - 1) => EndsAt(Append(s, n), n)
         /\ (Distinct(s) /\ \A i \in 1..Len(s) : s[i] # n) => Distinct(Append(s, n))
<1> DEFINE t == Append(s, n)
<1>1. /\ t \in Seq(Nat) /\ Len(t) = Len(s) + 1 /\ t[Len(s) + 1] = n
      /\ \A i \in 1..Len(s) : t[i] = s[i] /\ s[i] \in Nat
  OBVIOUS
<1>2. s \o <<n>> = t
  OBVIOUS
<1>. HIDE DEF t
<1>3. (Increasing(s) /\ \A i \in 1..Len(s) : s[i] < n) => Increasing(t) /\ UpTo(t, n)
  <2>. SUFFICES ASSUME Increasing(s), \A i \in 1..Len(s) : s[i] < n PROVE Increasing(t) /\ UpTo(t, n)
    OBVIOUS
  <2>1. \A i \in 1..Len(t) : (i = Len(s) + 1 /\ t[i] = n) \/ (i \in 1..Len(s) /\ t[i] = s[i] /\ t[i] < n)
    BY <1>1
  <2>2. UpTo(t, n)
    BY <2>1 DEF UpTo
  <2>3. Increasing(t)
    <3>. SUFFICES ASSUME NEW i \in 1..Len(t), NEW j \in 1..Len(t), i < j PROVE t[i] < t[j]
      BY DEF Increasing
    <3>1. i \in 1..Len(s) /\ t[i] = s[i] /\ t[i] < n
      BY <1>1, <2>1
    <3>2. CASE j = Len(s) + 1
      <4>1. t[j] = n
        BY <1>1, <3>2
      <4>. QED BY <3>1, <4>1
    <3>3. CASE j # Len(s) + 1
      <4>1. j \in 1..Len(s)
        BY <1>1, <3>3
      <4>2. t[j] = s[j]
        BY <1>1, <4>1
      <4>. QED BY <3>1, <4>1, <4>2 DEF Increasing
    <3>. QED BY <3>2, <3>3
  <2>. QED BY <2>2, <2>3
<1>4. (Rising(s) /\ UpTo(s, n)) => Rising(t) /\ UpTo(t, n)
  <2>. SUFFICES ASSUME Rising(s), UpTo(s, n) PROVE Rising(t) /\ UpTo(t, n)
    OBVIOUS
  <2>1. \A i \in 1..Len(t) : \/ i = Len(s) + 1 /\ t[i] = n
                             \/ i \in 1..Len(s) /\ t[i] = s[i] /\ t[i] <= n
    BY <1>1 DEF UpTo
  <2>2. UpTo(t, n)
    BY <2>1 DEF UpTo
  <2>3. ASSUME NEW i \in 1..Len(t), NEW j \in 1..Len(t), i < j PROVE t[i] <= t[j]
    <3>1. i \in 1..Len(s) /\ t[i] = s[i] /\ t[i] <= n
      BY <1>1, <2>1, <2>3
    <3>2. CASE j = Len(s) + 1
      <4>1. t[j] = n
        BY <1>1, <3>2
      <4>. QED BY <3>1, <4>1
    <3>3. CASE j # Len(s) + 1
      <4>1. j \in 1..Len(s) /\ t[j] = s[j]
        BY <1>1, <3>3
      <4>. QED BY <2>3, <3>1, <4>1 DEF Rising
    <3>. QED BY <3>2, <3>3
  <2>. QED BY <2>2, <2>3 DEF Rising
<1>5. EndsAt(s, n - 1) => EndsAt(t, n)
  <2>. SUFFICES ASSUME EndsAt(s, n - 1), NEW i \in 1..Len(t) PROVE t[i] + (Len(t) - i) = n
    BY DEF EndsAt
  <2>1. CASE i = Len(s) + 1
    BY <1>1, <2>1
  <2>2. CASE i # Len(s) + 1
    <3>1. i \in 1..Len(s) /\ t[i] = s[i] /\ s[i] \in Nat
      BY <1>1, <2>2
    <3>2. s[i] + (Len(s) - i) = n - 1
      BY <3>1 DEF EndsAt
    <3>3. s[i] + (Len(s) + 1 - i) = n
      <4>1. \A a, l, k, m \in Int : a + (l - k) = m - 1 => a + (l + 1 - k) = m
        OBVIOUS
      <4>2. s[i] \in Int /\ Len(s) \in Int /\ i \in Int /\ n \in Int
        BY <3>1
      <4>. QED BY <3>2, <4>1, <4>2
    <3>. QED BY <1>1, <3>1, <3>3
  <2>. QED BY <2>1, <2>2
<1>6. (Distinct(s) /\ \A i \in 1..Len(s) : s[i] # n) => Distinct(t)
  <2>. SUFFICES ASSUME Distinct(s), \A i \in 1..Len(s) : s[i] # n,
                       NEW i \in 1..Len(t), NEW j \in 1..Len(t), t[i] = t[j] PROVE i = j
    BY DEF Distinct
  <2>1. \A k \in 1..Len(t) : (k = Len(s) + 1 /\ t[k] = n) \/ (k \in 1..Len(s) /\ t[k] = s[k] /\ t[k] # n)
    BY <1>1
  <2>2. CASE i = Len(s) + 1
    BY <2>1, <2>2
  <2>3. CASE i # Len(s) + 1
    <3>1. /\ i \in 1..Len(s) /\ t[i] = s[i] /\ t[i] # n
          /\ j \in 1..Len(s) /\ t[j] = s[j]
      BY <2>1, <2>3
    <3>. QED BY <3>1 DEF Distinct
  <2>. QED BY <2>2, <2>3
<1>. QED BY <1>1, <1>2, <1>3, <1>4, <1>5, <1>6 DEF t

(* A sequence that counts up to a number has no gap.                        *)
LEMMA NoGaps ==
  ASSUME NEW s \in Seq(Nat), NEW n \in Int, EndsAt(s, n)
  PROVE  Gapless(s)
<1>. SUFFICES ASSUME NEW i \in 1..Len(s), NEW j \in 1..Len(s) PROVE s[j] = s[i] + (j - i)
  BY DEF Gapless
<1>1. s[i] + (Len(s) - i) = n /\ s[j] + (Len(s) - j) = n /\ s[i] \in Nat /\ s[j] \in Nat
  BY DEF EndsAt
<1>. QED BY <1>1

(* And one without a gap counts up to its last element.                     *)
LEMMA LastGap ==
  ASSUME NEW s \in Seq(Nat), Gapless(s), s # <<>>
  PROVE  EndsAt(s, s[Len(s)])
<1>. SUFFICES ASSUME NEW i \in 1..Len(s) PROVE s[i] + (Len(s) - i) = s[Len(s)]
  BY DEF EndsAt
<1>1. Len(s) \in 1..Len(s)
  OBVIOUS
<1>2. s[Len(s)] = s[i] + (Len(s) - i)
  <2>1. \A k, j \in 1..Len(s) : s[j] = s[k] + (j - k)
    BY DEF Gapless
  <2>. QED BY <1>1, <2>1
<1>. QED BY <1>2

(* An increasing sequence holds nothing twice.                              *)
LEMMA IncreasingDistinct == ASSUME NEW s \in Seq(Nat), Increasing(s) PROVE Distinct(s)
BY DEF Increasing, Distinct

(* What orders a sequence still does when a smaller element is put before   *)
(* it.                                                                      *)
LEMMA InFront ==
  ASSUME NEW s \in Seq(Nat), NEW n \in Nat
  PROVE  /\ <<n>> \o s \in Seq(Nat)
         /\ (Rising(s) /\ \A i \in 1..Len(s) : s[i] >= n) => Rising(<<n>> \o s)
         /\ \A i \in 1..Len(<<n>> \o s) :
              \/ i = 1 /\ (<<n>> \o s)[i] = n
              \/ i > 1 /\ i - 1 \in 1..Len(s) /\ (<<n>> \o s)[i] = s[i - 1]
<1> DEFINE t == <<n>> \o s
<1>1. /\ t \in Seq(Nat) /\ Len(t) = Len(s) + 1 /\ t[1] = n
      /\ \A i \in 1..Len(s) : t[i + 1] = s[i] /\ s[i] \in Nat
  OBVIOUS
<1>. HIDE DEF t
<1>2. \A i \in 1..Len(t) : (i = 1 /\ t[i] = n) \/ (i > 1 /\ i - 1 \in 1..Len(s) /\ t[i] = s[i - 1])
  <2>. SUFFICES ASSUME NEW i \in 1..Len(t), i # 1 PROVE i - 1 \in 1..Len(s) /\ t[i] = s[i - 1]
    BY <1>1
  <2>1. i - 1 \in 1..Len(s) /\ (i - 1) + 1 = i
    BY <1>1
  <2>. QED BY <1>1, <2>1
<1>3. (Rising(s) /\ \A i \in 1..Len(s) : s[i] >= n) => Rising(t)
  <2>. SUFFICES ASSUME Rising(s), \A i \in 1..Len(s) : s[i] >= n,
                       NEW i \in 1..Len(t), NEW j \in 1..Len(t), i < j PROVE t[i] <= t[j]
    BY DEF Rising
  <2>1. j > 1 /\ j - 1 \in 1..Len(s) /\ t[j] = s[j - 1]
    BY <1>2
  <2>2. CASE i = 1
    BY <1>1, <2>1, <2>2
  <2>3. CASE i # 1
    <3>1. i - 1 \in 1..Len(s) /\ t[i] = s[i - 1] /\ i - 1 < j - 1
      BY <1>2, <2>3
    <3>. QED BY <2>1, <3>1 DEF Rising
  <2>. QED BY <2>2, <2>3
<1>. QED BY <1>1, <1>2, <1>3 DEF t

(* What the fetches, the polling and the store may be.                      *)
Runs == [counted : BOOLEAN, asked : Nat, next : Nat, until : Nat, got : Seq(Nat)]
Pollings == [fetchAll : BOOLEAN, counter : Int, skips : Nat, runs : Seq(Runs), started : BOOLEAN,
             overlap : BOOLEAN, lost : Nat]
Bases == [latest : Nat, recents : Seq(Nat)]
PollShape == top \in Nat /\ base \in Bases /\ polling \in Pollings

(* What a fetch may hold: nothing while it waits for the newest block; then *)
(* blocks that follow the recent ones, up to the one before the next,       *)
(* without a gap if none was lost.                                          *)
RunInv(r) ==
  IF r.next = 0 THEN base.latest <= r.asked /\ r.asked <= top /\ r.got = <<>>
  ELSE LET held == base.recents \o r.got IN
       /\ Increasing(held) /\ UpTo(held, r.next - 1)
       /\ r.next < r.until /\ r.until = base.latest
       /\ polling.lost = 0 => EndsAt(held, r.next - 1)
(* While fetches never overlapped there is one at most, and all is in order.*)
OneByOne ==
  /\ Len(polling.runs) <= 1
  /\ \A i \in DOMAIN polling.runs : RunInv(polling.runs[i])
  /\ Increasing(base.recents) /\ UpTo(base.recents, base.latest)
  /\ polling.fetchAll /\ polling.lost = 0 => Gapless(base.recents)
(* Where skipped blocks are not asked for, no block is held twice.          *)
NoneSkipped == Distinct(base.recents) /\ \A i \in DOMAIN polling.runs : polling.runs[i].next = 0
(* The inductive invariant of the recent blocks.                            *)
OrderInv ==
  /\ base.latest <= top
  /\ ~polling.fetchAll => NoneSkipped
  /\ ~polling.overlap => OneByOne

(* Without one element: the others are those there were.                    *)
LEMMA Removed ==
  ASSUME NEW S, NEW s \in Seq(S), NEW i \in DOMAIN s
  PROVE  /\ RemoveAt(s, i) \in Seq(S)
         /\ \A j \in DOMAIN RemoveAt(s, i) : \E k \in DOMAIN s : RemoveAt(s, i)[j] = s[k]
         /\ Len(s) <= 1 => RemoveAt(s, i) = <<>>
<1>1. i \in 1..Len(s) /\ Len(s) \in Nat
  OBVIOUS
<1> DEFINE a == SubSeq(s, 1, i - 1)
           b == SubSeq(s, i + 1, Len(s))
<1>2. /\ a \in Seq(S) /\ Len(a) = i - 1
      /\ \A j \in 1..i - 1 : a[j] = s[j]
  BY <1>1
<1>3. /\ b \in Seq(S) /\ Len(b) = Len(s) - i
      /\ \A j \in 1..Len(s) - i : b[j] = s[j + i]
  BY <1>1
<1>. HIDE DEF a, b
<1>4. /\ a \o b \in Seq(S) /\ Len(a \o b) = Len(s) - 1
      /\ \A j \in 1..Len(s) - 1 : (a \o b)[j] = IF j <= i - 1 THEN a[j] ELSE b[j - (i - 1)]
  <2>1. /\ a \o b \in Seq(S) /\ Len(a \o b) = Len(a) + Len(b)
        /\ \A j \in 1..Len(a) + Len(b) : (a \o b)[j] = IF j <= Len(a) THEN a[j] ELSE b[j - Len(a)]
    BY <1>2, <1>3
  <2>2. Len(a) + Len(b) = Len(s) - 1
    BY <1>1, <1>2, <1>3
  <2>. QED BY <2>1, <2>2, <1>2
<1>5. ASSUME NEW j \in 1..Len(s) - 1 PROVE \E k \in 1..Len(s) : (a \o b)[j] = s[k]
  <2>1. CASE j <= i - 1
    <3>1. (a \o b)[j] = s[j] /\ j \in 1..Len(s)
      BY <1>1, <1>2, <1>4, <2>1
    <3>. QED BY <3>1
  <2>2. CASE ~(j <= i - 1)
    <3>1. (a \o b)[j] = b[j - (i - 1)] /\ j - (i - 1) \in 1..Len(s) - i
      BY <1>1, <1>4, <2>2
    <3>2. b[j - (i - 1)] = s[(j - (i - 1)) + i] /\ (j - (i - 1)) + i \in 1..Len(s)
      BY <1>1, <1>3, <3>1
    <3>. QED BY <3>1, <3>2
  <2>. QED BY <2>1, <2>2
<1>6. RemoveAt(s, i) = a \o b
  BY DEF RemoveAt, a, b
<1>7. Len(s) <= 1 => a \o b = <<>>
  BY <1>1, <1>4
<1>. QED
  <2>1. \A t \in Seq(S) : DOMAIN t = 1..Len(t)
    OBVIOUS
  <2>. QED BY <2>1, <1>4, <1>5, <1>6, <1>7

(* An element put after the second of two sequences follows both.           *)
LEMMA Joined ==
  ASSUME NEW s \in Seq(Nat), NEW t \in Seq(Nat), NEW n \in Nat
  PROVE  s \o t \in Seq(Nat) /\ s \o Append(t, n) = Append(s \o t, n) /\ s \o <<>> = s
OBVIOUS

(* WithoutRun takes a fetch out and leaves the rest but for the counter.    *)
LEMMA RunRemoved ==
  ASSUME NEW p \in Pollings, NEW i \in DOMAIN p.runs
  PROVE  /\ WithoutRun(p, i) \in Pollings
         /\ WithoutRun(p, i).fetchAll = p.fetchAll /\ WithoutRun(p, i).overlap = p.overlap
         /\ WithoutRun(p, i).lost = p.lost /\ WithoutRun(p, i).runs = RemoveAt(p.runs, i)
<1>1. p.runs \in Seq(Runs) /\ p.counter \in Int
  BY DEF Pollings
<1>2. RemoveAt(p.runs, i) \in Seq(Runs)
  BY <1>1, Removed
<1> DEFINE c == IF p.runs[i].counted THEN p.counter - 1 ELSE p.counter
           q == RemoveAt(p.runs, i)
<1>3. c \in Int
  BY <1>1
<1>4. WithoutRun(p, i) = [p EXCEPT !.runs = q, !.counter = c]
  BY DEF WithoutRun
<1>. HIDE DEF c, q
<1>5. [p EXCEPT !.runs = q, !.counter = c] \in Pollings
  BY <1>2, <1>3 DEF Pollings, q
<1>. QED BY <1>4, <1>5 DEF Pollings, q

(* What a fetch's first answer, or its failure, leads to (Combine).         *)
LEMMA CombineCases ==
  ASSUME PollShape, NEW p \in Pollings, NEW i \in DOMAIN p.runs, NEW h \in Nat,
         NEW recents \in Seq(Nat), Combine(p, i, h, recents)
  PROVE  /\ base' \in Bases /\ base'.latest = h
         /\ \/ /\ polling' = WithoutRun(p, i) /\ base'.recents = recents
               /\ \E j \in 1..Len(recents) : recents[j] = h
            \/ /\ polling.fetchAll /\ recents # <<>> /\ recents[Len(recents)] + 1 < h
               /\ polling' = [p EXCEPT !.runs[i].next = recents[Len(recents)] + 1, !.runs[i].until = h]
               /\ base'.recents = recents
            \/ /\ h = 0 /\ polling' = WithoutRun(p, i)
               /\ base'.recents = LastOf(recents, RecentLimit)
            \/ /\ \A j \in 1..Len(recents) : recents[j] # h
               /\ ~polling.fetchAll \/ recents = <<>> \/ recents[Len(recents)] + 1 >= h
               /\ polling' = WithoutRun(p, i)
               /\ base'.recents = LastOf(Append(recents, h), RecentLimit)
<1>1. ASSUME NEW r \in Seq(Nat), base' = [base EXCEPT !.latest = h, !.recents = r]
      PROVE  base' \in Bases /\ base'.latest = h /\ base'.recents = r
  BY <1>1 DEF PollShape, Bases
<1>2. (h \in ToSet(recents)) <=> \E j \in 1..Len(recents) : recents[j] = h
  BY DEF ToSet
<1>3. Last(recents) = recents[Len(recents)]
  BY DEF Last
<1>4. recents # <<>> => recents[Len(recents)] \in Nat
  OBVIOUS
<1> DEFINE skip == polling.fetchAll /\ recents # <<>> /\ recents[Len(recents)] + 1 < h
<1>5. /\ skip => Skipped(recents, h) = <<recents[Len(recents)] + 1, h>>
      /\ ~skip => Skipped(recents, h) = <<>>
  BY <1>3 DEF Skipped
<1>6. \A x, y : <<x, y>> # <<>> /\ <<x, y>>[1] = x /\ <<x, y>>[2] = y
  OBVIOUS
<1>7. CASE h \in ToSet(recents)
  <2>1. polling' = WithoutRun(p, i) /\ base' = [base EXCEPT !.latest = h, !.recents = recents]
    BY <1>7 DEF Combine
  <2>. QED BY <2>1, <1>1, <1>2, <1>7
<1>8. CASE h \notin ToSet(recents) /\ skip
  <2>1. Skipped(recents, h) # <<>>
    BY <1>5, <1>6, <1>8
  <2>2. /\ polling' = [p EXCEPT !.runs[i].next = Skipped(recents, h)[1],
                                 !.runs[i].until = Skipped(recents, h)[2]]
        /\ base' = [base EXCEPT !.latest = h, !.recents = recents]
    BY <1>8, <2>1 DEF Combine
  <2>3. /\ Skipped(recents, h)[1] = recents[Len(recents)] + 1
        /\ Skipped(recents, h)[2] = h
    BY <1>5, <1>6, <1>8
  <2>4. polling' = [p EXCEPT !.runs[i].next = recents[Len(recents)] + 1, !.runs[i].until = h]
    BY <2>2, <2>3
  <2>. QED BY <2>2, <2>4, <1>1, <1>8
<1>9. CASE h \notin ToSet(recents) /\ ~skip
  <2>1. Skipped(recents, h) = <<>>
    BY <1>5, <1>9
  <2>2. /\ polling' = WithoutRun(p, i)
        /\ base' = [base EXCEPT !.latest = h,
                      !.recents = Kept(recents, IF h = 0 THEN <<>> ELSE <<h>>)]
    BY <1>9, <2>1 DEF Combine
  <2>3. CASE h = 0
    <3>1. recents \o <<>> = recents
      OBVIOUS
    <3>2. LastOf(recents, RecentLimit) \in Seq(Nat)
      BY LastPart, BlocksAssumption
    <3>. QED BY <2>2, <2>3, <3>1, <3>2, <1>1 DEF Kept
  <2>4. CASE h # 0
    <3>1. recents \o <<h>> = Append(recents, h)
      OBVIOUS
    <3>0. LastOf(Append(recents, h), RecentLimit) \in Seq(Nat)
      <4>1. RecentLimit \in Nat /\ Append(recents, h) \in Seq(Nat)
        BY BlocksAssumption
      <4>. QED BY <4>1, LastPart
    <3>2. base' \in Bases /\ base'.latest = h /\ base'.recents = LastOf(Append(recents, h), RecentLimit)
      BY <2>2, <2>4, <3>0, <3>1, <1>1 DEF Kept
    <3>3. ~polling.fetchAll \/ recents = <<>> \/ recents[Len(recents)] + 1 >= h
      BY <1>4, <1>9
    <3>. QED BY <2>2, <3>2, <3>3, <1>2, <1>9
  <2>. QED BY <2>3, <2>4
<1>. QED BY <1>7, <1>8, <1>9

(* The two ways a fetch goes on.                                            *)
Sent(p, i, n, u) == [p EXCEPT !.runs[i].next = n, !.runs[i].until = u]
Fed(p, i, g) == [p EXCEPT !.runs[i].next = @ + 1, !.runs[i].got = g]

(* A fetch that is told which skipped blocks to ask for.                    *)
LEMMA RunSent ==
  ASSUME NEW p \in Pollings, NEW i \in DOMAIN p.runs, NEW n \in Nat, NEW u \in Nat,
         NEW q, q = Sent(p, i, n, u)
  PROVE  /\ q \in Pollings /\ q.fetchAll = p.fetchAll /\ q.overlap = p.overlap /\ q.lost = p.lost
         /\ Len(q.runs) = Len(p.runs) /\ DOMAIN q.runs = DOMAIN p.runs
         /\ q.runs[i].next = n /\ q.runs[i].until = u /\ q.runs[i].got = p.runs[i].got
<1>1. p.runs \in Seq(Runs) /\ p.runs[i] \in Runs
  BY Element DEF Pollings
<1> DEFINE r == [p.runs[i] EXCEPT !.next = n, !.until = u]
           s == [p.runs EXCEPT ![i] = r]
<1>2. r \in Runs /\ r.next = n /\ r.until = u /\ r.got = p.runs[i].got
  BY <1>1 DEF Runs
<1>. HIDE DEF r
<1>3. s \in Seq(Runs) /\ Len(s) = Len(p.runs) /\ DOMAIN s = DOMAIN p.runs /\ s[i] = r
  BY <1>1, <1>2
<1>4. q = [p EXCEPT !.runs = s]
  BY <1>1 DEF r, Pollings, Sent
<1>. HIDE DEF s
<1>5. q \in Pollings /\ q.fetchAll = p.fetchAll /\ q.overlap = p.overlap /\ q.lost = p.lost /\ q.runs = s
  BY <1>3, <1>4 DEF Pollings
<1>. QED BY <1>2, <1>3, <1>5

(* A fetch that got a skipped block and asks for the next.                  *)
LEMMA RunFed ==
  ASSUME NEW p \in Pollings, NEW i \in DOMAIN p.runs, NEW g \in Seq(Nat),
         NEW q, q = Fed(p, i, g)
  PROVE  /\ q \in Pollings /\ q.fetchAll = p.fetchAll /\ q.overlap = p.overlap /\ q.lost = p.lost
         /\ Len(q.runs) = Len(p.runs) /\ DOMAIN q.runs = DOMAIN p.runs
         /\ q.runs[i].next = p.runs[i].next + 1 /\ q.runs[i].until = p.runs[i].until /\ q.runs[i].got = g
<1>1. p.runs \in Seq(Runs) /\ p.runs[i] \in Runs
  BY Element DEF Pollings
<1> DEFINE r == [p.runs[i] EXCEPT !.next = @ + 1, !.got = g]
           s == [p.runs EXCEPT ![i] = r]
<1> DEFINE n == p.runs[i].next + 1
<1>0. n \in Nat
  BY <1>1 DEF Runs
<1>2. r \in Runs /\ r.next = n /\ r.until = p.runs[i].until /\ r.got = g
  <2>1. r = [p.runs[i] EXCEPT !.next = n, !.got = g]
    OBVIOUS
  <2>. HIDE DEF n, r
  <2>. QED BY <1>0, <1>1, <2>1 DEF Runs
<1>. HIDE DEF r
<1>3. s \in Seq(Runs) /\ Len(s) = Len(p.runs) /\ DOMAIN s = DOMAIN p.runs /\ s[i] = r
  BY <1>1, <1>2
<1>4. q = [p EXCEPT !.runs = s]
  BY <1>1 DEF r, Pollings, Fed
<1>. HIDE DEF s
<1>5. q \in Pollings /\ q.fetchAll = p.fetchAll /\ q.overlap = p.overlap /\ q.lost = p.lost /\ q.runs = s
  BY <1>3, <1>4 DEF Pollings
<1>. QED BY <1>2, <1>3, <1>5

(* A lost request changes the count of lost requests only (LoseOne).        *)
LEMMA Failed ==
  ASSUME PollShape, NEW p \in {polling, LoseOne}
  PROVE  /\ p \in Pollings /\ p.fetchAll = polling.fetchAll /\ p.overlap = polling.overlap
         /\ p.runs = polling.runs /\ (p.lost = 0 => p = polling)
<1>1. CASE p = polling
  BY <1>1 DEF PollShape
<1>2. CASE p = LoseOne
  BY <1>2 DEF PollShape, LoseOne, Pollings
<1>. QED BY <1>1, <1>2

(* The fetch that is done is taken out.                                     *)
LEMMA LeftOver ==
  ASSUME PollShape, OrderInv, NEW p \in {polling, LoseOne}, NEW i \in DOMAIN polling.runs,
         polling' = WithoutRun(p, i)
  PROVE  /\ polling' \in Pollings /\ polling'.fetchAll = polling.fetchAll
         /\ polling'.overlap = polling.overlap /\ polling'.lost = p.lost
         /\ ~polling.fetchAll => \A j \in DOMAIN polling'.runs : polling'.runs[j].next = 0
         /\ ~polling.overlap => polling'.runs = <<>>
<1>1. /\ p \in Pollings /\ p.fetchAll = polling.fetchAll /\ p.overlap = polling.overlap
      /\ p.runs = polling.runs /\ p.runs \in Seq(Runs)
  BY Failed DEF Pollings
<1>2. /\ polling' \in Pollings /\ polling'.fetchAll = p.fetchAll /\ polling'.overlap = p.overlap
      /\ polling'.lost = p.lost /\ polling'.runs = RemoveAt(polling.runs, i)
  BY <1>1, RunRemoved
<1>3. /\ \A j \in DOMAIN polling'.runs : \E k \in DOMAIN polling.runs : polling'.runs[j] = polling.runs[k]
      /\ Len(polling.runs) <= 1 => polling'.runs = <<>>
  BY <1>1, <1>2, Removed
<1>. QED BY <1>1, <1>2, <1>3 DEF OrderInv, OneByOne, NoneSkipped

(* The order is kept by what follows the newest block, or its failure.      *)
LEMMA CombineOrder ==
  ASSUME PollShape, OrderInv, NEW p \in {polling, LoseOne}, NEW i \in DOMAIN polling.runs,
         polling.runs[i].next = 0, NEW h \in Nat, NEW recents \in Seq(Nat),
         Combine(p, i, h, recents), h <= top, UNCHANGED top,
         ~polling.fetchAll => Distinct(recents),
         ~polling.overlap => /\ Increasing(recents) /\ UpTo(recents, h)
                             /\ polling.fetchAll /\ p.lost = 0 => Gapless(recents)
  PROVE  PollShape' /\ OrderInv'
<1>1. /\ p \in Pollings /\ p.fetchAll = polling.fetchAll /\ p.overlap = polling.overlap
      /\ p.runs = polling.runs /\ (p.lost = 0 => p = polling)
  BY Failed
<1>0. i \in DOMAIN p.runs
  BY <1>1
<1>2. base' \in Bases /\ base'.latest = h /\ base'.latest <= top'
  BY <1>0, <1>1, CombineCases
<1>6. \/ /\ polling' = WithoutRun(p, i)
         /\ \/ base'.recents = recents
            \/ base'.recents = LastOf(recents, RecentLimit)
            \/ /\ \A j \in 1..Len(recents) : recents[j] # h
               /\ ~polling.fetchAll \/ recents = <<>> \/ recents[Len(recents)] + 1 >= h
               /\ base'.recents = LastOf(Append(recents, h), RecentLimit)
      \/ /\ polling.fetchAll /\ recents # <<>> /\ recents[Len(recents)] + 1 < h
         /\ polling' = [p EXCEPT !.runs[i].next = recents[Len(recents)] + 1, !.runs[i].until = h]
         /\ base'.recents = recents
  <2>. HIDE DEF WithoutRun, LastOf
  <2>. QED BY <1>0, <1>1, CombineCases, Zenon
<1>3. RecentLimit \in Nat
  BY BlocksAssumption
<1>4. CASE polling' = WithoutRun(p, i)
  <2>1. /\ polling' \in Pollings /\ polling'.fetchAll = polling.fetchAll
        /\ polling'.overlap = polling.overlap /\ polling'.lost = p.lost
        /\ ~polling.fetchAll => \A j \in DOMAIN polling'.runs : polling'.runs[j].next = 0
        /\ ~polling.overlap => polling'.runs = <<>>
    BY <1>4, LeftOver
  <2>2. SUFFICES /\ ~polling.fetchAll => Distinct(base'.recents)
                 /\ ~polling.overlap =>
                      /\ Increasing(base'.recents) /\ UpTo(base'.recents, h)
                      /\ polling.fetchAll /\ p.lost = 0 => Gapless(base'.recents)
    <3>1. ~polling.overlap => Len(polling'.runs) <= 1 /\ \A j \in DOMAIN polling'.runs : FALSE
      BY <2>1
    <3>. QED BY <1>2, <2>1, <3>1 DEF PollShape, OrderInv, OneByOne, NoneSkipped
  <2>3. CASE base'.recents = recents
    BY <2>3
  <2>4. CASE base'.recents = LastOf(recents, RecentLimit)
    BY <2>4, <1>3, LastPartKeeps
  <2>5. CASE /\ \A j \in 1..Len(recents) : recents[j] # h
             /\ ~polling.fetchAll \/ recents = <<>> \/ recents[Len(recents)] + 1 >= h
             /\ base'.recents = LastOf(Append(recents, h), RecentLimit)
    <3> DEFINE more == Append(recents, h)
    <3>1. more \in Seq(Nat) /\ (~polling.fetchAll => Distinct(more))
      BY <2>5, Longer
    <3>2. ASSUME ~polling.overlap PROVE Increasing(more) /\ UpTo(more, h)
      <4>1. \A j \in 1..Len(recents) : recents[j] < h
        BY <2>5, <3>2 DEF UpTo
      <4>. QED BY <3>2, <4>1, Longer
    <3>3. ASSUME ~polling.overlap, polling.fetchAll, p.lost = 0 PROVE EndsAt(more, h)
      <4>1. EndsAt(recents, h - 1)
        <5>1. CASE recents = <<>>
          BY <5>1 DEF EndsAt
        <5>2. CASE recents # <<>>
          <6>1. EndsAt(recents, recents[Len(recents)])
            BY <3>3, <5>2, LastGap
          <6>2. Len(recents) \in 1..Len(recents) /\ recents[Len(recents)] \in Nat
            BY <5>2
          <6>3. recents[Len(recents)] + 1 >= h /\ recents[Len(recents)] <= h /\ recents[Len(recents)] # h
            BY <2>5, <3>3, <5>2, <6>2 DEF UpTo
          <6>4. recents[Len(recents)] = h - 1
            BY <6>2, <6>3
          <6>. QED BY <6>1, <6>4
        <5>. QED BY <5>1, <5>2
      <4>. QED BY <4>1, Longer
    <3>. HIDE DEF more
    <3>4. base'.recents = LastOf(more, RecentLimit)
      BY <2>5 DEF more
    <3>5. ASSUME ~polling.overlap, polling.fetchAll, p.lost = 0 PROVE Gapless(more)
      BY <3>1, <3>3, <3>5, NoGaps
    <3>. QED BY <3>1, <3>2, <3>4, <3>5, <1>3, LastPartKeeps
  <2>. QED BY <2>3, <2>4, <2>5, <1>4, <1>6
<1>5. CASE /\ polling.fetchAll /\ recents # <<>> /\ recents[Len(recents)] + 1 < h
           /\ polling' = [p EXCEPT !.runs[i].next = recents[Len(recents)] + 1, !.runs[i].until = h]
           /\ base'.recents = recents
  <2> DEFINE last == recents[Len(recents)]
  <2>1. Len(recents) \in 1..Len(recents) /\ last \in Nat /\ last + 1 \in Nat /\ last + 1 # 0
    BY <1>5
  <2>2. /\ polling' \in Pollings /\ polling'.fetchAll = polling.fetchAll
        /\ polling'.overlap = polling.overlap /\ polling'.lost = p.lost
        /\ Len(polling'.runs) = Len(polling.runs) /\ DOMAIN polling'.runs = DOMAIN polling.runs
        /\ polling'.runs[i].next = last + 1 /\ polling'.runs[i].until = h
        /\ polling'.runs[i].got = polling.runs[i].got
    <3> DEFINE n == last + 1
    <3>1. polling' = Sent(p, i, n, h) /\ n \in Nat
      BY <1>5, <2>1 DEF Sent
    <3>. HIDE DEF n
    <3>2. /\ polling' \in Pollings /\ polling'.fetchAll = p.fetchAll /\ polling'.overlap = p.overlap
          /\ polling'.lost = p.lost /\ Len(polling'.runs) = Len(p.runs)
          /\ DOMAIN polling'.runs = DOMAIN p.runs /\ polling'.runs[i].next = n
          /\ polling'.runs[i].until = h /\ polling'.runs[i].got = p.runs[i].got
      <4>1. p \in Pollings /\ i \in DOMAIN p.runs /\ h \in Nat /\ n \in Nat
        BY <1>0, <1>1, <3>1
      <4>. QED BY <4>1, <3>1, RunSent
    <3>. QED BY <1>1, <3>2 DEF n
  <2>3. ASSUME ~polling.overlap PROVE OneByOne'
    <3>1. polling.runs[i].got = <<>> /\ Len(polling.runs) <= 1
      BY <2>3 DEF OrderInv, OneByOne, RunInv
    <3>2. recents \o polling'.runs[i].got = recents
      BY <2>2, <3>1
    <3>3. UpTo(recents, last)
      <4>. SUFFICES ASSUME NEW j \in 1..Len(recents) PROVE recents[j] <= last
        BY DEF UpTo
      <4>. QED BY <2>1, <2>3 DEF Increasing
    <3>4. polling'.lost = 0 => Gapless(recents) /\ EndsAt(recents, last)
      BY <1>5, <2>2, <2>3, LastGap
    <3>5. (last + 1) - 1 = last
      BY <2>1
    <3>6. RunInv(polling.runs[i])'
      BY <1>2, <1>5, <2>1, <2>2, <2>3, <3>2, <3>3, <3>4, <3>5 DEF RunInv
    <3>7. \A j \in DOMAIN polling'.runs : j = i
      <4>1. polling.runs \in Seq(Runs)
        BY DEF PollShape, Pollings
      <4>. QED BY <2>2, <3>1, <4>1
    <3>. QED BY <1>2, <1>5, <2>2, <2>3, <3>1, <3>4, <3>6, <3>7 DEF OneByOne
  <2>. QED BY <1>2, <1>5, <2>2, <2>3 DEF PollShape, OrderInv
<1>. QED BY <1>4, <1>5, <1>6, Zenon

(* The recent blocks, with their shape.                                     *)
BlocksKept == PollShape /\ OrderInv

(* A fetch begins: it waits for the newest block.                           *)
LEMMA Begun ==
  ASSUME BlocksKept, NEW c \in BOOLEAN, NEW n \in Int, NEW started \in BOOLEAN, UNCHANGED top,
         polling' = [polling EXCEPT !.counter = n, !.started = started, !.runs = Append(@, Fetch(c)),
                                    !.overlap = @ \/ polling.runs # <<>>],
         base' \in Bases, base'.latest = base.latest, base'.recents \in {base.recents, <<>>}
  PROVE  BlocksKept'
<1>1. Fetch(c) \in Runs /\ Fetch(c).next = 0 /\ Fetch(c).asked = top /\ Fetch(c).got = <<>>
  BY DEF BlocksKept, PollShape, Fetch, Runs
<1> DEFINE r == Fetch(c)
<1>. HIDE DEF r
<1>2. polling.runs \in Seq(Runs) /\ polling.overlap \in BOOLEAN
  BY DEF BlocksKept, PollShape, Pollings
<1>3. /\ Append(polling.runs, r) \in Seq(Runs)
      /\ \A j \in DOMAIN Append(polling.runs, r) :
           \/ Append(polling.runs, r)[j] = r
           \/ j \in DOMAIN polling.runs /\ Append(polling.runs, r)[j] = polling.runs[j]
      /\ polling.runs = <<>> =>
           /\ Len(Append(polling.runs, r)) = 1
           /\ \A j \in DOMAIN Append(polling.runs, r) : Append(polling.runs, r)[j] = r
  BY <1>1, <1>2 DEF r
<1> DEFINE s == Append(polling.runs, r)
           o == polling.overlap \/ polling.runs # <<>>
<1>4. polling' = [polling EXCEPT !.counter = n, !.started = started, !.runs = s, !.overlap = o]
  BY DEF r
<1>5. o \in BOOLEAN /\ s \in Seq(Runs)
  BY <1>2, <1>3
<1>. HIDE DEF s, o
<1>6. /\ polling' \in Pollings /\ polling'.runs = s /\ polling'.overlap = o
      /\ polling'.lost = polling.lost /\ polling'.fetchAll = polling.fetchAll
  BY <1>4, <1>5 DEF BlocksKept, PollShape, Pollings
<1>7. PollShape'
  BY <1>6 DEF BlocksKept, PollShape
<1>8. ~polling.fetchAll => NoneSkipped'
  <2>1. ~polling.fetchAll => Distinct(base'.recents)
    BY DEF BlocksKept, OrderInv, NoneSkipped, Distinct
  <2>2. ~polling.fetchAll => \A j \in DOMAIN polling'.runs : polling'.runs[j].next = 0
    BY <1>1, <1>3, <1>6 DEF BlocksKept, OrderInv, NoneSkipped, s, r
  <2>. QED BY <2>1, <2>2 DEF NoneSkipped
<1>9. ~polling'.overlap => OneByOne'
  <2>. SUFFICES ASSUME ~polling'.overlap PROVE OneByOne'
    OBVIOUS
  <2>1. ~polling.overlap /\ polling.runs = <<>>
    BY <1>2, <1>6 DEF o
  <2>2. Len(polling'.runs) <= 1 /\ \A j \in DOMAIN polling'.runs : polling'.runs[j] = r
    BY <1>3, <1>6, <2>1 DEF s
  <2>3. ASSUME NEW j \in DOMAIN polling'.runs PROVE RunInv(polling.runs[j])'
    <3>1. /\ polling'.runs[j].next = 0 /\ polling'.runs[j].asked = top'
          /\ polling'.runs[j].got = <<>>
      BY <1>1, <2>2 DEF r
    <3>2. base'.latest <= top' /\ top' \in Nat
      BY DEF BlocksKept, OrderInv, PollShape
    <3>. QED BY <3>1, <3>2 DEF RunInv
  <2>4. /\ Increasing(base'.recents) /\ UpTo(base'.recents, base'.latest)
        /\ polling'.fetchAll /\ polling'.lost = 0 => Gapless(base'.recents)
    <3>1. /\ Increasing(base.recents) /\ UpTo(base.recents, base.latest)
          /\ polling.fetchAll /\ polling.lost = 0 => Gapless(base.recents)
      BY <2>1 DEF BlocksKept, OrderInv, OneByOne
    <3>2. Increasing(<<>>) /\ UpTo(<<>>, base.latest) /\ Gapless(<<>>)
      BY DEF Increasing, UpTo, Gapless
    <3>. QED BY <1>6, <3>1, <3>2
  <2>. QED BY <2>2, <2>3, <2>4 DEF OneByOne
<1>10. base'.latest <= top'
  BY DEF BlocksKept, OrderInv
<1>11. ~polling'.fetchAll => NoneSkipped'
  BY <1>6, <1>8
<1>. QED BY <1>7, <1>9, <1>10, <1>11 DEF BlocksKept, OrderInv

(* A step that leaves the fetches and the recent blocks alone, but may lose *)
(* one.                                                                     *)
LEMMA Apart ==
  ASSUME BlocksKept, UNCHANGED base, top' \in Nat, top <= top', polling' \in Pollings,
         polling'.runs = polling.runs, polling'.overlap = polling.overlap,
         polling'.fetchAll = polling.fetchAll, polling'.lost = 0 => polling.lost = 0
  PROVE  BlocksKept'
<1>1. PollShape'
  BY DEF BlocksKept, PollShape
<1>2. ASSUME NEW r \in Runs, RunInv(r) PROVE RunInv(r)'
  BY <1>2 DEF RunInv, BlocksKept, PollShape, Bases, Runs
<1>3. \A i \in DOMAIN polling.runs : polling.runs[i] \in Runs
  BY Element DEF BlocksKept, PollShape, Pollings
<1>4. ~polling.overlap => OneByOne'
  BY <1>2, <1>3 DEF BlocksKept, OrderInv, OneByOne
<1>5. base.latest <= top'
  BY DEF BlocksKept, PollShape, OrderInv, Bases
<1>. QED BY <1>1, <1>4, <1>5 DEF BlocksKept, OrderInv, NoneSkipped

(* The newest block is not older than the one known when it was asked for.  *)
LEMMA AnswerLatestKeeps ==
  ASSUME BlocksKept, NEW i \in DOMAIN polling.runs, AnswerLatest(i) PROVE BlocksKept'
<1>1. PICK h \in polling.runs[i].asked..top : Combine(polling, i, h, RecentsBefore)
  BY DEF AnswerLatest
<1>2. polling.runs[i] \in Runs /\ top \in Nat /\ base.latest \in Nat /\ base.recents \in Seq(Nat)
  BY Element DEF BlocksKept, PollShape, Pollings, Bases
<1>3. h \in Nat /\ h <= top /\ polling.runs[i].asked \in Nat /\ polling.runs[i].asked <= h
  BY <1>1, <1>2 DEF Runs
<1>4. RecentsBefore \in Seq(Nat)
  BY <1>2 DEF RecentsBefore
<1>5. ~polling.fetchAll => Distinct(RecentsBefore)
  BY DEF BlocksKept, OrderInv, NoneSkipped, RecentsBefore, Distinct
<1>6. ~polling.overlap => /\ Increasing(RecentsBefore) /\ UpTo(RecentsBefore, h)
                          /\ polling.fetchAll /\ polling.lost = 0 => Gapless(RecentsBefore)
  <2>. SUFFICES ASSUME ~polling.overlap
                PROVE  /\ Increasing(RecentsBefore) /\ UpTo(RecentsBefore, h)
                       /\ polling.fetchAll /\ polling.lost = 0 => Gapless(RecentsBefore)
    OBVIOUS
  <2>1. /\ Increasing(base.recents) /\ UpTo(base.recents, base.latest) /\ base.latest <= h
        /\ polling.fetchAll /\ polling.lost = 0 => Gapless(base.recents)
    BY <1>2, <1>3 DEF BlocksKept, OrderInv, OneByOne, RunInv, AnswerLatest
  <2>2. CASE base.latest = 0
    BY <2>2 DEF RecentsBefore, Increasing, UpTo, Gapless
  <2>3. CASE base.latest # 0
    <3>1. \A k \in 1..Len(base.recents) : base.recents[k] <= h
      <4>. TAKE k \in 1..Len(base.recents)
      <4>1. base.recents[k] \in Nat /\ base.recents[k] <= base.latest
        BY <1>2, <2>1 DEF UpTo
      <4>. QED BY <1>2, <1>3, <2>1, <4>1
    <3>. QED BY <2>1, <2>3, <3>1 DEF RecentsBefore, UpTo
  <2>. QED BY <2>2, <2>3
<1>7. polling \in {polling, LoseOne} /\ polling.runs[i].next = 0 /\ UNCHANGED top
  BY DEF AnswerLatest
<1>. QED BY <1>1, <1>3, <1>4, <1>5, <1>6, <1>7, CombineOrder DEF BlocksKept

(* After a failure the newest block known is looked at again.               *)
LEMMA FailLatestKeeps ==
  ASSUME BlocksKept, NEW i \in DOMAIN polling.runs, FailLatest(i) PROVE BlocksKept'
<1>1. /\ Combine(LoseOne, i, base.latest, base.recents) /\ LoseOne \in {polling, LoseOne}
      /\ polling.runs[i].next = 0 /\ UNCHANGED top
  BY DEF FailLatest
<1>2. base.latest \in Nat /\ base.recents \in Seq(Nat) /\ base.latest <= top
  BY DEF BlocksKept, PollShape, Bases, OrderInv
<1>3. LoseOne.lost # 0
  BY DEF BlocksKept, PollShape, Pollings, LoseOne
<1>4. ~polling.fetchAll => Distinct(base.recents)
  BY DEF BlocksKept, OrderInv, NoneSkipped
<1>5. ~polling.overlap => Increasing(base.recents) /\ UpTo(base.recents, base.latest)
  BY DEF BlocksKept, OrderInv, OneByOne
<1>. QED BY <1>1, <1>2, <1>3, <1>4, <1>5, CombineOrder DEF BlocksKept

(* A fetch that got a skipped block, or not, and what it holds then.        *)
LEMMA Held ==
  ASSUME BlocksKept, NEW i \in DOMAIN polling.runs, polling.runs[i].next # 0, NEW found \in BOOLEAN,
         NEW got, got = IF found THEN Append(polling.runs[i].got, polling.runs[i].next)
                        ELSE polling.runs[i].got
  PROVE  /\ got \in Seq(Nat) /\ base.recents \o got \in Seq(Nat) /\ polling.fetchAll
         /\ ~polling.overlap =>
              /\ Increasing(base.recents \o got) /\ UpTo(base.recents \o got, polling.runs[i].next)
              /\ found /\ polling.lost = 0 => EndsAt(base.recents \o got, polling.runs[i].next)
<1> DEFINE r == polling.runs[i]
           held == base.recents \o r.got
<1>1. r \in Runs /\ base.recents \in Seq(Nat)
  BY Element DEF BlocksKept, PollShape, Pollings, Bases
<1>2. r.next \in Nat /\ r.got \in Seq(Nat) /\ held \in Seq(Nat)
  BY <1>1 DEF Runs
<1>3. base.recents \o Append(r.got, r.next) = Append(held, r.next)
  BY <1>1, <1>2, Joined
<1>4. got \in Seq(Nat) /\ base.recents \o got \in Seq(Nat)
  BY <1>1, <1>2, <1>3
<1>5. polling.fetchAll
  BY DEF BlocksKept, OrderInv, NoneSkipped
<1>6. ASSUME ~polling.overlap
      PROVE  /\ Increasing(held) /\ UpTo(held, r.next - 1)
             /\ polling.lost = 0 => EndsAt(held, r.next - 1)
  BY <1>6 DEF BlocksKept, OrderInv, OneByOne, RunInv
<1>7. ASSUME ~polling.overlap
      PROVE  /\ \A j \in 1..Len(held) : held[j] < r.next
             /\ UpTo(held, r.next)
  <2>. SUFFICES ASSUME NEW j \in 1..Len(held) PROVE held[j] < r.next /\ held[j] <= r.next
    BY DEF UpTo
  <2>. HIDE DEF held, r
  <2>1. held[j] \in Nat /\ held[j] <= r.next - 1
    BY <1>2, <1>6, <1>7 DEF UpTo
  <2>. QED BY <1>2, <2>1
<1>8. CASE found
  <2>1. base.recents \o got = Append(held, r.next)
    BY <1>3, <1>8
  <2>. HIDE DEF held, r
  <2>2. ~polling.overlap =>
          /\ Increasing(Append(held, r.next)) /\ UpTo(Append(held, r.next), r.next)
          /\ polling.lost = 0 => EndsAt(Append(held, r.next), r.next)
    BY <1>2, <1>6, <1>7, Longer
  <2>. QED BY <2>1, <2>2, <1>4, <1>5 DEF r
<1>9. CASE ~found
  <2>1. base.recents \o got = held
    BY <1>9
  <2>. QED BY <2>1, <1>4, <1>5, <1>6, <1>7, <1>9
<1>. QED BY <1>8, <1>9

(* The skipped blocks follow the recent ones, and the newest follows them.  *)
LEMMA AnswerBlockKeeps ==
  ASSUME BlocksKept, NEW i \in DOMAIN polling.runs, AnswerBlock(i) PROVE BlocksKept'
<1> DEFINE r == polling.runs[i]
           p(found) == IF found THEN polling ELSE LoseOne
           g(found) == IF found THEN Append(r.got, r.next) ELSE r.got
<1>1. PICK found \in BOOLEAN :
        IF r.next + 1 < r.until
        THEN /\ polling' = [p(found) EXCEPT !.runs[i].next = @ + 1, !.runs[i].got = g(found)]
             /\ UNCHANGED base
        ELSE /\ polling' = WithoutRun(p(found), i)
             /\ base' = [base EXCEPT !.recents = Kept(@, Append(g(found), base.latest))]
  BY DEF AnswerBlock
<1> DEFINE q == p(found)
           got == g(found)
           held == base.recents \o got
<1>2. /\ r \in Runs /\ base.recents \in Seq(Nat) /\ base.latest \in Nat /\ base \in Bases
      /\ top \in Nat /\ PollShape /\ OrderInv /\ polling.runs \in Seq(Runs)
  BY Element DEF BlocksKept, PollShape, Pollings, Bases
<1>3. r.next \in Nat /\ r.until \in Nat /\ r.next # 0 /\ UNCHANGED top
  BY <1>2 DEF Runs, AnswerBlock
<1>4. /\ got \in Seq(Nat) /\ held \in Seq(Nat) /\ polling.fetchAll
      /\ ~polling.overlap =>
           /\ Increasing(held) /\ UpTo(held, r.next)
           /\ found /\ polling.lost = 0 => EndsAt(held, r.next)
  BY <1>3, Held
<1>5. q \in {polling, LoseOne}
  OBVIOUS
<1>6. /\ q \in Pollings /\ q.fetchAll = polling.fetchAll /\ q.overlap = polling.overlap
      /\ q.runs = polling.runs /\ (q.lost = 0 => q = polling)
  BY <1>2, <1>5, Failed
<1>7. q.lost = 0 => found /\ polling.lost = 0
  BY <1>2 DEF PollShape, Pollings, LoseOne
<1>8. ~polling.overlap => /\ Len(polling.runs) <= 1 /\ r.next < r.until /\ r.until = base.latest
                          /\ r.until - 1 \in Nat
  BY <1>2, <1>3 DEF OrderInv, OneByOne, RunInv
<1>. HIDE DEF p, g, held
<1>9. CASE r.next + 1 < r.until
  <2>1. polling' = Fed(q, i, got) /\ UNCHANGED base
    BY <1>1, <1>9 DEF Fed
  <2>. HIDE DEF got, q
  <2>2. /\ polling' \in Pollings /\ polling'.fetchAll = q.fetchAll /\ polling'.overlap = q.overlap
        /\ polling'.lost = q.lost /\ Len(polling'.runs) = Len(q.runs)
        /\ DOMAIN polling'.runs = DOMAIN q.runs /\ polling'.runs[i].next = q.runs[i].next + 1
        /\ polling'.runs[i].until = q.runs[i].until /\ polling'.runs[i].got = got
    <3>1. q \in Pollings /\ i \in DOMAIN q.runs /\ got \in Seq(Nat)
      BY <1>4, <1>6
    <3>. QED BY <2>1, <3>1, RunFed
  <2>3. ASSUME ~polling.overlap PROVE OneByOne'
    <3>1. \A j \in DOMAIN polling'.runs : j = i
      <4>1. \A j \in DOMAIN polling.runs : j = 1
        BY <1>2, <1>8, <2>3
      <4>. QED BY <4>1, <1>6, <2>2
    <3>2. (r.next + 1) - 1 = r.next /\ r.next + 1 # 0
      BY <1>3
    <3>3. RunInv(polling.runs[i])'
      BY <1>4, <1>6, <1>7, <1>8, <1>9, <2>1, <2>2, <2>3, <3>2 DEF RunInv, held
    <3>4. /\ Increasing(base.recents) /\ UpTo(base.recents, base.latest)
          /\ polling.fetchAll /\ polling.lost = 0 => Gapless(base.recents)
      BY <1>2, <2>3 DEF OrderInv, OneByOne
    <3>. QED BY <1>6, <1>7, <1>8, <2>1, <2>2, <2>3, <3>1, <3>3, <3>4 DEF OneByOne
  <2>. QED BY <1>2, <1>3, <1>4, <1>6, <2>1, <2>2, <2>3 DEF BlocksKept, PollShape, OrderInv
<1>10. CASE ~(r.next + 1 < r.until)
  <2>1. /\ polling' = WithoutRun(q, i)
        /\ base' = [base EXCEPT !.recents = Kept(@, Append(got, base.latest))]
    BY <1>1, <1>10
  <2>. HIDE DEF got, q
  <2>2. /\ polling' \in Pollings /\ polling'.fetchAll = polling.fetchAll
        /\ polling'.overlap = polling.overlap /\ polling'.lost = q.lost
        /\ ~polling.overlap => polling'.runs = <<>>
    BY <1>2, <1>5, <2>1, LeftOver
  <2>3. base.recents \o Append(got, base.latest) = Append(held, base.latest)
    BY <1>2, <1>4, Joined DEF held
  <2> DEFINE more == Append(held, base.latest)
  <2>4. base' = [base EXCEPT !.recents = LastOf(more, RecentLimit)]
    BY <2>1, <2>3 DEF Kept
  <2>5. more \in Seq(Nat) /\ RecentLimit \in Nat
    BY <1>2, <1>4, BlocksAssumption
  <2>6. ASSUME ~polling.overlap
        PROVE  /\ Increasing(more) /\ UpTo(more, base.latest)
               /\ q.lost = 0 => EndsAt(more, base.latest)
    <3>1. r.next = base.latest - 1
      BY <1>3, <1>8, <1>10, <2>6
    <3>2. \A j \in 1..Len(held) : held[j] < base.latest
      <4>. TAKE j \in 1..Len(held)
      <4>1. held[j] \in Nat /\ held[j] <= r.next
        BY <1>4, <2>6 DEF UpTo
      <4>. QED BY <1>2, <3>1, <4>1
    <3>3. q.lost = 0 => EndsAt(held, base.latest - 1)
      BY <1>4, <1>7, <2>6, <3>1
    <3>. QED BY <1>2, <1>4, <2>6, <3>2, <3>3, Longer
  <2>. HIDE DEF more
  <2>7. base' \in Bases /\ base'.latest = base.latest /\ base'.recents = LastOf(more, RecentLimit)
    <3>1. LastOf(more, RecentLimit) \in Seq(Nat)
      BY <2>5, LastPart
    <3>. QED BY <1>2, <2>4, <3>1 DEF Bases
  <2>8. ASSUME ~polling.overlap PROVE OneByOne'
    <3>1. ASSUME q.lost = 0 PROVE Gapless(more)
      <4>1. EndsAt(more, base.latest) /\ base.latest \in Int
        BY <1>2, <2>6, <2>8, <3>1
      <4>. QED BY <2>5, <4>1, NoGaps
    <3>2. /\ Increasing(base'.recents) /\ UpTo(base'.recents, base'.latest)
          /\ q.lost = 0 => Gapless(base'.recents)
      BY <1>2, <2>5, <2>6, <2>7, <2>8, <3>1, LastPartKeeps
    <3>3. Len(polling'.runs) <= 1 /\ \A j \in DOMAIN polling'.runs : FALSE
      BY <2>2, <2>8
    <3>. QED BY <2>2, <3>2, <3>3 DEF OneByOne
  <2>. QED BY <1>2, <1>3, <1>4, <2>2, <2>7, <2>8 DEF BlocksKept, PollShape, OrderInv
<1>. QED BY <1>9, <1>10

(* What the strip may be.                                                   *)
Strips == [open : BOOLEAN, known : BOOLEAN, latest : Nat, preload : BOOLEAN, blocks : Seq(Nat),
           fills : Seq(Nat), inherited : BOOLEAN, opens : Nat]
(* The inductive invariant of a strip that began with nothing: what it shows*)
(* rises, what it waits for falls, and all of that is below what it shows.  *)
StripInv ==
  strip.open /\ ~strip.inherited =>
    /\ Rising(strip.blocks) /\ UpTo(strip.blocks, strip.latest)
    /\ Falling(strip.fills) /\ UpTo(strip.fills, strip.latest)
    /\ \A i \in 1..Len(strip.fills), j \in 1..Len(strip.blocks) : strip.fills[i] <= strip.blocks[j]
    /\ ~strip.preload => strip.fills = <<>> /\ strip.blocks = <<>>
StripKept == strip \in Strips /\ StripInv

(* A tick begins a fetch or counts itself.                                  *)
LEMMA TickKeeps == ASSUME BlocksKept, Tick PROVE BlocksKept'
<1>1. polling.counter \in Int /\ polling.skips \in Nat /\ polling.started \in BOOLEAN /\ MaxRequests \in Nat
  BY BlocksAssumption DEF BlocksKept, PollShape, Pollings
<1>2. CASE polling.counter + 1 < MaxRequests
  <2>1. /\ polling' = [polling EXCEPT !.counter = polling.counter + 1, !.runs = Append(@, Fetch(TRUE)),
                                      !.overlap = @ \/ polling.runs # <<>>]
        /\ UNCHANGED <<top, base>>
    BY <1>2 DEF Tick, StartFetch
  <2>2. polling' = [polling EXCEPT !.counter = polling.counter + 1, !.started = polling.started,
                      !.runs = Append(@, Fetch(TRUE)), !.overlap = @ \/ polling.runs # <<>>]
    BY <2>1 DEF BlocksKept, PollShape, Pollings
  <2>3. base' \in Bases /\ polling.counter + 1 \in Int
    BY <1>1, <2>1 DEF BlocksKept, PollShape
  <2>. QED BY <1>1, <2>1, <2>2, <2>3, Begun
<1>3. CASE ~(polling.counter + 1 < MaxRequests)
  <2>1. UNCHANGED <<top, base>> /\ top \in Nat /\ polling \in Pollings
    BY DEF Tick, BlocksKept, PollShape
  <2>2. polling' = polling \/ \E k \in Nat : polling' = [polling EXCEPT !.counter = @ + 1, !.skips = k]
    <3> DEFINE n == IF Given + polling.skips + 1 >= MaxRequests THEN polling.skips + 1 ELSE polling.skips
    <3>1. polling' = polling \/ polling' = [polling EXCEPT !.counter = @ + 1, !.skips = n]
      BY <1>3 DEF Tick
    <3>2. n \in Nat
      BY <1>1
    <3>. HIDE DEF n
    <3>. QED BY <3>1, <3>2
  <2>3. /\ polling' \in Pollings /\ polling'.runs = polling.runs /\ polling'.lost = polling.lost
        /\ polling'.overlap = polling.overlap /\ polling'.fetchAll = polling.fetchAll
    <3>1. CASE polling' = polling
      BY <2>1, <3>1
    <3>2. ASSUME NEW k \in Nat, polling' = [polling EXCEPT !.counter = @ + 1, !.skips = k]
          PROVE  /\ polling' \in Pollings /\ polling'.runs = polling.runs /\ polling'.lost = polling.lost
                 /\ polling'.overlap = polling.overlap /\ polling'.fetchAll = polling.fetchAll
      <4> DEFINE c == polling.counter + 1
      <4>1. c \in Int /\ polling' = [polling EXCEPT !.counter = c, !.skips = k]
        BY <1>1, <3>2
      <4>. HIDE DEF c
      <4>. QED BY <2>1, <4>1 DEF Pollings
    <3>. QED BY <2>2, <3>1, <3>2
  <2>. QED BY <2>1, <2>3, Apart
<1>. QED BY <1>2, <1>3

(* The start-up empties the recent blocks and begins a fetch.               *)
LEMMA InitialKeeps == ASSUME BlocksKept, initial PROVE BlocksKept'
<1>1. /\ base' = [base EXCEPT !.recents = <<>>] /\ UNCHANGED top
      /\ polling' = [polling EXCEPT !.started = TRUE, !.runs = Append(@, Fetch(FALSE)),
                                    !.overlap = @ \/ polling.runs # <<>>]
  BY DEF initial
<1>2. polling' = [polling EXCEPT !.counter = polling.counter, !.started = TRUE,
                    !.runs = Append(@, Fetch(FALSE)), !.overlap = @ \/ polling.runs # <<>>]
  BY <1>1 DEF BlocksKept, PollShape, Pollings
<1>3. base' \in Bases /\ base'.latest = base.latest /\ base'.recents = <<>> /\ polling.counter \in Int
  <2> DEFINE none == <<>>
  <2>1. none \in Seq(Nat) /\ base' = [base EXCEPT !.recents = none]
    BY <1>1
  <2>. HIDE DEF none
  <2>2. base' \in Bases /\ base'.latest = base.latest /\ base'.recents = none
    BY <2>1 DEF BlocksKept, PollShape, Bases
  <2>3. polling.counter \in Int
    BY DEF BlocksKept, PollShape, Pollings
  <2>. QED BY <2>2, <2>3 DEF none
<1>. QED BY <1>1, <1>2, <1>3, Begun

(* The chain grows.                                                         *)
LEMMA ProduceKeeps == ASSUME BlocksKept, Produce PROVE BlocksKept'
BY Apart DEF Produce, BlocksKept, PollShape

(* The strip only takes answers from the store; one of its own may be lost. *)
LEMMA StripsApart == ASSUME BlocksKept, StripStep PROVE BlocksKept'
<1>1. UNCHANGED <<top, base>> /\ (polling' = polling \/ polling' = LoseOne)
  BY DEF StripStep, OpenStrip, FillBlock, LeaveStrip, ValidatorsKnown
<1>2. /\ polling' \in Pollings /\ polling'.runs = polling.runs
      /\ polling'.overlap = polling.overlap /\ polling'.fetchAll = polling.fetchAll
      /\ polling'.lost = 0 => polling.lost = 0
  BY <1>1 DEF BlocksKept, PollShape, Pollings, LoseOne
<1>. QED BY <1>1, <1>2, Apart DEF BlocksKept, PollShape

(* Every step of the polling keeps the order.                               *)
LEMMA PollKeeps == ASSUME BlocksKept, PollStep PROVE BlocksKept'
BY TickKeeps, InitialKeeps, ProduceKeeps, AnswerLatestKeeps, AnswerBlockKeeps, FailLatestKeeps
DEF PollStep, AnswerPoll

(* The strip asks for blocks backwards, none of them newer than the newest. *)
LEMMA Loaded ==
  ASSUME NEW latest \in Nat, NEW recents \in Seq(Nat)
  PROVE  /\ preFill(latest, recents) \in Seq(Nat)
         /\ Falling(preFill(latest, recents)) /\ UpTo(preFill(latest, recents), latest)
<1>1. CASE latest > StripLimit /\ Len(recents) >= StripLimit - 1
  <2>1. preFill(latest, recents) = <<>>
    BY <1>1 DEF preFill
  <2>. QED BY <2>1 DEF Falling, UpTo
<1>2. CASE ~(latest > StripLimit /\ Len(recents) >= StripLimit - 1)
  <2> DEFINE first == latest - Len(recents)
             oldest == IF latest > StripLimit THEN latest - StripLimit + 1 ELSE 2
             k == first - oldest + 1
             s == [n \in 1..k |-> first - n + 1]
  <2>1. preFill(latest, recents) = s
    BY <1>2 DEF preFill
  <2>2. /\ first \in Int /\ first <= latest /\ oldest \in Nat /\ k \in Int
        /\ \A n \in 1..k : first - n + 1 \in Nat
    BY BlocksAssumption
  <2>. HIDE DEF first, oldest
  <2>3. CASE k <= 0
    <3>1. s = <<>>
      BY <2>2, <2>3
    <3>2. preFill(latest, recents) = <<>>
      BY <2>1, <3>1
    <3>. QED BY <3>2 DEF Falling, UpTo
  <2>4. CASE k > 0
    <3>. HIDE DEF k
    <3>1. s \in Seq(Nat) /\ Len(s) = k /\ \A n \in 1..k : s[n] = first - n + 1
      BY <2>2, <2>4
    <3>. HIDE DEF s
    <3>2. Falling(s)
      BY <2>2, <3>1 DEF Falling
    <3>3. UpTo(s, latest)
      BY <2>2, <3>1 DEF UpTo
    <3>. QED BY <2>1, <3>1, <3>2, <3>3
  <2>. QED BY <2>2, <2>3, <2>4
<1>. QED BY <1>1, <1>2

(* A block newer than those of the strip is put at its end.                 *)
LEMMA AtEnd ==
  ASSUME NEW s \in Seq(Nat), NEW h \in Nat, NEW n \in Nat, n < h
  PROVE  /\ PutAtEnd(s, h) \in Seq(Nat)
         /\ Rising(s) /\ UpTo(s, n) => Rising(PutAtEnd(s, h)) /\ UpTo(PutAtEnd(s, h), h)
         /\ \A m \in Nat : m <= h /\ (\A i \in 1..Len(s) : s[i] >= m)
              => \A i \in 1..Len(PutAtEnd(s, h)) : PutAtEnd(s, h)[i] >= m
<1>1. StripLimit \in Nat
  BY BlocksAssumption
<1>2. UpTo(s, n) => UpTo(s, h)
  <2>. SUFFICES ASSUME UpTo(s, n), NEW i \in 1..Len(s) PROVE s[i] <= h
    BY DEF UpTo
  <2>1. s[i] \in Nat /\ s[i] <= n
    BY DEF UpTo
  <2>. QED BY <2>1
<1>3. CASE ~strip.known
  BY <1>2, <1>3 DEF PutAtEnd
<1>4. CASE strip.known
  <2> DEFINE t == Append(s, h)
  <2>1. t \in Seq(Nat) /\ (Rising(s) /\ UpTo(s, h) => Rising(t) /\ UpTo(t, h))
    BY Longer
  <2>2. ASSUME NEW m \in Nat, m <= h, \A i \in 1..Len(s) : s[i] >= m, NEW i \in 1..Len(t)
        PROVE  t[i] >= m
    BY <2>2
  <2>3. PutAtEnd(s, h) = LastOf(t, StripLimit)
    BY <1>4 DEF PutAtEnd
  <2>. HIDE DEF t
  <2>4. LastOf(t, StripLimit) \in Seq(Nat)
    BY <1>1, <2>1, LastPart
  <2>5. /\ Rising(t) => Rising(LastOf(t, StripLimit))
        /\ UpTo(t, h) => UpTo(LastOf(t, StripLimit), h)
        /\ \A m \in Nat : (\A i \in 1..Len(t) : t[i] >= m)
             => \A i \in 1..Len(LastOf(t, StripLimit)) : LastOf(t, StripLimit)[i] >= m
    BY <1>1, <2>1, LastPartKeeps
  <2>. QED BY <1>2, <2>1, <2>2, <2>3, <2>4, <2>5
<1>. QED BY <1>3, <1>4

(* A block older than those of the strip is put at its start.               *)
LEMMA AtStart ==
  ASSUME NEW s \in Seq(Nat), NEW h \in Nat
  PROVE  /\ PutAtStart(s, h) \in Seq(Nat)
         /\ Rising(s) /\ (\A i \in 1..Len(s) : s[i] >= h) => Rising(PutAtStart(s, h))
         /\ \A m \in Nat : h <= m /\ UpTo(s, m) => UpTo(PutAtStart(s, h), m)
         /\ \A m \in Nat : m <= h /\ (\A i \in 1..Len(s) : s[i] >= m)
              => \A i \in 1..Len(PutAtStart(s, h)) : PutAtStart(s, h)[i] >= m
<1>1. StripLimit \in Nat
  BY BlocksAssumption
<1>2. CASE ~strip.known
  BY <1>2 DEF PutAtStart
<1>3. CASE strip.known
  <2> DEFINE t == <<h>> \o s
  <2>1. /\ t \in Seq(Nat) /\ (Rising(s) /\ (\A i \in 1..Len(s) : s[i] >= h) => Rising(t))
        /\ \A i \in 1..Len(t) : t[i] = h \/ \E j \in 1..Len(s) : t[i] = s[j]
    <3>1. /\ t \in Seq(Nat) /\ (Rising(s) /\ (\A i \in 1..Len(s) : s[i] >= h) => Rising(t))
          /\ \A i \in 1..Len(t) : (i = 1 /\ t[i] = h) \/ (i > 1 /\ i - 1 \in 1..Len(s) /\ t[i] = s[i - 1])
      BY InFront
    <3>. HIDE DEF t
    <3>. QED BY <3>1
  <2>2. PutAtStart(s, h) = LastOf(t, StripLimit)
    BY <1>3 DEF PutAtStart
  <2>. HIDE DEF t
  <2>3. ASSUME NEW m \in Nat, h <= m, UpTo(s, m) PROVE UpTo(t, m)
    BY <2>1, <2>3 DEF UpTo
  <2>4. ASSUME NEW m \in Nat, m <= h, \A i \in 1..Len(s) : s[i] >= m, NEW i \in 1..Len(t)
        PROVE  t[i] >= m
    BY <2>1, <2>4
  <2>5. /\ LastOf(t, StripLimit) \in Seq(Nat)
        /\ Rising(t) => Rising(LastOf(t, StripLimit))
        /\ \A m \in Nat : UpTo(t, m) => UpTo(LastOf(t, StripLimit), m)
        /\ \A m \in Nat : (\A i \in 1..Len(t) : t[i] >= m)
             => \A i \in 1..Len(LastOf(t, StripLimit)) : LastOf(t, StripLimit)[i] >= m
    BY <1>1, <2>1, LastPart, LastPartKeeps
  <2>. QED BY <2>1, <2>2, <2>3, <2>4, <2>5
<1>. QED BY <1>2, <1>3

(* The store tells the strip of a block (Noticed).                          *)
LEMMA NoticedKeeps ==
  ASSUME StripKept, NEW latest \in Nat, NEW recents \in Seq(Nat), strip' = Noticed(latest, recents)
  PROVE  StripKept'
<1>1. CASE strip' = strip
  BY <1>1 DEF StripKept, StripInv
<1>2. CASE strip' # strip
  <2> DEFINE b == PutAtEnd(strip.blocks, latest)
             f == IF strip.preload THEN strip.fills ELSE preFill(latest, recents)
  <2>1. /\ strip' = [strip EXCEPT !.latest = latest, !.preload = TRUE, !.blocks = b, !.fills = f]
        /\ strip.open /\ ~(latest <= strip.latest)
    BY <1>2 DEF Noticed
  <2>2. /\ strip \in Strips /\ strip.blocks \in Seq(Nat) /\ strip.fills \in Seq(Nat) /\ strip.latest \in Nat
        /\ strip.latest < latest
    BY <2>1 DEF StripKept, Strips
  <2>3. b \in Seq(Nat) /\ f \in Seq(Nat)
    BY <2>2, AtEnd, Loaded
  <2>4. ASSUME ~strip.inherited
        PROVE  /\ Rising(b) /\ UpTo(b, latest) /\ Falling(f) /\ UpTo(f, latest)
               /\ \A i \in 1..Len(f), j \in 1..Len(b) : f[i] <= b[j]
    <3>1. /\ Rising(strip.blocks) /\ UpTo(strip.blocks, strip.latest)
          /\ Falling(strip.fills) /\ UpTo(strip.fills, strip.latest)
          /\ \A i \in 1..Len(strip.fills), j \in 1..Len(strip.blocks) : strip.fills[i] <= strip.blocks[j]
          /\ ~strip.preload => strip.fills = <<>> /\ strip.blocks = <<>>
      BY <2>1, <2>4 DEF StripKept, StripInv
    <3>2. Rising(b) /\ UpTo(b, latest)
      BY <2>2, <3>1, AtEnd
    <3>3. Falling(f) /\ UpTo(f, latest)
      <4>1. CASE strip.preload
        <5>1. UpTo(strip.fills, latest)
          <6>. SUFFICES ASSUME NEW i \in 1..Len(strip.fills) PROVE strip.fills[i] <= latest
            BY DEF UpTo
          <6>1. strip.fills[i] \in Nat /\ strip.fills[i] <= strip.latest
            BY <2>2, <3>1 DEF UpTo
          <6>. QED BY <2>2, <6>1
        <5>. QED BY <3>1, <4>1, <5>1
      <4>2. CASE ~strip.preload
        BY <4>2, Loaded
      <4>. QED BY <4>1, <4>2
    <3>4. ASSUME NEW i \in 1..Len(f) PROVE \A j \in 1..Len(b) : b[j] >= f[i]
      <4>1. f[i] \in Nat /\ f[i] <= latest
        BY <2>3, <3>3 DEF UpTo
      <4>2. \A j \in 1..Len(strip.blocks) : strip.blocks[j] >= f[i]
        <5>1. CASE strip.preload
          <6>1. f = strip.fills
            BY <5>1
          <6>. QED BY <2>2, <3>1, <4>1, <6>1
        <5>2. CASE ~strip.preload
          BY <3>1, <5>2
        <5>. QED BY <5>1, <5>2
      <4>. HIDE DEF f
      <4>3. \A m \in Nat : m <= latest /\ (\A j \in 1..Len(strip.blocks) : strip.blocks[j] >= m)
                           => \A j \in 1..Len(b) : b[j] >= m
        BY <2>2, AtEnd
      <4>. HIDE DEF b
      <4>. QED BY <4>1, <4>2, <4>3
    <3>5. \A i \in 1..Len(f), j \in 1..Len(b) : f[i] \in Nat /\ b[j] \in Nat
      BY <2>3
    <3>. QED BY <3>2, <3>3, <3>4, <3>5
  <2>. HIDE DEF b, f
  <2>5. /\ strip' \in Strips /\ strip'.latest = latest /\ strip'.blocks = b /\ strip'.fills = f
        /\ strip'.preload /\ strip'.inherited = strip.inherited
    BY <2>1, <2>2, <2>3 DEF Strips
  <2>. QED BY <2>4, <2>5 DEF StripKept, StripInv
<1>. QED BY <1>1, <1>2

(* The strip begins with the recent blocks, or with nothing.                *)
LEMMA OpenStripKeeps == ASSUME BlocksKept, StripKept, OpenStrip PROVE StripKept'
<1> DEFINE b == IF strip.known THEN LastOf(Reverse(base.recents), StripLimit) ELSE <<>>
           e == <<>>
           o == strip.opens + 1
           h == base.recents # <<>>
<1>1. strip' = [strip EXCEPT !.open = TRUE, !.opens = o, !.latest = 0, !.preload = FALSE,
                   !.fills = e, !.blocks = b, !.inherited = h]
  BY DEF OpenStrip
<1>2. base.recents \in Seq(Nat) /\ StripLimit \in Nat /\ o \in Nat /\ h \in BOOLEAN /\ e \in Seq(Nat)
  BY BlocksAssumption DEF BlocksKept, PollShape, Bases, StripKept, Strips
<1>3. Reverse(base.recents) \in Seq(Nat) /\ Len(Reverse(base.recents)) = Len(base.recents)
  <2>1. \A i \in 1..Len(base.recents) : base.recents[(Len(base.recents) - i) + 1] \in Nat
    BY <1>2
  <2>. QED BY <1>2, <2>1 DEF Reverse
<1>4. b \in Seq(Nat) /\ (base.recents = <<>> => b = <<>>)
  <2>1. /\ LastOf(Reverse(base.recents), StripLimit) \in Seq(Nat)
        /\ Len(LastOf(Reverse(base.recents), StripLimit)) <= Len(Reverse(base.recents))
    BY <1>2, <1>3, LastPart
  <2>. QED BY <1>2, <1>3, <2>1
<1>. HIDE DEF b, o, h, e
<1>5. /\ strip' \in Strips /\ strip'.fills = e /\ strip'.blocks = b /\ strip'.inherited = h
  BY <1>1, <1>2, <1>4 DEF StripKept, Strips
<1>6. StripInv'
  <2>. SUFFICES ASSUME ~strip'.inherited PROVE StripInv'
    BY DEF StripInv
  <2>1. strip'.blocks = <<>> /\ strip'.fills = <<>>
    BY <1>4, <1>5 DEF h, e
  <2>. QED BY <2>1 DEF StripInv, Rising, Falling, UpTo
<1>. QED BY <1>5, <1>6 DEF StripKept

(* The next block the strip waits for is below all it shows.                *)
LEMMA FillBlockKeeps == ASSUME StripKept, FillBlock PROVE StripKept'
<1> DEFINE rest == Tail(strip.fills)
           head == Head(strip.fills)
<1>1. PICK f \in {<<>>, rest}, b \in {PutAtStart(strip.blocks, head), strip.blocks} :
        strip' = [strip EXCEPT !.fills = f, !.blocks = b]
  BY DEF FillBlock
<1>2. /\ strip \in Strips /\ strip.blocks \in Seq(Nat) /\ strip.fills \in Seq(Nat) /\ strip.latest \in Nat
      /\ strip.fills # <<>>
  BY DEF StripKept, Strips, FillBlock
<1>3. /\ head \in Nat /\ head = strip.fills[1] /\ rest \in Seq(Nat) /\ 1 \in 1..Len(strip.fills)
      /\ \A i \in 1..Len(rest) : rest[i] = strip.fills[i + 1] /\ i + 1 \in 1..Len(strip.fills)
  BY <1>2
<1>. HIDE DEF rest, head
<1>4. f \in Seq(Nat) /\ b \in Seq(Nat)
  <2>1. PutAtStart(strip.blocks, head) \in Seq(Nat)
    BY <1>2, <1>3, AtStart
  <2>2. f = <<>> \/ f = rest
    OBVIOUS
  <2>3. b = PutAtStart(strip.blocks, head) \/ b = strip.blocks
    OBVIOUS
  <2>4. <<>> \in Seq(Nat)
    OBVIOUS
  <2>5. CASE f = <<>>
    BY <1>2, <2>1, <2>3, <2>4, <2>5, Zenon
  <2>6. CASE f = rest
    BY <1>2, <1>3, <2>1, <2>3, <2>6, Zenon
  <2>. QED BY <2>2, <2>5, <2>6, Zenon
<1>5. /\ strip' \in Strips /\ strip'.blocks = b /\ strip'.fills = f
      /\ strip'.open = strip.open /\ strip'.inherited = strip.inherited /\ strip'.latest = strip.latest
      /\ strip'.preload = strip.preload
  BY <1>1, <1>2, <1>4 DEF Strips
<1>6. ASSUME strip.open, ~strip.inherited
      PROVE  /\ Rising(b) /\ UpTo(b, strip.latest) /\ Falling(f) /\ UpTo(f, strip.latest)
             /\ \A i \in 1..Len(f), j \in 1..Len(b) : f[i] <= b[j]
             /\ strip.preload
  <2>1. /\ Rising(strip.blocks) /\ UpTo(strip.blocks, strip.latest)
        /\ Falling(strip.fills) /\ UpTo(strip.fills, strip.latest) /\ strip.preload
        /\ \A i \in 1..Len(strip.fills), j \in 1..Len(strip.blocks) : strip.fills[i] <= strip.blocks[j]
    BY <1>2, <1>6 DEF StripKept, StripInv
  <2>2. head <= strip.latest /\ \A j \in 1..Len(strip.blocks) : strip.blocks[j] >= head
    BY <1>2, <1>3, <2>1 DEF UpTo
  <2>3. Rising(b) /\ UpTo(b, strip.latest)
    <3>1. /\ Rising(PutAtStart(strip.blocks, head))
          /\ UpTo(PutAtStart(strip.blocks, head), strip.latest)
      BY <1>2, <1>3, <2>1, <2>2, AtStart
    <3>2. b = PutAtStart(strip.blocks, head) \/ b = strip.blocks
      OBVIOUS
    <3>. QED BY <2>1, <3>1, <3>2
  <2>4. Falling(rest) /\ UpTo(rest, strip.latest)
    <3>1. ASSUME NEW i \in 1..Len(rest), NEW j \in 1..Len(rest), i < j PROVE rest[i] > rest[j]
      BY <1>2, <1>3, <2>1, <3>1 DEF Falling
    <3>2. ASSUME NEW i \in 1..Len(rest) PROVE rest[i] <= strip.latest
      BY <1>3, <2>1 DEF UpTo
    <3>. QED BY <3>1, <3>2 DEF Falling, UpTo
  <2>5. ASSUME NEW i \in 1..Len(rest) PROVE \A j \in 1..Len(b) : b[j] >= rest[i]
    <3>1. rest[i] \in Nat /\ rest[i] <= head
      <4>1. strip.fills[1] > strip.fills[i + 1] /\ strip.fills[i + 1] \in Nat
        <5>1. i + 1 \in 1..Len(strip.fills) /\ 1 < i + 1
          BY <1>3
        <5>2. strip.fills[i + 1] \in Nat
          BY <1>2, <5>1, Element
        <5>3. Falling(strip.fills)
          BY <2>1
        <5>4. strip.fills[1] > strip.fills[i + 1]
          BY <1>3, <5>1, <5>3 DEF Falling
        <5>. QED BY <5>2, <5>4
      <4>2. rest[i] = strip.fills[i + 1] /\ head = strip.fills[1] /\ head \in Nat
        BY <1>3
      <4>. QED BY <4>1, <4>2
    <3>2. \A j \in 1..Len(strip.blocks) : strip.blocks[j] >= rest[i]
      BY <1>2, <1>3, <2>1
    <3>3. \A j \in 1..Len(PutAtStart(strip.blocks, head)) : PutAtStart(strip.blocks, head)[j] >= rest[i]
      BY <1>2, <1>3, <3>1, <3>2, AtStart
    <3>4. b = PutAtStart(strip.blocks, head) \/ b = strip.blocks
      OBVIOUS
    <3>. QED BY <3>2, <3>3, <3>4
  <2>6. Falling(<<>>) /\ UpTo(<<>>, strip.latest)
    BY DEF Falling, UpTo
  <2>7. CASE f = <<>>
    BY <2>1, <2>3, <2>6, <2>7
  <2>8. CASE f = rest
    <3>1. \A i \in 1..Len(rest), j \in 1..Len(b) : rest[i] \in Nat /\ b[j] \in Nat
      <4>1. \A s \in Seq(Nat) : \A i \in 1..Len(s) : s[i] \in Nat
        OBVIOUS
      <4>. QED BY <1>3, <1>4, <4>1
    <3>. QED BY <2>1, <2>3, <2>4, <2>5, <2>8, <3>1
  <2>. QED BY <2>7, <2>8
<1>. QED BY <1>5, <1>6 DEF StripKept, StripInv

(* Each of the strip's own steps keeps its order.                           *)
LEMMA StripKeeps == ASSUME BlocksKept, StripKept, StripStep PROVE StripKept'
<1>1. CASE LeaveStrip
  <2> DEFINE e == <<>>
  <2>1. strip' = [strip EXCEPT !.open = FALSE, !.fills = e, !.blocks = e] /\ e \in Seq(Nat)
    BY <1>1 DEF LeaveStrip
  <2>. HIDE DEF e
  <2>. QED BY <2>1 DEF StripKept, Strips, StripInv
<1>2. CASE ValidatorsKnown
  <2>1. strip' = [strip EXCEPT !.known = TRUE]
    BY <1>2 DEF ValidatorsKnown
  <2>. QED BY <2>1 DEF StripKept, Strips, StripInv
<1>. QED BY <1>1, <1>2, OpenStripKeeps, FillBlockKeeps DEF StripStep

(* The polling changes the strip by telling it of a block, and in no other  *)
(* way.                                                                     *)
LEMMA PollNoticed == ASSUME BlocksKept, StripKept, PollStep PROVE StripKept'
<1>1. ASSUME NEW i \in DOMAIN polling.runs, AnswerLatest(i) PROVE StripKept'
  <2>1. polling.runs[i].asked \in Nat /\ top \in Nat /\ base.recents \in Seq(Nat)
    <3>1. polling.runs[i] \in Runs
      BY Element DEF BlocksKept, PollShape, Pollings
    <3>. QED BY <3>1 DEF Runs, BlocksKept, PollShape, Bases
  <2>2. PICK h \in polling.runs[i].asked..top : strip' = Noticed(h, RecentsBefore)
    BY <1>1 DEF AnswerLatest
  <2>3. h \in Nat /\ RecentsBefore \in Seq(Nat)
    BY <2>1 DEF RecentsBefore
  <2>. QED BY <2>2, <2>3, NoticedKeeps
<1>2. ASSUME NEW i \in DOMAIN polling.runs, FailLatest(i) PROVE StripKept'
  BY <1>2, NoticedKeeps DEF FailLatest, BlocksKept, PollShape, Bases
<1>3. ASSUME UNCHANGED strip PROVE StripKept'
  BY <1>3 DEF StripKept, StripInv
<1>. QED BY <1>1, <1>2, <1>3 DEF PollStep, Tick, initial, Produce, AnswerPoll, AnswerBlock

(* There are no blocks at first.                                            *)
LEMMA BlocksInitKept == Init => BlocksKept /\ StripKept
<1>. SUFFICES ASSUME Init PROVE BlocksKept /\ StripKept
  OBVIOUS
<1> DEFINE e == <<>>
<1>1. e \in Seq(Nat) /\ e \in Seq(Runs)
  OBVIOUS
<1>. HIDE DEF e
<1>2. /\ top = 1 /\ base = [latest |-> 0, recents |-> e]
      /\ \E all, started \in BOOLEAN :
           polling = [fetchAll |-> all, counter |-> 0, skips |-> 0, runs |-> e, started |-> started,
                      overlap |-> FALSE, lost |-> 0]
      /\ strip = [open |-> FALSE, known |-> FALSE, latest |-> 0, preload |-> FALSE, blocks |-> e,
                  fills |-> e, inherited |-> FALSE, opens |-> 0]
  BY DEF Init, BlocksInit, e
<1>3. PollShape /\ strip \in Strips
  BY <1>1, <1>2 DEF PollShape, Bases, Pollings, Strips
<1>4. base.recents = <<>> /\ polling.runs = <<>> /\ base.latest = 0 /\ top = 1 /\ ~strip.open
  BY <1>2 DEF e
<1>5. OneByOne /\ NoneSkipped
  BY <1>4 DEF OneByOne, NoneSkipped, Increasing, UpTo, Gapless, Distinct
<1>. QED BY <1>3, <1>4, <1>5 DEF BlocksKept, StripKept, OrderInv, StripInv

(* The pages and the consensus page leave the blocks alone.                 *)
LEMMA BlocksNextKeeps == ASSUME BlocksKept, StripKept, [Next]_vars PROVE BlocksKept' /\ StripKept'
<1>1. ASSUME UNCHANGED <<top, base, polling, strip>> PROVE BlocksKept' /\ StripKept'
  <2>1. StripKept'
    BY <1>1 DEF StripKept, StripInv
  <2>2. BlocksKept'
    BY <1>1, Apart DEF BlocksKept, PollShape
  <2>. QED BY <2>1, <2>2
<1>2. ASSUME WatchStep PROVE UNCHANGED <<top, base, polling, strip>>
  BY <1>2 DEF WatchStep, OpenWatch, onChange, LeaveWatch, AnswerLoad, TickWatch, AnswerRound
<1>. QED BY <1>1, <1>2, PollKeeps, PollNoticed, StripKeeps, StripsApart
  DEF Next, PagesStep, BlocksStep, vars, blockVars

(* The recent blocks never hold a block twice unless skipped ones are asked *)
(* for by two fetches at once; without overlap they are in order, and       *)
(* without a gap if skipped blocks are asked for and found; and the strip   *)
(* is in the order of the chain if it began with nothing: fetchLatest and   *)
(* fetchNewBlocks of useBaseStore.ts and fillblock of uptime/index.vue, for *)
(* any number of blocks, fetches, failures and visits.                      *)
THEOREM BlocksStayInOrder == Spec => []BlocksInOrder
<1>1. BlocksKept /\ StripKept => BlocksInOrder
  <2>. SUFFICES ASSUME BlocksKept, StripKept PROVE BlocksInOrder
    OBVIOUS
  <2> DEFINE r == base.recents
  <2>1. r \in Seq(Nat) /\ strip.blocks \in Seq(Nat)
    BY DEF BlocksKept, PollShape, Bases, StripKept, Strips
  <2>2. ~polling.overlap => /\ Increasing(r)
                            /\ polling.fetchAll /\ polling.lost = 0 => Gapless(r)
    BY DEF BlocksKept, OrderInv, OneByOne
  <2>3. ~(polling.fetchAll /\ polling.overlap) => Distinct(r)
    BY <2>1, <2>2, IncreasingDistinct DEF BlocksKept, OrderInv, NoneSkipped
  <2>4. Distinct(r) => IsInjective(r)
    BY <2>1 DEF Distinct, IsInjective
  <2>5. Increasing(r) => Ascending(r)
    BY <2>1 DEF Increasing, Ascending
  <2>6. Gapless(r) => \A i \in 1..Len(r) - 1 : r[i + 1] = r[i] + 1
    <3>. SUFFICES ASSUME Gapless(r), NEW i \in 1..Len(r) - 1 PROVE r[i + 1] = r[i] + 1
      OBVIOUS
    <3>1. i \in 1..Len(r) /\ i + 1 \in 1..Len(r) /\ (i + 1) - i = 1
      BY <2>1
    <3>. QED BY <3>1 DEF Gapless
  <2>7. RecentsInOrder
    BY <2>2, <2>3, <2>4, <2>5, <2>6 DEF RecentsInOrder
  <2>8. StripInOrder
    <3>. SUFFICES ASSUME strip.open, ~strip.inherited, NEW i \in 1..Len(strip.blocks) - 1
                  PROVE  strip.blocks[i] <= strip.blocks[i + 1]
      BY DEF StripInOrder
    <3>1. i \in 1..Len(strip.blocks) /\ i + 1 \in 1..Len(strip.blocks) /\ i < i + 1
      BY <2>1
    <3>2. Rising(strip.blocks)
      BY DEF StripKept, StripInv
    <3>. QED BY <3>1, <3>2 DEF Rising
  <2>. QED BY <2>7, <2>8 DEF BlocksInOrder
<1>. QED BY BlocksInitKept, BlocksNextKeeps, <1>1, PTL DEF Spec
=============================================================================
