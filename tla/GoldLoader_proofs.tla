------------------------- MODULE GoldLoader_proofs -------------------------
(***************************************************************************)
(* What holds of the gold-loader for every log, every assignment of        *)
(* windows, tenors and quality, and every threshold: the types, that no    *)
(* event is mislaid between the two threads, that no price in a row is     *)
(* replaced by an older one, and - when the number of tenors to expect is  *)
(* learned - that no row collapses.                                        *)
(*                                                                         *)
(* The strengthening compares, window by window, the three places an event *)
(* passes through: the open window, the batch, the row.                    *)
(***************************************************************************)
EXTENDS GoldLoader, TLAPS, FiniteSetTheorems, WellFoundedInduction

\* The batch is the poller's while it merges.
BatchWhileMerging == pollerPc \in {"wait", "drain", "done"} => batch = Empty

\* No commit is ahead of what was read, or more than one message behind it.
InStep ==
    /\ position \in {committed, committed + 1}
    /\ mainPc = "poll" => position = committed
    /\ mainPc = "commit" => position = committed + 1

\* Nothing the loader keeps, or wrote, is later than the offset it would
\* resume from.
NotAhead ==
    \A w \in Windows : \A o \in windows[w] \cup batch[w] \cup gold[w] : o <= committed

\* For a tenor, what is in S is not later than what is in T.
NoLater(S, T) == \A o \in S, n \in T : TenorOf[o] = TenorOf[n] => o <= n

\* A row is no later than its batch and its window, a batch no later than its
\* window; and rows and batches have one event per tenor.
InOrder ==
    \A w \in Windows :
        /\ NoLater(gold[w], gold[w]) /\ NoLater(batch[w], batch[w])
        /\ NoLater(gold[w], batch[w])
        /\ NoLater(gold[w], windows[w])
        /\ NoLater(batch[w], windows[w])

\* While the process runs, it knows of at least as many tenors as each row has,
\* and each snapshot to merge reaches the threshold against its row.
Measured ==
    stops = 0 /\ ExpectedTenors = 0 =>
        \A w \in Windows :
            /\ Cardinality(gold[w]) <= learned
            /\ Cardinality(batch[w]) <= learned
            /\ batch[w] # {} => 100 * Cardinality(batch[w]) >= AuthPct * Cardinality(gold[w])

Kept == TypeOK /\ BatchWhileMerging /\ InStep /\ NotAhead /\ InOrder

-----------------------------------------------------------------------------

\* A bounded nonempty set of natural numbers has a greatest element, and Max is it.
LEMMA MaxIsGreatest ==
    ASSUME NEW S \in SUBSET Nat, S # {}, NEW b \in Nat, \A x \in S : x <= b
    PROVE  Max(S) \in S /\ \A x \in S : Max(S) >= x
<1> DEFINE Larger(x) == {y \in S : y > x}
           T == {Larger(x) : x \in S}
<1>1. IsFiniteSet(S)
  BY FS_BoundedSetOfNaturals
<1>2. IsWellFoundedOn(StrictSubsetOrdering(S), SUBSET S)
  BY <1>1, FS_StrictSubsetOrderingWellFounded, FS_FiniteSubsetsOfFinite
<1>3. T \subseteq SUBSET S /\ T # {}
  OBVIOUS
<1>4. PICK t \in T : \A u \in T : <<u, t>> \notin StrictSubsetOrdering(S)
  BY <1>2, <1>3, WFMin
<1>5. PICK m \in S : t = Larger(m)
  BY <1>4
<1>6. ASSUME NEW y \in S, ~(m >= y) PROVE FALSE
  <2>1. m \in Int /\ y \in Int
    OBVIOUS
  <2>2. y \in Larger(m) /\ y \notin Larger(y)
    BY <2>1, <1>6
  <2>3. \A z \in S : z > y => z > m
    BY <2>1, <1>6
  <2>4. <<Larger(y), Larger(m)>> \in StrictSubsetOrdering(S)
    BY <2>2, <2>3 DEF StrictSubsetOrdering
  <2> QED
    BY <1>4, <1>5, <2>4
<1>7. \E x \in S : \A y \in S : x >= y
  BY <1>6
<1> QED
  BY <1>7 DEF Max

\* A window shows one tenor at least for each, and at most as many as the log has
\* events.
LEMMA TenorsBounded ==
    ASSUME NEW w \in Windows, windows[w] \subseteq WellFormed
    PROVE  Latest(w) \subseteq windows[w] /\ Tenors(w) \in Nat /\ Tenors(w) <= MaxOffset
<1>1. IsFiniteSet(Offsets) /\ Cardinality(Offsets) = MaxOffset
  BY FS_Interval, GoldAssumption DEF Offsets
<1>2. Latest(w) \subseteq windows[w] /\ Latest(w) \in SUBSET Offsets
  BY DEF Latest, WellFormed
<1>3. IsFiniteSet(Latest(w)) /\ Cardinality(Latest(w)) <= MaxOffset
  BY <1>1, <1>2, FS_Subset
<1> QED
  BY <1>2, <1>3, FS_CardinalityType DEF Tenors

\* The tenors to expect are a number, never fewer than were learned, and what is
\* learned covers every window that is taken.
LEMMA ExpectedProperties ==
    ASSUME TypeOK, ExpectedTenors = 0
    PROVE  /\ Max({learned} \cup {Tenors(w) : w \in Due}) \in Nat
           /\ Max({learned} \cup {Tenors(w) : w \in Due}) >= learned
           /\ \A w \in Due : Max({learned} \cup {Tenors(v) : v \in Due}) >= Tenors(w)
           /\ \A w \in Windows : Expected(w) \in Nat /\ Expected(w) >= learned
<1>1. \A w \in Due : Tenors(w) \in Nat /\ Tenors(w) <= MaxOffset
  BY TenorsBounded DEF Due, TypeOK
<1>2. learned \in Nat /\ MaxOffset \in Nat
  BY GoldAssumption DEF TypeOK
<1>3. ASSUME NEW U \in SUBSET Due
      PROVE  LET S == {learned} \cup {Tenors(v) : v \in U}
             IN Max(S) \in Nat /\ Max(S) >= learned /\ \A v \in U : Max(S) >= Tenors(v)
  <2> DEFINE S == {learned} \cup {Tenors(v) : v \in U}
  <2>1. S \in SUBSET Nat /\ S # {} /\ learned + MaxOffset \in Nat
    BY <1>1, <1>2
  <2>2. \A x \in S : x <= learned + MaxOffset
    BY <1>1, <1>2
  <2>3. learned \in S /\ \A v \in U : Tenors(v) \in S
    OBVIOUS
  <2> HIDE DEF S
  <2>4. Max(S) \in S /\ \A x \in S : Max(S) >= x
    BY <2>1, <2>2, MaxIsGreatest
  <2>5. Max(S) \in Nat /\ Max(S) >= learned /\ \A v \in U : Max(S) >= Tenors(v)
    BY <2>1, <2>3, <2>4
  <2> QED
    BY <2>5 DEF S
<1>4. ASSUME NEW w \in Windows PROVE Expected(w) \in Nat /\ Expected(w) >= learned
  <2> DEFINE U == {u \in Due : Min(windows[u]) <= Min(windows[w])}
  <2>1. U \in SUBSET Due
    OBVIOUS
  <2>2. Expected(w) = Max({learned} \cup {Tenors(v) : v \in U})
    BY DEF Expected
  <2> HIDE DEF U
  <2> QED
    BY <2>1, <2>2, <1>3
<1> QED
  BY <1>3, <1>4

\* Every variable keeps its type: the events of windows, snapshots and rows are
\* events of the log, and both threads keep to their programs.
LEMMA TypeStep == ASSUME TypeOK, [Next]_vars PROVE TypeOK'
<1> USE DEF TypeOK, readerVars, pollerVars, assemblerVars, tableVars
<1>a. Empty \in [Windows -> SUBSET WellFormed]
  BY DEF Empty
<1>b. InWindows \subseteq WellFormed /\ InBatch \subseteq WellFormed
  BY DEF InWindows, InBatch
<1>c. Merged \in [Windows -> SUBSET WellFormed]
  BY DEF Merged
<1>d. AfterFlush \in {"wait", "drain", "merge", "again", "done"}
  BY DEF AfterFlush
<1>e. MaxOffset \in Int /\ MaxNow \in Int /\ MaxFailures \in Int
  BY GoldAssumption
<1>1. CASE Poll
  <2>1. position \in Offsets /\ position' \in 1..MaxOffset + 1
    BY <1>1, <1>e DEF Poll, Offsets
  <2>2. windows' \in [Windows -> SUBSET WellFormed]
    BY <1>1, <2>1, GoldAssumption DEF Poll, WellFormed
  <2> QED
    BY <1>1, <2>1, <2>2 DEF Poll
<1>2. CASE Commit
  BY <1>2 DEF Commit, NextToRead
<1>3. CASE TakeExpired
  <2>1. \A w \in Windows : Latest(w) \subseteq WellFormed
    BY TenorsBounded
  <2>2. batch' \in [Windows -> SUBSET WellFormed] /\ windows' \in [Windows -> SUBSET WellFormed]
    BY <1>3, <2>1 DEF TakeExpired, Untaken
  <2>3. learned' \in Nat
    <3>1. CASE ExpectedTenors > 0
      BY <1>3, <3>1 DEF TakeExpired
    <3>2. CASE ~(ExpectedTenors > 0)
      BY <1>3, <3>2, ExpectedProperties, GoldAssumption DEF TakeExpired
    <3> QED
      BY <3>1, <3>2
  <2>4. passedOver' \subseteq WellFormed
    BY <1>3 DEF TakeExpired, Due
  <2>5. pollerPc' \in {"wait", "drain", "merge", "again", "done"}
    BY <1>3, <1>d DEF TakeExpired
  <2> QED
    BY <1>3, <2>2, <2>3, <2>4, <2>5 DEF TakeExpired
<1>4. CASE Merge
  BY <1>4, <1>a, <1>b, <1>c, <1>d DEF Merge
<1>5. CASE FirstMergeRaises
  <2>1. failures' \in 0..MaxFailures
    BY <1>5, <1>e DEF FirstMergeRaises, MergeRaises, Fails
  <2>2. gold' \in [Windows -> SUBSET WellFormed] /\ loaded' \subseteq WellFormed
    BY <1>5, <1>b, <1>c DEF FirstMergeRaises, MergeRaises
  <2> QED
    BY <1>5, <2>1, <2>2 DEF FirstMergeRaises
<1>6. CASE GiveUp
  <2>1. failures' \in 0..MaxFailures
    BY <1>6, <1>e DEF GiveUp, LoadFails, MergeRaises, Fails
  <2>2. /\ gold' \in [Windows -> SUBSET WellFormed] /\ loaded' \subseteq WellFormed
        /\ connected' \in BOOLEAN
    BY <1>6, <1>b, <1>c DEF GiveUp, LoadFails, MergeRaises
  <2> QED
    BY <1>6, <2>1, <2>2, <1>a, <1>b, <1>d DEF GiveUp
<1>7. CASE Tick
  BY <1>7, <1>e DEF Tick
<1>8. CASE Sigterm
  BY <1>8 DEF Sigterm
<1>9. CASE LeaveLoop
  BY <1>9 DEF LeaveLoop
<1>10. CASE StartDrain
  BY <1>10 DEF StartDrain
<1>11. CASE Restart
  <2>1. {position', committed'} \subseteq 1..MaxOffset + 1 /\ stops' \in Nat /\ learned' \in Nat
    BY <1>11 DEF Restart
  <2>2. {draining', connected', stopping'} \subseteq BOOLEAN
    BY <1>11 DEF Restart
  <2>3. lost' \subseteq WellFormed
    BY <1>11, <1>b DEF Restart
  <2> QED
    BY <1>11, <2>1, <2>2, <2>3, <1>a DEF Restart
<1>12. CASE CloseClient
  BY <1>12 DEF CloseClient
<1>13. CASE UNCHANGED vars
  BY <1>13 DEF vars
<1> QED
  BY <1>1, <1>2, <1>3, <1>4, <1>5, <1>6, <1>7, <1>8, <1>9, <1>10, <1>11, <1>12, <1>13
     DEF Next, Exit, Crash
-----------------------------------------------------------------------------

\* What the actions of the two threads do to the three places of an event: an
\* event is added, windows are taken, a batch is merged or dropped, all of memory
\* goes.
Adds ==
    /\ position \in WellFormed
    /\ windows' = [windows EXCEPT ![WindowOf[position]] = @ \cup {position}]
    /\ UNCHANGED <<batch, gold>>
TakesDue ==
    /\ \A w \in Windows : windows'[w] = IF w \in Due THEN {} ELSE windows[w]
    /\ \A w \in Windows : batch'[w] \in {{}, Latest(w)} /\ (batch'[w] # {} => w \in Due)
    /\ gold' = gold
Merges == gold' \in {gold, Merged} /\ batch' \in {batch, Empty} /\ windows' = windows
Clears == windows' = Empty /\ batch' = Empty /\ gold' = gold
LeavesPlaces == UNCHANGED <<windows, batch, gold>>

\* Every step is one of these.
LEMMA PlacesStep ==
    ASSUME TypeOK, [Next]_vars
    PROVE  \/ Adds /\ Poll
           \/ TakesDue /\ TakeExpired
           \/ Merges /\ (Merge \/ FirstMergeRaises \/ GiveUp)
           \/ Clears /\ Restart
           \/ LeavesPlaces /\ (\/ Poll \/ Commit \/ Tick \/ Sigterm \/ LeaveLoop
                               \/ StartDrain \/ CloseClient \/ UNCHANGED vars)
<1> USE DEF readerVars, pollerVars, assemblerVars, tableVars
<1>1. CASE Poll
  <2>1. position \in Offsets
    BY <1>1, GoldAssumption DEF Poll, TypeOK, Offsets
  <2> QED
    BY <1>1, <2>1 DEF Poll, Adds, LeavesPlaces, WellFormed
<1>2. CASE TakeExpired
  BY <1>2 DEF TakeExpired, TakesDue, Untaken
<1>3. CASE Merge \/ FirstMergeRaises \/ GiveUp
  BY <1>3 DEF Merge, FirstMergeRaises, GiveUp, LoadFails, MergeRaises, Merges
<1>4. CASE Restart
  BY <1>4 DEF Restart, Clears
<1>5. CASE Commit \/ Tick \/ Sigterm \/ LeaveLoop \/ StartDrain \/ CloseClient \/ UNCHANGED vars
  BY <1>5 DEF Commit, Tick, Sigterm, LeaveLoop, StartDrain, CloseClient, vars, LeavesPlaces
<1> QED
  BY <1>1, <1>2, <1>3, <1>4, <1>5 DEF Next, Exit, Crash

\* Latest holds one event per tenor, the last to arrive.
LEMMA LatestHasOnePerTenor ==
    ASSUME NEW w \in Windows, windows[w] \subseteq WellFormed
    PROVE  NoLater(Latest(w), Latest(w)) /\ Latest(w) \subseteq windows[w]
BY DEF Latest, NoLater, WellFormed, Offsets

\* Where the reader and the poller are, relative to the commits and the batch.
LEMMA InStepStep ==
    ASSUME TypeOK, BatchWhileMerging, InStep, [Next]_vars
    PROVE  BatchWhileMerging' /\ InStep'
<1> USE DEF readerVars, pollerVars, assemblerVars, tableVars, InStep, BatchWhileMerging
<1>a. committed \in Int /\ position \in Int
  BY GoldAssumption DEF TypeOK
<1>1. CASE Poll
  BY <1>1, <1>a DEF Poll
<1>2. CASE Commit
  BY <1>2, <1>a DEF Commit, NextToRead
<1>3. CASE TakeExpired
  <2>1. pollerPc' \in {"wait", "drain", "done"} => batch' = Empty
    BY <1>3 DEF TakeExpired, Empty, AfterFlush
  <2> QED
    BY <1>3, <2>1 DEF TakeExpired
<1>4. CASE Merge \/ FirstMergeRaises \/ GiveUp
  BY <1>4 DEF Merge, FirstMergeRaises, GiveUp
<1>5. CASE Restart
  BY <1>5, <1>a DEF Restart
<1>6. CASE Tick \/ Sigterm \/ LeaveLoop \/ StartDrain \/ CloseClient \/ UNCHANGED vars
  BY <1>6 DEF Tick, Sigterm, LeaveLoop, StartDrain, CloseClient, vars
<1> QED
  BY <1>1, <1>2, <1>3, <1>4, <1>5, <1>6 DEF Next, Exit, Crash

\* An event enters its window at the committed offset, and everything else is an
\* event of a window already.
LEMMA NotAheadStep == ASSUME TypeOK, InStep, NotAhead, [Next]_vars PROVE NotAhead'
<1> USE DEF NotAhead
<1>a. committed \in Int /\ position \in Int /\ WellFormed \subseteq Int
  BY GoldAssumption DEF TypeOK, WellFormed, Offsets
<1>b. committed' \in Int /\ committed <= committed'
  <2>1. CASE Commit
    BY <2>1, <1>a DEF Commit, NextToRead, InStep
  <2>2. committed' = committed \/ Commit
    BY DEF Next, vars, readerVars, Poll, TakeExpired, Merge, FirstMergeRaises, GiveUp, Tick,
           Sigterm, LeaveLoop, StartDrain, CloseClient, Exit, Crash, Restart
  <2> QED
    BY <2>1, <2>2, <1>a
<1>c. \A w \in Windows :
        windows[w] \subseteq WellFormed /\ batch[w] \subseteq WellFormed /\ gold[w] \subseteq WellFormed
  BY DEF TypeOK
<1>d. ASSUME \A w \in Windows :
               windows'[w] \cup batch'[w] \cup gold'[w] \subseteq windows[w] \cup batch[w] \cup gold[w]
      PROVE  NotAhead'
  <2> SUFFICES ASSUME NEW w \in Windows, NEW o \in windows'[w] \cup batch'[w] \cup gold'[w]
               PROVE  o <= committed'
    OBVIOUS
  <2>1. o \in windows[w] \cup batch[w] \cup gold[w]
    BY <1>d
  <2>2. o <= committed /\ o \in Int
    BY <2>1, <1>a, <1>c
  <2> QED
    BY <2>2, <1>a, <1>b
<1>1. CASE Adds /\ Poll
  <2>1. position = committed
    BY <1>1 DEF Poll, InStep
  <2>2. \A w \in Windows : windows'[w] \subseteq windows[w] \cup {position}
    BY <1>1 DEF Adds, TypeOK
  <2> QED
    BY <1>1, <2>1, <2>2, <1>a, <1>b, <1>c DEF Adds
<1>2. CASE TakesDue
  BY <1>2, <1>c, <1>d, LatestHasOnePerTenor DEF TakesDue
<1>3. CASE Merges
  BY <1>3, <1>d DEF Merges, Merged, Empty
<1>4. CASE Clears
  BY <1>4, <1>d DEF Clears, Empty
<1>5. CASE LeavesPlaces
  BY <1>5, <1>d DEF LeavesPlaces
<1> QED
  BY <1>1, <1>2, <1>3, <1>4, <1>5, PlacesStep

\* A step keeps the order of row, batch and window.
LEMMA InOrderStep ==
    ASSUME TypeOK, InStep, NotAhead, InOrder, [Next]_vars
    PROVE  InOrder'
<1> USE DEF InOrder, NoLater
<1>a. committed \in Int /\ position \in Int /\ WellFormed \subseteq Int
  BY GoldAssumption DEF TypeOK, WellFormed, Offsets
<1>c. \A w \in Windows :
        windows[w] \subseteq WellFormed /\ batch[w] \subseteq WellFormed /\ gold[w] \subseteq WellFormed
  BY DEF TypeOK
<1>1. CASE Adds /\ Poll
  <2>1. position = committed
    BY <1>1 DEF Poll, InStep
  <2>2. \A w \in Windows : windows'[w] \subseteq windows[w] \cup {position}
    BY <1>1 DEF Adds, TypeOK
  <2>3. \A w \in Windows : \A o \in gold[w] \cup batch[w] : o <= position
    BY <2>1 DEF NotAhead
  <2>4. UNCHANGED <<batch, gold>>
    BY <1>1 DEF Adds
  <2> QED
    BY <2>2, <2>3, <2>4
<1>2. CASE TakesDue
  <2> SUFFICES ASSUME NEW w \in Windows
               PROVE  /\ NoLater(gold[w], gold[w])' /\ NoLater(batch[w], batch[w])'
                      /\ NoLater(gold[w], batch[w])'
                      /\ NoLater(gold[w], windows[w])' /\ NoLater(batch[w], windows[w])'
    OBVIOUS
  <2>1. /\ gold'[w] = gold[w] /\ batch'[w] \in {{}, Latest(w)}
        /\ batch'[w] # {} => windows'[w] = {}
        /\ windows'[w] \subseteq windows[w]
    BY <1>2 DEF TakesDue
  <2>2. NoLater(Latest(w), Latest(w)) /\ Latest(w) \subseteq windows[w]
    BY <1>c, LatestHasOnePerTenor
  <2> QED
    BY <2>1, <2>2
<1>3. CASE Merges
  <2> SUFFICES ASSUME NEW w \in Windows
               PROVE  /\ NoLater(gold[w], gold[w])' /\ NoLater(batch[w], batch[w])'
                      /\ NoLater(gold[w], batch[w])'
                      /\ NoLater(gold[w], windows[w])' /\ NoLater(batch[w], windows[w])'
    OBVIOUS
  <2>1. windows'[w] = windows[w] /\ gold'[w] \in {gold[w], batch[w]} /\ batch'[w] \in {batch[w], {}}
    BY <1>3 DEF Merges, Merged, Empty
  <2>2. /\ NoLater(gold[w], gold[w]) /\ NoLater(batch[w], batch[w]) /\ NoLater(gold[w], batch[w])
        /\ NoLater(gold[w], windows[w]) /\ NoLater(batch[w], windows[w])
    OBVIOUS
  <2>3. gold'[w] = batch[w] \/ gold'[w] = gold[w]
    BY <2>1
  <2> QED
    BY <2>1, <2>2, <2>3
<1>4. CASE Clears
  BY <1>4 DEF Clears, Empty
<1>5. CASE LeavesPlaces
  BY <1>5 DEF LeavesPlaces
<1> QED
  BY <1>1, <1>2, <1>3, <1>4, <1>5, PlacesStep

\* Nothing is in memory or in the table at first.
LEMMA InitKept == Init => Kept
<1> SUFFICES ASSUME Init PROVE Kept
  OBVIOUS
<1>1. TypeOK
  <2>1. Empty \in [Windows -> SUBSET WellFormed]
    BY DEF Empty
  <2>2. {position, committed} \subseteq 1..MaxOffset + 1 /\ now \in 1..MaxNow /\ failures \in 0..MaxFailures
    BY GoldAssumption DEF Init
  <2>3. {draining, connected, stopping} \subseteq BOOLEAN
    BY DEF Init
  <2> QED
    BY <2>1, <2>2, <2>3 DEF Init, TypeOK
<1>2. BatchWhileMerging /\ InStep
  BY DEF Init, BatchWhileMerging, InStep
<1>3. NotAhead /\ InOrder
  BY DEF Init, Empty, NotAhead, InOrder, NoLater
<1> QED
  BY <1>1, <1>2, <1>3 DEF Kept

\* The strengthening is an invariant.
LEMMA AlwaysKept == Spec => []Kept
<1>1. Kept /\ [Next]_vars => Kept'
  BY TypeStep, InStepStep, NotAheadStep, InOrderStep DEF Kept
<1> QED
  BY InitKept, <1>1, PTL DEF Spec
-----------------------------------------------------------------------------

\* No step mislays an event that was read: what leaves a window goes into the
\* batch or is passed over, what leaves the batch was merged or given up, and a
\* stop accounts for the rest.
LEMMA MislaidStep == ASSUME Kept, NothingMislaid, [Next]_vars PROVE NothingMislaid'
<1> USE DEF Kept
<1>a. committed \in Int /\ position \in Int /\ WellFormed \subseteq Int /\ committed <= position
  BY GoldAssumption DEF TypeOK, WellFormed, Offsets, InStep
<1>b. \A o : o \in InWindows <=> \E w \in Windows : o \in windows[w]
  BY DEF InWindows
<1>c. \A o : o \in InBatch <=> \E w \in Windows : o \in batch[w]
  BY DEF InBatch
<1>d. \A o : o \in InWindows' <=> \E w \in Windows : o \in windows'[w]
  BY DEF InWindows
<1>e. \A o : o \in InBatch' <=> \E w \in Windows : o \in batch'[w]
  BY DEF InBatch
<1> DEFINE Places == InWindows \cup InBatch \cup loaded \cup passedOver \cup unloaded \cup lost
<1> SUFFICES ASSUME NEW o \in WellFormed, o < position' PROVE o \in Places'
  BY DEF NothingMislaid
<1>f. o < position => o \in Places
  BY DEF NothingMislaid
<1>g. /\ loaded \subseteq loaded' /\ passedOver \subseteq passedOver'
      /\ unloaded \subseteq unloaded' /\ lost \subseteq lost'
  BY DEF Next, vars, tableVars, Poll, Commit, TakeExpired, Merge, FirstMergeRaises, GiveUp,
         LoadFails, MergeRaises, Tick, Sigterm, LeaveLoop, StartDrain,
         CloseClient, Exit, Crash, Restart
<1>1. CASE Poll
  <2>1. position' = position + 1 /\ batch' = batch
    BY <1>1 DEF Poll, pollerVars
  <2>2. CASE o < position
    <3>1. \A w \in Windows : windows[w] \subseteq windows'[w]
      BY <1>1 DEF Poll, TypeOK
    <3> QED
      BY <2>1, <2>2, <3>1, <1>b, <1>c, <1>d, <1>e, <1>f, <1>g
  <2>3. CASE ~(o < position)
    <3>1. o = position
      BY <2>1, <2>3, <1>a
    <3>2. o \in windows'[WindowOf[o]] /\ WindowOf[o] \in Windows
      BY <1>1, <3>1, GoldAssumption DEF Poll, TypeOK, WellFormed
    <3> QED
      BY <3>2, <1>d
  <2> QED
    BY <2>2, <2>3
<1>2. CASE TakeExpired
  <2>1. position' = position /\ batch = Empty
    BY <1>2 DEF TakeExpired, readerVars, BatchWhileMerging
  <2>2. o \in Places
    BY <2>1, <1>f
  <2>3. o \notin InBatch
    BY <2>1, <1>c DEF Empty
  <2>4. ASSUME NEW w \in Windows, o \in windows[w] PROVE o \in Places'
    <3>1. CASE w \notin Due
      BY <1>2, <2>4, <3>1, <1>d DEF TakeExpired, Untaken
    <3>2. CASE w \in Due /\ o \notin passedOver'
      <4> DEFINE ready == {u \in Due : Authoritative(u)}
                 kept == UNION {Latest(v) : v \in ready}
                 taken == UNION {windows[v] : v \in Due}
      <4>1. passedOver' = passedOver \cup (taken \ kept)
        BY <1>2 DEF TakeExpired
      <4>2. o \in taken
        BY <2>4, <3>2
      <4> HIDE DEF kept, taken
      <4>3. o \in kept
        BY <3>2, <4>1, <4>2
      <4> USE DEF kept
      <4>4. PICK v \in ready : o \in Latest(v)
        BY <4>3
      <4>5. batch' = [u \in Windows |-> IF u \in ready THEN Latest(u) ELSE {}]
        BY <1>2 DEF TakeExpired
      <4>6. v \in Windows /\ o \in batch'[v]
        BY <4>4, <4>5 DEF Due
      <4> QED
        BY <4>6, <1>e
    <3> QED
      BY <3>1, <3>2
  <2> QED
    BY <2>2, <2>3, <2>4, <1>b, <1>g
<1>3. CASE Merge \/ FirstMergeRaises \/ GiveUp
  <2>1. position' = position /\ windows' = windows
    BY <1>3 DEF Merge, FirstMergeRaises, GiveUp, readerVars, assemblerVars
  <2>2. batch' = batch \/ InBatch \subseteq loaded' \cup unloaded'
    BY <1>3 DEF Merge, FirstMergeRaises, GiveUp
  <2> QED
    BY <2>1, <2>2, <1>b, <1>c, <1>d, <1>e, <1>f, <1>g
<1>4. CASE Restart
  <2>1. position' = committed /\ InWindows \cup InBatch \subseteq lost'
    BY <1>4 DEF Restart
  <2>2. o < position
    BY <2>1, <1>a
  <2> QED
    BY <2>1, <2>2, <1>f, <1>g
<1>5. CASE Commit \/ Tick \/ Sigterm \/ LeaveLoop \/ StartDrain \/ CloseClient \/ UNCHANGED vars
  <2>1. UNCHANGED <<position, windows, batch>>
    BY <1>5 DEF Commit, Tick, Sigterm, LeaveLoop, StartDrain, CloseClient, vars, readerVars,
                pollerVars, assemblerVars
  <2> QED
    BY <2>1, <1>b, <1>c, <1>d, <1>e, <1>f, <1>g
<1> QED
  BY <1>1, <1>2, <1>3, <1>4, <1>5 DEF Next, Exit, Crash

\* A snapshot that is merged is no smaller, up to the threshold, than what was
\* learned, and so than the row it replaces.
LEMMA MeasuredStep == ASSUME Kept, Measured, [Next]_vars PROVE Measured'
<1> USE DEF Kept
<1> SUFFICES ASSUME stops' = 0, ExpectedTenors = 0, NEW w \in Windows
             PROVE  /\ Cardinality(gold'[w]) <= learned'
                    /\ Cardinality(batch'[w]) <= learned'
                    /\ batch'[w] # {} =>
                          100 * Cardinality(batch'[w]) >= AuthPct * Cardinality(gold'[w])
  BY DEF Measured
<1>a. stops = 0 /\ ~Restart
  BY DEF TypeOK, Next, vars, Poll, Commit, TakeExpired, Merge, FirstMergeRaises, GiveUp, Tick,
         Sigterm, LeaveLoop, StartDrain, CloseClient, Exit, Crash, Restart
<1>b. /\ Cardinality(gold[w]) <= learned /\ Cardinality(batch[w]) <= learned
      /\ batch[w] # {} => 100 * Cardinality(batch[w]) >= AuthPct * Cardinality(gold[w])
  BY <1>a DEF Measured
<1>c. ASSUME NEW S \in SUBSET WellFormed PROVE Cardinality(S) \in Nat
  <2>1. IsFiniteSet(Offsets) /\ S \in SUBSET Offsets
    BY FS_Interval, GoldAssumption DEF Offsets, WellFormed
  <2> QED
    BY <2>1, FS_Subset, FS_CardinalityType
<1>d. Cardinality(gold[w]) \in Nat /\ Cardinality(batch[w]) \in Nat /\ learned \in Nat
  BY <1>c DEF TypeOK
<1>e. AuthPct \in 0..100
  BY GoldAssumption
<1>f. Cardinality({}) = 0
  BY FS_EmptySet
<1>g. ASSUME NEW a \in Nat, NEW b \in Nat, a <= b PROVE AuthPct * a <= AuthPct * b
  BY <1>e, <1>g
<1>1. CASE TakesDue /\ TakeExpired
  <2>1. learned' \in Nat /\ learned' >= learned /\ \A v \in Due : learned' >= Tenors(v)
    <3>1. learned' = Max({learned} \cup {Tenors(v) : v \in Due})
      BY <1>1 DEF TakeExpired
    <3> QED
      BY <3>1, ExpectedProperties DEF TypeOK
  <2>2. gold'[w] = gold[w]
    BY <1>1 DEF TakesDue
  <2>3. CASE batch'[w] = {}
    BY <2>1, <2>2, <2>3, <1>b, <1>d, <1>f
  <2>4. CASE batch'[w] # {}
    <3>1. w \in Due /\ Authoritative(w) /\ batch'[w] = Latest(w)
      BY <1>1, <2>4 DEF TakeExpired
    <3>2. /\ Cardinality(batch'[w]) = Tenors(w) /\ Tenors(w) \in Nat /\ Tenors(w) <= learned'
          /\ Expected(w) \in Nat /\ Expected(w) >= learned
      BY <3>1, <2>1, TenorsBounded, ExpectedProperties DEF Tenors, TypeOK
    <3>3. 100 * Tenors(w) >= AuthPct * Cardinality(gold[w])
      <4>1. Cardinality(gold[w]) <= Expected(w)
        BY <3>2, <1>b, <1>d
      <4>2. AuthPct * Cardinality(gold[w]) <= AuthPct * Expected(w)
        BY <4>1, <3>2, <1>d, <1>g
      <4>3. CASE 100 * Tenors(w) >= AuthPct * Expected(w)
        BY <4>2, <4>3, <3>2, <1>d, <1>e
      <4>4. CASE Tenors(w) >= Expected(w)
        <5>1. AuthPct * Expected(w) <= AuthPct * Tenors(w)
          BY <4>4, <3>2, <1>g
        <5>2. AuthPct * Tenors(w) <= 100 * Tenors(w)
          BY <3>2, <1>e
        <5> QED
          BY <5>1, <5>2, <4>2, <3>2, <1>d, <1>e
      <4> QED
        BY <3>1, <4>3, <4>4 DEF Authoritative, Reaches
    <3> QED
      BY <3>2, <3>3, <2>1, <2>2, <1>b, <1>d
  <2> QED
    BY <2>3, <2>4
<1>2. CASE Merges /\ (Merge \/ FirstMergeRaises \/ GiveUp)
  <2>1. learned' = learned
    BY <1>2 DEF Merge, FirstMergeRaises, GiveUp, assemblerVars
  <2>2. /\ gold'[w] = gold[w] \/ (gold'[w] = batch[w] /\ batch[w] # {})
        /\ batch'[w] \in {batch[w], {}}
    BY <1>2 DEF Merges, Merged, Empty
  <2>3. 100 * Cardinality(batch[w]) >= AuthPct * Cardinality(batch[w])
    BY <1>d, <1>e
  <2>4. Cardinality(gold'[w]) <= learned /\ Cardinality(batch'[w]) <= learned
    BY <2>2, <1>b, <1>d, <1>f
  <2>5. batch'[w] # {} => batch'[w] = batch[w]
    BY <2>2
  <2>6. CASE gold'[w] = gold[w]
    BY <2>1, <2>4, <2>5, <2>6, <1>b
  <2>7. CASE gold'[w] = batch[w]
    BY <2>1, <2>3, <2>4, <2>5, <2>7
  <2> QED
    BY <2>2, <2>6, <2>7
<1>3. CASE \/ Adds /\ Poll
           \/ LeavesPlaces /\ (\/ Poll \/ Commit \/ Tick \/ Sigterm \/ LeaveLoop
                               \/ StartDrain \/ CloseClient \/ UNCHANGED vars)
  <2>1. UNCHANGED <<learned, batch, gold>>
    BY <1>3 DEF Adds, LeavesPlaces, Poll, Commit, Tick, Sigterm, LeaveLoop, StartDrain,
           CloseClient, vars, assemblerVars
  <2> QED
    BY <2>1, <1>b
<1> QED
  BY <1>1, <1>2, <1>3, <1>a, PlacesStep

-----------------------------------------------------------------------------

\* The variables keep their types, for every log and threshold.
THEOREM TypeCorrect == Spec => []TypeOK
BY AlwaysKept, PTL DEF Kept

\* Whatever arrives while the poller merges, and whichever loads fail, each event
\* that was read is somewhere, was in a row, or was given up for a reason.
THEOREM NeverMislaid == Spec => []NothingMislaid
<1>1. Init => NothingMislaid
  BY GoldAssumption DEF Init, NothingMislaid, WellFormed, Offsets
<1>2. Kept /\ NothingMislaid /\ [Next]_vars => NothingMislaid'
  BY MislaidStep
<1> QED
  BY <1>1, <1>2, AlwaysKept, PTL DEF Spec

\* No MERGE, repeated MERGE or restart puts an older price of a tenor in a row.
THEOREM PricesOnlyGoForward == Spec => PricesNeverGoBack
<1>1. Kept /\ [Next]_vars =>
        [\A w \in Windows : \A o \in gold[w], n \in gold'[w] :
            TenorOf[o] = TenorOf[n] => o <= n]_gold
  <2> SUFFICES ASSUME Kept, [Next]_vars, NEW w \in Windows, NEW o \in gold[w], NEW n \in gold'[w],
                      TenorOf[o] = TenorOf[n]
               PROVE  o <= n
    OBVIOUS
  <2>1. n \in gold[w] \cup batch[w]
    BY PlacesStep DEF Kept, Adds, TakesDue, Merges, Merged, Clears, LeavesPlaces
  <2> QED
    BY <2>1 DEF Kept, InOrder, NoLater
<1> QED
  BY <1>1, AlwaysKept, PTL DEF Spec, PricesNeverGoBack

\* As long as the process runs and learns how many tenors to expect, no row is
\* replaced by a snapshot below the threshold.
THEOREM LearnedRowsDoNotCollapse == ASSUME ExpectedTenors = 0 PROVE Spec => RowsDoNotCollapse
<1>1. Init => Measured
  <2>1. Cardinality({}) = 0
    BY FS_EmptySet
  <2> QED
    BY <2>1 DEF Init, Measured, Empty
<1>2. Kept /\ Measured /\ [Next]_vars => Measured'
  BY MeasuredStep
<1>3. Kept /\ Measured /\ [Next]_vars =>
        [stops = 0 => \A w \in Windows :
            100 * Cardinality(gold'[w]) >= AuthPct * Cardinality(gold[w])]_gold
  <2> SUFFICES ASSUME Kept, Measured, [Next]_vars, stops = 0, NEW w \in Windows
               PROVE  100 * Cardinality(gold'[w]) >= AuthPct * Cardinality(gold[w])
    OBVIOUS
  <2>1. CASE gold'[w] = gold[w]
    <3>1. IsFiniteSet(Offsets) /\ gold[w] \in SUBSET Offsets
      BY FS_Interval, GoldAssumption DEF Offsets, WellFormed, Kept, TypeOK
    <3>2. Cardinality(gold[w]) \in Nat /\ AuthPct \in 0..100
      BY <3>1, FS_Subset, FS_CardinalityType, GoldAssumption
    <3> QED
      BY <2>1, <3>2
  <2>2. CASE gold'[w] = batch[w] /\ batch[w] # {}
    BY <2>2 DEF Measured
  <2>3. gold'[w] = gold[w] \/ (gold'[w] = batch[w] /\ batch[w] # {})
    BY PlacesStep DEF Kept, Adds, TakesDue, Merges, Merged, Clears, LeavesPlaces
  <2> QED
    BY <2>1, <2>2, <2>3
<1> QED
  BY <1>1, <1>2, <1>3, AlwaysKept, PTL DEF Spec, RowsDoNotCollapse
=============================================================================
