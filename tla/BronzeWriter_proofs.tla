------------------------ MODULE BronzeWriter_proofs ------------------------
(***************************************************************************)
(* What holds of the bronze-writer for every log, every set of providers   *)
(* and every batch size: its types, that no event is mislaid between the   *)
(* threads, that every copy in S3 is explained, how much a stop can cost,  *)
(* and that it implements BufferedSink.                                    *)
(*                                                                         *)
(* None of these is inductive alone.  The strengthening says that the      *)
(* places of memory are disjoint and below the position, that only a       *)
(* thread inside flush() holds events, and that nothing is committed that  *)
(* was not read.  The bound on a stop also needs to know how full the      *)
(* batch of the consume loop is at each of its labels.                     *)
(***************************************************************************)
EXTENDS BronzeWriter, FiniteSetTheorems, TLAPS

\* Only a thread that is writing holds drained events.
HoldsOnlyInFlush ==
    \A t \in Threads : pc[t] # "write" => todo[t] = {} /\ failed[t] = {}

\* An event is in one place of memory at most.
PlacesDisjoint ==
    /\ \A t \in Threads : todo[t] \cap failed[t] = {} /\ buffer \cap InFlight(t) = {}
    /\ InFlight("main") \cap InFlight("timer") = {}

\* Memory holds only what this incarnation read, and no commit is ahead of it.
OnlyRead ==
    /\ \A o \in Held : o < position
    /\ committed <= position

Places == TypeOK /\ HoldsOnlyInFlush /\ PlacesDisjoint /\ OnlyRead

-----------------------------------------------------------------------------

\* Counting one more object for some events leaves a counter for every event.
LEMMA OneMoreType ==
    ASSUME NEW f \in [Offsets -> Nat], NEW S
    PROVE  OneMore(f, S) \in [Offsets -> Nat]
BY DEF OneMore

\* A thread that moves to one of its own labels keeps to its program.
LEMMA MovesType ==
    ASSUME PcOK, NEW t \in Threads, NEW from, NEW to, Moves(t, from, to),
           to \in IF t = "main" THEN MainLabels ELSE TimerLabels
    PROVE  PcOK'
BY DEF PcOK, Moves, Threads

\* Every variable keeps its type: the events in memory and in S3 are events of
\* the log, and the threads follow their programs.
LEMMA TypeStep == ASSUME TypeOK, [Next]_vars PROVE TypeOK'
<1> USE DEF TypeOK, offsetVars, batchVars, shutdownVars, s3Vars, historyVars
<1>a. "main" \in Threads /\ "timer" \in Threads
  BY DEF Threads
<1>1. CASE Poll
  <2>1. position \in Offsets /\ position' \in 1..MaxOffset + 1
    BY <1>1, BronzeAssumption DEF Poll, Offsets
  <2>2. CASE position \in Malformed
    <3>1. PcOK'
      BY <1>1, <2>2, <1>a, MovesType DEF Poll, MainLabels
    <3> QED
      BY <1>1, <2>1, <2>2, <3>1 DEF Poll
  <2>3. CASE position \notin Malformed
    <3>1. PcOK'
      BY <1>1, <2>3, <1>a, MovesType DEF Poll, MainLabels
    <3>2. buffer' \subseteq WellFormed
      BY <1>1, <2>1, <2>3 DEF Poll, WellFormed
    <3>3. handed' \in [Offsets -> Nat]
      BY <1>1, <2>1, <2>3 DEF Poll
    <3> QED
      BY <1>1, <2>1, <2>3, <3>1, <3>2, <3>3 DEF Poll
  <2> QED
    BY <2>2, <2>3
<1>2. CASE CheckFlush
  <2>1. PcOK'
    BY <1>2, <1>a, MovesType DEF CheckFlush, MainLabels
  <2> QED
    BY <1>2, <2>1 DEF CheckFlush
<1>3. CASE Commit
  <2>1. PcOK'
    BY <1>3, <1>a, MovesType DEF Commit, MainLabels
  <2> QED
    BY <1>3, <2>1 DEF Commit, NextToRead
<1>4. CASE CommitRaises
  <2>1. PcOK'
    BY <1>4, <1>a, MovesType DEF CommitRaises, MainLabels
  <2> QED
    BY <1>4, <2>1 DEF CommitRaises
<1>5. CASE Sigterm
  BY <1>5 DEF Sigterm, PcOK
<1>6. CASE LeaveLoop
  <2>1. PcOK'
    BY <1>6, <1>a, MovesType DEF LeaveLoop, MainLabels
  <2> QED
    BY <1>6, <2>1 DEF LeaveLoop
<1>7. CASE FlushAll
  <2>1. PcOK'
    BY <1>7, <1>a, MovesType DEF FlushAll, MainLabels
  <2> QED
    BY <1>7, <2>1 DEF FlushAll
<1>8. CASE TimerWakes
  <2>1. PcOK'
    BY <1>8, <1>a, MovesType DEF TimerWakes, TimerLabels
  <2> QED
    BY <1>8, <2>1 DEF TimerWakes
<1>9. CASE Restart
  <2>1. AtRisk \subseteq WellFormed
    BY <1>a DEF AtRisk, Held, InFlight
  <2>2. PcOK'
    BY <1>9 DEF Restart, InitialPc, PcOK, MainLabels, TimerLabels, Threads
  <2>3. todo' \in [Threads -> SUBSET WellFormed] /\ failed' \in [Threads -> SUBSET WellFormed]
    BY <1>9 DEF Restart, NoEvents
  <2>4. stops' \in Nat
    BY <1>9 DEF Restart
  <2> QED
    BY <1>9, <2>1, <2>2, <2>3, <2>4 DEF Restart
<1>10. ASSUME NEW t \in Threads, Drain(t) PROVE TypeOK'
  <2>1. PcOK'
    BY <1>10, MovesType DEF Drain, MainLabels, TimerLabels
  <2>2. todo' \in [Threads -> SUBSET WellFormed]
    BY <1>10 DEF Drain
  <2> QED
    BY <1>10, <2>1, <2>2 DEF Drain
<1>11. ASSUME NEW t \in Threads, NEW p \in Providers, WriteGroup(t, p)
       PROVE TypeOK'
  <2>1. copies' \in [Offsets -> Nat]
    BY <1>11, OneMoreType DEF WriteGroup
  <2>2. todo' \in [Threads -> SUBSET WellFormed]
    BY <1>11 DEF WriteGroup
  <2> QED
    BY <1>11, <2>1, <2>2 DEF WriteGroup, PcOK
<1>12. ASSUME NEW t \in Threads, NEW p \in Providers, WriteFails(t, p)
       PROVE TypeOK'
  <2>1. copies' \in [Offsets -> Nat] /\ phantom' \in [Offsets -> Nat]
    BY <1>12, OneMoreType DEF WriteFails
  <2>2. todo' \in [Threads -> SUBSET WellFormed]
    BY <1>12 DEF WriteFails
  <2>3. failed' \in [Threads -> SUBSET WellFormed]
    BY <1>12 DEF WriteFails, Group
  <2>4. failures' \in 0..MaxFailures
    BY <1>12, BronzeAssumption DEF WriteFails
  <2> QED
    BY <1>12, <2>1, <2>2, <2>3, <2>4 DEF WriteFails, PcOK
<1>13. ASSUME NEW t \in Threads, FlushReturns(t) PROVE TypeOK'
  <2>1. PcOK'
    BY <1>13, MovesType DEF FlushReturns, AfterFlush, MainLabels, TimerLabels, Threads
  <2> QED
    BY <1>13, <2>1 DEF FlushReturns
<1>14. ASSUME NEW t \in Threads, RestoreEvent(t) PROVE TypeOK'
  <2>1. PICK o \in failed[t] :
          /\ buffer' = buffer \cup {o}
          /\ failed' = [failed EXCEPT ![t] = @ \ {o}]
          /\ Moves(t, "write", IF failed[t] = {o} THEN AfterFlush(t, TRUE) ELSE "write")
    BY <1>14 DEF RestoreEvent
  <2>2. buffer' \subseteq WellFormed
    BY <2>1
  <2>3. failed' \in [Threads -> SUBSET WellFormed]
    BY <2>1
  <2>4. PcOK'
    BY <2>1, MovesType DEF AfterFlush, MainLabels, TimerLabels, Threads
  <2> QED
    BY <1>14, <2>2, <2>3, <2>4 DEF RestoreEvent
<1>15. CASE UNCHANGED vars
  BY <1>15 DEF vars, PcOK
<1> QED
  BY <1>1, <1>2, <1>3, <1>4, <1>5, <1>6, <1>7, <1>8, <1>9, <1>10, <1>11, <1>12,
     <1>13, <1>14, <1>15 DEF Next, Flush, Exit, Crash

\* The events in memory stay apart: no action puts an event in a second place,
\* holds one outside flush(), or takes one that was not read.
LEMMA PlacesStep == ASSUME Places, [Next]_vars PROVE Places'
<1> USE DEF Places, offsetVars, batchVars, shutdownVars, s3Vars, historyVars
<1>a. TypeOK'
  BY TypeStep
<1>b. "main" \in Threads /\ "timer" \in Threads /\ \A t \in Threads : t = "main" \/ t = "timer"
  BY DEF Threads
<1>c. position \in Int /\ committed \in Int /\ Offsets \subseteq Int
  BY BronzeAssumption DEF TypeOK, Offsets
<1>d. SUFFICES HoldsOnlyInFlush' /\ PlacesDisjoint' /\ OnlyRead'
  BY <1>a
<1>1. CASE Poll
  <2>1. position \notin Held /\ position' = position + 1 /\ committed' = committed
    BY <1>1, <1>c DEF Poll, OnlyRead
  <2>2. todo' = todo /\ failed' = failed /\ buffer' \subseteq buffer \cup {position}
    BY <1>1 DEF Poll
  <2>3. \A t \in Threads : pc'[t] # "write" <=> pc[t] # "write"
    BY <1>1, <1>b DEF Poll, Moves, TypeOK, PcOK
  <2>4. HoldsOnlyInFlush'
    BY <2>2, <2>3 DEF HoldsOnlyInFlush
  <2>5. PlacesDisjoint'
    BY <2>1, <2>2, <1>b DEF PlacesDisjoint, InFlight, Held
  <2>6. OnlyRead'
    BY <2>1, <2>2, <1>c DEF OnlyRead, InFlight, Held, TypeOK, WellFormed
  <2> QED
    BY <2>4, <2>5, <2>6
<1>2. ASSUME UNCHANGED <<position, buffer, todo, failed>>, committed' \in {committed, position},
             \A t \in Threads : pc'[t] # "write" => pc[t] # "write"
                                    \/ (todo[t] = {} /\ failed[t] = {})
      PROVE  Places'
  BY <1>2, <1>c, <1>a DEF HoldsOnlyInFlush, PlacesDisjoint, OnlyRead, InFlight, Held
<1>3. CASE \/ CheckFlush \/ Commit \/ CommitRaises \/ Sigterm \/ LeaveLoop
           \/ FlushAll \/ TimerWakes \/ UNCHANGED vars
  <2>1. UNCHANGED <<position, buffer, todo, failed>> /\ committed' \in {committed, position}
    BY <1>3 DEF CheckFlush, Commit, NextToRead, CommitRaises, Sigterm, LeaveLoop,
                FlushAll, TimerWakes, vars
  <2>2. \A t \in Threads : pc'[t] # "write" => pc[t] # "write"
    BY <1>3, <1>b DEF CheckFlush, Commit, CommitRaises, Sigterm, LeaveLoop,
                FlushAll, TimerWakes, vars, Moves, TypeOK, PcOK
  <2> QED
    BY <2>1, <2>2, <1>2
<1>4. CASE Restart
  BY <1>4, <1>c DEF Restart, NoEvents, HoldsOnlyInFlush, PlacesDisjoint, OnlyRead,
                    InFlight, Held, Threads
<1>5. ASSUME NEW t \in Threads, Drain(t) PROVE Places'
  <2>1. todo[t] = {} /\ failed[t] = {}
    BY <1>5 DEF Drain, Moves, HoldsOnlyInFlush
  <2>2. /\ todo' = [todo EXCEPT ![t] = buffer] /\ buffer' = {}
        /\ failed' = failed /\ UNCHANGED <<position, committed>>
    BY <1>5 DEF Drain
  <2>3. HoldsOnlyInFlush'
    BY <1>5, <2>2 DEF Drain, Moves, HoldsOnlyInFlush, TypeOK, PcOK
  <2>4. PlacesDisjoint'
    BY <2>1, <2>2, <1>b DEF PlacesDisjoint, InFlight, TypeOK
  <2>5. Held' \subseteq Held
    BY <2>1, <2>2, <1>b DEF Held, InFlight, TypeOK
  <2> QED
    BY <1>a, <2>2, <2>3, <2>4, <2>5 DEF OnlyRead
<1>6. ASSUME NEW t \in Threads, NEW p \in Providers, WriteGroup(t, p) PROVE Places'
  <2>1. /\ todo' = [todo EXCEPT ![t] = @ \ Group(t, p)] /\ pc[t] = "write"
        /\ UNCHANGED <<position, committed, buffer, pc, failed>>
    BY <1>6 DEF WriteGroup
  <2>2. HoldsOnlyInFlush'
    BY <2>1 DEF HoldsOnlyInFlush, TypeOK
  <2>3. PlacesDisjoint'
    BY <2>1, <1>b DEF PlacesDisjoint, InFlight, TypeOK
  <2>4. Held' \subseteq Held
    BY <2>1, <1>b DEF Held, InFlight, TypeOK
  <2> QED
    BY <1>a, <2>1, <2>2, <2>3, <2>4 DEF OnlyRead
<1>7. ASSUME NEW t \in Threads, NEW p \in Providers, WriteFails(t, p) PROVE Places'
  <2>1. /\ todo' = [todo EXCEPT ![t] = @ \ Group(t, p)] /\ pc[t] = "write"
        /\ failed' = [failed EXCEPT ![t] = @ \cup Group(t, p)]
        /\ UNCHANGED <<position, committed, buffer, pc>>
    BY <1>7 DEF WriteFails
  <2>2. Group(t, p) \subseteq todo[t]
    BY DEF Group
  <2>3. HoldsOnlyInFlush'
    BY <2>1 DEF HoldsOnlyInFlush, TypeOK
  <2>4. PlacesDisjoint'
    BY <2>1, <2>2, <1>b DEF PlacesDisjoint, InFlight, TypeOK
  <2>5. Held' \subseteq Held
    BY <2>1, <2>2, <1>b DEF Held, InFlight, TypeOK
  <2> QED
    BY <1>a, <2>1, <2>3, <2>4, <2>5 DEF OnlyRead
<1>8. ASSUME NEW t \in Threads, FlushReturns(t) PROVE Places'
  BY <1>8, <1>2, <1>b DEF FlushReturns, Moves, TypeOK, PcOK
<1>9. ASSUME NEW t \in Threads, RestoreEvent(t) PROVE Places'
  <2>1. PICK o \in failed[t] :
          /\ buffer' = buffer \cup {o}
          /\ failed' = [failed EXCEPT ![t] = @ \ {o}]
          /\ Moves(t, "write", IF failed[t] = {o} THEN AfterFlush(t, TRUE) ELSE "write")
    BY <1>9 DEF RestoreEvent
  <2>2. UNCHANGED <<position, committed, todo>> /\ todo[t] = {}
    BY <1>9 DEF RestoreEvent
  <2>3. pc'[t] # "write" => failed'[t] = {}
    BY <2>1 DEF Moves, TypeOK, PcOK
  <2>4. \A u \in Threads \ {t} : pc'[u] = pc[u] /\ failed'[u] = failed[u]
    BY <2>1 DEF Moves, TypeOK, PcOK
  <2>5. HoldsOnlyInFlush'
    BY <2>2, <2>3, <2>4 DEF HoldsOnlyInFlush
  <2>6. PlacesDisjoint'
    BY <2>1, <2>2, <1>b DEF PlacesDisjoint, InFlight, TypeOK
  <2>7. Held' \subseteq Held
    BY <2>1, <2>2, <1>b DEF Held, InFlight, TypeOK
  <2> QED
    BY <1>a, <2>2, <2>5, <2>6, <2>7 DEF OnlyRead
<1> QED
  BY <1>1, <1>3, <1>4, <1>5, <1>6, <1>7, <1>8, <1>9, <1>a, <1>d DEF Next, Flush, Exit, Crash

-----------------------------------------------------------------------------

\* What a step does to memory and to S3, seen as two sets.
Takes == /\ position \in Offsets /\ position' = position + 1
         /\ Held' = IF position \in Malformed THEN Held ELSE Held \cup {position}
         /\ UNCHANGED <<committed, Stored, lost>>
Acknowledges == committed' = position /\ UNCHANGED <<position, Held, Stored, lost>>
Stores == /\ \E S \in SUBSET Held : Stored' = Stored \cup S /\ Held' \in {Held, Held \ S}
          /\ UNCHANGED <<position, committed, lost>>
Stops == /\ Held' = {} /\ position' = committed /\ lost' = lost \cup AtRisk
         /\ UNCHANGED <<committed, Stored>>
Rests == UNCHANGED <<position, committed, Held, Stored, lost>>

\* The actions of the two threads amount to the four of the abstract sink.
LEMMA HeldStep ==
    ASSUME Places, [Next]_vars
    PROVE  Takes \/ Acknowledges \/ Stores \/ Stops \/ Rests
<1> USE DEF Places, offsetVars, batchVars, shutdownVars, s3Vars, historyVars
<1>b. "main" \in Threads /\ "timer" \in Threads /\ \A t \in Threads : t = "main" \/ t = "timer"
  BY DEF Threads
<1>1. CASE Poll
  <2>1. position \in Offsets /\ position' = position + 1
    BY <1>1, BronzeAssumption DEF Poll, Offsets, TypeOK
  <2>2. Held' = IF position \in Malformed THEN Held ELSE Held \cup {position}
    BY <1>1 DEF Poll, Held, InFlight
  <2> QED
    BY <1>1, <2>1, <2>2 DEF Poll, Stored, Takes
<1>2. CASE Commit
  BY <1>2 DEF Commit, NextToRead, Held, InFlight, Stored, Acknowledges
<1>3. CASE \/ CheckFlush \/ CommitRaises \/ Sigterm \/ LeaveLoop
           \/ FlushAll \/ TimerWakes \/ UNCHANGED vars
  BY <1>3 DEF CheckFlush, CommitRaises, Sigterm, LeaveLoop, FlushAll, TimerWakes,
              vars, Held, InFlight, Stored, Rests
<1>4. CASE Restart
  BY <1>4 DEF Restart, NoEvents, Held, InFlight, Threads, Stored, Stops
<1>5. ASSUME NEW t \in Threads, Drain(t)
      PROVE  Rests
  <2>1. todo[t] = {}
    BY <1>5 DEF Drain, Moves, HoldsOnlyInFlush
  <2>2. Held' = Held
    BY <1>5, <2>1, <1>b DEF Drain, Held, InFlight, TypeOK
  <2> QED
    BY <1>5, <2>2 DEF Drain, Stored, Rests
<1>6. ASSUME NEW t \in Threads, NEW p \in Providers, WriteGroup(t, p)
      PROVE  Stores
  <2>1. Group(t, p) \subseteq todo[t] /\ todo[t] \subseteq Held /\ Held \subseteq Offsets
    BY <1>b DEF Group, Held, InFlight, TypeOK, WellFormed
  <2>2. Held' = Held \ Group(t, p)
    BY <1>6, <2>1, <1>b DEF WriteGroup, Held, InFlight, TypeOK, PlacesDisjoint
  <2>3. Stored' = Stored \cup Group(t, p)
    BY <1>6, <2>1 DEF WriteGroup, Stored, OneMore, TypeOK
  <2> QED
    BY <1>6, <2>1, <2>2, <2>3 DEF WriteGroup, Stores
<1>7. ASSUME NEW t \in Threads, NEW p \in Providers, WriteFails(t, p)
      PROVE  Stores
  <2>1. Group(t, p) \subseteq todo[t] /\ todo[t] \subseteq Held /\ Held \subseteq Offsets
    BY <1>b DEF Group, Held, InFlight, TypeOK, WellFormed
  <2>2. Held' = Held
    BY <1>7, <2>1, <1>b DEF WriteFails, Held, InFlight, TypeOK
  <2>3. Stored' = Stored \/ Stored' = Stored \cup Group(t, p)
    BY <1>7, <2>1 DEF WriteFails, Stored, OneMore, TypeOK
  <2>4. Group(t, p) \in SUBSET Held /\ {} \in SUBSET Held
    BY <2>1
  <2>5. UNCHANGED <<position, committed, lost>>
    BY <1>7 DEF WriteFails
  <2> QED
    BY <2>2, <2>3, <2>4, <2>5 DEF Stores
<1>8. ASSUME NEW t \in Threads, FlushReturns(t)
      PROVE  Rests
  BY <1>8 DEF FlushReturns, Held, InFlight, Stored, Rests
<1>9. ASSUME NEW t \in Threads, RestoreEvent(t)
      PROVE  Rests
  <2>1. Held' = Held
    BY <1>9, <1>b DEF RestoreEvent, Held, InFlight, TypeOK
  <2> QED
    BY <1>9, <2>1 DEF RestoreEvent, Stored, Rests
<1> QED
  BY <1>1, <1>2, <1>3, <1>4, <1>5, <1>6, <1>7, <1>8, <1>9 DEF Next, Flush, Exit, Crash

\* No step mislays an event that was read.
LEMMA MislaidStep == ASSUME Places, NothingMislaid, [Next]_vars PROVE NothingMislaid'
<1>1. WellFormed \subseteq Int /\ position \in Int /\ committed \in Int /\ committed <= position
  BY BronzeAssumption DEF Places, TypeOK, WellFormed, Offsets, OnlyRead
<1> SUFFICES ASSUME NEW o \in WellFormed, o < position'
               PROVE  o \in Held' \cup Stored' \cup lost'
  BY DEF NothingMislaid
<1>3. o < position => o \in Held \cup Stored \cup lost
  BY DEF NothingMislaid
<1> QED
  <2>1. CASE Takes
    BY <1>1, <1>3, <2>1 DEF Takes, WellFormed
  <2>2. CASE Acknowledges \/ Rests
    BY <1>3, <2>2 DEF Acknowledges, Rests
  <2>3. CASE Stores
    BY <1>3, <2>3 DEF Stores
  <2>4. CASE Stops
    BY <1>1, <1>3, <2>4 DEF Stops, AtRisk
  <2> QED
    BY <2>1, <2>2, <2>3, <2>4, HeldStep

\* Every step of the two threads is a step of the sink, or none of its business.
LEMMA SinkStep == ASSUME Places, [Next]_vars PROVE [Sink!Next]_(Sink!sinkVars)
<1>1. CASE Takes
  BY <1>1, BronzeAssumption DEF Takes, Sink!Next, Sink!Take, Offsets
<1>2. CASE Acknowledges
  BY <1>2 DEF Acknowledges, Sink!Next, Sink!Ack
<1>3. CASE Stores
  BY <1>3 DEF Stores, Sink!Next, Sink!Sink
<1>4. CASE Stops
  BY <1>4 DEF Stops, Sink!Next, Sink!Stop
<1>5. CASE Rests
  BY <1>5 DEF Rests, Sink!sinkVars
<1> QED
  BY <1>1, <1>2, <1>3, <1>4, <1>5, HeldStep

\* No step makes a copy, or puts an event back, that no read and no phantom
\* write accounts for.
LEMMA CopiesStep == ASSUME Places, CopiesExplained, [Next]_vars PROVE CopiesExplained'
<1> USE DEF Places, offsetVars, batchVars, shutdownVars, s3Vars, historyVars
<1>b. "main" \in Threads /\ "timer" \in Threads /\ \A t \in Threads : t = "main" \/ t = "timer"
  BY DEF Threads
<1>c. WellFormed \subseteq Offsets /\ Offsets \subseteq Int
  BY DEF WellFormed, Offsets
<1>d. /\ copies \in [Offsets -> Nat] /\ phantom \in [Offsets -> Nat]
      /\ handed \in [Offsets -> Nat]
  BY DEF TypeOK
<1> SUFFICES ASSUME NEW o \in WellFormed
             PROVE  copies'[o] + (IF o \in Held' THEN 1 ELSE 0) <= handed'[o] + phantom'[o]
  BY DEF CopiesExplained
<1>e. copies[o] + (IF o \in Held THEN 1 ELSE 0) <= handed[o] + phantom[o]
  BY DEF CopiesExplained
<1>f. copies[o] \in Nat /\ phantom[o] \in Nat /\ handed[o] \in Nat
  BY <1>c, <1>d
<1>1. ASSUME Held' \subseteq Held, UNCHANGED <<copies, handed, phantom>>
      PROVE  copies'[o] + (IF o \in Held' THEN 1 ELSE 0) <= handed'[o] + phantom'[o]
  BY <1>1, <1>e, <1>f
<1>2. CASE Poll
  <2>1. position \notin Held /\ position \in Int
    BY BronzeAssumption DEF OnlyRead, TypeOK
  <2>2. UNCHANGED <<copies, phantom>>
    BY <1>2 DEF Poll
  <2>3. CASE position \in Malformed
    BY <1>2, <2>3, <1>1 DEF Poll, Held, InFlight
  <2>4. CASE position \notin Malformed /\ o = position
    <3>1. handed'[o] = handed[o] + 1
      BY <1>2, <2>4, <1>c, <1>d DEF Poll
    <3> QED
      BY <3>1, <2>1, <2>2, <2>4, <1>e, <1>f
  <2>5. CASE position \notin Malformed /\ o # position
    <3>1. handed'[o] = handed[o]
      BY <1>2, <2>5, <1>c, <1>d DEF Poll
    <3>2. o \in Held' => o \in Held
      BY <1>2, <2>5 DEF Poll, Held, InFlight
    <3> QED
      BY <3>1, <3>2, <2>2, <1>e, <1>f
  <2> QED
    BY <2>3, <2>4, <2>5
<1>3. CASE \/ CheckFlush \/ Commit \/ CommitRaises \/ Sigterm \/ LeaveLoop
           \/ FlushAll \/ TimerWakes \/ UNCHANGED vars
  BY <1>3, <1>1 DEF CheckFlush, Commit, CommitRaises, Sigterm, LeaveLoop, FlushAll,
                    TimerWakes, vars, Held, InFlight
<1>4. CASE Restart
  BY <1>4, <1>1 DEF Restart, NoEvents, Held, InFlight, Threads
<1>5. ASSUME NEW t \in Threads, Drain(t) \/ FlushReturns(t) \/ RestoreEvent(t)
      PROVE  copies'[o] + (IF o \in Held' THEN 1 ELSE 0) <= handed'[o] + phantom'[o]
  <2>1. Held' \subseteq Held
    BY <1>5, <1>b DEF Drain, FlushReturns, RestoreEvent, Held, InFlight, TypeOK
  <2> QED
    BY <1>5, <2>1, <1>1 DEF Drain, FlushReturns, RestoreEvent
<1>6. ASSUME NEW t \in Threads, NEW p \in Providers, WriteGroup(t, p)
      PROVE  copies'[o] + (IF o \in Held' THEN 1 ELSE 0) <= handed'[o] + phantom'[o]
  <2>1. Group(t, p) \subseteq Held
    BY <1>b DEF Group, Held, InFlight
  <2>2. Held' = Held \ Group(t, p)
    BY <1>6, <1>b DEF WriteGroup, Group, Held, InFlight, TypeOK, PlacesDisjoint
  <2>3. copies'[o] = IF o \in Group(t, p) THEN copies[o] + 1 ELSE copies[o]
    BY <1>6, <1>c DEF WriteGroup, OneMore
  <2>4. UNCHANGED <<handed, phantom>>
    BY <1>6 DEF WriteGroup
  <2> QED
    BY <2>1, <2>2, <2>3, <2>4, <1>e, <1>f
<1>7. ASSUME NEW t \in Threads, NEW p \in Providers, WriteFails(t, p)
      PROVE  copies'[o] + (IF o \in Held' THEN 1 ELSE 0) <= handed'[o] + phantom'[o]
  <2>1. Held' \subseteq Held
    BY <1>7, <1>b DEF WriteFails, Group, Held, InFlight, TypeOK
  <2>2. handed' = handed
    BY <1>7 DEF WriteFails
  <2>3. CASE UNCHANGED <<copies, phantom>>
    BY <2>1, <2>2, <2>3, <1>1
  <2>4. CASE copies' = OneMore(copies, Group(t, p)) /\ phantom' = OneMore(phantom, Group(t, p))
    <3>1. \/ copies'[o] = copies[o] /\ phantom'[o] = phantom[o]
          \/ copies'[o] = copies[o] + 1 /\ phantom'[o] = phantom[o] + 1
      BY <2>4, <1>c DEF OneMore
    <3> QED
      BY <3>1, <2>1, <2>2, <1>e, <1>f
  <2> QED
    BY <1>7, <2>3, <2>4 DEF WriteFails
<1> QED
  BY <1>2, <1>3, <1>4, <1>5, <1>6, <1>7 DEF Next, Flush, Exit, Crash

-----------------------------------------------------------------------------

\* What the consume loop is filling or flushing, whichever of the two it is at.
Filling == buffer \cup todo["main"]

\* While S3 accepts every write nothing is restored, so the loop fills one batch
\* at a time: it reads only below BatchSize, acknowledges only below BatchSize,
\* and finds the buffer empty after its own flush.
Window ==
    failures = 0 =>
        /\ \A t \in Threads : failed[t] = {}
        /\ Cardinality(todo["timer"]) <= BatchSize
        /\ Cardinality(Filling) <= BatchSize
        /\ pc["main"] \notin {"check", "drain", "write"} => Cardinality(Filling) < BatchSize
        /\ pc["main"] = "write" => buffer = {}
        /\ Cardinality({o \in Filling : o < committed}) < BatchSize

\* Sets of events are finite, so a part of one is no larger.
LEMMA PartIsSmaller ==
    ASSUME NEW S \in SUBSET Offsets, NEW T \in SUBSET S
    PROVE  /\ IsFiniteSet(S) /\ IsFiniteSet(T)
           /\ Cardinality(S) \in Nat /\ Cardinality(T) \in Nat
           /\ Cardinality(T) <= Cardinality(S)
<1>1. IsFiniteSet(Offsets)
  BY FS_Interval, BronzeAssumption DEF Offsets
<1>2. IsFiniteSet(S)
  BY <1>1, FS_Subset
<1> QED
  BY <1>2, FS_Subset, FS_CardinalityType

\* A batch is a set of events of the log.
LEMMA BatchesAreSets ==
    ASSUME TypeOK
    PROVE  /\ Filling \in SUBSET Offsets /\ todo["timer"] \in SUBSET Offsets
           /\ buffer \in SUBSET Filling /\ todo["main"] \in SUBSET Filling
BY DEF TypeOK, Filling, WellFormed, Threads

\* A step that fills nothing and acknowledges nothing keeps the window, if it
\* leaves both threads' batches where the window allows them.
LEMMA WindowKept ==
    ASSUME TypeOK, Window, failures = 0, Filling' \subseteq Filling, committed' = committed,
           \A t \in Threads : failed'[t] = {},
           Cardinality(todo["timer"])' <= BatchSize,
           \/ pc'["main"] \in {"check", "drain", "write"}
           \/ Cardinality(Filling)' < BatchSize,
           pc'["main"] = "write" => buffer' = {}
    PROVE  Window'
<1>1. Filling \in SUBSET Offsets /\ Filling' \in SUBSET Filling
  BY BatchesAreSets
<1>2. /\ {o \in Filling : o < committed} \in SUBSET Offsets
      /\ {o \in Filling' : o < committed'} \in SUBSET {o \in Filling : o < committed}
  BY <1>1
<1>3. /\ Cardinality(Filling') \in Nat /\ Cardinality(Filling) \in Nat
      /\ Cardinality(Filling') <= Cardinality(Filling)
  BY <1>1, PartIsSmaller
<1>4. /\ Cardinality({o \in Filling : o < committed}) \in Nat
      /\ Cardinality({o \in Filling' : o < committed'}) \in Nat
      /\ Cardinality({o \in Filling' : o < committed'}) <= Cardinality({o \in Filling : o < committed})
  BY <1>2, PartIsSmaller
<1>5. /\ Cardinality(Filling) <= BatchSize /\ BatchSize \in Nat
      /\ Cardinality({o \in Filling : o < committed}) < BatchSize
  BY BronzeAssumption DEF Window
<1>6. Cardinality(Filling') <= BatchSize
  BY <1>3, <1>5
<1>7. Cardinality({o \in Filling' : o < committed'}) < BatchSize
  BY <1>4, <1>5
<1> QED
  BY <1>6, <1>7 DEF Window

\* Every action keeps the window.
LEMMA WindowStep == ASSUME Places, Window, [Next]_vars PROVE Window'
<1> USE DEF Places, offsetVars, batchVars, shutdownVars, s3Vars, historyVars
<1> DEFINE Acked == {o \in Filling : o < committed}
<1>a. TypeOK' /\ TypeOK
  BY TypeStep
<1>b. "main" \in Threads /\ "timer" \in Threads /\ \A t \in Threads : t = "main" \/ t = "timer"
  BY DEF Threads
<1>c. /\ BatchSize \in Nat \ {0} /\ failures \in Nat
      /\ position \in Int /\ committed \in Int /\ committed <= position
  BY BronzeAssumption DEF TypeOK, OnlyRead
<1> SUFFICES ASSUME failures' = 0 PROVE Window'
  BY DEF Window
<1>d. failures = 0
  <2>1. ASSUME NEW t \in Threads, NEW p \in Providers, WriteFails(t, p) PROVE FALSE
    BY <2>1, <1>c DEF WriteFails
  <2>2. ASSUME NEW t \in Threads, Flush(t) PROVE failures' = failures
    BY <2>1, <2>2 DEF Flush, Drain, WriteGroup, FlushReturns, RestoreEvent
  <2> QED
    BY <2>2 DEF Next, Poll, CheckFlush, Commit, CommitRaises, Sigterm, LeaveLoop, FlushAll,
                Exit, Crash, Restart, TimerWakes, vars
<1>e. /\ \A t \in Threads : failed[t] = {}
      /\ Cardinality(todo["timer"]) <= BatchSize
      /\ Cardinality(Filling) <= BatchSize
      /\ pc["main"] \notin {"check", "drain", "write"} => Cardinality(Filling) < BatchSize
      /\ pc["main"] = "write" => buffer = {}
      /\ Cardinality(Acked) < BatchSize
  BY <1>d DEF Window
<1>f. pc["main"] # "write" => todo["main"] = {}
  BY <1>b DEF HoldsOnlyInFlush
<1>g. pc \in [Threads -> MainLabels \cup TimerLabels]
  BY DEF TypeOK, PcOK
<1>h. Cardinality({}) = 0
  BY FS_EmptySet
<1>i. todo \in [Threads -> SUBSET WellFormed] /\ failed \in [Threads -> SUBSET WellFormed]
  BY DEF TypeOK
<1>1. CASE Poll
  <2>1. /\ pc["main"] = "poll" /\ UNCHANGED <<committed, todo, failed, failures>>
    BY <1>1 DEF Poll, Moves
  <2>2. todo["main"] = {} /\ Cardinality(Filling) < BatchSize
    BY <2>1, <1>e, <1>f
  <2>3. CASE position \in Malformed
    <3>1. buffer' = buffer /\ pc'["main"] = "commit"
      BY <1>1, <2>3, <1>b, <1>g DEF Poll, Moves
    <3>2. Filling' = Filling
      BY <2>1, <3>1 DEF Filling
    <3> QED
      BY <1>a, <1>d, <1>e, <2>1, <2>2, <3>1, <3>2, WindowKept
  <2>4. CASE position \notin Malformed
    <3>1. buffer' = buffer \cup {position} /\ pc'["main"] = "check"
      BY <1>1, <2>4, <1>b, <1>g DEF Poll, Moves
    <3>2. Filling' = Filling \cup {position}
      BY <2>1, <3>1 DEF Filling
    <3>3. IsFiniteSet(Filling) /\ Cardinality(Filling) \in Nat
      BY <1>a, BatchesAreSets, PartIsSmaller
    <3>4. Cardinality(Filling') <= BatchSize
      <4>1. Cardinality(Filling') \in {Cardinality(Filling), Cardinality(Filling) + 1}
        BY <3>2, <3>3, FS_AddElement
      <4> QED
        BY <4>1, <2>2, <3>3, <1>c
    <3>5. {o \in Filling' : o < committed'} \subseteq Acked
      BY <3>2, <2>1, <1>c
    <3>6. {o \in Filling' : o < committed'} = Acked
      BY <3>2, <2>1, <3>5
    <3>7. Cardinality({o \in Filling' : o < committed'}) < BatchSize
      BY <3>6, <1>e
    <3> QED
      BY <1>e, <2>1, <3>1, <3>4, <3>7 DEF Window
  <2> QED
    BY <2>3, <2>4
<1>2. CASE CheckFlush
  <2>1. UNCHANGED <<committed, buffer, todo, failed, failures>> /\ pc["main"] = "check"
    BY <1>2 DEF CheckFlush, Moves
  <2>2. Filling' = Filling /\ Filling = buffer
    BY <2>1, <1>f DEF Filling
  <2>3. \/ pc'["main"] = "drain"
        \/ pc'["main"] = "commit" /\ ~BatchFull
    BY <1>2, <1>b, <1>g DEF CheckFlush, Moves
  <2>4. Cardinality(buffer) \in Nat
    BY <1>a, <2>2, BatchesAreSets, PartIsSmaller
  <2>5. ~BatchFull => Cardinality(Filling') < BatchSize
    BY <2>2, <2>4, <1>c DEF BatchFull
  <2> QED
    BY <1>a, <1>d, <1>e, <2>1, <2>2, <2>3, <2>5, WindowKept
<1>3. CASE Commit
  <2>1. /\ UNCHANGED <<buffer, todo, failed, failures>> /\ pc["main"] = "commit"
        /\ pc'["main"] = "poll"
    BY <1>3, <1>b, <1>g DEF Commit, Moves
  <2>2. Filling' = Filling /\ Cardinality(Filling) < BatchSize
    BY <2>1, <1>e DEF Filling
  <2>3. /\ Filling \in SUBSET Offsets
        /\ {o \in Filling : o < committed'} \in SUBSET Filling
    BY <1>a, BatchesAreSets
  <2>4. /\ Cardinality({o \in Filling : o < committed'}) <= Cardinality(Filling)
        /\ Cardinality({o \in Filling : o < committed'}) \in Nat /\ Cardinality(Filling) \in Nat
    BY <2>3, PartIsSmaller
  <2>5. Cardinality({o \in Filling : o < committed'}) < BatchSize
    BY <2>2, <2>4, <1>c
  <2> QED
    BY <1>e, <2>1, <2>2, <2>5 DEF Window
<1>4. CASE CommitRaises \/ LeaveLoop \/ FlushAll
  <2>1. /\ UNCHANGED <<committed, buffer, todo, failed, failures>>
        /\ pc["main"] \in {"commit", "poll", "join"} /\ pc'["main"] # "write"
    BY <1>4, <1>b, <1>g DEF CommitRaises, LeaveLoop, FlushAll, Moves
  <2>2. Filling' = Filling
    BY <2>1 DEF Filling
  <2>3. Cardinality(Filling) < BatchSize
    BY <2>1, <1>e
  <2> QED
    BY <1>a, <1>d, <1>e, <2>1, <2>2, <2>3, WindowKept
<1>5. CASE Sigterm \/ TimerWakes \/ UNCHANGED vars
  <2>1. UNCHANGED <<committed, buffer, todo, failed, failures>> /\ pc'["main"] = pc["main"]
    BY <1>5, <1>b, <1>g DEF Sigterm, TimerWakes, vars, Moves
  <2>2. Filling' = Filling
    BY <2>1 DEF Filling
  <2> QED
    BY <1>a, <1>d, <1>e, <2>1, <2>2, WindowKept
<1>6. CASE Restart
  <2>1. /\ committed' = committed /\ buffer' = {} /\ pc'["main"] = "poll"
        /\ todo'["main"] = {} /\ todo'["timer"] = {} /\ \A t \in Threads : failed'[t] = {}
    BY <1>6, <1>b DEF Restart, NoEvents, InitialPc
  <2>2. Filling' = {}
    BY <2>1 DEF Filling
  <2>3. Cardinality(Filling)' < BatchSize /\ Cardinality(todo["timer"])' <= BatchSize
    BY <2>1, <2>2, <1>h, <1>c
  <2> QED
    BY <1>a, <1>d, <2>1, <2>2, <2>3, WindowKept
<1>7. CASE Drain("main")
  <2>1. /\ UNCHANGED <<committed, failed, failures>> /\ pc'["main"] = "write" /\ buffer' = {}
        /\ todo'["main"] = buffer /\ todo'["timer"] = todo["timer"]
    BY <1>7, <1>b, <1>g, <1>i DEF Drain, Moves
  <2>2. Filling' \subseteq Filling
    BY <2>1 DEF Filling
  <2> QED
    BY <1>a, <1>d, <1>e, <2>1, <2>2, WindowKept
<1>8. CASE Drain("timer")
  <2>1. /\ UNCHANGED <<committed, failed, failures>> /\ pc'["main"] = pc["main"] /\ buffer' = {}
        /\ todo'["timer"] = buffer /\ todo'["main"] = todo["main"]
    BY <1>8, <1>b, <1>g, <1>i DEF Drain, Moves
  <2>2. Filling' \in SUBSET Filling /\ buffer \in SUBSET Filling /\ Filling \in SUBSET Offsets
    BY <1>a, <2>1, BatchesAreSets DEF Filling
  <2>3. /\ Cardinality(Filling') <= Cardinality(Filling)
        /\ Cardinality(buffer) <= Cardinality(Filling)
        /\ Cardinality(Filling') \in Nat /\ Cardinality(buffer) \in Nat /\ Cardinality(Filling) \in Nat
    BY <2>2, PartIsSmaller
  <2>4. Cardinality(todo'["timer"]) <= BatchSize
    BY <2>1, <2>3, <1>e, <1>c
  <2>5. Cardinality(Filling) < BatchSize => Cardinality(Filling') < BatchSize
    BY <2>3, <1>c
  <2> QED
    BY <1>a, <1>d, <1>e, <2>1, <2>2, <2>4, <2>5, WindowKept
<1>9. ASSUME NEW t \in Threads, NEW p \in Providers, WriteGroup(t, p) PROVE Window'
  <2>1. /\ UNCHANGED <<committed, failed, failures, buffer, pc>>
        /\ todo'["main"] \in SUBSET todo["main"] /\ todo'["timer"] \in SUBSET todo["timer"]
    BY <1>9, <1>b, <1>i DEF WriteGroup
  <2>2. Filling' \in SUBSET Filling /\ Filling \in SUBSET Offsets /\ todo["timer"] \in SUBSET Offsets
    BY <1>a, <2>1, BatchesAreSets DEF Filling
  <2>3. /\ Cardinality(Filling') <= Cardinality(Filling)
        /\ Cardinality(Filling') \in Nat /\ Cardinality(Filling) \in Nat
    BY <2>2, PartIsSmaller
  <2>4. /\ Cardinality(todo'["timer"]) <= Cardinality(todo["timer"])
        /\ Cardinality(todo'["timer"]) \in Nat /\ Cardinality(todo["timer"]) \in Nat
    BY <2>1, <2>2, PartIsSmaller
  <2>5. Cardinality(todo'["timer"]) <= BatchSize
    BY <2>4, <1>e, <1>c
  <2>6. Cardinality(Filling) < BatchSize => Cardinality(Filling') < BatchSize
    BY <2>3, <1>c
  <2> QED
    BY <1>a, <1>d, <1>e, <2>1, <2>2, <2>5, <2>6, WindowKept
<1>10. CASE FlushReturns("main")
  <2>1. /\ UNCHANGED <<committed, failed, failures, buffer, todo>> /\ pc["main"] = "write"
        /\ pc'["main"] \in {"exit", "commit"} /\ todo["main"] = {}
    BY <1>10, <1>b, <1>g DEF FlushReturns, Moves, AfterFlush
  <2>2. Filling' = {} /\ Filling = {}
    BY <2>1, <1>e DEF Filling
  <2>3. Cardinality(Filling)' < BatchSize
    BY <2>2, <1>h, <1>c
  <2> QED
    BY <1>a, <1>d, <1>e, <2>1, <2>2, <2>3, WindowKept
<1>11. CASE FlushReturns("timer")
  <2>1. /\ UNCHANGED <<committed, failed, failures, buffer, todo>> /\ pc'["main"] = pc["main"]
    BY <1>11, <1>b, <1>g DEF FlushReturns, Moves
  <2>2. Filling' = Filling
    BY <2>1 DEF Filling
  <2> QED
    BY <1>a, <1>d, <1>e, <2>1, <2>2, WindowKept
<1>12. ASSUME NEW t \in Threads, RestoreEvent(t) PROVE FALSE
  BY <1>12, <1>e DEF RestoreEvent
<1>13. ASSUME NEW t \in Threads, NEW p \in Providers, WriteFails(t, p) PROVE FALSE
  BY <1>13, <1>d DEF WriteFails
<1> QED
  BY <1>1, <1>2, <1>3, <1>4, <1>5, <1>6, <1>7, <1>8, <1>9, <1>10, <1>11, <1>12, <1>13, <1>b
  DEF Next, Flush, Exit, Crash

\* What a stop can cost is what the loop acknowledged of its batch, and the
\* batch the timer is writing.
LEMMA WindowBounds == ASSUME Places, Window PROVE LossWindow
<1> DEFINE Acked == {o \in Filling : o < committed}
<1> SUFFICES ASSUME failures = 0 PROVE Cardinality(AtRisk) < 2 * BatchSize
  BY DEF LossWindow
<1>1. /\ Cardinality(Acked) < BatchSize /\ Cardinality(todo["timer"]) <= BatchSize
      /\ \A t \in Threads : failed[t] = {}
  BY DEF Window
<1>2. Acked \in SUBSET Offsets /\ todo["timer"] \in SUBSET Offsets
  BY BatchesAreSets DEF Places
<1>3. AtRisk \in SUBSET (Acked \cup todo["timer"])
  BY <1>1 DEF AtRisk, Held, InFlight, Filling, Threads
<1>4. /\ IsFiniteSet(Acked) /\ IsFiniteSet(todo["timer"])
      /\ Cardinality(Acked) \in Nat /\ Cardinality(todo["timer"]) \in Nat
  BY <1>2, PartIsSmaller
<1>5. /\ Acked \cup todo["timer"] \in SUBSET Offsets
      /\ Acked \cap todo["timer"] \in SUBSET Offsets
  BY <1>2
<1>6. /\ Cardinality(Acked \cup todo["timer"]) \in Nat
      /\ Cardinality(Acked \cap todo["timer"]) \in Nat
      /\ Cardinality(AtRisk) \in Nat
      /\ Cardinality(AtRisk) <= Cardinality(Acked \cup todo["timer"])
  BY <1>3, <1>5, PartIsSmaller
<1> HIDE DEF Acked
<1>7. Cardinality(Acked \cup todo["timer"])
        = Cardinality(Acked) + Cardinality(todo["timer"]) - Cardinality(Acked \cap todo["timer"])
  BY <1>4, FS_Union
<1> QED
  BY <1>1, <1>4, <1>6, <1>7, BronzeAssumption

-----------------------------------------------------------------------------

\* Nothing is in memory when the service starts for the first time.
LEMMA InitPlaces == Init => Places
<1> SUFFICES ASSUME Init PROVE Places
  OBVIOUS
<1>1. TypeOK
  <2>1. PcOK
    BY DEF Init, PcOK, InitialPc, MainLabels, TimerLabels, Threads
  <2>2. position \in 1..MaxOffset + 1 /\ failures \in 0..MaxFailures
    BY BronzeAssumption DEF Init
  <2>3. Zero \in [Offsets -> Nat] /\ NoEvents \in [Threads -> SUBSET WellFormed]
    BY DEF Zero, NoEvents
  <2> QED
    BY <2>1, <2>2, <2>3 DEF Init, TypeOK
<1> QED
  BY <1>1 DEF Init, Places, HoldsOnlyInFlush, PlacesDisjoint, OnlyRead, NoEvents, Held,
     InFlight, Threads

\* The strengthening of NothingMislaid and CopiesExplained is an invariant.
LEMMA AlwaysPlaces == Spec => []Places
BY InitPlaces, PlacesStep, PTL DEF Spec

\* The variables of the bronze-writer never leave their types.
THEOREM TypeCorrect == Spec => []TypeOK
BY AlwaysPlaces, PTL DEF Places

\* However the two threads drain, fail and restore, every event that was read is
\* in memory or in S3, unless a stop lost it after its offset was committed.
THEOREM NeverMislaid == Spec => []NothingMislaid
<1>1. Init => NothingMislaid
  BY BronzeAssumption DEF Init, NothingMislaid, WellFormed, Offsets
<1>2. Places /\ NothingMislaid /\ [Next]_vars => NothingMislaid'
  BY MislaidStep
<1> QED
  BY <1>1, <1>2, AlwaysPlaces, PTL DEF Spec

\* No flush writes or restores an event twice: every copy in S3 is a read of its
\* own, or a write that landed and was reported as failed.
THEOREM CopiesAlwaysExplained == Spec => []CopiesExplained
<1>1. Init => CopiesExplained
  BY DEF Init, CopiesExplained, Zero, NoEvents, Held, InFlight, Threads, WellFormed
<1>2. Places /\ CopiesExplained /\ [Next]_vars => CopiesExplained'
  BY CopiesStep
<1> QED
  BY <1>1, <1>2, AlwaysPlaces, PTL DEF Spec

\* The bronze-writer implements the buffered sink, for every log, batch size and
\* set of providers.
THEOREM BronzeImplementsSink == Spec => ImplementsSink
<1>1. Init => Sink!Init
  BY DEF Init, Sink!Init, Held, InFlight, NoEvents, Stored, Zero, Threads
<1>2. Places /\ [Next]_vars => [Sink!Next]_(Sink!sinkVars)
  BY SinkStep
<1> QED
  BY <1>1, <1>2, AlwaysPlaces, PTL DEF Spec, ImplementsSink, Sink!Spec

\* While S3 accepts every write, no stop costs more than 2 * BatchSize - 1
\* committed events, for every log, every batch size and however the two threads
\* interleave.
THEOREM LossIsBounded == Spec => []LossWindow
<1>1. Init => Window
  <2>1. Init => Filling = {} /\ todo["timer"] = {} /\ \A t \in Threads : failed[t] = {}
    BY DEF Init, Filling, NoEvents, Threads
  <2>2. {o \in {} : o < committed} = {} /\ Cardinality({}) = 0 /\ BatchSize \in Nat \ {0}
    BY FS_EmptySet, BronzeAssumption
  <2>3. Init => pc["main"] = "poll"
    BY DEF Init, InitialPc, Threads
  <2> QED
    BY <2>1, <2>2, <2>3 DEF Window
<1>2. Places /\ Window /\ [Next]_vars => Window'
  BY WindowStep
<1>3. Places /\ Window => LossWindow
  BY WindowBounds
<1> QED
  BY <1>1, <1>2, <1>3, AlwaysPlaces, PTL DEF Spec
=============================================================================
