------------------------ MODULE SilverLoader_proofs ------------------------
(***************************************************************************)
(* What holds of the silver-loader for every log, every batch size and any *)
(* number of failures and stops: its types, that no event is mislaid       *)
(* between the two threads, that every row is explained, that it           *)
(* implements BufferedSink, and that two threads sharing one connection    *)
(* give up no more often than Snowflake fails them or a client is closed   *)
(* under one of them.                                                      *)
(*                                                                         *)
(* There are two strengthenings.  Places, for the first four: the buffer   *)
(* and the two batches hold each event once, and only what was read.       *)
(* Paid, for the last: a failure that no thread has given up over yet is   *)
(* either still to be felt by one thread, or spent; and so is a close.     *)
(***************************************************************************)
EXTENDS SilverLoader, TLAPS, FiniteSetTheorems

\* Only a thread inside load_batch() holds a batch.
Loading == LoadLabels \ {"flush"}
HoldsOnlyInLoad == \A t \in Threads : pc[t] \notin Loading => batch[t] = <<>>

OnceEach(s) == \A i, j \in 1..Len(s) : s[i] = s[j] => i = j

\* An event is in one place of memory at most.
PlacesDisjoint ==
    /\ OnceEach(buffer)
    /\ \A t \in Threads : OnceEach(batch[t]) /\ ToSet(buffer) \cap ToSet(batch[t]) = {}
    /\ ToSet(batch["main"]) \cap ToSet(batch["timer"]) = {}

\* Memory holds only what this incarnation read, and no commit is ahead of it.
OnlyRead ==
    /\ \A o \in Held : o < position
    /\ committed <= position

Places == TypeOK /\ HoldsOnlyInLoad /\ PlacesDisjoint /\ OnlyRead

\* The connection is gone for one thread at a time: the one that comes to use it
\* next, since the other has to connect before it gets there.
Using == {"copy", "recopy", "reset"}
OneIsCut == connection # "open" => pc["main"] \notin Using \/ pc["timer"] \notin Using

\* A connection that is closed and not forgotten is being closed by main, at
\* shutdown.
ClosedAtShutdown ==
    /\ connection = "closed" => pc["main"] = "forget"
    /\ closing => stopping
    /\ pc["main"] \in {"join", "close", "forget", "exit"} => closing

\* A thread is about to feel a failure, its own or the other's, or the close, which
\* the timer may feel as long as it has not ended its flush.
Fails(t) == pc[t] = "reset" \/ (connection # "open" /\ pc[t] \in {"copy", "recopy"})
Vulnerable == pc["main"] = "forget" /\ pc["timer"] \notin {"wait", "done", "restore"}
ToBeFelt == Fails("main") \/ Fails("timer") \/ Vulnerable

\* Each batch that was given up, each that is being put back, and the failure
\* still to be felt are paid for by a failure or a close of their own.
Owes(t) == IF pc[t] = "restore" THEN 1 ELSE 0
Paid ==
    giveUps + Owes("main") + Owes("timer") + (IF ToBeFelt THEN 1 ELSE 0) <= failures + closes

-----------------------------------------------------------------------------

\* What is in a sequence after the operations the loader does on it.
LEMMA SequenceSets ==
    ASSUME NEW S, NEW s \in Seq(S), NEW u \in Seq(S), NEW x \in S
    PROVE  /\ ToSet(Append(s, x)) = ToSet(s) \cup {x}
           /\ ToSet(s \o u) = ToSet(s) \cup ToSet(u)
           /\ ToSet(<<>>) = {}
           /\ ToSet(s) = {s[i] : i \in 1..Len(s)}
           /\ ToSet(s) \subseteq S
<1>1. ToSet(s) = {s[i] : i \in 1..Len(s)} /\ ToSet(u) = {u[i] : i \in 1..Len(u)}
  BY DEF ToSet
<1>2. ToSet(Append(s, x)) = {Append(s, x)[i] : i \in 1..Len(s) + 1}
  BY DEF ToSet
<1>3. ToSet(s \o u) = {(s \o u)[i] : i \in 1..Len(s) + Len(u)}
  BY DEF ToSet
<1>4. /\ \A i \in 1..Len(s) : Append(s, x)[i] = s[i]
      /\ Append(s, x)[Len(s) + 1] = x
  OBVIOUS
<1>5. /\ \A i \in 1..Len(s) : (s \o u)[i] = s[i]
      /\ \A i \in 1..Len(s) + Len(u) : i > Len(s) => (s \o u)[i] = u[i - Len(s)]
  OBVIOUS
<1>6. Len(s) \in Nat /\ Len(u) \in Nat
  OBVIOUS
<1>7. ToSet(Append(s, x)) = ToSet(s) \cup {x}
  BY <1>1, <1>2, <1>4, <1>6
<1>8. ToSet(s \o u) = ToSet(s) \cup ToSet(u)
  <2>1. ToSet(s \o u) \subseteq ToSet(s) \cup ToSet(u)
    BY <1>1, <1>3, <1>5, <1>6
  <2>2. ToSet(s) \subseteq ToSet(s \o u)
    BY <1>1, <1>3, <1>5, <1>6
  <2>3. ASSUME NEW j \in 1..Len(u) PROVE u[j] \in ToSet(s \o u)
    <3>1. j + Len(s) \in 1..Len(s) + Len(u) /\ j + Len(s) > Len(s) /\ (j + Len(s)) - Len(s) = j
      BY <1>6
    <3>2. (s \o u)[j + Len(s)] = u[j]
      BY <3>1, <1>5
    <3> QED
      BY <3>1, <3>2, <1>3
  <2> QED
    BY <2>1, <2>2, <2>3, <1>1
<1>9. ToSet(<<>>) = {}
  BY DEF ToSet
<1>10. ToSet(s) \subseteq S
  BY <1>1
<1> QED
  BY <1>1, <1>7, <1>8, <1>9, <1>10

\* Appending what is not there, and joining sequences that share nothing, leaves
\* each element in its one place.
LEMMA OnceEachKept ==
    ASSUME NEW S, NEW s \in Seq(S), NEW u \in Seq(S), NEW x \in S, OnceEach(s)
    PROVE  /\ x \notin ToSet(s) => OnceEach(Append(s, x))
           /\ OnceEach(u) /\ ToSet(s) \cap ToSet(u) = {} => OnceEach(s \o u)
<1>a. ToSet(s) = {s[i] : i \in 1..Len(s)} /\ ToSet(u) = {u[i] : i \in 1..Len(u)}
  BY SequenceSets
<1>b. Len(s) \in Nat /\ Len(u) \in Nat
  OBVIOUS
<1>1. ASSUME x \notin ToSet(s) PROVE OnceEach(Append(s, x))
  <2>1. /\ Len(Append(s, x)) = Len(s) + 1
        /\ \A i \in 1..Len(s) : Append(s, x)[i] = s[i]
        /\ Append(s, x)[Len(s) + 1] = x
    OBVIOUS
  <2> SUFFICES ASSUME NEW i \in 1..Len(s) + 1, NEW j \in 1..Len(s) + 1,
                      Append(s, x)[i] = Append(s, x)[j]
               PROVE  i = j
    BY <2>1 DEF OnceEach
  <2>2. \A k \in 1..Len(s) : s[k] # x
    BY <1>1, <1>a
  <2>3. (i \in 1..Len(s) \/ i = Len(s) + 1) /\ (j \in 1..Len(s) \/ j = Len(s) + 1)
    BY <1>b
  <2>4. CASE i \in 1..Len(s) /\ j \in 1..Len(s)
    BY <2>1, <2>4 DEF OnceEach
  <2> QED
    BY <2>1, <2>2, <2>3, <2>4
<1>2. ASSUME OnceEach(u), ToSet(s) \cap ToSet(u) = {} PROVE OnceEach(s \o u)
  <2>1. /\ Len(s \o u) = Len(s) + Len(u)
        /\ \A i \in 1..Len(s) : (s \o u)[i] = s[i]
        /\ \A i \in 1..Len(s) + Len(u) : i > Len(s) => (s \o u)[i] = u[i - Len(s)]
    OBVIOUS
  <2> SUFFICES ASSUME NEW i \in 1..Len(s) + Len(u), NEW j \in 1..Len(s) + Len(u),
                      (s \o u)[i] = (s \o u)[j]
               PROVE  i = j
    BY <2>1 DEF OnceEach
  <2>2. \A k \in 1..Len(s), l \in 1..Len(u) : s[k] # u[l]
    BY <1>2, <1>a
  <2>3. /\ i \in 1..Len(s) \/ (i > Len(s) /\ i - Len(s) \in 1..Len(u))
        /\ j \in 1..Len(s) \/ (j > Len(s) /\ j - Len(s) \in 1..Len(u))
    BY <1>b
  <2>4. CASE i \in 1..Len(s) /\ j \in 1..Len(s)
    BY <2>1, <2>4 DEF OnceEach
  <2>5. CASE i > Len(s) /\ j > Len(s)
    <3>1. i - Len(s) \in 1..Len(u) /\ j - Len(s) \in 1..Len(u)
      BY <2>5, <1>b
    <3>2. u[i - Len(s)] = u[j - Len(s)]
      BY <2>1, <2>5
    <3>3. i - Len(s) = j - Len(s)
      BY <3>1, <3>2, <1>2 DEF OnceEach
    <3> QED
      BY <3>3, <1>b
  <2> QED
    BY <2>1, <2>2, <2>3, <2>4, <2>5
<1> QED
  BY <1>1, <1>2

\* Counting one more row for a batch leaves a counter for every event.
LEMMA OneMoreType ==
    ASSUME NEW f \in [Offsets -> Nat], NEW t
    PROVE  OneMoreRow(f, t) \in [Offsets -> Nat]
BY DEF OneMoreRow

PcOK ==
    /\ pc \in [Threads -> MainLabels \cup TimerLabels]
    /\ pc["main"] \in MainLabels /\ pc["timer"] \in TimerLabels

\* A thread that moves to one of its own labels keeps to its program.
LEMMA GoesType ==
    ASSUME PcOK, NEW t \in Threads, NEW to, pc' = [pc EXCEPT ![t] = to],
           to \in IF t = "main" THEN MainLabels ELSE TimerLabels
    PROVE  PcOK'
BY DEF PcOK, Threads

\* Every variable keeps its type: the events in memory and in the table are
\* events of the log, and the threads follow their programs.
LEMMA TypeStep == ASSUME TypeOK, [Next]_vars PROVE TypeOK'
<1> USE DEF TypeOK, offsetVars, clientVars, shutdownVars, tableVars, historyVars
<1>a. "main" \in Threads /\ "timer" \in Threads
  BY DEF Threads
<1>b. PcOK
  BY DEF PcOK
<1>c. PcOK' => /\ pc' \in [Threads -> MainLabels \cup TimerLabels]
               /\ pc'["main"] \in MainLabels /\ pc'["timer"] \in TimerLabels
  BY DEF PcOK
<1>d. MaxFailures \in Nat /\ MaxOffset \in Nat
  BY SilverAssumption
<1>1. CASE Poll
  <2>1. position \in Offsets /\ position' \in 1..MaxOffset + 1
    BY <1>1, <1>d DEF Poll, Offsets
  <2>2. PcOK'
    <3>1. CASE position \in Malformed
      BY <1>1, <3>1, <1>a, <1>b, GoesType DEF Poll, Goes, MainLabels
    <3>2. CASE position \notin Malformed
      <4> DEFINE to == IF Len(buffer') >= BatchSize THEN "flush" ELSE "commit"
      <4>1. to \in MainLabels /\ pc' = [pc EXCEPT !["main"] = to]
        BY <1>1, <3>2 DEF Poll, Goes, MainLabels, LoadLabels
      <4> HIDE DEF to
      <4> QED
        BY <4>1, <1>a, <1>b, GoesType
    <3> QED
      BY <3>1, <3>2
  <2>3. buffer' \in Seq(WellFormed)
    <3>1. buffer' \in {buffer} \cup {Append(buffer, x) : x \in WellFormed}
      BY <1>1, <2>1 DEF Poll, WellFormed
    <3>2. \A x \in WellFormed : Append(buffer, x) \in Seq(WellFormed)
      OBVIOUS
    <3>3. buffer \in Seq(WellFormed)
      OBVIOUS
    <3> QED
      BY <3>1, <3>2, <3>3, Zenon
  <2>4. handed' \in [Offsets -> Nat]
    <3>1. handed' \in {handed, [handed EXCEPT ![position] = @ + 1]}
      BY <1>1 DEF Poll
    <3>2. handed \in [Offsets -> Nat] /\ handed[position] + 1 \in Nat
      BY <2>1
    <3> QED
      BY <3>1, <3>2
  <2> QED
    BY <1>1, <2>1, <2>2, <2>3, <2>4, <1>c DEF Poll
<1>2. CASE Commit
  <2>1. PcOK'
    BY <1>2, <1>a, <1>b, GoesType DEF Commit, Goes, MainLabels
  <2> QED
    BY <1>2, <2>1, <1>c DEF Commit, NextToRead
<1>3. CASE CommitRaises
  <2>1. PcOK'
    BY <1>3, <1>a, <1>b, GoesType DEF CommitRaises, Goes, MainLabels
  <2> QED
    BY <1>3, <2>1, <1>c DEF CommitRaises
<1>4. CASE Sigterm
  BY <1>4 DEF Sigterm
<1>5. CASE LeaveLoop
  <2>1. PcOK'
    BY <1>5, <1>a, <1>b, GoesType DEF LeaveLoop, Goes, MainLabels
  <2> QED
    BY <1>5, <2>1, <1>c DEF LeaveLoop
<1>6. CASE Close
  <2>1. PcOK'
    BY <1>6, <1>a, <1>b, GoesType DEF Close, Goes, MainLabels, LoadLabels
  <2> QED
    BY <1>6, <2>1, <1>c DEF Close
<1>10. CASE CloseConnection
  <2>1. PcOK'
    BY <1>10, <1>a, <1>b, GoesType DEF CloseConnection, Goes, MainLabels
  <2>2. rows' \in [Offsets -> Nat] /\ phantom' \in [Offsets -> Nat]
    BY <1>10, OneMoreType DEF CloseConnection
  <2>3. connection' \in {"none", "open", "closed"} /\ closes' \in Nat
    BY <1>10 DEF CloseConnection
  <2> QED
    BY <1>10, <2>1, <2>2, <2>3, <1>c DEF CloseConnection
<1>11. CASE ForgetConnection
  <2>1. PcOK'
    BY <1>11, <1>a, <1>b, GoesType DEF ForgetConnection, Goes, MainLabels
  <2> QED
    BY <1>11, <2>1, <1>c DEF ForgetConnection
<1>7. CASE TimerWakes
  <2>1. PcOK'
    BY <1>7, <1>a, <1>b, GoesType DEF TimerWakes, Goes, TimerLabels, LoadLabels
  <2> QED
    BY <1>7, <2>1, <1>c DEF TimerWakes
<1>8. CASE Restart
  <2>1. AtRisk \subseteq WellFormed
    <3>1. /\ buffer \in Seq(WellFormed) /\ batch["main"] \in Seq(WellFormed)
          /\ batch["timer"] \in Seq(WellFormed)
      BY <1>a
    <3>2. /\ ToSet(buffer) \subseteq WellFormed
          /\ ToSet(batch["main"]) \subseteq WellFormed
          /\ ToSet(batch["timer"]) \subseteq WellFormed
      BY <3>1 DEF ToSet
    <3> QED
      BY <3>2 DEF AtRisk, Held
  <2>2. PcOK'
    BY <1>8 DEF Restart, InitialPc, PcOK, MainLabels, TimerLabels, Threads
  <2>3. batch' \in [Threads -> Seq(WellFormed)] /\ buffer' \in Seq(WellFormed)
    BY <1>8 DEF Restart, NoBatches
  <2>4. stops' \in Nat
    BY <1>8 DEF Restart
  <2> QED
    BY <1>8, <1>c, <2>1, <2>2, <2>3, <2>4 DEF Restart
<1>9. ASSUME NEW t \in Threads, Flush(t) PROVE TypeOK'
  <2> DEFINE own == IF t = "main" THEN MainLabels ELSE TimerLabels
  <2>a. LoadLabels \subseteq own /\ AfterFlush(t, TRUE) \in own /\ AfterFlush(t, FALSE) \in own
    <3>1. CASE t = "main"
      BY <3>1 DEF AfterFlush, MainLabels
    <3>2. CASE t = "timer"
      BY <3>2 DEF AfterFlush, TimerLabels
    <3> QED
      BY <3>1, <3>2 DEF Threads
  <2>b. (\E to \in own : pc' = [pc EXCEPT ![t] = to]) => PcOK'
    BY <1>b, GoesType
  <2>c. batch[t] \in Seq(WellFormed)
    OBVIOUS
  <2> HIDE DEF own
  <2>1. CASE Drain(t)
    <3>1. \E to \in own : pc' = [pc EXCEPT ![t] = to]
      BY <2>1, <2>a DEF Drain, Goes, LoadLabels
    <3>2. batch' \in [Threads -> Seq(WellFormed)] /\ buffer' \in Seq(WellFormed)
      BY <2>1 DEF Drain
    <3> QED
      BY <2>1, <2>b, <3>1, <3>2, <1>c DEF Drain
  <2>2. CASE Connect(t)
    <3>1. \E to \in own : pc' = [pc EXCEPT ![t] = to]
      BY <2>2, <2>a DEF Connect, Goes, LoadLabels
    <3> QED
      BY <2>2, <2>b, <3>1, <1>c DEF Connect
  <2>3. CASE ConnectFails(t)
    <3>1. \E to \in own : pc' = [pc EXCEPT ![t] = to]
      BY <2>3, <2>a DEF ConnectFails, LoadLabels
    <3>2. failures' \in 0..MaxFailures
      BY <2>3, <1>d DEF ConnectFails
    <3> QED
      BY <2>3, <2>b, <3>1, <3>2, <1>c DEF ConnectFails
  <2>4. CASE Copy(t)
    <3>1. \E to \in own : pc' = [pc EXCEPT ![t] = to]
      BY <2>4, <2>a DEF Copy
    <3>2. batch' \in [Threads -> Seq(WellFormed)]
      BY <2>4 DEF Copy
    <3>3. rows' \in [Offsets -> Nat]
      BY <2>4, OneMoreType DEF Copy
    <3> QED
      BY <2>4, <2>b, <3>1, <3>2, <3>3, <1>c DEF Copy
  <2>5. CASE CopyFails(t)
    <3>1. \E to \in own : pc' = [pc EXCEPT ![t] = to]
      BY <2>5, <2>a DEF CopyFails, AfterCopyFails, LoadLabels
    <3>2. rows' \in [Offsets -> Nat] /\ phantom' \in [Offsets -> Nat]
      BY <2>5, OneMoreType DEF CopyFails
    <3>3. failures' \in 0..MaxFailures
      BY <2>5, <1>d DEF CopyFails
    <3> QED
      BY <2>5, <2>b, <3>1, <3>2, <3>3, <1>c DEF CopyFails
  <2>6. CASE CopyFindsNoConnection(t)
    <3>1. \E to \in own : pc' = [pc EXCEPT ![t] = to]
      BY <2>6, <2>a DEF CopyFindsNoConnection, AfterCopyFails, LoadLabels
    <3> QED
      BY <2>6, <2>b, <3>1, <1>c DEF CopyFindsNoConnection
  <2>7. CASE Reset(t)
    <3>1. \E to \in own : pc' = [pc EXCEPT ![t] = to]
      BY <2>7, <2>a DEF Reset, Goes, LoadLabels
    <3> QED
      BY <2>7, <2>b, <3>1, <1>c DEF Reset
  <2>8. CASE Restore(t)
    <3>1. \E to \in own : pc' = [pc EXCEPT ![t] = to]
      BY <2>8, <2>a DEF Restore, Goes
    <3>2. batch' \in [Threads -> Seq(WellFormed)] /\ buffer' \in Seq(WellFormed)
      BY <2>8, <2>c DEF Restore
    <3>3. giveUps' \in Nat
      BY <2>8 DEF Restore
    <3> QED
      BY <2>8, <2>b, <3>1, <3>2, <3>3, <1>c DEF Restore
  <2> QED
    BY <1>9, <2>1, <2>2, <2>3, <2>4, <2>5, <2>6, <2>7, <2>8 DEF Flush
<1>12. CASE UNCHANGED vars
  BY <1>12 DEF vars
<1> QED
  BY <1>1, <1>2, <1>3, <1>4, <1>5, <1>6, <1>7, <1>8, <1>9, <1>10, <1>11, <1>12 DEF
     Next, Exit, Crash

-----------------------------------------------------------------------------

\* Memory as three sets, and what a step does to it.
InBuffer == ToSet(buffer)
InBatch(t) == ToSet(batch[t])

KeepsMemory == UNCHANGED <<position, buffer, batch>> /\ committed' \in {committed, position}
Enters ==
    /\ position \in WellFormed /\ position' = position + 1
    /\ buffer' = Append(buffer, position)
    /\ UNCHANGED <<committed, batch>>
Skips == /\ position \in Malformed /\ position' = position + 1
         /\ UNCHANGED <<committed, buffer, batch>>
Drains(t) == /\ batch[t] = <<>> /\ batch' = [batch EXCEPT ![t] = buffer] /\ buffer' = <<>>
             /\ UNCHANGED <<position, committed>>
LetsGo(t) == /\ batch' = [batch EXCEPT ![t] = <<>>]
             /\ UNCHANGED <<position, committed, buffer>>
Restores(t) == /\ buffer' = batch[t] \o buffer /\ batch' = [batch EXCEPT ![t] = <<>>]
               /\ UNCHANGED <<position, committed>>
Empties == /\ position' = committed /\ buffer' = <<>> /\ batch' = NoBatches
           /\ UNCHANGED committed

\* The threads' labels and the batch: who holds one is still inside load_batch().
LEMMA HoldsStep == ASSUME TypeOK, HoldsOnlyInLoad, [Next]_vars PROVE HoldsOnlyInLoad'
<1> USE DEF TypeOK, HoldsOnlyInLoad, Loading, LoadLabels
<1>a. "main" \in Threads /\ "timer" \in Threads /\ "main" # "timer"
  BY DEF Threads
<1>1. ASSUME NEW t \in Threads, \A u \in Threads \ {t} : pc'[u] = pc[u] /\ batch'[u] = batch[u],
             pc'[t] \notin Loading => batch'[t] = <<>>
      PROVE  HoldsOnlyInLoad'
  BY <1>1
<1>2. CASE Poll
  <2>1. /\ batch' = batch /\ pc["main"] = "poll"
        /\ \A u \in Threads \ {"main"} : pc'[u] = pc[u]
    BY <1>2 DEF Poll, Goes, clientVars
  <2> QED
    BY <2>1, <1>1, <1>a
<1>3. CASE Commit \/ CommitRaises \/ LeaveLoop \/ Close \/ CloseConnection \/ ForgetConnection
  <2>1. /\ batch' = batch /\ pc["main"] \in {"commit", "poll", "join", "close", "forget"}
        /\ \A u \in Threads \ {"main"} : pc'[u] = pc[u]
    BY <1>3 DEF Commit, CommitRaises, LeaveLoop, Close, CloseConnection, ForgetConnection, Goes,
                clientVars
  <2> QED
    BY <2>1, <1>1, <1>a
<1>4. CASE TimerWakes
  <2>1. /\ batch' = batch /\ pc["timer"] = "wait"
        /\ \A u \in Threads \ {"timer"} : pc'[u] = pc[u]
    BY <1>4 DEF TimerWakes, Goes, clientVars
  <2> QED
    BY <2>1, <1>1, <1>a
<1>5. CASE Sigterm \/ UNCHANGED vars
  BY <1>5 DEF Sigterm, vars, clientVars
<1>6. CASE Restart
  BY <1>6 DEF Restart, NoBatches
<1>7. ASSUME NEW t \in Threads, Drain(t) PROVE HoldsOnlyInLoad'
  <2>1. /\ pc' = [pc EXCEPT ![t] = IF buffer = <<>> THEN AfterFlush(t, FALSE) ELSE "connect"]
        /\ batch' = [batch EXCEPT ![t] = buffer]
    BY <1>7 DEF Drain, Goes
  <2>2. pc'[t] \notin Loading => batch'[t] = <<>>
    BY <2>1
  <2> QED
    BY <2>1, <2>2, <1>1
<1>8. ASSUME NEW t \in Threads, Copy(t) \/ Restore(t) PROVE HoldsOnlyInLoad'
  <2>1. batch' = [batch EXCEPT ![t] = <<>>] /\ \A u \in Threads \ {t} : pc'[u] = pc[u]
    BY <1>8 DEF Copy, Restore, Goes
  <2> QED
    BY <2>1, <1>1
<1>9. ASSUME NEW t \in Threads,
             \/ Connect(t) \/ ConnectFails(t) \/ CopyFails(t) \/ CopyFindsNoConnection(t) \/ Reset(t)
      PROVE  HoldsOnlyInLoad'
  <2>1. /\ batch' = batch /\ pc'[t] \in Loading
        /\ \A u \in Threads \ {t} : pc'[u] = pc[u]
    BY <1>9 DEF Connect, ConnectFails, CopyFails, CopyFindsNoConnection, Reset, Goes,
       AfterCopyFails, clientVars
  <2> QED
    BY <2>1, <1>1
<1> QED
  BY <1>2, <1>3, <1>4, <1>5, <1>6, <1>7, <1>8, <1>9 DEF Next, Flush, Exit, Crash

\* Every step does one of these things to memory.
LEMMA MemoryStep ==
    ASSUME TypeOK, HoldsOnlyInLoad, [Next]_vars
    PROVE  \/ KeepsMemory \/ Enters \/ Skips \/ Empties
           \/ \E t \in Threads : Drains(t) \/ LetsGo(t) \/ Restores(t)
<1> USE DEF offsetVars, clientVars, historyVars
<1>1. CASE Poll
  <2>1. position \in Offsets
    BY <1>1, SilverAssumption DEF Poll, Offsets, TypeOK
  <2> QED
    BY <1>1, <2>1 DEF Poll, Enters, Skips, WellFormed
<1>2. CASE \/ Commit \/ CommitRaises \/ Sigterm \/ LeaveLoop \/ Close \/ CloseConnection
           \/ ForgetConnection \/ TimerWakes \/ UNCHANGED vars
  BY <1>2 DEF Commit, NextToRead, CommitRaises, Sigterm, LeaveLoop, Close, CloseConnection,
              ForgetConnection, TimerWakes, vars, KeepsMemory
<1>3. CASE Restart
  BY <1>3 DEF Restart, Empties
<1>4. ASSUME NEW t \in Threads, Flush(t)
      PROVE  KeepsMemory \/ Drains(t) \/ LetsGo(t) \/ Restores(t)
  <2>1. CASE Drain(t)
    <3>1. batch[t] = <<>>
      BY <2>1 DEF Drain, Goes, HoldsOnlyInLoad, Loading, LoadLabels
    <3> QED
      BY <2>1, <3>1 DEF Drain, Drains
  <2>2. CASE Connect(t) \/ ConnectFails(t) \/ CopyFails(t) \/ CopyFindsNoConnection(t) \/ Reset(t)
    BY <2>2 DEF Connect, ConnectFails, CopyFails, CopyFindsNoConnection, Reset, KeepsMemory
  <2>3. CASE Copy(t)
    BY <2>3 DEF Copy, LetsGo
  <2>4. CASE Restore(t)
    BY <2>4 DEF Restore, Restores
  <2> QED
    BY <1>4, <2>1, <2>2, <2>3, <2>4 DEF Flush
<1> QED
  BY <1>1, <1>2, <1>3, <1>4 DEF Next, Exit, Crash

\* The same as sets: what is in the buffer and the batches afterwards.
LEMMA MemorySets ==
    ASSUME TypeOK, NEW t \in Threads
    PROVE  /\ InBuffer \subseteq WellFormed /\ InBatch(t) \subseteq WellFormed
           /\ Held = InBuffer \cup UNION {InBatch(u) : u \in Threads}
           /\ Enters => InBuffer' = InBuffer \cup {position} /\ \A u \in Threads : InBatch(u)' = InBatch(u)
           /\ Drains(t) => /\ InBatch(t) = {} /\ InBuffer' = {} /\ InBatch(t)' = InBuffer
                           /\ \A u \in Threads \ {t} : InBatch(u)' = InBatch(u)
           /\ LetsGo(t) => /\ InBuffer' = InBuffer /\ InBatch(t)' = {}
                           /\ \A u \in Threads \ {t} : InBatch(u)' = InBatch(u)
           /\ Restores(t) => /\ InBuffer' = InBuffer \cup InBatch(t) /\ InBatch(t)' = {}
                             /\ \A u \in Threads \ {t} : InBatch(u)' = InBatch(u)
           /\ Empties => InBuffer' = {} /\ \A u \in Threads : InBatch(u)' = {}
<1> USE DEF InBuffer, InBatch
<1>a. buffer \in Seq(WellFormed) /\ batch \in [Threads -> Seq(WellFormed)] /\ batch[t] \in Seq(WellFormed)
  BY DEF TypeOK
<1>b. InBuffer \subseteq WellFormed /\ InBatch(t) \subseteq WellFormed
  BY <1>a DEF ToSet
<1>c. ToSet(<<>>) = {}
  BY DEF ToSet
<1>1. Held = InBuffer \cup UNION {InBatch(u) : u \in Threads}
  BY DEF Held, Threads
<1>2. ASSUME Enters
      PROVE  InBuffer' = InBuffer \cup {position} /\ \A u \in Threads : InBatch(u)' = InBatch(u)
  <2>1. InBuffer' = ToSet(Append(buffer, position)) /\ position \in WellFormed
    BY <1>2 DEF Enters, ToSet
  <2>2. ToSet(Append(buffer, position)) = InBuffer \cup {position}
    BY <1>a, <2>1, SequenceSets
  <2>3. \A u \in Threads : InBatch(u)' = InBatch(u)
    BY <1>2 DEF Enters
  <2> QED
    BY <2>1, <2>2, <2>3
<1>3. ASSUME NEW s, batch' = [batch EXCEPT ![t] = s]
      PROVE  InBatch(t)' = ToSet(s) /\ \A u \in Threads \ {t} : InBatch(u)' = InBatch(u)
  BY <1>3, <1>a
<1>4. ASSUME Drains(t)
      PROVE  /\ InBatch(t) = {} /\ InBuffer' = {} /\ InBatch(t)' = InBuffer
             /\ \A u \in Threads \ {t} : InBatch(u)' = InBatch(u)
  BY <1>4, <1>3, <1>c DEF Drains
<1>5. ASSUME LetsGo(t)
      PROVE  /\ InBuffer' = InBuffer /\ InBatch(t)' = {}
             /\ \A u \in Threads \ {t} : InBatch(u)' = InBatch(u)
  BY <1>5, <1>3, <1>c DEF LetsGo
<1>6. ASSUME Restores(t)
      PROVE  /\ InBuffer' = InBuffer \cup InBatch(t) /\ InBatch(t)' = {}
             /\ \A u \in Threads \ {t} : InBatch(u)' = InBatch(u)
  <2>1. ToSet(batch[t] \o buffer) = InBuffer \cup InBatch(t)
    <3>1. ASSUME NEW s \in Seq(WellFormed), NEW u \in Seq(WellFormed)
          PROVE  ToSet(s \o u) = ToSet(s) \cup ToSet(u)
      <4>1. CASE WellFormed = {}
        <5>1. s = <<>> /\ u = <<>>
          BY <4>1
        <5> QED
          BY <5>1, <1>c
      <4>2. CASE \E x : x \in WellFormed
        BY <4>2, SequenceSets
      <4> QED
        BY <4>1, <4>2
    <3> QED
      BY <1>a, <3>1
  <2>2. InBuffer' = ToSet(batch[t] \o buffer)
    BY <1>6 DEF Restores, ToSet
  <2> QED
    BY <1>6, <1>3, <1>c, <2>1, <2>2 DEF Restores
<1>7. ASSUME Empties PROVE InBuffer' = {} /\ \A u \in Threads : InBatch(u)' = {}
  BY <1>7, <1>c DEF Empties, NoBatches
<1> QED
  BY <1>b, <1>1, <1>2, <1>4, <1>5, <1>6, <1>7

\* The events in memory stay apart: no action puts an event in a second place or
\* takes one that was not read.
LEMMA PlacesStep == ASSUME Places, [Next]_vars PROVE Places'
<1> USE DEF Places
<1>a. TypeOK' /\ HoldsOnlyInLoad'
  BY TypeStep, HoldsStep
<1>b. "main" \in Threads /\ "timer" \in Threads /\ \A t \in Threads : t = "main" \/ t = "timer"
  BY DEF Threads
<1>c. position \in Int /\ committed \in Int /\ WellFormed \subseteq Int
  BY SilverAssumption DEF TypeOK, WellFormed, Offsets
<1>d. buffer \in Seq(WellFormed) /\ batch \in [Threads -> Seq(WellFormed)]
  BY DEF TypeOK
<1>e. /\ OnceEach(buffer) /\ \A t \in Threads : OnceEach(batch[t])
      /\ \A t \in Threads : InBuffer \cap InBatch(t) = {}
      /\ \A t, u \in Threads : t # u => InBatch(t) \cap InBatch(u) = {}
  BY <1>b DEF PlacesDisjoint, InBuffer, InBatch
<1>f. ASSUME OnceEach(buffer)', \A t \in Threads : OnceEach(batch[t])',
             \A t \in Threads : InBuffer' \cap InBatch(t)' = {},
             \A t, u \in Threads : t # u => InBatch(t)' \cap InBatch(u)' = {}
      PROVE  PlacesDisjoint'
  BY <1>f, <1>b DEF PlacesDisjoint, InBuffer, InBatch
<1>g. OnceEach(<<>>)
  BY DEF OnceEach
<1>h. Held' = InBuffer' \cup UNION {InBatch(u)' : u \in Threads}
  BY <1>b DEF Held, InBuffer, InBatch, Threads
<1>i. Held = InBuffer \cup UNION {InBatch(u) : u \in Threads} /\ Held \subseteq WellFormed
  BY <1>b, MemorySets
<1>1. CASE KeepsMemory
  <2>1. PlacesDisjoint' /\ Held' = Held
    BY <1>1 DEF KeepsMemory, PlacesDisjoint, OnceEach, Held
  <2> QED
    BY <1>1, <1>a, <1>c, <2>1 DEF KeepsMemory, OnlyRead
<1>2. CASE Skips
  <2>1. PlacesDisjoint' /\ Held' = Held
    BY <1>2 DEF Skips, PlacesDisjoint, OnceEach, Held
  <2> QED
    BY <1>2, <1>a, <1>c, <1>i, <2>1 DEF Skips, OnlyRead
<1>3. CASE Enters
  <2>1. position \notin Held
    BY <1>c DEF OnlyRead
  <2>2. InBuffer' = InBuffer \cup {position} /\ \A u \in Threads : InBatch(u)' = InBatch(u)
    BY <1>3, <1>b, MemorySets
  <2>3. OnceEach(Append(buffer, position))
    BY <1>3, <1>d, <1>e, <1>i, <2>1, OnceEachKept DEF Enters, InBuffer
  <2>4. OnceEach(buffer)' /\ \A t \in Threads : OnceEach(batch[t])'
    BY <1>3, <1>e, <2>3 DEF Enters, OnceEach
  <2>5. PlacesDisjoint'
    BY <1>e, <1>f, <1>i, <2>1, <2>2, <2>4
  <2>6. Held' = Held \cup {position}
    BY <1>h, <1>i, <2>2
  <2> QED
    BY <1>3, <1>a, <1>c, <1>i, <2>5, <2>6 DEF Enters, OnlyRead
<1>4. CASE Empties
  <2>1. InBuffer' = {} /\ \A u \in Threads : InBatch(u)' = {}
    BY <1>4, <1>b, MemorySets
  <2>2. OnceEach(buffer)' /\ \A t \in Threads : OnceEach(batch[t])'
    BY <1>4 DEF Empties, OnceEach, NoBatches
  <2>3. PlacesDisjoint' /\ Held' = {}
    BY <1>f, <1>h, <2>1, <2>2
  <2> QED
    BY <1>4, <1>a, <1>c, <2>3 DEF Empties, OnlyRead
<1>5. ASSUME NEW t \in Threads, Drains(t) PROVE Places'
  <2>1. /\ InBatch(t) = {} /\ InBuffer' = {} /\ InBatch(t)' = InBuffer
        /\ \A u \in Threads \ {t} : InBatch(u)' = InBatch(u)
    BY <1>5, MemorySets
  <2>2. OnceEach(buffer)' /\ \A u \in Threads : OnceEach(batch[u])'
    BY <1>5, <1>d, <1>e DEF Drains, OnceEach
  <2>3. PlacesDisjoint'
    BY <1>e, <1>f, <2>1, <2>2
  <2>4. Held' \subseteq Held
    BY <1>h, <1>i, <2>1
  <2> QED
    BY <1>5, <1>a, <2>3, <2>4 DEF Drains, OnlyRead
<1>6. ASSUME NEW t \in Threads, LetsGo(t) PROVE Places'
  <2>1. /\ InBuffer' = InBuffer /\ InBatch(t)' = {}
        /\ \A u \in Threads \ {t} : InBatch(u)' = InBatch(u)
    BY <1>6, MemorySets
  <2>2. OnceEach(buffer)' /\ \A u \in Threads : OnceEach(batch[u])'
    BY <1>6, <1>d, <1>e DEF LetsGo, OnceEach
  <2>3. PlacesDisjoint'
    BY <1>e, <1>f, <2>1, <2>2
  <2>4. Held' \subseteq Held
    BY <1>h, <1>i, <2>1
  <2> QED
    BY <1>6, <1>a, <2>3, <2>4 DEF LetsGo, OnlyRead
<1>7. ASSUME NEW t \in Threads, Restores(t) PROVE Places'
  <2>1. /\ InBuffer' = InBuffer \cup InBatch(t) /\ InBatch(t)' = {}
        /\ \A u \in Threads \ {t} : InBatch(u)' = InBatch(u)
    BY <1>7, MemorySets
  <2>2. OnceEach(batch[t] \o buffer)
    <3>1. batch[t] \in Seq(WellFormed) /\ ToSet(batch[t]) \cap ToSet(buffer) = {}
      BY <1>d, <1>e DEF InBuffer, InBatch
    <3>2. CASE WellFormed = {}
      <4>1. batch[t] = <<>> /\ buffer = <<>>
        BY <3>1, <3>2, <1>d
      <4> QED
        BY <4>1, <1>g
    <3>3. CASE \E x : x \in WellFormed
      BY <3>1, <3>3, <1>d, <1>e, OnceEachKept
    <3> QED
      BY <3>2, <3>3
  <2>3. OnceEach(buffer)'
    BY <1>7, <2>2 DEF Restores, OnceEach
  <2>4. \A u \in Threads : OnceEach(batch[u])'
    BY <1>7, <1>d, <1>e DEF Restores, OnceEach
  <2>5. PlacesDisjoint'
    BY <1>e, <1>f, <2>1, <2>3, <2>4
  <2>6. Held' \subseteq Held
    BY <1>h, <1>i, <2>1
  <2> QED
    BY <1>7, <1>a, <2>5, <2>6 DEF Restores, OnlyRead
<1> QED
  BY <1>1, <1>2, <1>3, <1>4, <1>5, <1>6, <1>7, MemoryStep

-----------------------------------------------------------------------------

\* What a step does to memory and to the table, seen as two sets.
Takes == /\ position \in Offsets /\ position' = position + 1
         /\ Held' = IF position \in Malformed THEN Held ELSE Held \cup {position}
         /\ UNCHANGED <<committed, Stored, lost>>
Acknowledges == committed' = position /\ UNCHANGED <<position, Held, Stored, lost>>
Stores == /\ \E S \in SUBSET Held : Stored' = Stored \cup S /\ Held' \in {Held, Held \ S}
          /\ UNCHANGED <<position, committed, lost>>
Stops == /\ Held' = {} /\ position' = committed /\ lost' = lost \cup AtRisk
         /\ UNCHANGED <<committed, Stored>>
Rests == UNCHANGED <<position, committed, Held, Stored, lost>>

\* What those operations on memory do to the events held.
LEMMA HeldAfter ==
    ASSUME Places, NEW t \in Threads
    PROVE  /\ Held \subseteq WellFormed /\ InBatch(t) \subseteq Held
           /\ Enters => Held' = Held \cup {position}
           /\ Drains(t) \/ Restores(t) => Held' = Held
           /\ LetsGo(t) => Held' = Held \ InBatch(t)
           /\ Empties => Held' = {}
<1> USE DEF Places
<1>b. "main" \in Threads /\ "timer" \in Threads /\ \A u \in Threads : u = "main" \/ u = "timer"
  BY DEF Threads
<1>c. Held = InBuffer \cup UNION {InBatch(u) : u \in Threads} /\ Held \subseteq WellFormed
  BY <1>b, MemorySets
<1>d. Held' = InBuffer' \cup UNION {InBatch(u)' : u \in Threads}
  BY <1>b DEF Held, InBuffer, InBatch, Threads
<1>1. Enters => Held' = Held \cup {position}
  BY <1>b, <1>c, <1>d, MemorySets
<1>2. ASSUME Drains(t) \/ Restores(t) PROVE Held' = Held
  <2>1. /\ InBuffer' \cup InBatch(t)' = InBuffer \cup InBatch(t)
        /\ \A u \in Threads \ {t} : InBatch(u)' = InBatch(u)
    BY <1>2, MemorySets
  <2> QED
    BY <1>c, <1>d, <2>1
<1>3. ASSUME LetsGo(t) PROVE Held' = Held \ InBatch(t)
  <2>1. /\ InBuffer' = InBuffer /\ InBatch(t)' = {}
        /\ \A u \in Threads \ {t} : InBatch(u)' = InBatch(u)
    BY <1>3, MemorySets
  <2>2. /\ \A u \in Threads \ {t} : InBatch(u) \cap InBatch(t) = {}
        /\ InBuffer \cap InBatch(t) = {}
    BY <1>b DEF PlacesDisjoint, InBuffer, InBatch
  <2> QED
    BY <1>c, <1>d, <2>1, <2>2
<1>4. Empties => Held' = {}
  BY <1>d, MemorySets
<1> QED
  BY <1>c, <1>1, <1>2, <1>3, <1>4

\* The actions of the two threads amount to the four of the abstract sink.
LEMMA HeldStep ==
    ASSUME Places, [Next]_vars
    PROVE  Takes \/ Acknowledges \/ Stores \/ Stops \/ Rests
<1> USE DEF Places, offsetVars, clientVars, shutdownVars, tableVars, historyVars
<1>b. "main" \in Threads
  BY DEF Threads
<1>1. CASE Poll
  <2>1. position \in Offsets /\ position' = position + 1 /\ UNCHANGED <<committed, Stored, lost>>
    BY <1>1, SilverAssumption DEF Poll, Offsets, TypeOK, Stored
  <2>2. CASE position \in Malformed
    <3>1. Held' = Held
      BY <1>1, <2>2 DEF Poll, Held
    <3> QED
      BY <2>1, <2>2, <3>1 DEF Takes
  <2>3. CASE position \notin Malformed
    <3>1. Enters
      BY <1>1, <2>1, <2>3 DEF Poll, Enters, WellFormed
    <3> QED
      BY <1>b, <2>1, <2>3, <3>1, HeldAfter DEF Takes
  <2> QED
    BY <2>2, <2>3
<1>2. CASE Commit
  BY <1>2 DEF Commit, NextToRead, Held, Stored, Acknowledges
<1>3. CASE \/ CommitRaises \/ Sigterm \/ LeaveLoop \/ Close \/ ForgetConnection \/ TimerWakes
           \/ UNCHANGED vars
  BY <1>3 DEF CommitRaises, Sigterm, LeaveLoop, Close, ForgetConnection, TimerWakes, vars, Held,
              Stored, Rests
<1>4. CASE Restart
  <2>1. Empties
    BY <1>4 DEF Restart, Empties
  <2> QED
    BY <1>4, <1>b, <2>1, HeldAfter DEF Restart, Stored, Stops
<1>5. ASSUME NEW t \in Threads, Drain(t) \/ Restore(t) PROVE Rests
  <2>1. Drains(t) \/ Restores(t)
    BY <1>5 DEF Drain, Drains, Restore, Restores, Goes, HoldsOnlyInLoad, Loading, LoadLabels
  <2>2. Held' = Held
    BY <2>1, HeldAfter
  <2> QED
    BY <1>5, <2>2 DEF Drain, Restore, Stored, Rests
<1>6. ASSUME NEW t \in Threads,
             Connect(t) \/ ConnectFails(t) \/ CopyFindsNoConnection(t) \/ Reset(t)
      PROVE  Rests
  BY <1>6 DEF Connect, ConnectFails, CopyFindsNoConnection, Reset, Held, Stored, Rests
<1>7. ASSUME NEW t \in Threads, rows' = OneMoreRow(rows, t)
      PROVE  Stored' = Stored \cup InBatch(t)
  <2>1. \A o \in Offsets : rows'[o] = IF o \in InBatch(t) THEN rows[o] + 1 ELSE rows[o]
    BY <1>7 DEF OneMoreRow, InBatch
  <2>2. \A o \in Offsets : rows[o] \in Nat
    BY DEF TypeOK
  <2>3. InBatch(t) \subseteq Offsets
    BY HeldAfter DEF WellFormed
  <2> QED
    BY <2>1, <2>2, <2>3 DEF Stored
<1>8. ASSUME NEW t \in Threads, Copy(t) PROVE Stores
  <2>1. LetsGo(t)
    BY <1>8 DEF Copy, LetsGo
  <2>2. Stored' = Stored \cup InBatch(t) /\ UNCHANGED <<position, committed, lost>>
    BY <1>7, <1>8 DEF Copy
  <2> QED
    BY <2>1, <2>2, HeldAfter DEF Stores
<1>9. ASSUME NEW t \in Threads, CopyFails(t) PROVE Stores
  <2>1. Held' = Held /\ UNCHANGED <<position, committed, lost>>
    BY <1>9 DEF CopyFails, Held
  <2>2. Stored' = Stored \cup {} \/ Stored' = Stored \cup InBatch(t)
    BY <1>7, <1>9 DEF CopyFails, Stored
  <2>3. {} \in SUBSET Held /\ InBatch(t) \in SUBSET Held
    BY HeldAfter
  <2> QED
    BY <2>1, <2>2, <2>3 DEF Stores
<1>10. CASE CloseConnection
  <2>1. Held' = Held /\ UNCHANGED <<position, committed, lost>>
    BY <1>10 DEF CloseConnection, Held
  <2>2. "timer" \in Threads
    BY DEF Threads
  <2>3. Stored' = Stored \cup {} \/ Stored' = Stored \cup InBatch("timer")
    BY <1>7, <1>10, <2>2 DEF CloseConnection, Stored
  <2>4. {} \in SUBSET Held /\ InBatch("timer") \in SUBSET Held
    BY <2>2, HeldAfter
  <2> QED
    BY <2>1, <2>3, <2>4 DEF Stores
<1> QED
  BY <1>1, <1>2, <1>3, <1>4, <1>5, <1>6, <1>8, <1>9, <1>10 DEF Next, Flush, Exit, Crash

\* No step mislays an event that was read.
LEMMA MislaidStep == ASSUME Places, NothingMislaid, [Next]_vars PROVE NothingMislaid'
<1>1. WellFormed \subseteq Int /\ position \in Int /\ committed \in Int /\ committed <= position
  BY SilverAssumption DEF Places, TypeOK, WellFormed, Offsets, OnlyRead
<1> SUFFICES ASSUME NEW o \in WellFormed, o < position'
             PROVE  o \in Held' \cup Stored' \cup lost'
  BY DEF NothingMislaid
<1>2. o < position => o \in Held \cup Stored \cup lost
  BY DEF NothingMislaid
<1>3. CASE Takes
  BY <1>1, <1>2, <1>3 DEF Takes, WellFormed
<1>4. CASE Acknowledges \/ Rests
  BY <1>2, <1>4 DEF Acknowledges, Rests
<1>5. CASE Stores
  BY <1>2, <1>5 DEF Stores
<1>6. CASE Stops
  BY <1>1, <1>2, <1>6 DEF Stops, AtRisk
<1> QED
  BY <1>3, <1>4, <1>5, <1>6, HeldStep

\* Every step of the two threads is a step of the sink, or none of its business.
LEMMA SinkStep == ASSUME Places, [Next]_vars PROVE [Sink!Next]_(Sink!sinkVars)
<1>1. CASE Takes
  BY <1>1, SilverAssumption DEF Takes, Sink!Next, Sink!Take, Offsets
<1>2. CASE Acknowledges
  BY <1>2 DEF Acknowledges, Sink!Next, Sink!Ack
<1>3. CASE Stores
  BY <1>3 DEF Stores, Sink!Next, Sink!Sink
<1>4. CASE Stops
  BY <1>4 DEF Stops, Sink!Next, Sink!Stop
<1>5. CASE Rests
  BY <1>5 DEF Rests, Sink!sinkVars
<1> QED
  BY <1>1, <1>2, <1>3, <1>4, <1>5, HeldStep

-----------------------------------------------------------------------------

\* How often an event is in memory, counted place by place as RowsExplained does:
\* once if it is there at all.
LEMMA MemoryCount ==
    ASSUME NEW b \in Seq(WellFormed), NEW d \in [Threads -> Seq(WellFormed)], NEW o,
           OnceEach(b), \A t \in Threads : ToSet(b) \cap ToSet(d[t]) = {},
           ToSet(d["main"]) \cap ToSet(d["timer"]) = {}
    PROVE  LET n == Cardinality({i \in DOMAIN b : b[i] = o})
                    + Cardinality({t \in Threads : o \in ToSet(d[t])})
               held == ToSet(b) \cup ToSet(d["main"]) \cup ToSet(d["timer"])
           IN  (o \in held => n = 1) /\ (o \notin held => n = 0)
<1> DEFINE I == {i \in DOMAIN b : b[i] = o}
           T == {t \in Threads : o \in ToSet(d[t])}
<1>a. Cardinality({}) = 0 /\ \A x : Cardinality({x}) = 1
  BY FS_EmptySet, FS_Singleton
<1>b. "main" \in Threads /\ "timer" \in Threads /\ \A t \in Threads : t = "main" \/ t = "timer"
  BY DEF Threads
<1>1. DOMAIN b = 1..Len(b) /\ ToSet(b) = {b[i] : i \in DOMAIN b}
  BY DEF ToSet
<1>2. o \in ToSet(b) => \E i : I = {i}
  <2> SUFFICES ASSUME o \in ToSet(b) PROVE \E i : I = {i}
    OBVIOUS
  <2>1. PICK i \in DOMAIN b : b[i] = o
    BY <1>1
  <2>2. I = {i}
    BY <1>1, <2>1 DEF OnceEach
  <2> QED
    BY <2>2
<1>3. o \notin ToSet(b) => I = {}
  BY <1>1
<1>4. o \in ToSet(d["main"]) => T = {"main"}
  BY <1>b
<1>5. o \in ToSet(d["timer"]) => T = {"timer"}
  BY <1>b
<1>6. o \notin ToSet(d["main"]) \cup ToSet(d["timer"]) => T = {}
  BY <1>b
<1>7. CASE o \in ToSet(b)
  <2>1. T = {} /\ \E i : I = {i}
    BY <1>2, <1>6, <1>7, <1>b
  <2>2. Cardinality(I) = 1 /\ Cardinality(T) = 0
    BY <2>1, <1>a
  <2> QED
    BY <1>7, <2>2
<1>8. CASE o \notin ToSet(b) /\ o \in ToSet(d["main"]) \cup ToSet(d["timer"])
  <2>1. I = {} /\ (T = {"main"} \/ T = {"timer"})
    BY <1>3, <1>4, <1>5, <1>8
  <2>2. Cardinality(I) = 0 /\ Cardinality(T) = 1
    BY <2>1, <1>a
  <2> QED
    BY <1>8, <2>2
<1>9. CASE o \notin ToSet(b) /\ o \notin ToSet(d["main"]) \cup ToSet(d["timer"])
  <2>1. I = {} /\ T = {}
    BY <1>3, <1>6, <1>9
  <2>2. Cardinality(I) = 0 /\ Cardinality(T) = 0
    BY <2>1, <1>a
  <2> QED
    BY <1>9, <2>2
<1> QED
  BY <1>7, <1>8, <1>9

\* RowsExplained, without the counting.
RowsAndMemory ==
    \A o \in WellFormed :
        /\ rows[o] <= handed[o] + phantom[o]
        /\ o \in Held => rows[o] + 1 <= handed[o] + phantom[o]

LEMMA RowsCounted == ASSUME Places PROVE RowsAndMemory <=> RowsExplained
<1> USE DEF Places
<1> DEFINE n(o) == Cardinality({i \in DOMAIN buffer : buffer[i] = o})
                   + Cardinality({t \in Threads : o \in ToSet(batch[t])})
<1>1. \A o : (o \in Held => n(o) = 1) /\ (o \notin Held => n(o) = 0)
  BY MemoryCount DEF TypeOK, PlacesDisjoint, Held
<1>2. RowsExplained <=> \A o \in WellFormed : rows[o] + n(o) <= handed[o] + phantom[o]
  BY DEF RowsExplained
<1>3. \A o \in WellFormed : rows[o] \in Nat /\ handed[o] \in Nat /\ phantom[o] \in Nat
  BY DEF TypeOK, WellFormed
<1> HIDE DEF n
<1>4. ASSUME NEW o \in WellFormed
      PROVE  rows[o] + n(o) <= handed[o] + phantom[o]
             <=> /\ rows[o] <= handed[o] + phantom[o]
                 /\ o \in Held => rows[o] + 1 <= handed[o] + phantom[o]
  <2>1. CASE o \in Held
    BY <1>1, <1>3, <2>1
  <2>2. CASE o \notin Held
    BY <1>1, <1>3, <2>2
  <2> QED
    BY <2>1, <2>2
<1> QED
  BY <1>2, <1>4 DEF RowsAndMemory

\* No step makes a row, or puts an event back, that no read and no phantom load
\* accounts for.
LEMMA RowsStep == ASSUME Places, RowsAndMemory, [Next]_vars PROVE RowsAndMemory'
<1> USE DEF Places, offsetVars, clientVars, shutdownVars, tableVars, historyVars
<1>b. "main" \in Threads
  BY DEF Threads
<1> SUFFICES ASSUME NEW o \in WellFormed
             PROVE  /\ rows'[o] <= handed'[o] + phantom'[o]
                    /\ o \in Held' => rows'[o] + 1 <= handed'[o] + phantom'[o]
  BY DEF RowsAndMemory
<1> DEFINE Goal == /\ rows'[o] <= handed'[o] + phantom'[o]
                   /\ o \in Held' => rows'[o] + 1 <= handed'[o] + phantom'[o]
<1>c. /\ rows[o] <= handed[o] + phantom[o]
      /\ o \in Held => rows[o] + 1 <= handed[o] + phantom[o]
  BY DEF RowsAndMemory
<1>d. rows[o] \in Nat /\ handed[o] \in Nat /\ phantom[o] \in Nat
  BY DEF TypeOK, WellFormed
<1>e. o \in Offsets
  BY DEF WellFormed
<1>1. ASSUME UNCHANGED <<rows, handed, phantom>>, Held' \subseteq Held PROVE Goal
  BY <1>1, <1>c
<1>2. CASE Poll
  <2>1. position \in Offsets /\ position \notin Held /\ UNCHANGED <<rows, phantom>>
    BY <1>2, SilverAssumption DEF Poll, OnlyRead, TypeOK, Offsets
  <2>2. CASE position \in Malformed
    BY <1>1, <1>2, <2>2 DEF Poll, Held
  <2>3. CASE position \notin Malformed
    <3>1. Enters
      BY <1>2, <2>1, <2>3 DEF Poll, Enters, WellFormed
    <3>2. Held' = Held \cup {position}
      BY <1>b, <3>1, HeldAfter
    <3>3. handed' = [handed EXCEPT ![position] = @ + 1]
      BY <1>2, <2>3 DEF Poll
    <3>4. CASE o = position
      <4>1. handed'[o] = handed[o] + 1
        BY <1>e, <3>3, <3>4 DEF TypeOK
      <4> QED
        BY <1>c, <1>d, <2>1, <4>1
    <3>5. CASE o # position
      <4>1. handed'[o] = handed[o] /\ (o \in Held' => o \in Held)
        BY <1>e, <3>2, <3>3, <3>5 DEF TypeOK
      <4> QED
        BY <1>c, <2>1, <4>1
    <3> QED
      BY <3>4, <3>5
  <2> QED
    BY <2>2, <2>3
<1>3. CASE \/ Commit \/ CommitRaises \/ Sigterm \/ LeaveLoop \/ Close \/ ForgetConnection
           \/ TimerWakes \/ UNCHANGED vars
  BY <1>1, <1>3 DEF Commit, CommitRaises, Sigterm, LeaveLoop, Close, ForgetConnection, TimerWakes,
                    vars, Held
<1>4. CASE Restart
  <2>1. Empties /\ UNCHANGED <<rows, handed, phantom>>
    BY <1>4 DEF Restart, Empties
  <2>2. Held' = {}
    BY <1>b, <2>1, HeldAfter
  <2> QED
    BY <1>1, <2>1, <2>2
<1>5. ASSUME NEW t \in Threads, Drain(t) \/ Restore(t) PROVE Goal
  <2>1. Drains(t) \/ Restores(t)
    BY <1>5 DEF Drain, Drains, Restore, Restores, Goes, HoldsOnlyInLoad, Loading, LoadLabels
  <2>2. Held' = Held /\ UNCHANGED <<rows, handed, phantom>>
    BY <1>5, <2>1, HeldAfter DEF Drain, Restore
  <2> QED
    BY <1>1, <2>2
<1>6. ASSUME NEW t \in Threads,
             Connect(t) \/ ConnectFails(t) \/ CopyFindsNoConnection(t) \/ Reset(t)
      PROVE  Goal
  BY <1>1, <1>6 DEF Connect, ConnectFails, CopyFindsNoConnection, Reset, Held
<1>7. ASSUME NEW t \in Threads, Copy(t) PROVE Goal
  <2>1. LetsGo(t) /\ UNCHANGED <<handed, phantom>>
    BY <1>7 DEF Copy, LetsGo
  <2>2. Held' = Held \ InBatch(t) /\ InBatch(t) \subseteq Held
    BY <2>1, HeldAfter
  <2>3. CASE o \in InBatch(t)
    <3>1. rows'[o] = rows[o] + 1
      BY <1>7, <1>e, <2>3 DEF Copy, OneMoreRow, InBatch
    <3> QED
      BY <1>c, <1>d, <2>1, <2>2, <2>3, <3>1
  <2>4. CASE o \notin InBatch(t)
    <3>1. rows'[o] = rows[o]
      BY <1>7, <1>e, <2>4 DEF Copy, OneMoreRow, InBatch
    <3> QED
      BY <1>c, <2>1, <2>2, <3>1
  <2> QED
    BY <2>3, <2>4
<1>8. ASSUME NEW t \in Threads, CopyFails(t) PROVE Goal
  <2>1. Held' = Held /\ handed' = handed
    BY <1>8 DEF CopyFails, Held
  <2>2. CASE UNCHANGED <<rows, phantom>>
    BY <1>1, <2>1, <2>2
  <2>3. CASE rows' = OneMoreRow(rows, t) /\ phantom' = OneMoreRow(phantom, t)
    <3>1. \/ rows'[o] = rows[o] /\ phantom'[o] = phantom[o]
          \/ rows'[o] = rows[o] + 1 /\ phantom'[o] = phantom[o] + 1
      BY <1>e, <2>3 DEF OneMoreRow
    <3> QED
      BY <1>c, <1>d, <2>1, <3>1
  <2> QED
    BY <1>8, <2>2, <2>3 DEF CopyFails
<1>9. CASE CloseConnection
  <2>1. Held' = Held /\ handed' = handed
    BY <1>9 DEF CloseConnection, Held
  <2>2. CASE UNCHANGED <<rows, phantom>>
    BY <1>1, <2>1, <2>2
  <2>3. CASE rows' = OneMoreRow(rows, "timer") /\ phantom' = OneMoreRow(phantom, "timer")
    <3>1. \/ rows'[o] = rows[o] /\ phantom'[o] = phantom[o]
          \/ rows'[o] = rows[o] + 1 /\ phantom'[o] = phantom[o] + 1
      BY <1>e, <2>3 DEF OneMoreRow
    <3> QED
      BY <1>c, <1>d, <2>1, <3>1
  <2> QED
    BY <1>9, <2>2, <2>3 DEF CloseConnection
<1> QED
  BY <1>2, <1>3, <1>4, <1>5, <1>6, <1>7, <1>8, <1>9 DEF Next, Flush, Exit, Crash

-----------------------------------------------------------------------------

\* What a thread does with the connection, from where to where.
Made == IF connection = "none" THEN "open" ELSE connection
Borrows(t) ==
    \/ pc[t] \in {"connect", "reconnect"} /\ pc'[t] \in {"copy", "recopy"} /\ connection' = Made
    \/ pc[t] \in {"copy", "recopy"} /\ connection = "open" /\ UNCHANGED connection
       /\ pc'[t] = AfterFlush(t, FALSE)
    \/ pc[t] = "reset" /\ pc'[t] = "reconnect" /\ connection' = "none"
    \/ pc[t] = "flush" /\ pc'[t] \in {"connect", AfterFlush(t, FALSE)} /\ UNCHANGED connection
FindsNone(t) ==
    /\ connection # "open" /\ UNCHANGED connection
    /\ \/ pc[t] = "copy" /\ pc'[t] = "reset"
       \/ pc[t] = "recopy" /\ pc'[t] = "restore"
Suffers(t) ==
    /\ UNCHANGED connection
    /\ \/ pc[t] \in {"connect", "reconnect"} /\ pc'[t] = "restore"
       \/ pc[t] = "copy" /\ connection = "open" /\ pc'[t] = "reset"
       \/ pc[t] = "recopy" /\ connection = "open" /\ pc'[t] = "restore"
Yields(t) ==
    /\ UNCHANGED connection
    /\ pc[t] = "restore" /\ pc'[t] = AfterFlush(t, TRUE)

\* The steps of flush() are these four, and this is what they cost.
LEMMA ClientStep ==
    ASSUME TypeOK, NEW t \in Threads, Flush(t)
    PROVE  /\ \A u \in Threads \ {t} : pc'[u] = pc[u]
           /\ UNCHANGED <<closes, stopping, closing>>
           /\ \/ Borrows(t) /\ UNCHANGED <<failures, giveUps>>
              \/ FindsNone(t) /\ UNCHANGED <<failures, giveUps>>
              \/ Suffers(t) /\ failures' = failures + 1 /\ giveUps' = giveUps
              \/ Yields(t) /\ failures' = failures /\ giveUps' = giveUps + 1
<1> USE DEF clientVars, tableVars, shutdownVars, historyVars
<1>a. pc \in [Threads -> MainLabels \cup TimerLabels]
  BY DEF TypeOK
<1>1. \A u \in Threads \ {t} : pc'[u] = pc[u]
  BY <1>a DEF Flush, Drain, Connect, ConnectFails, Copy, CopyFails, CopyFindsNoConnection,
              Reset, Restore, Goes
<1>2. CASE Drain(t)
  <2>1. Borrows(t)
    BY <1>2, <1>a DEF Drain, Goes, Borrows
  <2> QED
    BY <1>1, <1>2, <2>1 DEF Drain
<1>3. CASE Connect(t)
  <2>1. Borrows(t)
    BY <1>3, <1>a DEF Connect, Goes, Borrows, Made
  <2> QED
    BY <1>1, <1>3, <2>1 DEF Connect
<1>4. CASE ConnectFails(t)
  <2>1. Suffers(t)
    BY <1>4, <1>a DEF ConnectFails, Suffers
  <2> QED
    BY <1>1, <1>4, <2>1 DEF ConnectFails
<1>5. CASE Copy(t)
  <2>1. Borrows(t)
    BY <1>5, <1>a DEF Copy, Borrows
  <2> QED
    BY <1>1, <1>5, <2>1 DEF Copy
<1>6. CASE CopyFails(t)
  <2>1. Suffers(t)
    BY <1>6, <1>a DEF CopyFails, AfterCopyFails, Suffers
  <2> QED
    BY <1>1, <1>6, <2>1 DEF CopyFails
<1>7. CASE CopyFindsNoConnection(t)
  <2>1. FindsNone(t)
    BY <1>7, <1>a DEF CopyFindsNoConnection, AfterCopyFails, FindsNone
  <2> QED
    BY <1>1, <1>7, <2>1 DEF CopyFindsNoConnection
<1>8. CASE Reset(t)
  <2>1. Borrows(t)
    BY <1>8, <1>a DEF Reset, Goes, Borrows
  <2> QED
    BY <1>1, <1>8, <2>1 DEF Reset
<1>9. CASE Restore(t)
  <2>1. Yields(t)
    BY <1>9, <1>a DEF Restore, Goes, Yields
  <2> QED
    BY <1>1, <1>9, <2>1 DEF Restore
<1> QED
  BY <1>2, <1>3, <1>4, <1>5, <1>6, <1>7, <1>8, <1>9 DEF Flush

\* Where a flush leaves a thread, and where shutdown finds it.
LEMMA ShutdownStep ==
    ASSUME TypeOK, ClosedAtShutdown, [Next]_vars
    PROVE  ClosedAtShutdown'
<1> USE DEF ClosedAtShutdown, clientVars, shutdownVars
<1>b. "main" \in Threads /\ "timer" \in Threads /\ \A t \in Threads : t = "main" \/ t = "timer"
  BY DEF Threads
<1>c. pc \in [Threads -> MainLabels \cup TimerLabels]
  BY DEF TypeOK
<1>1. CASE Poll \/ Commit
  BY <1>1, <1>b, <1>c DEF Poll, Commit, Goes
<1>2. CASE CommitRaises \/ Sigterm \/ LeaveLoop \/ Close \/ CloseConnection \/ ForgetConnection
  BY <1>2, <1>b, <1>c DEF CommitRaises, Sigterm, LeaveLoop, Close, CloseConnection,
                          ForgetConnection, Goes
<1>3. CASE TimerWakes \/ UNCHANGED vars
  BY <1>3, <1>b, <1>c DEF TimerWakes, Goes, vars
<1>4. CASE Restart
  BY <1>4, <1>b DEF Restart, InitialPc
<1>5. ASSUME NEW t \in Threads, Flush(t) PROVE ClosedAtShutdown'
  <2>1. connection' = "closed" => connection = "closed"
    BY <1>5, ClientStep DEF Borrows, FindsNone, Suffers, Yields, Made
  <2>2. UNCHANGED <<stopping, closing>>
    BY <1>5, ClientStep
  <2>3. CASE t = "timer"
    <3>1. pc'["main"] = pc["main"]
      BY <1>5, <1>b, <2>3, ClientStep
    <3> QED
      BY <2>1, <2>2, <3>1
  <2>4. CASE t = "main"
    <3>1. pc["main"] # "forget"
      BY <1>5, <2>4, ClientStep DEF Borrows, FindsNone, Suffers, Yields
    <3>2. pc'["main"] \in {"join", "close", "forget", "exit"} => closing
      BY <1>5, <2>4, ClientStep DEF Borrows, FindsNone, Suffers, Yields, AfterFlush
    <3> QED
      BY <2>1, <2>2, <3>1, <3>2
  <2> QED
    BY <1>b, <2>3, <2>4
<1> QED
  BY <1>1, <1>2, <1>3, <1>4, <1>5 DEF Next, Exit, Crash

\* A thread that finds no connection has felt the one failure there was: the other
\* thread is not in its way to feel it again.  While main is between closing the
\* connection and forgetting it, the timer may find none twice, but gives up once.
LEMMA PaidStep ==
    ASSUME TypeOK, ClosedAtShutdown, OneIsCut, Paid, [Next]_vars
    PROVE  OneIsCut' /\ Paid'
<1> USE DEF clientVars, shutdownVars, tableVars, offsetVars, historyVars
<1>a. /\ giveUps \in Nat /\ failures \in Nat /\ closes \in Nat
      /\ connection \in {"none", "open", "closed"}
  BY SilverAssumption DEF TypeOK
<1>b. "main" \in Threads /\ "timer" \in Threads /\ \A t \in Threads : t = "main" \/ t = "timer"
  BY DEF Threads
<1>c. pc \in [Threads -> MainLabels \cup TimerLabels]
  BY DEF TypeOK
<1>e. giveUps' \in Nat /\ failures' \in Nat /\ closes' \in Nat
  BY TypeStep, SilverAssumption DEF TypeOK
<1>1. ASSUME UNCHANGED <<connection, failures, closes, giveUps>>, pc'["main"] # "forget",
             \A t \in Threads : \/ pc'[t] = pc[t]
                                \/ {pc[t], pc'[t]} \cap {"copy", "recopy", "reset", "restore"} = {}
      PROVE  OneIsCut' /\ Paid'
  <2>1. /\ OneIsCut' /\ (ToBeFelt' => ToBeFelt)
        /\ Owes("main")' = Owes("main") /\ Owes("timer")' = Owes("timer")
    BY <1>1, <1>b DEF OneIsCut, Owes, ToBeFelt, Fails, Vulnerable, Using
  <2>2. Owes("main") \in {0, 1} /\ Owes("timer") \in {0, 1}
    BY DEF Owes
  <2> QED
    BY <1>1, <1>a, <2>1, <2>2 DEF Paid
<1>2. CASE Poll \/ Commit \/ CommitRaises \/ LeaveLoop \/ Close
  <2>1. UNCHANGED <<connection, failures, closes, giveUps>>
    BY <1>2 DEF Poll, Commit, CommitRaises, LeaveLoop, Close
  <2>2. /\ pc'["main"] # "forget"
        /\ \A t \in Threads : \/ pc'[t] = pc[t]
                              \/ {pc[t], pc'[t]} \cap {"copy", "recopy", "reset", "restore"} = {}
    BY <1>2, <1>b, <1>c DEF Poll, Commit, CommitRaises, LeaveLoop, Close, Goes
  <2> QED
    BY <1>1, <2>1, <2>2
<1>3. CASE TimerWakes
  <2>1. UNCHANGED <<connection, failures, closes, giveUps>> /\ pc'["main"] = pc["main"]
    BY <1>3, <1>b, <1>c DEF TimerWakes, Goes
  <2>2. pc["timer"] = "wait" /\ pc'["timer"] = (IF stopping THEN "done" ELSE "flush")
    BY <1>3, <1>b, <1>c DEF TimerWakes, Goes
  <2>3. pc["main"] = "forget" => stopping
    BY DEF ClosedAtShutdown
  <2> QED
    BY <2>1, <2>2, <2>3, <1>a DEF OneIsCut, Paid, Owes, ToBeFelt, Fails, Vulnerable, Using
<1>4. CASE Sigterm \/ UNCHANGED vars
  <2>1. UNCHANGED <<connection, failures, closes, giveUps, pc>>
    BY <1>4 DEF Sigterm, vars
  <2> QED
    BY <2>1, <1>a DEF OneIsCut, Paid, Owes, ToBeFelt, Fails, Vulnerable, Using
<1>5. CASE Restart
  <2>1. UNCHANGED <<failures, closes, giveUps>> /\ pc'["main"] = "poll" /\ pc'["timer"] = "wait"
    BY <1>5, <1>b DEF Restart, InitialPc
  <2>2. /\ OneIsCut' /\ ~ToBeFelt' /\ Owes("main")' = 0 /\ Owes("timer")' = 0
        /\ Owes("main") \in {0, 1} /\ Owes("timer") \in {0, 1}
    BY <2>1 DEF OneIsCut, ToBeFelt, Fails, Vulnerable, Owes, Using
  <2> QED
    BY <1>a, <2>1, <2>2 DEF Paid
<1>6. CASE CloseConnection
  <2>1. /\ pc["main"] = "close" /\ pc'["timer"] = pc["timer"] /\ UNCHANGED <<failures, giveUps>>
        /\ \/ connection' = "closed" /\ closes' = closes + 1 /\ pc'["main"] = "forget"
           \/ UNCHANGED <<connection, closes>> /\ pc'["main"] = "exit"
    BY <1>6, <1>b, <1>c DEF CloseConnection, Goes
  <2> QED
    BY <2>1, <1>a DEF OneIsCut, Paid, Owes, ToBeFelt, Fails, Vulnerable, Using
<1>7. CASE ForgetConnection
  <2>1. /\ pc["main"] = "forget" /\ pc'["main"] = "exit" /\ pc'["timer"] = pc["timer"]
        /\ connection' = "none" /\ UNCHANGED <<failures, closes, giveUps>>
    BY <1>7, <1>b, <1>c DEF ForgetConnection, Goes
  <2> QED
    BY <2>1, <1>a DEF OneIsCut, Paid, Owes, ToBeFelt, Fails, Vulnerable, Using
<1>8. ASSUME Flush("timer"), pc["main"] = "forget" PROVE OneIsCut' /\ Paid'
  <2>1. pc'["main"] = "forget" /\ closes' = closes
    BY <1>8, <1>b, ClientStep
  <2>2. OneIsCut'
    BY <2>1 DEF OneIsCut, Using
  <2>3. /\ giveUps + Owes("timer") + (IF pc["timer"] \in {"wait", "done", "restore"} THEN 0 ELSE 1)
                <= failures + closes
        /\ Paid' <=> giveUps' + Owes("timer")'
                + (IF pc'["timer"] \in {"wait", "done", "restore"} THEN 0 ELSE 1) <= failures' + closes'
    <3>1. /\ Owes("main") = 0 /\ Owes("main")' = 0
          /\ ToBeFelt <=> pc["timer"] \notin {"wait", "done", "restore"}
          /\ ToBeFelt' <=> pc'["timer"] \notin {"wait", "done", "restore"}
      BY <1>8, <2>1 DEF Owes, ToBeFelt, Fails, Vulnerable
    <3>2. Owes("timer") \in {0, 1} /\ Owes("timer")' \in {0, 1}
      BY DEF Owes
    <3> QED
      BY <1>a, <1>e, <3>1, <3>2 DEF Paid
  <2>4. /\ Owes("timer") = (IF pc["timer"] = "restore" THEN 1 ELSE 0)
        /\ Owes("timer")' = (IF pc'["timer"] = "restore" THEN 1 ELSE 0)
    BY DEF Owes
  <2>5. \/ UNCHANGED <<failures, giveUps>> /\ pc["timer"] \notin {"wait", "done", "restore"}
        \/ failures' = failures + 1 /\ giveUps' = giveUps /\ pc["timer"] \notin {"wait", "done", "restore"}
        \/ /\ failures' = failures /\ giveUps' = giveUps + 1
           /\ pc["timer"] = "restore" /\ pc'["timer"] = "wait"
    BY <1>8, <1>b, ClientStep DEF Borrows, FindsNone, Suffers, Yields, AfterFlush
  <2> QED
    BY <1>a, <2>1, <2>2, <2>3, <2>4, <2>5
<1>9. ASSUME NEW t \in Threads, Flush(t), pc["main"] # "forget" PROVE OneIsCut' /\ Paid'
  <2>1. PICK u \in Threads : t # u /\ {t, u} = {"main", "timer"}
    BY <1>b
  <2>2. pc'[u] = pc[u] /\ closes' = closes
    BY <1>9, <2>1, ClientStep
  <2>3. connection \in {"none", "open"} /\ pc["main"] # "forget" /\ pc'["main"] # "forget"
    <3>1. AfterFlush("main", TRUE) # "forget" /\ AfterFlush("main", FALSE) # "forget"
      BY DEF AfterFlush
    <3> QED
      BY <1>9, <1>a, <2>1, <2>2, <3>1, ClientStep
         DEF ClosedAtShutdown, Borrows, FindsNone, Suffers, Yields
  <2> DEFINE felt == Fails(t) \/ Fails(u)
             feltNext == Fails(t)' \/ Fails(u)'
  <2>4. ToBeFelt = felt /\ ToBeFelt' = feltNext
    BY <2>1, <2>3 DEF ToBeFelt, Vulnerable, Fails
  <2>5. /\ Owes(u)' = Owes(u) /\ Owes(u) \in {0, 1} /\ Owes(t) \in {0, 1} /\ Owes(t)' \in {0, 1}
        /\ Owes(t) = IF pc[t] = "restore" THEN 1 ELSE 0
        /\ Owes(t)' = IF pc'[t] = "restore" THEN 1 ELSE 0
    BY <2>2 DEF Owes
  <2>6. /\ Paid <=> giveUps + Owes(t) + Owes(u) + (IF felt THEN 1 ELSE 0) <= failures + closes
        /\ Paid' <=> giveUps' + Owes(t)' + Owes(u)' + (IF feltNext THEN 1 ELSE 0) <= failures' + closes'
        /\ OneIsCut <=> (connection # "open" => pc[t] \notin Using \/ pc[u] \notin Using)
        /\ OneIsCut' <=> (connection' # "open" => pc'[t] \notin Using \/ pc'[u] \notin Using)
    <3> HIDE DEF felt, feltNext
    <3>1. CASE t = "main" /\ u = "timer"
      BY <3>1, <2>4 DEF Paid, OneIsCut
    <3>2. CASE t = "timer" /\ u = "main"
      <4>1. /\ Owes("main") + Owes("timer") = Owes(t) + Owes(u)
            /\ Owes("main")' + Owes("timer")' = Owes(t)' + Owes(u)'
        BY <2>5, <3>2
      <4> QED
        BY <1>a, <1>e, <2>5, <3>2, <4>1, <2>4 DEF Paid, OneIsCut
    <3> QED
      BY <2>1, <3>1, <3>2
  <2>7. AfterFlush(t, TRUE) \notin {"copy", "recopy", "reset", "restore"}
    BY DEF AfterFlush
  <2>8. AfterFlush(t, FALSE) \notin {"copy", "recopy", "reset", "restore"}
    BY DEF AfterFlush
  <2>9. CASE Borrows(t) /\ UNCHANGED <<failures, giveUps>>
    <3>1. (feltNext => felt) /\ pc'[t] # "restore"
      BY <2>2, <2>3, <2>8, <2>9 DEF Borrows, Made, Fails
    <3>2. connection' # "open" => pc'[t] \notin Using \/ pc'[u] \notin Using
      BY <2>2, <2>3, <2>6, <2>8, <2>9 DEF Borrows, Made, Using
    <3> HIDE DEF felt, feltNext
    <3> QED
      BY <1>a, <2>2, <2>5, <2>6, <2>9, <3>1, <3>2
  <2>10. CASE FindsNone(t) /\ UNCHANGED <<failures, giveUps>>
    BY <1>a, <2>2, <2>3, <2>5, <2>6, <2>10 DEF FindsNone, Using, Fails
  <2>11. CASE Suffers(t) /\ failures' = failures + 1 /\ giveUps' = giveUps
    BY <1>a, <2>2, <2>3, <2>5, <2>6, <2>11 DEF Suffers, Using, Fails
  <2>12. CASE Yields(t) /\ failures' = failures /\ giveUps' = giveUps + 1
    <3>1. (feltNext => felt) /\ pc[t] = "restore" /\ pc'[t] # "restore"
      BY <2>2, <2>3, <2>7, <2>12 DEF Yields, Fails
    <3>2. connection' # "open" => pc'[t] \notin Using \/ pc'[u] \notin Using
      BY <2>2, <2>3, <2>6, <2>7, <2>12 DEF Yields, Using
    <3> HIDE DEF felt, feltNext
    <3> QED
      BY <1>a, <2>2, <2>5, <2>6, <2>12, <3>1, <3>2
  <2> QED
    BY <1>9, <2>9, <2>10, <2>11, <2>12, ClientStep
<1>10. ASSUME Flush("main") PROVE pc["main"] # "forget"
  BY <1>10, <1>b, ClientStep DEF Borrows, FindsNone, Suffers, Yields
<1> QED
  BY <1>b, <1>2, <1>3, <1>4, <1>5, <1>6, <1>7, <1>8, <1>9, <1>10 DEF Next, Exit, Crash

-----------------------------------------------------------------------------

\* Nothing is in memory when the service starts for the first time.
LEMMA InitPlaces == Init => Places
<1> SUFFICES ASSUME Init PROVE Places
  OBVIOUS
<1>a. "main" \in Threads /\ "timer" \in Threads /\ "main" # "timer"
  BY DEF Threads
<1>b. batch["main"] = <<>> /\ batch["timer"] = <<>> /\ ToSet(<<>>) = {}
  BY <1>a DEF Init, NoBatches, ToSet
<1>1. TypeOK
  <2>1. PcOK
    BY <1>a DEF Init, PcOK, InitialPc, MainLabels, TimerLabels
  <2>2. position \in 1..MaxOffset + 1 /\ committed \in 1..MaxOffset + 1 /\ failures \in 0..MaxFailures
    BY SilverAssumption DEF Init
  <2>3. Zero \in [Offsets -> Nat] /\ NoBatches \in [Threads -> Seq(WellFormed)]
    BY DEF Zero, NoBatches
  <2>4. /\ pc \in [Threads -> MainLabels \cup TimerLabels]
        /\ pc["main"] \in MainLabels /\ pc["timer"] \in TimerLabels
    BY <2>1 DEF PcOK
  <2>5. buffer = <<>> /\ stopping = FALSE /\ closing = FALSE /\ connection \in {"none", "open"}
    BY DEF Init
  <2>6. {giveUps, closes, stops} \subseteq Nat /\ lost \subseteq WellFormed
    BY DEF Init
  <2>7. buffer \in Seq(WellFormed)
    BY <2>5
  <2>8. {stopping, closing} \subseteq BOOLEAN /\ connection \in {"none", "open", "closed"}
    BY <2>5
  <2> QED
    BY <2>2, <2>3, <2>4, <2>6, <2>7, <2>8 DEF Init, TypeOK
<1>2. HoldsOnlyInLoad
  BY DEF Init, HoldsOnlyInLoad, NoBatches
<1>3. Held = {}
  BY <1>b DEF Init, Held
<1>4. PlacesDisjoint
  BY <1>b DEF Init, PlacesDisjoint, OnceEach, NoBatches
<1>5. OnlyRead
  BY <1>3 DEF Init, OnlyRead
<1> QED
  BY <1>1, <1>2, <1>4, <1>5 DEF Places

\* The strengthening of what is said of memory and of the table is an invariant.
LEMMA AlwaysPlaces == Spec => []Places
BY InitPlaces, PlacesStep, PTL DEF Spec

\* The variables of the silver-loader never leave their types.
THEOREM TypeCorrect == Spec => []TypeOK
BY AlwaysPlaces, PTL DEF Places

\* However the two threads drain, fail and restore, every event that was read is
\* in memory or in the table, unless a stop lost it after its offset was committed.
THEOREM NeverMislaid == Spec => []NothingMislaid
<1>1. Init => NothingMislaid
  BY SilverAssumption DEF Init, NothingMislaid, WellFormed, Offsets
<1>2. Places /\ NothingMislaid /\ [Next]_vars => NothingMislaid'
  BY MislaidStep
<1> QED
  BY <1>1, <1>2, AlwaysPlaces, PTL DEF Spec

\* No retry and no restore loads an event twice: every row is a read of its own,
\* or comes from a load that landed and was reported as failed.
THEOREM RowsAlwaysExplained == Spec => []RowsExplained
<1>1. Init => RowsAndMemory
  <2> SUFFICES ASSUME Init PROVE RowsAndMemory
    OBVIOUS
  <2>1. "main" \in Threads /\ "timer" \in Threads
    BY DEF Threads
  <2>2. Held = {}
    BY <2>1 DEF Init, Held, NoBatches, ToSet
  <2> QED
    BY <2>2 DEF Init, RowsAndMemory, Zero, WellFormed
<1>2. Places /\ RowsAndMemory /\ [Next]_vars => RowsAndMemory'
  BY RowsStep
<1>3. Places /\ RowsAndMemory => RowsExplained
  BY RowsCounted
<1> QED
  BY <1>1, <1>2, <1>3, AlwaysPlaces, PTL DEF Spec

\* Two threads that drop each other's connection give up no more batches than
\* Snowflake refused or failed, and one for each connection closed at shutdown.
THEOREM GiveUpsAlwaysEarned == Spec => []GiveUpsAreEarned
<1>1. Init => ClosedAtShutdown /\ OneIsCut /\ Paid
  <2> SUFFICES ASSUME Init PROVE ClosedAtShutdown /\ OneIsCut /\ Paid
    OBVIOUS
  <2>1. pc["main"] = "poll" /\ pc["timer"] = "wait"
    BY DEF Init, InitialPc, Threads
  <2>2. ~ToBeFelt /\ Owes("main") = 0 /\ Owes("timer") = 0
    BY <2>1 DEF ToBeFelt, Fails, Vulnerable, Owes
  <2> QED
    BY <2>1, <2>2 DEF Init, ClosedAtShutdown, OneIsCut, Paid, Using
<1>2. TypeOK /\ ClosedAtShutdown /\ OneIsCut /\ Paid /\ [Next]_vars
        => ClosedAtShutdown' /\ OneIsCut' /\ Paid'
  BY ShutdownStep, PaidStep
<1>3. TypeOK /\ Paid => GiveUpsAreEarned
  BY SilverAssumption DEF TypeOK, Paid, Owes, GiveUpsAreEarned
<1> QED
  BY <1>1, <1>2, <1>3, TypeCorrect, PTL DEF Spec

\* The silver-loader implements the buffered sink, for every log and batch size.
THEOREM SilverImplementsSink == Spec => ImplementsSink
<1>1. Init => Sink!Init
  <2> SUFFICES ASSUME Init PROVE Sink!Init
    OBVIOUS
  <2>1. "main" \in Threads /\ "timer" \in Threads
    BY DEF Threads
  <2>2. Held = {} /\ Stored = {}
    BY <2>1 DEF Init, Held, NoBatches, ToSet, Stored, Zero
  <2> QED
    BY <2>2 DEF Init, Sink!Init
<1>2. Places /\ [Next]_vars => [Sink!Next]_(Sink!sinkVars)
  BY SinkStep
<1> QED
  BY <1>1, <1>2, AlwaysPlaces, PTL DEF Spec, ImplementsSink, Sink!Spec
=============================================================================
