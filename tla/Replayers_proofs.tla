-------------------------- MODULE Replayers_proofs --------------------------
(***************************************************************************)
(* What holds of a replay job for every topic, archive, window and cap:    *)
(* it replays nothing twice and nothing it was not asked for, and one that *)
(* completes has replayed what its window owes (ReplaysItsWindow).         *)
(*                                                                         *)
(* That is not inductive.  Sound adds that the topic only grows and what   *)
(* the job's own doing adds is of its time (TopicGrows), that what the DLQ *)
(* replayer replayed lies below its position and what it still owes does   *)
(* not (CatchesUp), and that a record is in one of three places: an object *)
(* still to read, the records still to go through, or what was replayed    *)
(* (GoesThrough).                                                          *)
(***************************************************************************)
EXTENDS Replayers, FiniteSetTheorems, WellFoundedInduction, TLAPS

USE DEF history

\* The order of the naturals as a set of pairs, in a form the provers can read.
NatLess == {pair \in Nat \X Nat : pair[1] < pair[2]}

\* No sequence of naturals descends for ever.
LEMMA NatLessIsWellFounded == IsWellFoundedOn(NatLess, Nat)
<1>1. OpToRel(<, Nat) = NatLess
  BY Zenon DEF OpToRel, NatLess
<1> QED
  BY <1>1, NatLessThanWellFounded, Zenon

\* A set of offsets that is not empty has a first one, and Min is it.
LEMMA MinIsFirst ==
    ASSUME NEW S \in SUBSET Nat, S # {}
    PROVE  Min(S) \in S /\ \A x \in S : Min(S) <= x
<1>1. PICK m \in S : \A y \in S : <<y, m>> \notin NatLess
  BY NatLessIsWellFounded, WFMin
<1>2. \A y \in S : m <= y
  <2>1. m \in Nat /\ S \subseteq Nat
    OBVIOUS
  <2>2. \A y \in S : y < m => <<y, m>> \in NatLess
    BY <2>1 DEF NatLess
  <2>3. \A y \in S : ~(y < m)
    BY <1>1, <2>2
  <2> QED
    BY <2>1, <2>3
<1> QED
  BY <1>2 DEF Min

\* A set of positions of a sequence has a last one, and Max is it.
LEMMA MaxIsLast ==
    ASSUME NEW L \in Nat, NEW S \in SUBSET (1..L), S # {}
    PROVE  Max(S) \in S /\ \A x \in S : x <= Max(S)
<1>1. PICK T : T = {L - x : x \in S}
  OBVIOUS
<1>2. T \in SUBSET Nat /\ T # {}
  <2>1. \A x \in S : L - x \in Nat
    OBVIOUS
  <2> QED
    BY <1>1, <2>1
<1>3. Min(T) \in T /\ \A t \in T : Min(T) <= t
  BY <1>2, MinIsFirst
<1>4. PICK m \in S : Min(T) = L - m
  BY <1>1, <1>3
<1>5. \A y \in S : y <= m
  <2> TAKE y \in S
  <2>1. L - m <= L - y
    BY <1>1, <1>3, <1>4
  <2>2. y \in Int /\ m \in Int
    OBVIOUS
  <2> QED
    BY <2>1, <2>2
<1> QED
  BY <1>5 DEF Max

\* The trades of a range are those from its first to its last.
LEMMA ReturnedIsInterval ==
    ASSUME job \in Jobs, Returned # {}
    PROVE  /\ Min(Returned) \in Nat /\ Max(Returned) \in Nat
           /\ Min(Returned) <= Max(Returned)
           /\ Returned = Min(Returned)..Max(Returned)
<1>1. DOMAIN Trades = 1..Len(Trades) /\ Len(Trades) \in Nat /\ Trades \in Seq(Nat)
  BY ReplayersAssumption
<1>2. Returned \in SUBSET (1..Len(Trades)) /\ Returned \in SUBSET Nat
  BY <1>1 DEF Returned
<1>3. PICK a \in Returned : a = Min(Returned) /\ \A x \in Returned : a <= x
  BY <1>2, MinIsFirst
<1>4. PICK b \in Returned : b = Max(Returned) /\ \A x \in Returned : x <= b
  BY <1>1, <1>2, MaxIsLast
<1>5. a \in 1..Len(Trades) /\ b \in 1..Len(Trades) /\ a <= b
  BY <1>2, <1>3, <1>4
<1>6. ASSUME NEW n \in a..b PROVE n \in Returned
  <2>1. n \in DOMAIN Trades /\ a \in DOMAIN Trades /\ b \in DOMAIN Trades /\ a <= n /\ n <= b
    BY <1>1, <1>5
  <2>2. Trades[a] <= Trades[n] /\ Trades[n] <= Trades[b]
    BY <2>1, ReplayersAssumption
  <2>3. Trades[a] \in Nat /\ Trades[n] \in Nat /\ Trades[b] \in Nat
    BY <1>1, <2>1
  <2>4. job.start <= Trades[a] /\ Trades[b] < job.end /\ job.start \in Nat /\ job.end \in Nat
    BY ReplayersAssumption DEF Returned
  <2>5. job.start <= Trades[n] /\ Trades[n] < job.end
    BY <2>2, <2>3, <2>4
  <2> QED
    BY <2>1, <2>5 DEF Returned
<1>7. Returned = a..b
  <2>1. \A x \in Returned : x \in a..b
    BY <1>2, <1>3, <1>4, <1>5
  <2> QED
    BY <2>1, <1>6
<1> QED
  BY <1>3, <1>4, <1>5, <1>7

\* What Append adds, and where.
LEMMA AppendElements ==
    ASSUME NEW S, NEW s \in Seq(S), NEW x \in S
    PROVE  /\ Append(s, x) \in Seq(S)
           /\ Len(Append(s, x)) = Len(s) + 1
           /\ \A i \in DOMAIN s : i \in DOMAIN Append(s, x) /\ Append(s, x)[i] = s[i]
           /\ \A i \in DOMAIN Append(s, x) :
                 \/ i \in DOMAIN s /\ Append(s, x)[i] = s[i]
                 \/ i = Len(s) + 1 /\ Append(s, x)[i] = x
           /\ ToSet(Append(s, x)) = ToSet(s) \cup {x}
<1>1. /\ Append(s, x) \in Seq(S) /\ Len(Append(s, x)) = Len(s) + 1
      /\ DOMAIN s = 1..Len(s) /\ DOMAIN Append(s, x) = 1..(Len(s) + 1) /\ Len(s) \in Nat
      /\ \A i \in 1..(Len(s) + 1) : Append(s, x)[i] = IF i = Len(s) + 1 THEN x ELSE s[i]
  OBVIOUS
<1>2. /\ \A i \in DOMAIN s : i \in DOMAIN Append(s, x) /\ Append(s, x)[i] = s[i]
      /\ \A i \in DOMAIN Append(s, x) :
            \/ i \in DOMAIN s /\ Append(s, x)[i] = s[i]
            \/ i = Len(s) + 1 /\ Append(s, x)[i] = x
  BY <1>1
<1>3. Len(s) + 1 \in DOMAIN Append(s, x) /\ Append(s, x)[Len(s) + 1] = x
  BY <1>1
<1>4. ToSet(Append(s, x)) = ToSet(s) \cup {x}
  BY <1>2, <1>3 DEF ToSet
<1> QED
  BY <1>1, <1>2, <1>4

\* Appending what is not there yet repeats nothing.
LEMMA AppendKeepsApart ==
    ASSUME NEW S, NEW s \in Seq(S), NEW x \in S, IsInjective(s), x \notin ToSet(s)
    PROVE  IsInjective(Append(s, x))
<1>1. \A i \in DOMAIN s : s[i] # x
  BY DEF ToSet
<1> QED
  BY <1>1, AppendElements DEF IsInjective

\* Taking the head off leaves the others, and no second copy of it.
LEMMA TailElements ==
    ASSUME NEW S, NEW s \in Seq(S), s # <<>>
    PROVE  /\ Tail(s) \in Seq(S) /\ Head(s) \in S
           /\ ToSet(s) = ToSet(Tail(s)) \cup {Head(s)}
           /\ IsInjective(s) => IsInjective(Tail(s)) /\ Head(s) \notin ToSet(Tail(s))
<1>1. /\ Tail(s) \in Seq(S) /\ Head(s) \in S /\ Len(s) \in Nat \ {0}
      /\ DOMAIN s = 1..Len(s) /\ DOMAIN Tail(s) = 1..(Len(s) - 1)
      /\ Head(s) = s[1] /\ \A i \in 1..(Len(s) - 1) : Tail(s)[i] = s[i + 1]
  OBVIOUS
<1>2. \A i \in DOMAIN Tail(s) : i + 1 \in DOMAIN s /\ i + 1 # 1 /\ Tail(s)[i] = s[i + 1]
  BY <1>1
<1>3. 1 \in DOMAIN s /\ \A i \in DOMAIN s : i = 1 \/ (i - 1 \in DOMAIN Tail(s) /\ s[i] = Tail(s)[i - 1])
  BY <1>1
<1>4. ToSet(s) = ToSet(Tail(s)) \cup {Head(s)}
  BY <1>1, <1>2, <1>3 DEF ToSet
<1>5. ASSUME IsInjective(s) PROVE IsInjective(Tail(s))
  BY <1>1, <1>2, <1>5 DEF IsInjective
<1>6. ASSUME IsInjective(s) PROVE Head(s) \notin ToSet(Tail(s))
  BY <1>1, <1>2, <1>3, <1>6 DEF IsInjective, ToSet
<1> QED
  BY <1>1, <1>4, <1>5, <1>6

\* A sequence that repeats nothing holds each of its places once.
LEMMA OnceEach ==
    ASSUME IsInjective(published)
    PROVE  \A n \in DOMAIN published : Times(published[n]) = 1
<1> TAKE n \in DOMAIN published
<1>1. {m \in DOMAIN published : published[m] = published[n]} = {n}
  BY DEF IsInjective
<1> QED
  BY <1>1, FS_Singleton DEF Times

-----------------------------------------------------------------------------

\* An entry of the DLQ while the job runs; one it brought back is of its time.
Watched == [time : Int, kind : EntryKinds, own : BOOLEAN]

\* The topic only grows, and what the job's own doing adds is not older than the
\* job.
TopicGrows ==
    /\ dlq \in [Partitions -> Seq(Watched)]
    /\ present \in [Partitions -> Nat]
    /\ now \in Nat /\ now >= Now
    /\ \A p \in Partitions :
          /\ present[p] <= Len(dlq[p])
          /\ \A o \in DOMAIN dlq[p] : dlq[p][o].own => dlq[p][o].time >= Now

\* Where an event to replay can be found.
Places ==
    (IF job.source = "DLQ" THEN Partitions
     ELSE IF job.source = "BRONZE_S3" THEN Nat ELSE {"trade"}) \X Nat

\* One job, at the labels of its replayer, that replays nothing twice.
OneJob ==
    /\ job \in Jobs
    /\ pc \in {"dispatch", "completed", "failed"}
              \cup (IF job.source = "DLQ" THEN {"poll"} ELSE {"records"})
    /\ archive \in IF job.source = "BRONZE_S3" THEN Archives ELSE {<<>>}
    /\ judged \in Nat
    /\ published \in Seq(Places) /\ IsInjective(published)
    /\ records \in Seq(Places) /\ IsInjective(records)
    /\ pc = "dispatch" => published = <<>> /\ records = <<>> /\ unseeked = {}

\* At or before an offset there is an entry that is not before the window's start.
Begun(p, n) == \E o \in NotBefore(p) : o <= n

\* The consumer has not gone back before the first of them.
Started(p) == \E o \in NotBefore(p) : o <= position[p]

\* What the DLQ replayer replayed: an entry it has passed, one of the window.
Replayable(place) ==
    /\ place[1] \in DOMAIN position
    /\ place[2] \in 1..(position[place[1]] - 1)
    /\ Begun(place[1], place[2])
    /\ LET entry == dlq[place[1]][place[2]]
       IN /\ entry.kind \in {"event", "other"} /\ Wanted(entry.kind)
          /\ entry.time <= job.end
          /\ job.end < Now => ~entry.own

\* The DLQ replayer has replayed what it owes of the entries it has passed.
CatchesUp ==
    job.source = "DLQ" =>
        /\ \A p \in DOMAIN position :
              /\ p \in Partitions
              /\ position[p] \in 1..(Len(dlq[p]) + 1)
              /\ Started(p)
        /\ \A place \in ToSet(published) : Replayable(place)
        /\ pc = "poll" =>
              \A place \in DlqOwed :
                  \/ place \in ToSet(published)
                  \/ /\ place[1] \in DOMAIN position
                     /\ place[2] >= position[place[1]]
        /\ pc = "completed" /\ BelowCap => DlqOwed \subseteq ToSet(published)

\* A record is in one place: in an object still to read, among those still to go
\* through, or replayed; what Bronze or Databento owes is in one of the three; and
\* what was replayed was asked for.
GoesThrough ==
    job.source # "DLQ" =>
        /\ ToSet(records) \cap ToSet(published) = {}
        /\ job.source = "BRONZE_S3" =>
              /\ keys \subseteq DOMAIN archive
              /\ \A place \in ToSet(records) \cup ToSet(published) : place[1] \notin keys
              /\ \A place \in ToSet(records) :
                    place[1] \in DOMAIN archive /\ place[2] \in DOMAIN archive[place[1]]
              /\ \A place \in ToSet(published) : Asked(place)
              /\ job.start % HourLength = 0 =>
                    /\ pc = "records" =>
                          \A place \in BronzeOwed :
                              \/ place[1] \in keys
                              \/ place \in ToSet(records) \cup ToSet(published)
                    /\ pc = "completed" => BronzeOwed \subseteq ToSet(published)
        /\ job.source = "DATABENTO_HISTORICAL" =>
              /\ ToSet(records) \cup ToSet(published) \subseteq DatabentoOwed
              /\ pc = "records" => DatabentoOwed \subseteq ToSet(records) \cup ToSet(published)
              /\ pc = "completed" => DatabentoOwed \subseteq ToSet(published)

Sound == TopicGrows /\ OneJob /\ CatchesUp /\ GoesThrough
-----------------------------------------------------------------------------

\* A step that leaves what the job reads and wrote where it was keeps the
\* invariant, whether the job goes on or fails.
LEMMA Unmoved ==
    ASSUME Sound, pc' \in {pc, "failed"},
           UNCHANGED <<job, now, dlqVars, readVars, archive, published, history>>
    PROVE  Sound'
<1> USE DEF dlqVars, readVars
<1>1. TopicGrows'
  BY DEF Sound, TopicGrows
<1>2. OneJob'
  BY DEF Sound, OneJob, Places
<1>3. CatchesUp'
  BY DEF Sound, CatchesUp, Replayable, Begun, Started, NotBefore, DlqOwed, InWindow, Wanted, BelowCap
<1>4. GoesThrough'
  BY DEF Sound, GoesThrough, BronzeOwed, DatabentoOwed, Returned, Asked, InWindow, Wanted
<1> QED
  BY <1>1, <1>2, <1>3, <1>4 DEF Sound

\* An entry the DLQ replayer owes was in the topic from the beginning, is not
\* before the window's start, and is not one the replayer skips.
LEMMA OwedEntry ==
    ASSUME TopicGrows, NEW place \in DlqOwed
    PROVE  /\ place[1] \in Partitions
           /\ place[2] \in 1..present[place[1]]
           /\ place[2] \in DOMAIN dlq[place[1]]
           /\ place = <<place[1], place[2]>>
           /\ dlq[place[1]][place[2]].time >= job.start
           /\ Passes(dlq[place[1]][place[2]])
<1>1. PICK p \in Partitions : place \in {p} \X (1..present[p])
  BY DEF DlqOwed
<1>2. place[1] = p /\ place[2] \in 1..present[p] /\ place = <<place[1], place[2]>>
  BY <1>1
<1>3. /\ dlq[p] \in Seq(Watched) /\ present[p] \in Nat /\ present[p] <= Len(dlq[p])
  BY DEF TopicGrows
<1>4. place[2] \in DOMAIN dlq[p]
  <2>1. DOMAIN dlq[p] = 1..Len(dlq[p]) /\ Len(dlq[p]) \in Nat
    BY <1>3
  <2> QED
    BY <2>1, <1>2, <1>3
<1>5. /\ InWindow(dlq[place[1]][place[2]].time)
      /\ dlq[place[1]][place[2]].kind # "garbage" /\ Wanted(dlq[place[1]][place[2]].kind)
  BY DEF DlqOwed
<1> QED
  BY <1>2, <1>4, <1>5 DEF InWindow, Passes

\* A record Bronze owes is a record of an object, and one the replayer selects.
LEMMA OwedRecord ==
    ASSUME job.source = "BRONZE_S3", NEW place \in BronzeOwed
    PROVE  /\ place[1] \in DOMAIN archive
           /\ place[2] \in DOMAIN archive[place[1]]
           /\ place = <<place[1], place[2]>>
           /\ InWindow(archive[place[1]][1].received)
           /\ Selected(place) /\ ~Damaged(place)
<1>1. PICK k \in DOMAIN archive : place \in {k} \X DOMAIN archive[k]
  BY DEF BronzeOwed
<1>2. place[1] = k /\ place[2] \in DOMAIN archive[k] /\ place = <<place[1], place[2]>>
  BY <1>1
<1> QED
  BY <1>2 DEF BronzeOwed, Selected, Damaged

\* The window of a job that starts on the hour lists the object of every record
\* received in it: the hour of a time in the window is in the window.
LEMMA HourIsListed ==
    ASSUME NEW start \in Nat, NEW time \in Nat, NEW end \in Nat,
           start % HourLength = 0, start <= time, time <= end
    PROVE  /\ start <= (time \div HourLength) * HourLength
           /\ (time \div HourLength) * HourLength <= end
<1>1. HourLength \in Nat \ {0}
  BY ReplayersAssumption
<1>2. PICK s \in Int : s = start \div HourLength
  BY <1>1
<1>3. PICK t \in Int : t = time \div HourLength
  BY <1>1
<1>a. start = HourLength * s
  <2>1. PICK r \in Int : r = start % HourLength
    BY <1>1
  <2>2. HourLength * s + r = start
    BY <1>1, <1>2, <2>1
  <2> QED
    BY <1>1, <2>1, <2>2
<1>b. HourLength * t <= time /\ time < HourLength * t + HourLength
  BY <1>1, <1>3
<1>4. s <= t
  <2>1. SUFFICES ASSUME t + 1 <= s PROVE FALSE
    OBVIOUS
  <2>2. HourLength * (t + 1) <= HourLength * s
    BY <1>1, <2>1
  <2>3. HourLength * (t + 1) = HourLength * t + HourLength
    BY <1>1
  <2> QED
    BY <1>1, <1>a, <1>b, <2>2, <2>3
<1>5. HourLength * s <= HourLength * t
  BY <1>1, <1>4
<1>6. t * HourLength = HourLength * t
  BY <1>1
<1> QED
  BY <1>1, <1>3, <1>5, <1>6, <1>a, <1>b

-----------------------------------------------------------------------------

\* One entry consumed: what was passed before is passed still.
LEMMA PollsOn ==
    ASSUME Sound, job.source = "DLQ", NEW p \in Partitions, Polls(p)
    PROVE  /\ job' = job /\ dlq' = dlq /\ present' = present /\ pc = "poll"
           /\ position[p] \in DOMAIN dlq[p] /\ dlq[p] \in Seq(Watched)
           /\ DOMAIN position' = DOMAIN position /\ p \in DOMAIN position
           /\ position'[p] = position[p] + 1
           /\ \A q \in DOMAIN position : q # p => position'[q] = position[q]
           /\ \A q \in DOMAIN position' :
                 /\ q \in Partitions /\ position'[q] \in 1..(Len(dlq[q]) + 1)
                 /\ Started(q)'
           /\ Started(p) /\ \A q : NotBefore(q)' = NotBefore(q)
           /\ \A place : Replayable(place) => Replayable(place)'
           /\ DlqOwed' = DlqOwed
           /\ TopicGrows' /\ GoesThrough'
<1>1. /\ job' = job /\ dlq' = dlq /\ present' = present /\ pc = "poll"
      /\ p \in DOMAIN position /\ position[p] <= Len(dlq[p])
      /\ position' = [position EXCEPT ![p] = @ + 1]
      /\ now' = now /\ unseeked' = unseeked
  BY DEF Polls, dlqVars
<1>2. \A q \in DOMAIN position : q \in Partitions /\ position[q] \in 1..(Len(dlq[q]) + 1)
  BY DEF Sound, CatchesUp
<1>3. \A q \in Partitions : dlq[q] \in Seq(Watched) /\ Len(dlq[q]) \in Nat
                            /\ DOMAIN dlq[q] = 1..Len(dlq[q])
  BY DEF Sound, TopicGrows
<1>4. position[p] \in 1..Len(dlq[p])
  BY <1>1, <1>2, <1>3
<1>5. /\ DOMAIN position' = DOMAIN position /\ position'[p] = position[p] + 1
      /\ \A q \in DOMAIN position : q # p => position'[q] = position[q]
  BY <1>1
<1>6. \A q \in DOMAIN position' : q \in Partitions /\ position'[q] \in 1..(Len(dlq[q]) + 1)
  BY <1>2, <1>3, <1>4, <1>5
<1>b. \A q \in DOMAIN position : Started(q)
  BY DEF Sound, CatchesUp
<1>c. \A q : NotBefore(q)' = NotBefore(q)
  BY <1>1 DEF NotBefore
<1>d. ASSUME NEW q \in DOMAIN position' PROVE Started(q)'
  <2>1. PICK o \in NotBefore(q) : o <= position[q]
    BY <1>d, <1>b, <1>5 DEF Started
  <2>2. q \in Partitions /\ position[q] \in Int /\ o \in Int
    BY <1>d, <1>2, <1>3, <1>5 DEF NotBefore
  <2>3. o <= position'[q]
    BY <1>d, <2>1, <2>2, <1>5
  <2> QED
    BY <2>1, <2>3, <1>c DEF Started
<1>7. ASSUME NEW place, Replayable(place) PROVE Replayable(place)'
  <2>1. place[1] \in DOMAIN position /\ place[2] \in 1..(position[place[1]] - 1)
    BY <1>7 DEF Replayable
  <2>2. /\ position[place[1]] \in Nat
        /\ position'[place[1]] \in {position[place[1]], position[place[1]] + 1}
    BY <2>1, <1>2, <1>3, <1>5
  <2>3. place[2] \in 1..(position'[place[1]] - 1)
    BY <2>1, <2>2
  <2>4. Begun(place[1], place[2]) /\ NotBefore(place[1])' = NotBefore(place[1])
    BY <1>7, <1>c DEF Replayable
  <2>5. Begun(place[1], place[2])'
    BY <2>4 DEF Begun
  <2>6. place[1] \in DOMAIN position' /\ dlq' = dlq /\ job' = job
    BY <2>1, <1>1, <1>5
  <2>7. /\ dlq[place[1]][place[2]].kind \in {"event", "other"}
        /\ Wanted(dlq[place[1]][place[2]].kind)
        /\ dlq[place[1]][place[2]].time <= job.end
        /\ job.end < Now => ~dlq[place[1]][place[2]].own
    BY <1>7 DEF Replayable
  <2> QED
    BY <2>3, <2>5, <2>6, <2>7 DEF Replayable, Wanted
<1>8. DlqOwed' = DlqOwed
  BY <1>1 DEF DlqOwed, InWindow, Wanted
<1>9. TopicGrows'
  BY <1>1 DEF Sound, TopicGrows
<1>10. GoesThrough'
  BY <1>1 DEF GoesThrough
<1> QED
  BY <1>1, <1>3, <1>4, <1>5, <1>6, <1>7, <1>8, <1>9, <1>10, <1>b, <1>c, <1>d

\* The DLQ replayer skips nothing it owes, replays an entry when it passes it and
\* never before, and is done when it has passed everything.
LEMMA DlqSound == ASSUME Sound, DlqStep PROVE Sound'
<1>a. job.source = "DLQ" => \A p \in Partitions :
         /\ dlq[p] \in Seq(Watched) /\ Len(dlq[p]) \in Nat /\ DOMAIN dlq[p] = 1..Len(dlq[p])
         /\ present[p] \in Nat /\ present[p] <= Len(dlq[p])
  BY DEF Sound, TopicGrows
<1>1. CASE Seek
  <2>0. PICK failing \in SUBSET Partitions :
           /\ unseeked' = failing
           /\ Goes("dispatch", IF Assigned(failing) = {} THEN "completed" ELSE "poll")
           /\ position' = [p \in Assigned(failing) |-> Min(NotBefore(p))]
    BY <1>1 DEF Seek
  <2>1. /\ job.source = "DLQ" /\ pc = "dispatch" /\ published = <<>> /\ records = <<>>
        /\ unseeked = {}
        /\ UNCHANGED <<job, now, dlq, judged, archive, records, published, present>>
        /\ pc' = IF Assigned(failing) = {} THEN "completed" ELSE "poll"
    BY <1>1, <2>0 DEF Seek, Goes, dlqVars, Sound, OneJob
  <2>2. TopicGrows' /\ GoesThrough'
    BY <2>1 DEF Sound, TopicGrows, GoesThrough
  <2>3. OneJob'
    BY <2>1 DEF Sound, OneJob, Places
  <2>4. ASSUME NEW p \in Assigned(failing)
        PROVE  /\ p \in Partitions /\ position'[p] \in 1..(Len(dlq[p]) + 1)
               /\ \A o \in NotBefore(p) : position'[p] <= o
               /\ Started(p)'
    <3>1. p \in Partitions /\ NotBefore(p) # {} /\ position'[p] = Min(NotBefore(p))
      BY <2>0, <2>4 DEF Assigned
    <3>2. NotBefore(p) \in SUBSET (1..Len(dlq[p])) /\ NotBefore(p) \in SUBSET Nat
      BY <3>1, <2>1, <1>a DEF NotBefore
    <3>3. Min(NotBefore(p)) \in NotBefore(p) /\ \A o \in NotBefore(p) : Min(NotBefore(p)) <= o
      BY <3>1, <3>2, MinIsFirst
    <3>4. NotBefore(p)' = NotBefore(p)
      BY <2>1 DEF NotBefore
    <3>5. Started(p)'
      <4>1. position'[p] \in NotBefore(p)' /\ position'[p] \in Int
        BY <3>1, <3>2, <3>3, <3>4
      <4>2. position'[p] <= position'[p]
        BY <4>1
      <4> QED
        BY <4>1, <4>2 DEF Started
    <3> QED
      BY <3>1, <3>2, <3>3, <3>5, <2>1, <1>a
  <2>5. ToSet(published') = {}
    BY <2>1 DEF ToSet
  <2>6. ASSUME NEW place \in DlqOwed' PROVE place \in DlqOwed /\ place[1] \notin failing
    <3>1. PICK p \in Partitions \ failing : place \in {p} \X (1..present[p])
      BY <2>0, <2>1, <2>6 DEF DlqOwed
    <3>2. place[1] = p
      BY <3>1
    <3> QED
      BY <3>1, <3>2, <2>1, <2>6 DEF DlqOwed, InWindow, Wanted
  <2>7. ASSUME NEW place \in DlqOwed'
        PROVE  place[1] \in Assigned(failing) /\ place[2] >= position'[place[1]]
    <3>1. place[2] \in NotBefore(place[1]) /\ place[1] \in Assigned(failing)
      BY <2>6, <2>7, OwedEntry DEF Sound, NotBefore, Assigned
    <3>2. position'[place[1]] <= place[2]
      BY <3>1, <2>4
    <3>3. position'[place[1]] \in Int /\ place[2] \in Int
      <4>1. position'[place[1]] \in 1..(Len(dlq[place[1]]) + 1)
        BY <3>1, <2>4
      <4>2. place[1] \in Partitions /\ Len(dlq[place[1]]) \in Nat
        BY <3>1, <2>1, <2>4, <1>a
      <4>3. place[2] \in 1..Len(dlq[place[1]])
        BY <3>1, <4>2, <2>1, <1>a DEF NotBefore
      <4> QED
        BY <4>1, <4>2, <4>3
    <3> QED
      BY <3>1, <3>2, <3>3
  <2>8. DOMAIN position' = Assigned(failing)
    BY <2>0
  <2>9. pc' = "completed" => Assigned(failing) = {}
    BY <2>1
  <2>10. CatchesUp'
    BY <2>1, <2>4, <2>5, <2>7, <2>8, <2>9 DEF CatchesUp
  <2> QED
    BY <2>2, <2>3, <2>10 DEF Sound
<1>2. ASSUME NEW p \in Partitions, SkipEntry(p) PROVE Sound'
  <2>1. Polls(p) /\ ~Passes(dlq[p][position[p]]) /\ pc' = pc /\ published' = published
    BY <1>2 DEF SkipEntry, Polled
  <2>2. pc = "poll" /\ UNCHANGED <<job, archive, records, judged>> /\ job.source = "DLQ"
    BY <2>1 DEF Polls, dlqVars, Sound, OneJob
  <2>3. OneJob'
    BY <2>1, <2>2 DEF Sound, OneJob, Places
  <2>4. ASSUME NEW place \in DlqOwed, place \notin ToSet(published)
        PROVE  place[1] \in DOMAIN position' /\ place[2] >= position'[place[1]]
    <3>1. place[1] \in DOMAIN position /\ place[2] >= position[place[1]]
      BY <2>2, <2>4 DEF Sound, CatchesUp
    <3>2. /\ Passes(dlq[place[1]][place[2]]) /\ place[1] \in Partitions
          /\ place[2] \in 1..present[place[1]]
      BY OwedEntry DEF Sound
    <3>3. place[1] = p => place[2] # position[p]
      BY <3>2, <2>1
    <3>4. position[place[1]] \in Int /\ place[2] \in Int
      BY <3>1, <3>2, <2>2, <1>a DEF Sound, CatchesUp
    <3> QED
      BY <3>1, <3>3, <3>4, <2>1, <2>2, PollsOn
  <2>5. CatchesUp'
    BY <2>1, <2>2, <2>4, PollsOn DEF CatchesUp, Sound
  <2> QED
    BY <2>1, <2>2, <2>3, <2>5, PollsOn DEF Sound
<1>3. ASSUME NEW p \in Partitions, RepublishEntry(p) PROVE Sound'
  <2>a. PICK here : here = <<p, position[p]>>
    OBVIOUS
  <2>1. /\ Polls(p) /\ Passes(dlq[p][position[p]])
        /\ dlq[p][position[p]].kind # "undecodable"
        /\ pc' = pc /\ published' = Append(published, here)
    BY <1>3, <2>a DEF RepublishEntry, Polled, Publish
  <2>2. pc = "poll" /\ UNCHANGED <<job, archive, records, judged>> /\ job.source = "DLQ"
    BY <2>1 DEF Polls, dlqVars, Sound, OneJob
  <2>3. /\ position[p] \in DOMAIN dlq[p] /\ dlq[p] \in Seq(Watched)
        /\ position'[p] = position[p] + 1 /\ position[p] \in Nat \ {0} /\ p \in DOMAIN position'
    BY <2>1, <2>2, <1>a, PollsOn
  <2>4. here \in Places /\ published \in Seq(Places) /\ IsInjective(published)
    BY <2>2, <2>3, <2>a DEF Places, Sound, OneJob
  <2>5. here \notin ToSet(published)
    <3>1. SUFFICES ASSUME Replayable(here) PROVE FALSE
      BY <2>2 DEF Sound, CatchesUp
    <3> QED
      BY <3>1, <2>3, <2>a DEF Replayable
  <2>6. /\ published' \in Seq(Places) /\ IsInjective(published')
        /\ ToSet(published') = ToSet(published) \cup {here}
    BY <2>1, <2>4, <2>5, AppendElements, AppendKeepsApart
  <2>7. OneJob'
    BY <2>1, <2>2, <2>6 DEF Sound, OneJob, Places
  <2>8. Replayable(here)'
    <3>1. dlq[p][position[p]] \in Watched
      BY <2>3
    <3>2. /\ dlq[p][position[p]].kind \in {"event", "other"}
          /\ Wanted(dlq[p][position[p]].kind)
          /\ dlq[p][position[p]].time <= job.end
      BY <3>1, <2>1 DEF Watched, EntryKinds, Passes
    <3>3. job.end < Now => ~dlq[p][position[p]].own
      <4>1. dlq[p][position[p]].own => dlq[p][position[p]].time >= Now
        BY <2>3 DEF Sound, TopicGrows
      <4>2. dlq[p][position[p]].time \in Int /\ job.end \in Int /\ Now \in Int
        BY <3>1, ReplayersAssumption DEF Watched, Sound, OneJob
      <4> QED
        BY <4>1, <4>2, <3>2
    <3>4. here[1] = p /\ here[2] = position[p] /\ here[2] \in 1..(position'[p] - 1)
      BY <2>3, <2>a
    <3>5. Begun(here[1], here[2])'
      <4>1. Started(p) /\ NotBefore(p)' = NotBefore(p)
        BY <2>1, <2>2, PollsOn
      <4>2. PICK o \in NotBefore(p)' : o <= position[p]
        BY <4>1 DEF Started
      <4>3. here[1] = p /\ here[2] = position[p]
        BY <2>a
      <4> QED
        BY <4>2, <4>3 DEF Begun
    <3>6. dlq' = dlq /\ job' = job
      BY <2>1, <2>2, PollsOn
    <3> QED
      BY <3>2, <3>3, <3>4, <3>5, <3>6, <2>3, <2>a DEF Replayable, Wanted
  <2>9. ASSUME NEW place \in DlqOwed, place \notin ToSet(published')
        PROVE  place[1] \in DOMAIN position' /\ place[2] >= position'[place[1]]
    <3>1. place[1] \in DOMAIN position /\ place[2] >= position[place[1]]
      BY <2>2, <2>6, <2>9 DEF Sound, CatchesUp
    <3>2. /\ place[1] \in Partitions /\ place[2] \in 1..present[place[1]]
          /\ place = <<place[1], place[2]>>
      BY OwedEntry DEF Sound
    <3>3. place[1] = p => place[2] # position[p]
      BY <3>2, <2>6, <2>9, <2>a
    <3>4. position[place[1]] \in Int /\ place[2] \in Int
      BY <3>1, <3>2, <2>2, <1>a DEF Sound, CatchesUp
    <3> QED
      BY <3>1, <3>3, <3>4, <2>1, <2>2, PollsOn
  <2>10. \A place \in ToSet(published') : Replayable(place)'
    BY <2>1, <2>2, <2>6, <2>8, PollsOn DEF Sound, CatchesUp
  <2>11. CatchesUp'
    BY <2>1, <2>2, <2>9, <2>10, PollsOn DEF CatchesUp
  <2> QED
    BY <2>1, <2>2, <2>7, <2>11, PollsOn DEF Sound
<1>4. ASSUME NEW p \in Partitions, EntryRaises(p) PROVE Sound'
  <2>1. Polls(p) /\ pc' = "failed" /\ published' = published
    BY <1>4 DEF EntryRaises
  <2>2. pc = "poll" /\ UNCHANGED <<job, archive, records, judged>> /\ job.source = "DLQ"
    BY <2>1 DEF Polls, dlqVars, Sound, OneJob
  <2>3. OneJob'
    BY <2>1, <2>2 DEF Sound, OneJob, Places
  <2>4. CatchesUp'
    BY <2>1, <2>2, PollsOn DEF CatchesUp, Sound
  <2> QED
    BY <2>1, <2>2, <2>3, <2>4, PollsOn DEF Sound
<1>5. CASE PollErrs
  BY <1>5, Unmoved DEF PollErrs
<1>6. CASE DlqDone
  <2>1. /\ pc = "poll" /\ pc' = "completed" /\ (~BelowCap \/ AllExhausted)
        /\ UNCHANGED <<job, now, dlq, judged, position, archive, records, published, history>>
    BY <1>6 DEF DlqDone, Goes, dlqVars, readVars
  <2>2. job.source = "DLQ"
    BY <2>1 DEF Sound, OneJob
  <2>3. TopicGrows' /\ GoesThrough'
    BY <2>1, <2>2 DEF Sound, TopicGrows, GoesThrough
  <2>4. OneJob'
    BY <2>1 DEF Sound, OneJob, Places
  <2>5. ASSUME BelowCap, NEW place \in DlqOwed PROVE place \in ToSet(published)
    <3>1. SUFFICES ASSUME place[1] \in DOMAIN position, place[2] >= position[place[1]]
                   PROVE  FALSE
      BY <2>1, <2>2 DEF Sound, CatchesUp
    <3>2. place[1] \in Partitions /\ place[2] \in DOMAIN dlq[place[1]]
      BY OwedEntry DEF Sound
    <3>3. position[place[1]] > Len(dlq[place[1]]) /\ position[place[1]] \in Int
      BY <2>1, <2>2, <2>5, <3>1 DEF AllExhausted, Sound, CatchesUp
    <3> QED
      BY <3>1, <3>2, <3>3, <2>2, <1>a
  <2>6. DlqOwed' = DlqOwed /\ BelowCap' = BelowCap /\ \A place : Replayable(place)' = Replayable(place)
    BY <2>1 DEF DlqOwed, InWindow, Wanted, BelowCap, Replayable, Begun, NotBefore
  <2>7. \A p : Started(p)' = Started(p)
    BY <2>1 DEF Started, NotBefore
  <2>8. CatchesUp'
    BY <2>1, <2>2, <2>5, <2>6, <2>7 DEF CatchesUp, Sound
  <2> QED
    BY <2>3, <2>4, <2>8 DEF Sound
<1> QED
  BY <1>1, <1>2, <1>3, <1>4, <1>5, <1>6 DEF DlqStep

-----------------------------------------------------------------------------

\* Consuming a record leaves the records before and after it, and those of the
\* objects still to read, where they were.
LEMMA NextRecordKeeps ==
    ASSUME Sound, NextRecord
    PROVE  /\ UNCHANGED <<job, now, dlq, judged, archive, keys, history>>
           /\ pc = "records" /\ job.source # "DLQ"
           /\ Head(records) \in Places /\ records' \in Seq(Places) /\ IsInjective(records')
           /\ ToSet(records) = ToSet(records') \cup {Head(records)}
           /\ Head(records) \notin ToSet(records')
           /\ Head(records) \notin ToSet(published)
           /\ TopicGrows' /\ CatchesUp' /\ BronzeOwed' = BronzeOwed
           /\ DatabentoOwed' = DatabentoOwed /\ \A place : Asked(place)' = Asked(place)
<1>1. /\ UNCHANGED <<job, now, dlq, judged, position, archive, keys, history>>
      /\ pc = "records" /\ records # <<>> /\ records' = Tail(records)
  BY DEF NextRecord, dlqVars
<1>2. job.source # "DLQ" /\ records \in Seq(Places) /\ IsInjective(records)
  BY <1>1 DEF Sound, OneJob
<1>3. /\ Head(records) \in Places /\ records' \in Seq(Places) /\ IsInjective(records')
      /\ ToSet(records) = ToSet(records') \cup {Head(records)}
      /\ Head(records) \notin ToSet(records')
  BY <1>1, <1>2, TailElements
<1>4. Head(records) \notin ToSet(published)
  BY <1>2, <1>3 DEF Sound, GoesThrough
<1>5. TopicGrows' /\ CatchesUp'
  BY <1>1, <1>2 DEF Sound, TopicGrows, CatchesUp
<1>6. BronzeOwed' = BronzeOwed
  BY <1>1 DEF BronzeOwed, InWindow, Wanted
<1>7. DatabentoOwed' = DatabentoOwed /\ \A place : Asked(place)' = Asked(place)
  BY <1>1 DEF DatabentoOwed, Returned, Asked, InWindow, Wanted
<1> QED
  BY <1>1, <1>2, <1>3, <1>4, <1>5, <1>6, <1>7

\* An archive is a sequence of objects that are not empty.
LEMMA ArchiveType ==
    ASSUME Sound, job.source = "BRONZE_S3"
    PROVE  /\ archive \in Seq(Seq(Records) \ {<<>>})
           /\ \A k \in DOMAIN archive : /\ k \in Nat /\ archive[k] \in Seq(Records)
                                        /\ archive[k][1].received \in Nat
<1>1. archive \in Seq(Seq(Records) \ {<<>>})
  BY ReplayersAssumption DEF Sound, OneJob
<1>2. ASSUME NEW k \in DOMAIN archive
      PROVE  k \in Nat /\ archive[k] \in Seq(Records) /\ archive[k][1].received \in Nat
  <2>1. k \in Nat /\ archive[k] \in Seq(Records) /\ archive[k] # <<>>
    BY <1>1, <1>2
  <2>2. 1 \in DOMAIN archive[k]
    BY <2>1
  <2>3. archive[k][1] \in Records
    BY <2>1, <2>2
  <2> QED
    BY <2>1, <2>3 DEF Records
<1> QED
  BY <1>1, <1>2

\* The Bronze and Databento replayers replay a record when they go past it and
\* never before, and Bronze's lists every object it owes records of.
LEMMA RecordSound == ASSUME Sound, RecordStep PROVE Sound'
<1>1. CASE ListKeys
  <2>1. /\ job.source = "BRONZE_S3" /\ pc = "dispatch" /\ published = <<>> /\ records = <<>>
        /\ UNCHANGED <<job, now, dlq, judged, position, archive, records, published, history>>
        /\ keys' = {k \in DOMAIN archive : Listed(k)}
        /\ pc' = IF keys' = {} THEN "completed" ELSE "records"
    BY <1>1 DEF ListKeys, Goes, dlqVars, Sound, OneJob
  <2>2. TopicGrows' /\ CatchesUp'
    BY <2>1 DEF Sound, TopicGrows, CatchesUp
  <2>3. OneJob'
    BY <2>1 DEF Sound, OneJob, Places
  <2>4. ToSet(records') = {} /\ ToSet(published') = {} /\ BronzeOwed' = BronzeOwed
    BY <2>1 DEF ToSet, BronzeOwed, InWindow, Wanted
  <2>5. ASSUME job.start % HourLength = 0, NEW place \in BronzeOwed
        PROVE  place[1] \in keys'
    <3>1. /\ place[1] \in DOMAIN archive /\ archive[place[1]][1].received \in Nat
          /\ InWindow(archive[place[1]][1].received)
      BY <2>1, OwedRecord, ArchiveType
    <3>2. job.start \in Nat /\ job.end \in Nat
      BY ReplayersAssumption DEF Sound, OneJob
    <3>3. Listed(place[1])
      BY <3>1, <3>2, <2>5, HourIsListed DEF Listed, Hour, InWindow
    <3> QED
      BY <3>1, <3>3, <2>1
  <2>6. GoesThrough'
    BY <2>1, <2>4, <2>5 DEF GoesThrough
  <2> QED
    BY <2>2, <2>3, <2>6 DEF Sound
<1>2. CASE ReadObject
  <2>1. /\ pc = "records" /\ job.source = "BRONZE_S3" /\ records = <<>>
        /\ UNCHANGED <<job, pc, now, dlq, judged, position, archive, published, history>>
    BY <1>2 DEF ReadObject, dlqVars
  <2>2. PICK k \in keys :
           keys' = keys \ {k} /\ records' = [n \in DOMAIN archive[k] |-> <<k, n>>]
    BY <1>2 DEF ReadObject
  <2>3. k \in DOMAIN archive /\ k \in Nat /\ archive[k] \in Seq(Records)
    BY <2>1, ArchiveType DEF Sound, GoesThrough
  <2>4. DOMAIN archive[k] = 1..Len(archive[k]) /\ Len(archive[k]) \in Nat
    BY <2>3
  <2>5. records' \in Seq(Places) /\ IsInjective(records')
    <3>1. \A n \in 1..Len(archive[k]) : <<k, n>> \in Places
      BY <2>1, <2>3, <2>4 DEF Places
    <3>2. records' \in [1..Len(archive[k]) -> Places]
      BY <2>2, <2>4, <3>1
    <3> QED
      BY <3>2, <2>2, <2>4 DEF IsInjective
  <2>6. ToSet(records') = {<<k, n>> : n \in DOMAIN archive[k]} /\ ToSet(records) = {}
    BY <2>1, <2>2 DEF ToSet
  <2>7. TopicGrows' /\ CatchesUp'
    BY <2>1 DEF Sound, TopicGrows, CatchesUp
  <2>8. OneJob'
    BY <2>1, <2>5 DEF Sound, OneJob, Places
  <2>9. /\ keys \subseteq DOMAIN archive
        /\ \A place \in ToSet(published) : place[1] \notin keys
    BY <2>1 DEF Sound, GoesThrough
  <2>10. \A place \in ToSet(records') : place[1] = k
    BY <2>6
  <2>11. ToSet(records') \cap ToSet(published) = {}
    BY <2>9, <2>10
  <2>12. BronzeOwed' = BronzeOwed
    BY <2>1 DEF BronzeOwed, InWindow, Wanted
  <2>13. ASSUME job.start % HourLength = 0, NEW place \in BronzeOwed
         PROVE  place[1] \in keys' \/ place \in ToSet(records') \cup ToSet(published)
    <3>1. /\ place[2] \in DOMAIN archive[place[1]] /\ place = <<place[1], place[2]>>
      BY <2>1, OwedRecord
    <3>2. place[1] \in keys \/ place \in ToSet(published)
      BY <2>1, <2>6, <2>13 DEF Sound, GoesThrough
    <3> QED
      BY <3>1, <3>2, <2>2, <2>6
  <2>14. \A place \in ToSet(published') : Asked(place)'
    BY <2>1 DEF Sound, GoesThrough, Asked, InWindow, Wanted
  <2>15. \A place \in ToSet(records') :
            place[1] \in DOMAIN archive /\ place[2] \in DOMAIN archive[place[1]]
    BY <2>3, <2>6
  <2>16. GoesThrough'
    BY <2>1, <2>2, <2>9, <2>10, <2>11, <2>12, <2>13, <2>14, <2>15 DEF GoesThrough
  <2> QED
    BY <2>7, <2>8, <2>16 DEF Sound
<1>3. CASE Fetch
  <2>1. /\ job.source = "DATABENTO_HISTORICAL" /\ pc = "dispatch" /\ pc' = "records"
        /\ published = <<>> /\ job \in Jobs
        /\ UNCHANGED <<job, now, dlq, judged, position, archive, keys, published, history>>
        /\ records' = IF Returned = {} THEN <<>>
                      ELSE [n \in 1..(Max(Returned) - Min(Returned) + 1) |->
                               <<"trade", Min(Returned) + n - 1>>]
    BY <1>3 DEF Fetch, Goes, dlqVars, Sound, OneJob
  <2>2. /\ records' \in Seq(Places) /\ IsInjective(records')
        /\ ToSet(records') = DatabentoOwed
    <3>1. CASE Returned = {}
      <4>1. records' = <<>> /\ DatabentoOwed = {}
        BY <2>1, <3>1 DEF DatabentoOwed
      <4> QED
        BY <4>1 DEF IsInjective, ToSet
    <3>2. CASE Returned # {}
      <4>1. PICK a \in Nat, b \in Nat : a = Min(Returned) /\ b = Max(Returned) /\ a <= b
        BY <2>1, <3>2, ReturnedIsInterval
      <4>2. Returned = a..b
        BY <2>1, <3>2, <4>1, ReturnedIsInterval
      <4>3. records' = [n \in 1..(b - a + 1) |-> <<"trade", a + n - 1>>]
        BY <2>1, <3>2, <4>1
      <4>4. \A n \in 1..(b - a + 1) : a + n - 1 \in a..b
        BY <4>1
      <4>5. \A m \in a..b : m - a + 1 \in 1..(b - a + 1) /\ m = a + (m - a + 1) - 1
        BY <4>1
      <4>6. records' \in Seq(Places)
        <5>1. \A n \in 1..(b - a + 1) : <<"trade", a + n - 1>> \in Places
          BY <2>1, <4>1, <4>4 DEF Places
        <5>2. PICK c \in Nat : c = b - a + 1
          BY <4>1
        <5>3. records' \in [1..c -> Places]
          BY <4>3, <5>1, <5>2
        <5> QED
          BY <5>2, <5>3
      <4>7. IsInjective(records')
        <5>1. SUFFICES ASSUME NEW n \in 1..(b - a + 1), NEW m \in 1..(b - a + 1),
                              records'[n] = records'[m]
                       PROVE  n = m
          BY <4>3 DEF IsInjective
        <5>2. a + n - 1 = a + m - 1
          BY <5>1, <4>3
        <5> QED
          BY <5>2, <4>1
      <4>8. ToSet(records') = {<<"trade", m>> : m \in a..b}
        <5>1. ToSet(records') = {<<"trade", a + n - 1>> : n \in 1..(b - a + 1)}
          BY <4>3 DEF ToSet
        <5>2. ASSUME NEW n \in 1..(b - a + 1)
              PROVE  <<"trade", a + n - 1>> \in {<<"trade", m>> : m \in a..b}
          BY <4>4
        <5>3. ASSUME NEW m \in a..b
              PROVE  <<"trade", m>> \in {<<"trade", a + n - 1>> : n \in 1..(b - a + 1)}
          BY <4>5
        <5> QED
          BY <5>1, <5>2, <5>3
      <4> QED
        BY <4>2, <4>6, <4>7, <4>8 DEF DatabentoOwed
    <3> QED
      BY <3>1, <3>2
  <2>3. TopicGrows' /\ CatchesUp'
    BY <2>1 DEF Sound, TopicGrows, CatchesUp
  <2>4. OneJob'
    BY <2>1, <2>2 DEF Sound, OneJob, Places
  <2>5. ToSet(published') = {} /\ DatabentoOwed' = DatabentoOwed
    BY <2>1 DEF ToSet, DatabentoOwed, Returned
  <2>6. GoesThrough'
    BY <2>1, <2>2, <2>5 DEF GoesThrough
  <2> QED
    BY <2>3, <2>4, <2>6 DEF Sound
<1>4. CASE SkipRecord
  <2>1. NextRecord /\ ~Selected(Head(records)) /\ pc' = pc /\ published' = published
    BY <1>4 DEF SkipRecord
  <2>2. OneJob'
    BY <2>1, NextRecordKeeps DEF Sound, OneJob, Places
  <2>3. job.source = "BRONZE_S3" /\ Head(records) \notin BronzeOwed
    BY <2>1, OwedRecord DEF Selected
  <2>4. GoesThrough'
    BY <2>1, <2>3, NextRecordKeeps DEF Sound, GoesThrough
  <2> QED
    BY <2>1, <2>2, <2>4, NextRecordKeeps DEF Sound
<1>5. CASE PublishRecord
  <2>1. /\ NextRecord /\ pc' = pc /\ published' = Append(published, Head(records))
        /\ Selected(Head(records)) /\ ~Damaged(Head(records))
    BY <1>5 DEF PublishRecord, Publish
  <2>2. published \in Seq(Places) /\ IsInjective(published)
    BY DEF Sound, OneJob
  <2>3. /\ published' \in Seq(Places) /\ IsInjective(published')
        /\ ToSet(published') = ToSet(published) \cup {Head(records)}
    BY <2>1, <2>2, NextRecordKeeps, AppendElements, AppendKeepsApart
  <2>4. OneJob'
    BY <2>1, <2>3, NextRecordKeeps DEF Sound, OneJob, Places
  <2>5. ASSUME job.source = "BRONZE_S3" PROVE Asked(Head(records))
    <3>1. PICK k, n : k = Head(records)[1] /\ n = Head(records)[2]
      OBVIOUS
    <3>2. Head(records) \in ToSet(records)
      BY <2>1, NextRecordKeeps
    <3>3. k \in DOMAIN archive /\ n \in DOMAIN archive[k]
      BY <2>1, <2>5, <3>1, <3>2, NextRecordKeeps DEF Sound, GoesThrough
    <3>4. archive[k] \in Seq(Records)
      BY <2>5, <3>3, ArchiveType
    <3>5. archive[k][n] \in Records
      BY <3>3, <3>4
    <3>6. archive[k][n].kind \in {"event", "other"}
      BY <2>1, <2>5, <3>1, <3>5 DEF Damaged, Records, RecordKinds
    <3>7. Wanted(archive[k][n].kind) /\ InWindow(archive[k][n].time)
      BY <2>1, <2>5, <3>1, <3>6 DEF Selected
    <3> QED
      BY <2>5, <3>1, <3>6, <3>7 DEF Asked
  <2>6. CASE job.source = "BRONZE_S3"
    <3>1. \A place \in ToSet(published') : Asked(place)'
      BY <2>1, <2>3, <2>5, <2>6, NextRecordKeeps DEF Sound, GoesThrough
    <3>2. GoesThrough'
      BY <2>1, <2>3, <2>6, <3>1, NextRecordKeeps DEF Sound, GoesThrough
    <3> QED
      BY <2>1, <2>4, <3>2, NextRecordKeeps DEF Sound
  <2>7. CASE job.source # "BRONZE_S3"
    <3>1. GoesThrough'
      BY <2>1, <2>3, <2>7, NextRecordKeeps DEF Sound, GoesThrough
    <3> QED
      BY <2>1, <2>4, <3>1, NextRecordKeeps DEF Sound
  <2> QED
    BY <2>6, <2>7
<1>6. CASE RecordRaises
  <2>1. NextRecord /\ pc' = "failed" /\ published' = published
    BY <1>6 DEF RecordRaises
  <2>2. OneJob'
    BY <2>1, NextRecordKeeps DEF Sound, OneJob, Places
  <2>3. GoesThrough'
    BY <2>1, NextRecordKeeps DEF Sound, GoesThrough
  <2> QED
    BY <2>1, <2>2, <2>3, NextRecordKeeps DEF Sound
<1>7. CASE RecordsDone
  <2>1. /\ keys = {} /\ records = <<>> /\ pc = "records" /\ pc' = "completed"
        /\ UNCHANGED <<job, now, dlq, judged, position, archive, keys, records, published, history>>
    BY <1>7 DEF RecordsDone, Goes, dlqVars, readVars
  <2>2. job.source # "DLQ" /\ ToSet(records) = {}
    BY <2>1 DEF Sound, OneJob, ToSet
  <2>3. TopicGrows' /\ CatchesUp'
    BY <2>1, <2>2 DEF Sound, TopicGrows, CatchesUp
  <2>4. OneJob'
    BY <2>1 DEF Sound, OneJob, Places
  <2>5. /\ BronzeOwed' = BronzeOwed /\ DatabentoOwed' = DatabentoOwed
        /\ \A place : Asked(place)' = Asked(place)
    BY <2>1 DEF BronzeOwed, DatabentoOwed, Returned, Asked, InWindow, Wanted
  <2>6. GoesThrough'
    BY <2>1, <2>2, <2>5 DEF Sound, GoesThrough
  <2> QED
    BY <2>3, <2>4, <2>6 DEF Sound
<1> QED
  BY <1>1, <1>2, <1>3, <1>4, <1>5, <1>6, <1>7 DEF RecordStep

-----------------------------------------------------------------------------

\* A new entry takes nothing from what the job has read, owes or replayed.
LEMMA GrowthSound ==
    ASSUME Sound, job.source = "DLQ", Running, NEW p \in Partitions, NEW entry \in Watched,
           Rejected(p, entry), entry.own => entry.time >= Now, judged' \in Nat,
           UNCHANGED <<job, pc, now, readVars, archive, published, history>>
    PROVE  Sound'
<1>1. \A q \in Partitions :
         /\ dlq[q] \in Seq(Watched) /\ Len(dlq[q]) \in Nat /\ DOMAIN dlq[q] = 1..Len(dlq[q])
         /\ present[q] \in Nat /\ present[q] <= Len(dlq[q])
  BY DEF Sound, TopicGrows
<1>2. /\ DOMAIN dlq = Partitions /\ dlq' \in [Partitions -> Seq(Watched)]
      /\ dlq'[p] = Append(dlq[p], entry) /\ \A q \in Partitions \ {p} : dlq'[q] = dlq[q]
  <2>1. dlq \in [Partitions -> Seq(Watched)] /\ dlq' = [dlq EXCEPT ![p] = Append(@, entry)]
    BY DEF Sound, TopicGrows, Rejected
  <2>2. Append(dlq[p], entry) \in Seq(Watched)
    BY <1>1, AppendElements
  <2> QED
    BY <2>1, <2>2
<1>3. \A q \in Partitions :
         /\ dlq'[q] \in Seq(Watched) /\ Len(dlq'[q]) \in Nat /\ Len(dlq[q]) <= Len(dlq'[q])
         /\ \A o \in DOMAIN dlq[q] : o \in DOMAIN dlq'[q] /\ dlq'[q][o] = dlq[q][o]
         /\ \A o \in DOMAIN dlq'[q] : o \in DOMAIN dlq[q] \/ dlq'[q][o] = entry
  <2>1. /\ Append(dlq[p], entry) \in Seq(Watched)
        /\ Len(Append(dlq[p], entry)) = Len(dlq[p]) + 1
        /\ \A o \in DOMAIN dlq[p] : /\ o \in DOMAIN Append(dlq[p], entry)
                                    /\ Append(dlq[p], entry)[o] = dlq[p][o]
        /\ \A o \in DOMAIN Append(dlq[p], entry) :
              o \in DOMAIN dlq[p] \/ Append(dlq[p], entry)[o] = entry
    <3>1. dlq[p] \in Seq(Watched)
      BY <1>1
    <3>2. \A o \in DOMAIN Append(dlq[p], entry) :
              o \in DOMAIN dlq[p] \/ Append(dlq[p], entry)[o] = entry
      BY <3>1, AppendElements
    <3> QED
      BY <3>1, <3>2, AppendElements
  <2> TAKE q \in Partitions
  <2>2. CASE q = p
    <3>1. Len(dlq'[p]) = Len(dlq[p]) + 1
      BY <1>2, <2>1
    <3>2. Len(dlq'[p]) \in Nat /\ Len(dlq[p]) <= Len(dlq'[p])
      BY <3>1, <1>1
    <3> QED
      BY <2>2, <3>2, <1>2, <2>1
  <2>3. CASE q # p
    BY <2>3, <1>1, <1>2
  <2> QED
    BY <2>2, <2>3
<1>4. /\ \A q \in DOMAIN position : q \in Partitions /\ position[q] \in 1..(Len(dlq[q]) + 1)
      /\ \A place \in ToSet(published) : Replayable(place)
  BY DEF Sound, CatchesUp
<1>5. TopicGrows'
  <2>1. \A q \in Partitions : present[q] <= Len(dlq'[q])
    BY <1>1, <1>3
  <2>2. \A q \in Partitions : \A o \in DOMAIN dlq'[q] : dlq'[q][o].own => dlq'[q][o].time >= Now
    BY <1>3 DEF Sound, TopicGrows
  <2> QED
    BY <1>2, <2>1, <2>2 DEF Sound, TopicGrows
<1>6. OneJob' /\ GoesThrough'
  BY DEF Sound, OneJob, Places, GoesThrough, readVars
<1>7. \A q \in DOMAIN position : position[q] \in 1..(Len(dlq'[q]) + 1)
  BY <1>1, <1>3, <1>4
<1>f. ASSUME NEW q \in Partitions, NEW n, Begun(q, n) PROVE Begun(q, n)'
  <2>1. PICK o \in NotBefore(q) : o <= n
    BY <1>f DEF Begun
  <2>2. o \in DOMAIN dlq[q] /\ dlq[q][o].time >= job.start
    BY <2>1 DEF NotBefore
  <2>a. o \in DOMAIN dlq'[q] /\ dlq'[q][o] = dlq[q][o] /\ job' = job
    BY <2>2, <1>3
  <2>3. o \in NotBefore(q)'
    BY <2>2, <2>a DEF NotBefore
  <2> QED
    BY <2>1, <2>3 DEF Begun
<1>g. ASSUME NEW q \in DOMAIN position PROVE Started(q)'
  <2>1. q \in Partitions /\ Started(q) /\ position' = position
    BY <1>g DEF Sound, CatchesUp, readVars
  <2>2. PICK n : n = position[q]
    OBVIOUS
  <2>3. Begun(q, n)
    BY <2>1, <2>2 DEF Started, Begun
  <2>4. Begun(q, n)'
    BY <2>1, <2>3, <1>f
  <2> QED
    BY <2>1, <2>2, <2>4 DEF Started, Begun
<1>8. ASSUME NEW place \in ToSet(published) PROVE Replayable(place)'
  <2>1. Replayable(place) /\ place[1] \in DOMAIN position
        /\ place[2] \in 1..(position[place[1]] - 1)
    BY <1>4 DEF Replayable
  <2>2. place[1] \in Partitions /\ place[2] \in DOMAIN dlq[place[1]]
    BY <2>1, <1>1, <1>4
  <2>3. dlq'[place[1]][place[2]] = dlq[place[1]][place[2]]
    BY <2>2, <1>3
  <2>4. Begun(place[1], place[2])'
    BY <2>1, <2>2, <1>f DEF Replayable
  <2> QED
    BY <2>1, <2>3, <2>4 DEF Replayable, Wanted, readVars
<1>9. DlqOwed' = DlqOwed
  <2>1. \A q \in Partitions : \A o \in 1..present[q] : dlq'[q][o] = dlq[q][o]
    BY <1>1, <1>3
  <2>2. \A place \in UNION {{q} \X (1..present[q]) : q \in Partitions} :
            dlq'[place[1]][place[2]] = dlq[place[1]][place[2]]
    BY <2>1
  <2> QED
    BY <2>2 DEF DlqOwed, InWindow, Wanted
<1>10. CatchesUp'
  BY <1>4, <1>7, <1>8, <1>9, <1>g DEF Sound, CatchesUp, Running, readVars
<1> QED
  BY <1>5, <1>6, <1>10 DEF Sound

\* What happens to the topic while the job runs keeps the invariant.
LEMMA TrafficSound == ASSUME Sound, Judge \/ LiveReject \/ Tick PROVE Sound'
<1>1. CASE Judge /\ dlq' = dlq
  <2>1. /\ UNCHANGED <<job, pc, now, dlq, readVars, archive, published, history>>
        /\ judged' = judged + 1 /\ judged \in Nat
    BY <1>1 DEF Judge, Sound, OneJob
  <2>2. TopicGrows' /\ OneJob'
    BY <2>1 DEF Sound, TopicGrows, OneJob, Places, readVars
  <2>3. CatchesUp'
    BY <2>1 DEF Sound, CatchesUp, Replayable, Begun, Started, NotBefore, DlqOwed, InWindow, Wanted, BelowCap, readVars
  <2>4. GoesThrough'
    BY <2>1 DEF Sound, GoesThrough, BronzeOwed, DatabentoOwed, Returned, Asked, InWindow, Wanted, readVars
  <2> QED
    BY <2>2, <2>3, <2>4 DEF Sound
<1>2. CASE Judge /\ dlq' # dlq
  <2>1. /\ job.source = "DLQ" /\ Running /\ judged < Len(published) /\ judged' = judged + 1
        /\ UNCHANGED <<job, pc, now, readVars, archive, published, history>>
    BY <1>2 DEF Judge
  <2>2. judged \in Nat /\ published \in Seq(Places)
    BY DEF Sound, OneJob
  <2>3. PICK from : from = published[judged + 1]
    OBVIOUS
  <2>4. from \in ToSet(published)
    BY <2>1, <2>2, <2>3 DEF ToSet
  <2>5. Replayable(from)
    BY <2>1, <2>4 DEF Sound, CatchesUp
  <2>6. dlq[from[1]][from[2]].kind \in EntryKinds
    BY <2>5 DEF Replayable, EntryKinds
  <2>7. PICK p \in Partitions :
           Rejected(p, [time |-> now, kind |-> dlq[from[1]][from[2]].kind, own |-> TRUE])
    BY <1>2, <2>3 DEF Judge
  <2>8. PICK entry : entry = [time |-> now, kind |-> dlq[from[1]][from[2]].kind, own |-> TRUE]
    OBVIOUS
  <2>9. entry \in Watched /\ entry.time >= Now /\ judged' \in Nat
    BY <2>1, <2>2, <2>6, <2>8 DEF Watched, Sound, TopicGrows
  <2> QED
    BY <2>1, <2>7, <2>8, <2>9, GrowthSound
<1>3. CASE LiveReject
  <2>1. /\ job.source = "DLQ" /\ Running
        /\ UNCHANGED <<job, pc, now, judged, readVars, archive, published, history>>
    BY <1>3 DEF LiveReject
  <2>2. PICK p \in Partitions, kind \in {"event", "undecodable"}, late \in 0..1 :
           Rejected(p, [time |-> now - late, kind |-> kind, own |-> FALSE])
    BY <1>3 DEF LiveReject
  <2>3. PICK entry : entry = [time |-> now - late, kind |-> kind, own |-> FALSE]
    OBVIOUS
  <2>4. entry \in Watched /\ ~entry.own
    <3>1. now - late \in Int
      BY DEF Sound, TopicGrows
    <3> QED
      BY <3>1, <2>3 DEF Watched, EntryKinds
  <2>5. judged' \in Nat
    BY <2>1 DEF Sound, OneJob
  <2> QED
    BY <2>1, <2>2, <2>3, <2>4, <2>5, GrowthSound
<1>4. CASE Tick
  <2>1. /\ UNCHANGED <<job, pc, dlq, judged, position, keys, records, archive, published, history>>
        /\ now' = now + 1 /\ now \in Nat /\ now >= Now /\ Now \in Nat
    BY <1>4, ReplayersAssumption DEF Tick, dlqVars, readVars, Sound, TopicGrows
  <2>2. TopicGrows' /\ OneJob'
    BY <2>1 DEF Sound, TopicGrows, OneJob, Places
  <2>3. CatchesUp'
    BY <2>1 DEF Sound, CatchesUp, Replayable, Begun, Started, NotBefore, DlqOwed, InWindow, Wanted, BelowCap
  <2>4. GoesThrough'
    BY <2>1 DEF Sound, GoesThrough, BronzeOwed, DatabentoOwed, Returned, Asked, InWindow, Wanted
  <2> QED
    BY <2>2, <2>3, <2>4 DEF Sound
<1> QED
  BY <1>1, <1>2, <1>3, <1>4

-----------------------------------------------------------------------------

\* A job that has done nothing owes nothing yet.
LEMMA InitSound == Init => Sound
<1> SUFFICES ASSUME Init PROVE Sound
  OBVIOUS
<1>1. ASSUME NEW p \in Partitions
      PROVE  /\ dlq[p] \in Seq(Watched) /\ Len(dlq[p]) \in Nat
             /\ \A o \in DOMAIN dlq[p] : ~dlq[p][o].own
  <2>1. dlq[p] \in Seq(Entries)
    <3>1. CASE job.source = "DLQ"
      BY <3>1, ReplayersAssumption DEF Init
    <3>2. CASE job.source # "DLQ"
      <4>1. dlq = [q \in Partitions |-> <<>>]
        BY <3>2 DEF Init
      <4>2. dlq[p] = <<>>
        BY <4>1
      <4> QED
        BY <4>2
    <3> QED
      BY <3>1, <3>2
  <2>2. /\ Len(dlq[p]) \in Nat /\ dlq[p] \in [1..Len(dlq[p]) -> Entries]
    BY <2>1
  <2>3. ASSUME NEW entry \in Entries PROVE entry \in Watched /\ ~entry.own
    <3>1. entry.time \in Nat /\ entry.kind \in EntryKinds /\ entry.own \in {FALSE}
      BY DEF Entries
    <3>2. entry.own \in BOOLEAN /\ ~entry.own
      <4>1. entry.own = FALSE
        BY <3>1, Zenon
      <4> QED
        BY <4>1, Zenon
    <3>3. entry.time \in Int
      BY <3>1
    <3>4. entry = [time |-> entry.time, kind |-> entry.kind, own |-> entry.own]
      BY DEF Entries
    <3>5. [time |-> entry.time, kind |-> entry.kind, own |-> entry.own] \in Watched
      BY <3>1, <3>2, <3>3 DEF Watched
    <3>6. entry \in Watched
      BY <3>4, <3>5, Zenon
    <3> QED
      BY <3>2, <3>6
  <2>4. dlq[p] \in [1..Len(dlq[p]) -> Watched]
    BY <2>2, <2>3
  <2> QED
    BY <2>2, <2>3, <2>4
<1>2. DOMAIN dlq = Partitions /\ dlq = [p \in Partitions |-> dlq[p]]
  BY ReplayersAssumption DEF Init
<1>3. dlq \in [Partitions -> Seq(Watched)]
  BY <1>1, <1>2
<1>4. TopicGrows
  <2>1. present = [p \in Partitions |-> Len(dlq[p])] /\ now = Now /\ Now \in Nat
    BY ReplayersAssumption DEF Init
  <2>2. \A p \in Partitions : present[p] = Len(dlq[p]) /\ present[p] \in Nat
    BY <1>1, <2>1
  <2>3. present \in [Partitions -> Nat]
    BY <2>1, <2>2
  <2> QED
    BY <1>1, <1>3, <2>1, <2>2, <2>3 DEF TopicGrows
<1>5. OneJob
  BY DEF Init, OneJob, Places, IsInjective
<1>6. CatchesUp /\ GoesThrough
  BY DEF Init, CatchesUp, GoesThrough, NoPartition, ToSet
<1> QED
  BY <1>4, <1>5, <1>6 DEF Sound

\* Every step of the job, and of what goes on around it, keeps the invariant.
LEMMA SoundStep == ASSUME Sound, [Next]_vars PROVE Sound'
<1>1. CASE CallRaises
  BY <1>1, Unmoved DEF CallRaises
<1>2. CASE UNCHANGED vars
  BY <1>2, Unmoved DEF vars
<1> QED
  BY <1>1, <1>2, DlqSound, RecordSound, TrafficSound DEF Next, JobStep

\* Whatever the topic, the archive and Databento hold, and whatever is rejected
\* while the job runs: it replays nothing twice and nothing it was not asked for -
\* from the DLQ that includes entries from before the start that lie behind one
\* that is not - and one that completes has replayed all it owes.
THEOREM JobsReplayTheirWindow == Spec => []ReplaysItsWindow
<1>1. Sound => ReplaysItsWindow
  <2> SUFFICES ASSUME Sound PROVE ReplaysItsWindow
    OBVIOUS
  <2>1. \A n \in DOMAIN published : Times(published[n]) = 1
    BY OnceEach DEF Sound, OneJob
  <2>2. job.source \in {"DLQ", "BRONZE_S3", "DATABENTO_HISTORICAL"}
    BY ReplayersAssumption DEF Sound, OneJob
  <2>3. ASSUME job.source = "DLQ", NEW place \in ToSet(published) PROVE Asked(place)
    <3>1. Replayable(place) /\ place[1] \in Partitions
      BY <2>3 DEF Sound, CatchesUp, Replayable
    <3>2. PICK o \in NotBefore(place[1]) : o <= place[2]
      BY <3>1 DEF Replayable, Begun
    <3>3. dlq[place[1]] \in Seq(Watched) /\ o \in DOMAIN dlq[place[1]]
      BY <3>1, <3>2 DEF Sound, TopicGrows, NotBefore
    <3>4. place[2] \in Nat /\ o \in Nat \ {0}
      <4>1. position[place[1]] \in 1..(Len(dlq[place[1]]) + 1)
        BY <2>3, <3>1 DEF Sound, CatchesUp, Replayable
      <4> QED
        BY <4>1, <3>1, <3>3 DEF Replayable
    <3>5. o \in 1..place[2] /\ dlq[place[1]][o].time >= job.start
      BY <3>2, <3>4 DEF NotBefore
    <3>6. \E n \in 1..place[2] : dlq[place[1]][n].time >= job.start
      BY <3>5
    <3> QED
      BY <2>3, <3>1, <3>6 DEF Asked, Replayable
  <2>4. ASSUME job.source = "BRONZE_S3", NEW place \in ToSet(published) PROVE Asked(place)
    BY <2>4 DEF Sound, GoesThrough
  <2>5. ASSUME job.source = "DATABENTO_HISTORICAL", NEW place \in ToSet(published)
        PROVE  Asked(place)
    BY <2>5 DEF Sound, GoesThrough, Asked
  <2>6. \A place \in ToSet(published) : Asked(place)
    BY <2>2, <2>3, <2>4, <2>5
  <2>7. job.source = "DLQ" /\ pc = "completed" /\ BelowCap => DlqOwed \subseteq ToSet(published)
    BY DEF Sound, CatchesUp
  <2>8. job.source = "BRONZE_S3" /\ pc = "completed" /\ job.start % HourLength = 0
           => BronzeOwed \subseteq ToSet(published)
    BY DEF Sound, GoesThrough
  <2>9. job.source = "DATABENTO_HISTORICAL" /\ pc = "completed"
           => DatabentoOwed \subseteq ToSet(published)
    BY DEF Sound, GoesThrough
  <2> QED
    BY <2>1, <2>6, <2>7, <2>8, <2>9 DEF ReplaysItsWindow
<1> QED
  BY <1>1, InitSound, SoundStep, PTL DEF Spec
=============================================================================
