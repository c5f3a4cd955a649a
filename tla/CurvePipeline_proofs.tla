------------------------ MODULE CurvePipeline_proofs ------------------------
(***************************************************************************)
(* What holds of the way from a validated event to Redis, for every number *)
(* of replicas, providers, curves and messages: that versions are unique,  *)
(* that the history holds the most recent events, that a committed price   *)
(* is not replaced by an earlier one, that the snapshot follows the hash,  *)
(* and that relative tenors agree with the calendar.                       *)
(*                                                                         *)
(* The strengthening of each says what is under way: the version a replica *)
(* has drawn and not sent, the offsets a writer has read and not           *)
(* committed, the hash it has read and not yet written back.               *)
(***************************************************************************)
EXTENDS CurvePipeline, TenorCalendar, TLAPS, FiniteSetTheorems

-----------------------------------------------------------------------------
(* The calendar: the arithmetic of relative tenors agrees with it from     *)
(* every month and for every number of months or quarters, which the run   *)
(* checks from two months and for a year.                                  *)

\* Division by twelve, and by four: the quotient and the remainder are the only
\* ones there are.
LEMMA DivideByTwelve ==
    ASSUME NEW k \in Nat
    PROVE  /\ k \div 12 \in Nat /\ k % 12 \in 0..11
           /\ k = 12 * (k \div 12) + (k % 12)
    OBVIOUS

LEMMA TwelfthIsUnique ==
    ASSUME NEW q \in Nat, NEW r \in 0..11, NEW k \in Nat, k = 12 * q + r
    PROVE  k \div 12 = q /\ k % 12 = r
    OBVIOUS

LEMMA FourthIsUnique ==
    ASSUME NEW q \in Nat, NEW r \in 0..3, NEW k \in Nat, k = 4 * q + r
    PROVE  k \div 4 = q /\ k % 4 = r
    OBVIOUS

LEMMA QuarterOfRecord ==
    ASSUME NEW y, NEW m
    PROVE  QuarterOf([year |-> y, month |-> m])
             = [year |-> y, quarter |-> (m - 1) \div 3 + 1]
    BY DEF QuarterOf

\* M+n is a month of the calendar: no month number 0 or 13 at the end of a year
\* (TenorMapper, tenor_mapper.py:138).
THEOREM MonthsForwardIsAMonth ==
    ASSUME NEW from \in Months, NEW n \in Nat
    PROVE  MonthsForward(from, n) \in Months
    BY DivideByTwelve DEF MonthsForward, Months

\* M+0 is the month it is said in.
THEOREM NoMonthsForward ==
    ASSUME NEW from \in Months
    PROVE  MonthsForward(from, 0) = from
    BY DivideByTwelve DEF MonthsForward, Months

\* M+(n+1) is the month after M+n: with NoMonthsForward, M+n is n times the next
\* month.
THEOREM OneMonthFurther ==
    ASSUME NEW from \in Months, NEW n \in Nat
    PROVE  MonthsForward(from, n + 1) = NextMonth(MonthsForward(from, n))
<1> DEFINE k == from.month - 1 + n
           q == k \div 12
           r == k % 12
<1>1. /\ from.year \in Nat /\ k \in Nat /\ q \in Nat /\ r \in 0..11
      /\ k = 12 * q + r
    <2>1. from.year \in Nat /\ k \in Nat
        BY DEF Months
    <2> HIDE DEF k
    <2>2. QED
        BY <2>1, DivideByTwelve
<1>2. MonthsForward(from, n) = [year |-> from.year + q, month |-> r + 1]
    BY DEF MonthsForward
<1>3. MonthsForward(from, n + 1)
        = [year |-> from.year + (k + 1) \div 12, month |-> ((k + 1) % 12) + 1]
    <2>1. from.month - 1 + (n + 1) = k + 1
        BY DEF Months
    <2>2. QED
        BY <2>1 DEF MonthsForward
<1> HIDE DEF k, q, r
<1>4. CASE r = 11
    <2>1. (k + 1) \div 12 = q + 1 /\ (k + 1) % 12 = 0
        <3>1. k + 1 = 12 * (q + 1) + 0
            BY <1>1, <1>4
        <3>2. QED
            BY <1>1, <3>1, TwelfthIsUnique
    <2>2. QED
        BY <1>1, <1>2, <1>3, <1>4, <2>1 DEF NextMonth
<1>5. CASE r # 11
    <2>1. (k + 1) \div 12 = q /\ (k + 1) % 12 = r + 1
        <3>1. k + 1 = 12 * q + (r + 1) /\ r + 1 \in 0..11
            BY <1>1, <1>5
        <3>2. QED
            BY <1>1, <3>1, TwelfthIsUnique
    <2>2. QED
        BY <1>1, <1>2, <1>3, <1>5, <2>1 DEF NextMonth
<1>6. QED
    BY <1>4, <1>5

\* A tenor M+(n+1) said in one month and M+n said in the next are one tenor.
THEOREM TenorsRollForward ==
    ASSUME NEW from \in Months, NEW n \in Nat
    PROVE  MonthsForward(NextMonth(from), n) = MonthsForward(from, n + 1)
    BY DivideByTwelve DEF MonthsForward, NextMonth, Months

\* Q+n is the quarter of M+3n.
THEOREM QuartersAreThreeMonths ==
    ASSUME NEW from \in Months, NEW n \in Nat
    PROVE  QuartersForward(from, n) = QuarterOf(MonthsForward(from, 3 * n))
<1> DEFINE k == from.month - 1
           h == k \div 3
           q == (h + n) \div 4
           r == (h + n) % 4
<1>1. from.year \in Nat /\ k \in 0..11 /\ h \in 0..3 /\ k - 3 * h \in 0..2
    BY DEF Months
<1>2. q \in Nat /\ r \in 0..3 /\ h + n = 4 * q + r
    BY <1>1
<1>3. QuartersForward(from, n) = [year |-> from.year + q, quarter |-> r + 1]
    BY DEF QuartersForward
<1> HIDE DEF k, h, q, r
<1>4. k + 3 * n = 12 * q + (3 * r + (k - 3 * h)) /\ 3 * r + (k - 3 * h) \in 0..11
    BY <1>1, <1>2
<1>5. (k + 3 * n) \div 12 = q /\ (k + 3 * n) % 12 = 3 * r + (k - 3 * h)
    <2>1. k + 3 * n \in Nat
        BY <1>1
    <2>2. QED
        BY <1>1, <1>2, <1>4, <2>1, TwelfthIsUnique
<1> DEFINE y == from.year + q
           m == 3 * r + (k - 3 * h) + 1
<1>6. (m - 1) \div 3 = r
    BY <1>1, <1>2
<1>7. MonthsForward(from, 3 * n) = [year |-> y, month |-> m]
    BY <1>5 DEF MonthsForward, k
<1>8. QuartersForward(from, n) = [year |-> y, quarter |-> (m - 1) \div 3 + 1]
    BY <1>3, <1>6
<1> HIDE DEF y, m
<1>9. QED
    BY <1>7, <1>8, QuarterOfRecord

-----------------------------------------------------------------------------
(* The variables, and what is under way.                                   *)

Tenors == {Canonical(raw, m) : raw \in RawTenors, m \in Months} \ {NoTenor}
Events == [source : Sources \X Nat, instrument : Instruments, tenor : Tenors,
           time : Nat, version : Nat, life : Nat]

\* The normalizers and the topic.
Typed ==
    /\ today \in Months
    /\ position \in [Sources -> Nat \ {0}] /\ committed \in [Sources -> Nat \ {0}]
    /\ pc \in [Replicas -> {"poll", "version", "produce", "commit"}]
    /\ current \in [Replicas -> {<<>>} \cup (Sources \X Nat)]
    /\ \A r \in Replicas : pc[r] # "poll" => current[r] \in Sources \X Nat
    /\ event \in [Replicas -> {N!NoEvent} \cup Events]
    /\ \A r \in Replicas : pc[r] \in {"version", "produce"} => event[r] \in Events
    /\ versions \in [Curves -> Nat] /\ lapses \in [Curves -> Nat]
    /\ queue \in [Replicas -> Seq(Events)]
    /\ normalized \in [Curves -> Seq(Events)]

\* The places a curve event of c can be: the topic, a queue, the hands of a replica
\* that has its version.
InTopic(c) == 1..Len(normalized[c])
InQueue(c, r) == {k \in 1..Len(queue[r]) : N!PartitionOf(queue[r][k]) = c}
InHand(c, r) == pc[r] = "produce" /\ N!PartitionOf(event[r]) = c

\* The version of each is one its life of the counter has passed, and no two are the
\* same in one life.
Number(e) == <<e.life, e.version>>
Issued(e, life, version) == e.life < life \/ (e.life = life /\ e.version <= version)

Numbered(c) ==
    /\ \A k \in InTopic(c) : Issued(normalized[c][k], lapses[c], versions[c])
    /\ \A r \in Replicas : \A k \in InQueue(c, r) : Issued(queue[r][k], lapses[c], versions[c])
    /\ \A r \in Replicas : InHand(c, r) => Issued(event[r], lapses[c], versions[c])
Distinct(c) ==
    /\ \A j, k \in InTopic(c) :
          Number(normalized[c][j]) = Number(normalized[c][k]) => j = k
    /\ \A j \in InTopic(c), r \in Replicas : \A k \in InQueue(c, r) :
          Number(normalized[c][j]) # Number(queue[r][k])
    /\ \A j \in InTopic(c), r \in Replicas :
          InHand(c, r) => Number(normalized[c][j]) # Number(event[r])
    /\ \A r, s \in Replicas : \A j \in InQueue(c, r), k \in InQueue(c, s) :
          Number(queue[r][j]) = Number(queue[s][k]) => r = s /\ j = k
    /\ \A r, s \in Replicas : \A j \in InQueue(c, r) :
          InHand(c, s) => Number(queue[r][j]) # Number(event[s])
    /\ \A r, s \in Replicas :
          InHand(c, r) /\ InHand(c, s) /\ Number(event[r]) = Number(event[s]) => r = s

-----------------------------------------------------------------------------

\* The entries of the topic, and the writers.
Entries == {entry \in Curves \X Nat : entry[2] \in 1..Len(normalized[entry[1]])}
Busy(w) == wPc[w] # "poll"
Tenor(entry) == W!EventAt(entry).tenor

InPartition == \A c \in Curves : \A o \in 1..Len(normalized[c]) :
                  N!PartitionOf(normalized[c][o]) = c

WTyped ==
    /\ wOwner \in [Curves -> Writers]
    /\ wCommitted \in [Curves -> Nat] /\ wPosition \in [Curves -> Nat]
    /\ \A c \in Curves : /\ wCommitted[c] \in 1..Len(normalized[c]) + 1
                         /\ wPosition[c] \in 1..Len(normalized[c]) + 1
    /\ wPc \in [Writers -> {"poll", "write", "assemble", "set", "commit"}]
    /\ wCurrent = [w \in Writers |-> wCurrent[w]]
    /\ \A w \in Writers : Busy(w) => wCurrent[w] \in Entries
    /\ wRead = [w \in Writers |-> wRead[w]]
    /\ latest = [i \in Instruments |-> latest[i]]
    /\ history = [i \in Instruments |-> history[i]]
    /\ snapshot = [i \in Instruments |-> snapshot[i]]
    /\ {troubles, wRebalances} \subseteq Nat
    /\ applied \subseteq Entries /\ IsFiniteSet(applied)

\* While no partition changes hands, a writer is busy with what its partition's owner
\* read last, and everything else that was read is committed or failed.
Held(w) ==
    LET c == wCurrent[w][1]
    IN wOwner[c] = w /\ wCurrent[w][2] = wPosition[c] - 1 /\ wCommitted[c] < wPosition[c]
Settled(c, o) == <<c, o>> \in failed \/ \E w \in Writers : Busy(w) /\ wCurrent[w] = <<c, o>>
InStep ==
    /\ \A c \in Curves : wCommitted[c] <= wPosition[c]
    /\ \A w \in Writers : Busy(w) => Held(w)
    /\ \A c \in Curves : \A o \in wCommitted[c]..(wPosition[c] - 1) : Settled(c, o)

\* A price is under its own instrument and tenor.
InPlace ==
    \A i \in Instruments : \A t \in DOMAIN latest[i] :
        LET entry == latest[i][t]
        IN entry \in Entries /\ W!EventAt(entry).instrument = i /\ Tenor(entry) = t

\* It is not earlier than a committed one; and from the transaction to the commit it
\* is the message's.
NotBefore(c, o) ==
    LET e == normalized[c][o]
    IN e.tenor \in DOMAIN latest[e.instrument] /\ latest[e.instrument][e.tenor][2] >= o
Fresh(w) ==
    /\ Tenor(wCurrent[w]) \in DOMAIN latest[W!Instrument(w)]
    /\ latest[W!Instrument(w)][Tenor(wCurrent[w])] = wCurrent[w]
Stick ==
    /\ \A c \in Curves : \A o \in 1..(wCommitted[c] - 1) : <<c, o>> \notin failed => NotBefore(c, o)
    /\ \A w \in Writers : wPc[w] \in {"assemble", "set", "commit"} => Fresh(w)

\* A snapshot that is not the hash is about to be set, or the hash about to be read;
\* a hash that was read is still what it was.
EnoughTenors(i) == W!Cardinality(DOMAIN latest[i]) >= MinTenors
Follows(w) ==
    /\ wPc[w] = "set" => wRead[w] = latest[W!Instrument(w)]
    /\ \A i \in Instruments : EnoughTenors(i) /\ snapshot[i] # latest[i] =>
          wPc[w] \in {"assemble", "set"} /\ W!Instrument(w) = i
SnapshotFollows ==
    troubles = 0 =>
        /\ \A w \in Writers : Busy(w) => wOwner[wCurrent[w][1]] = w
        /\ \A w \in Writers : W!SoleWriter(w) => Follows(w)

-----------------------------------------------------------------------------

\* The services' calendar is the calendar.
LEMMA SameCalendar ==
    /\ \A raw, m : N!Canonical(raw, m) = Canonical(raw, m)
    /\ N!NoTenor = NoTenor
    /\ \A m : N!NextMonth(m) = NextMonth(m)
<1>1. \A m, n : N!MonthsForward(m, n) = MonthsForward(m, n)
  BY DEF N!MonthsForward, MonthsForward
<1>2. \A m, n : N!QuartersForward(m, n) = QuartersForward(m, n)
  BY DEF N!QuartersForward, QuartersForward
<1>3. \A raw : N!Year(raw) = Year(raw)
  BY DEF N!Year, Year, N!ExpandTwoDigits, ExpandTwoDigits
<1>4. N!NoTenor = NoTenor
  BY DEF N!NoTenor, NoTenor
<1>5. \A m : N!NextMonth(m) = NextMonth(m)
  BY DEF N!NextMonth, NextMonth
<1>6. ASSUME NEW raw, NEW m PROVE N!Canonical(raw, m) = Canonical(raw, m)
  BY <1>1, <1>2, <1>3, <1>4 DEF N!Canonical, Canonical
<1> QED
  BY <1>4, <1>5, <1>6

\* A tenor has a period, and an event a curve.
LEMMA EventsHaveCurves == ASSUME NEW e \in Events PROVE N!PartitionOf(e) \in Curves
<1>1. ASSUME NEW raw, NEW m, Canonical(raw, m) # NoTenor
      PROVE  Canonical(raw, m).period \in Periods
  BY <1>1 DEF Canonical, Periods
<1>2. e.tenor \in Tenors /\ e.instrument \in Instruments
  BY DEF Events
<1>3. e.tenor.period \in Periods
  BY <1>1, <1>2 DEF Tenors
<1>4. CurveOf \in [Instruments \X Periods -> Curves]
  BY PipelineAssumption
<1> QED
  BY <1>2, <1>3, <1>4 DEF N!PartitionOf

\* What a normalizer polls is a message of its partition.
LEMMA Messages ==
    ASSUME NEW p \in Sources, NEW o \in Nat \ {0}, o <= Len(Validated[p])
    PROVE  /\ Validated[p][o].time \in Nat /\ Validated[p][o].instrument \in Instruments
           /\ Validated[p][o].tenor \in RawTenors
<1> DEFINE M == [usable : BOOLEAN, time : Nat, instrument : Instruments,
                 tenor : RawTenors]
<1>1. Validated[p] \in Seq(M)
  BY PipelineAssumption
<1> HIDE DEF M
<1>2. o \in 1..Len(Validated[p])
  BY <1>1
<1>3. Validated[p][o] \in M
  BY <1>1, <1>2
<1> QED
  BY <1>3 DEF M

\* A month after a month is a month.
LEMMA NextIsAMonth == ASSUME NEW m \in Months PROVE NextMonth(m) \in Months
BY DEF NextMonth, Months

\* Putting an event into the topic leaves it a topic of events, and what was in
\* it stays where it was.
LEMMA WithProperties ==
    ASSUME normalized \in [Curves -> Seq(Events)], NEW e \in Events
    PROVE  /\ N!With(e) \in [Curves -> Seq(Events)]
           /\ \A c \in Curves : N!PartitionOf(e) # c => N!With(e)[c] = normalized[c]
           /\ \A c \in Curves : N!PartitionOf(e) = c =>
                 /\ Len(N!With(e)[c]) = Len(normalized[c]) + 1
                 /\ N!With(e)[c][Len(normalized[c]) + 1] = e
                 /\ \A k \in 1..Len(normalized[c]) : N!With(e)[c][k] = normalized[c][k]
<1>1. ASSUME NEW c \in Curves
      PROVE  N!With(e)[c] = IF N!PartitionOf(e) = c THEN Append(normalized[c], e) ELSE normalized[c]
  BY DEF N!With
<1>2. \A c \in Curves : normalized[c] \in Seq(Events)
  OBVIOUS
<1>3. ASSUME NEW c \in Curves PROVE N!With(e)[c] \in Seq(Events)
  <2>1. normalized[c] \in Seq(Events) /\ Append(normalized[c], e) \in Seq(Events)
    BY <1>2
  <2> QED
    BY <1>1, <2>1
<1>4. N!With(e) \in [Curves -> Seq(Events)]
  BY <1>3 DEF N!With
<1>5. ASSUME NEW c \in Curves, N!PartitionOf(e) = c
      PROVE  /\ Len(N!With(e)[c]) = Len(normalized[c]) + 1
             /\ N!With(e)[c][Len(normalized[c]) + 1] = e
             /\ \A k \in 1..Len(normalized[c]) : N!With(e)[c][k] = normalized[c][k]
  <2>1. N!With(e)[c] = Append(normalized[c], e)
    BY <1>1, <1>5
  <2> QED
    BY <1>2, <2>1
<1> QED
  BY <1>1, <1>4, <1>5

\* The steps of the services, by what they leave alone.
NormalizerMoves == (Normalizes \/ N!Incident \/ N!MonthEnds(LastMonth)) /\ UNCHANGED writerVars
WriterMoves == (Writes \/ W!WIncident) /\ UNCHANGED <<normalizerVars, normalized>>

\* A replica keeps to its message and its event.
LEMMA TypedStep == ASSUME Typed, [Next]_vars PROVE Typed'
<1> USE DEF Typed, N!groupVars, N!replicaVars, N!counterVars
<1>1. CASE WriterMoves \/ UNCHANGED vars
  BY <1>1 DEF WriterMoves, vars, normalizerVars
<1>2. ASSUME NEW r \in Replicas, NEW p \in Sources, N!Poll(r, p) PROVE Typed'
  <2> DEFINE message == Validated[p][position[p]]
             tenor == Canonical(message.tenor, today)
  <2>1. position[p] \in Nat \ {0} /\ position[p] <= Len(Validated[p])
    BY <1>2 DEF N!Poll
  <2>2. /\ message.time \in Nat /\ message.instrument \in Instruments
        /\ message.tenor \in RawTenors
    BY <2>1, Messages
  <2>3. tenor # NoTenor => tenor \in Tenors
    BY <2>2 DEF Tenors
  <2>4. /\ position' = [position EXCEPT ![p] = @ + 1]
        /\ current' = [current EXCEPT ![r] = <<p, position[p]>>]
        /\ UNCHANGED <<today, committed, versions, lapses, queue, normalized>>
    BY <1>2 DEF N!Poll
  <2>5. position' \in [Sources -> Nat \ {0}]
    BY <2>1, <2>4
  <2>6. current' \in [Replicas -> {<<>>} \cup (Sources \X Nat)] /\ current'[r] \in Sources \X Nat
    BY <2>1, <2>4
  <2>7. CASE message.usable /\ tenor # NoTenor
    <3> DEFINE e == [source |-> <<p, position[p]>>, instrument |-> message.instrument,
                     tenor |-> tenor, time |-> message.time, version |-> 0, life |-> 0]
    <3>1. pc' = [pc EXCEPT ![r] = "version"] /\ event' = [event EXCEPT ![r] = e]
      BY <1>2, <2>7, SameCalendar DEF N!Poll, N!Goes
    <3>2. e \in Events
      BY <2>1, <2>2, <2>3, <2>7 DEF Events
    <3> HIDE DEF e, message, tenor
    <3>3. event' \in [Replicas -> {N!NoEvent} \cup Events] /\ event'[r] \in Events
      BY <3>1, <3>2
    <3>4. pc' \in [Replicas -> {"poll", "version", "produce", "commit"}]
      BY <3>1
    <3>5. \A s \in Replicas : pc'[s] # "poll" => current'[s] \in Sources \X Nat
      BY <2>4, <2>6, <3>1
    <3>6. \A s \in Replicas : pc'[s] \in {"version", "produce"} => event'[s] \in Events
      BY <3>1, <3>3
    <3> QED
      BY <2>4, <2>5, <2>6, <3>3, <3>4, <3>5, <3>6
  <2>8. CASE ~(message.usable /\ tenor # NoTenor)
    <3>1. pc' = [pc EXCEPT ![r] = "commit"] /\ event' = event
      BY <1>2, <2>8, SameCalendar DEF N!Poll, N!Goes
    <3> HIDE DEF message, tenor
    <3>2. pc' \in [Replicas -> {"poll", "version", "produce", "commit"}]
      BY <3>1
    <3>3. \A s \in Replicas : pc'[s] # "poll" => current'[s] \in Sources \X Nat
      BY <2>4, <2>6, <3>1
    <3>4. \A s \in Replicas : pc'[s] \in {"version", "produce"} => event'[s] \in Events
      BY <3>1
    <3> QED
      BY <2>4, <2>5, <2>6, <3>1, <3>2, <3>3, <3>4
  <2> QED
    BY <2>7, <2>8
<1>3. ASSUME NEW r \in Replicas, N!NextVersion(r) PROVE Typed'
  <2>1. /\ pc[r] = "version" /\ pc' = [pc EXCEPT ![r] = "produce"]
        /\ event' = [event EXCEPT ![r].version = versions[N!Curve(r)] + 1,
                                  ![r].life = lapses[N!Curve(r)]]
        /\ versions' = [versions EXCEPT ![N!Curve(r)] = @ + 1]
        /\ UNCHANGED <<today, position, committed, current, lapses, queue, normalized>>
    BY <1>3 DEF N!NextVersion, N!Goes
  <2>2. event[r] \in Events /\ N!Curve(r) \in Curves
    BY <2>1, EventsHaveCurves DEF N!Curve, N!PartitionOf
  <2>3. versions[N!Curve(r)] + 1 \in Nat /\ lapses[N!Curve(r)] \in Nat
    BY <2>2
  <2> DEFINE v == versions[N!Curve(r)] + 1
             l == lapses[N!Curve(r)]
  <2>4. [event[r] EXCEPT !.version = v, !.life = l] \in Events
    BY <2>2, <2>3 DEF Events
  <2>5. event' \in [Replicas -> {N!NoEvent} \cup Events] /\ event'[r] \in Events
    BY <2>1, <2>4
  <2>6. versions' \in [Curves -> Nat]
    BY <2>1, <2>2, <2>3
  <2>7. pc' \in [Replicas -> {"poll", "version", "produce", "commit"}]
    BY <2>1
  <2>8. \A s \in Replicas : pc'[s] # "poll" => current'[s] \in Sources \X Nat
    BY <2>1
  <2>9. \A s \in Replicas : pc'[s] \in {"version", "produce"} => event'[s] \in Events
    BY <2>1, <2>5
  <2> QED
    BY <2>1, <2>5, <2>6, <2>7, <2>8, <2>9
<1>4. ASSUME NEW r \in Replicas, N!NextVersionRaises(r) PROVE Typed'
  <2>1. /\ pc[r] = "version" /\ pc' = [pc EXCEPT ![r] = "commit"]
        /\ versions' \in {versions, [versions EXCEPT ![N!Curve(r)] = @ + 1]}
        /\ UNCHANGED <<today, position, committed, current, event, lapses, queue, normalized>>
    BY <1>4 DEF N!NextVersionRaises, N!Goes
  <2>2. event[r] \in Events /\ N!Curve(r) \in Curves
    BY <2>1, EventsHaveCurves DEF N!Curve, N!PartitionOf
  <2>3. versions' \in [Curves -> Nat]
    <3>1. versions \in [Curves -> Nat]
      OBVIOUS
    <3> DEFINE c == N!Curve(r)
    <3>2. [versions EXCEPT ![c] = @ + 1] \in [Curves -> Nat]
      <4>1. versions[c] + 1 \in Nat
        BY <2>2, <3>1
      <4> HIDE DEF c
      <4> QED
        BY <3>1, <4>1
    <3> QED
      BY <2>1, <3>1, <3>2
  <2>4. pc' \in [Replicas -> {"poll", "version", "produce", "commit"}]
    BY <2>1
  <2> QED
    BY <2>1, <2>3, <2>4
<1>5. ASSUME NEW r \in Replicas, N!Produce(r) \/ N!ProduceRaises(r) PROVE Typed'
  <2>1. /\ pc[r] = "produce" /\ pc' = [pc EXCEPT ![r] = "commit"]
        /\ queue' \in {queue, [queue EXCEPT ![r] = Append(@, event[r])]}
        /\ UNCHANGED <<today, position, committed, current, event, versions, lapses, normalized>>
    BY <1>5 DEF N!Produce, N!ProduceRaises, N!Goes
  <2>2. event[r] \in Events /\ queue[r] \in Seq(Events)
    BY <2>1
  <2>3. Append(queue[r], event[r]) \in Seq(Events)
    BY <2>2
  <2>4. queue' \in [Replicas -> Seq(Events)]
    BY <2>1, <2>3
  <2>5. pc' \in [Replicas -> {"poll", "version", "produce", "commit"}]
    BY <2>1
  <2> QED
    BY <2>1, <2>4, <2>5
<1>6. ASSUME NEW r \in Replicas, N!Commit(r) PROVE Typed'
  <2>1. /\ pc[r] = "commit" /\ pc' = [pc EXCEPT ![r] = "poll"]
        /\ committed' = [committed EXCEPT ![current[r][1]] = current[r][2] + 1]
        /\ current' = [current EXCEPT ![r] = <<>>]
        /\ event' = [event EXCEPT ![r] = N!NoEvent]
        /\ UNCHANGED <<today, position, versions, lapses, queue, normalized>>
    BY <1>6 DEF N!Commit, N!Forgets, N!NoMessage
  <2>2. current[r] \in Sources \X Nat
    BY <2>1
  <2>3. current[r][1] \in Sources /\ current[r][2] + 1 \in Nat \ {0}
    BY <2>2
  <2>4. committed' \in [Sources -> Nat \ {0}]
    BY <2>1, <2>3
  <2>5. pc' \in [Replicas -> {"poll", "version", "produce", "commit"}]
    BY <2>1
  <2>6. current' \in [Replicas -> {<<>>} \cup (Sources \X Nat)]
    BY <2>1
  <2>7. event' \in [Replicas -> {N!NoEvent} \cup Events]
    BY <2>1
  <2>8. \A s \in Replicas : /\ pc'[s] # "poll" => current'[s] \in Sources \X Nat
                            /\ pc'[s] \in {"version", "produce"} => event'[s] \in Events
    BY <2>1
  <2> QED
    BY <2>1, <2>4, <2>5, <2>6, <2>7, <2>8
<1>7. ASSUME NEW r \in Replicas, N!Deliver(r) PROVE Typed'
  <2>1. /\ queue[r] # <<>> /\ queue' = [queue EXCEPT ![r] = Tail(@)]
        /\ normalized' = N!With(Head(queue[r]))
        /\ UNCHANGED <<today, position, committed, pc, current, event, versions, lapses>>
    BY <1>7 DEF N!Deliver
  <2>2. Head(queue[r]) \in Events /\ Tail(queue[r]) \in Seq(Events)
    BY <2>1
  <2>3. normalized' \in [Curves -> Seq(Events)]
    BY <2>1, <2>2, WithProperties
  <2>4. queue' \in [Replicas -> Seq(Events)]
    BY <2>1, <2>2
  <2> QED
    BY <2>1, <2>3, <2>4
<1>8. ASSUME NEW r \in Replicas, N!Ends(r) PROVE Typed'
  <2>1. /\ pc' = [pc EXCEPT ![r] = "poll"]
        /\ current' = [current EXCEPT ![r] = <<>>]
        /\ event' = [event EXCEPT ![r] = N!NoEvent]
        /\ queue' = [queue EXCEPT ![r] = <<>>]
        /\ position' = [p \in Sources |-> IF owner[p] = r THEN committed[p] ELSE position[p]]
        /\ UNCHANGED <<today, committed, versions, lapses, normalized>>
    BY <1>8 DEF N!Ends, N!Restarts, N!Forgets, N!NoMessage
  <2>2. position' \in [Sources -> Nat \ {0}]
    BY <2>1
  <2>3. pc' \in [Replicas -> {"poll", "version", "produce", "commit"}]
    BY <2>1
  <2>4. current' \in [Replicas -> {<<>>} \cup (Sources \X Nat)]
    BY <2>1
  <2>5. event' \in [Replicas -> {N!NoEvent} \cup Events]
    BY <2>1
  <2>6. queue' \in [Replicas -> Seq(Events)]
    BY <2>1
  <2>7. \A s \in Replicas : /\ pc'[s] # "poll" => current'[s] \in Sources \X Nat
                            /\ pc'[s] \in {"version", "produce"} => event'[s] \in Events
    BY <2>1
  <2> QED
    BY <2>1, <2>2, <2>3, <2>4, <2>5, <2>6, <2>7
<1>9. ASSUME NEW p \in Sources, N!Rebalance(p) PROVE Typed'
  <2>1. /\ position' = [position EXCEPT ![p] = committed[p]]
        /\ UNCHANGED <<today, committed, pc, current, event, versions, lapses, queue, normalized>>
    BY <1>9 DEF N!Rebalance
  <2>2. position' \in [Sources -> Nat \ {0}]
    BY <2>1
  <2> QED
    BY <2>1, <2>2
<1>10. CASE N!MonthEnds(LastMonth)
  <2>1. today' = NextMonth(today) /\ UNCHANGED <<position, committed, pc, current, event,
                                                 versions, lapses, queue, normalized>>
    BY <1>10, SameCalendar DEF N!MonthEnds
  <2>2. today' \in Months
    BY <2>1, NextIsAMonth
  <2> QED
    BY <2>1, <2>2
<1>11. ASSUME NEW c \in Curves, N!CounterLapses(c) PROVE Typed'
  <2>1. /\ versions' = [versions EXCEPT ![c] = 0] /\ lapses' = [lapses EXCEPT ![c] = @ + 1]
        /\ UNCHANGED <<today, position, committed, pc, current, event, queue, normalized>>
    BY <1>11 DEF N!CounterLapses
  <2>2. versions' \in [Curves -> Nat] /\ lapses' \in [Curves -> Nat]
    BY <2>1
  <2> QED
    BY <2>1, <2>2
<1>12. ASSUME NEW r \in Replicas, N!DeliveryFails(r) PROVE Typed'
  <2>1. /\ queue[r] # <<>> /\ queue' = [queue EXCEPT ![r] = Tail(@)]
        /\ UNCHANGED <<today, position, committed, pc, current, event, versions, lapses,
                       normalized>>
    BY <1>12 DEF N!DeliveryFails
  <2>2. Tail(queue[r]) \in Seq(Events)
    BY <2>1
  <2>3. queue' \in [Replicas -> Seq(Events)]
    BY <2>1, <2>2
  <2> QED
    BY <2>1, <2>3
<1> QED
  BY <1>1, <1>2, <1>3, <1>4, <1>5, <1>6, <1>7, <1>8, <1>9, <1>10, <1>11, <1>12
     DEF Next, Normalizes, N!Step, N!Incident, N!Crash, N!CommitRefused, WriterMoves

-----------------------------------------------------------------------------

\* What a step does to the versions: a replica draws the next one, puts its event
\* into its queue, the head of a queue goes to the topic or is dropped, or some are
\* forgotten while the counters advance.
Passes(version, life, version2, life2) ==
    life < life2 \/ (life = life2 /\ version <= version2)
Draws(r) ==
    /\ pc[r] = "version" /\ pc' = [pc EXCEPT ![r] = "produce"]
    /\ event' = [event EXCEPT ![r].version = versions[N!Curve(r)] + 1,
                              ![r].life = lapses[N!Curve(r)]]
    /\ versions' = [versions EXCEPT ![N!Curve(r)] = @ + 1]
    /\ UNCHANGED <<lapses, queue, normalized>>
Sends(r) ==
    /\ pc[r] = "produce" /\ pc' = [pc EXCEPT ![r] = "commit"]
    /\ queue' = [queue EXCEPT ![r] = Append(@, event[r])]
    /\ UNCHANGED <<event, versions, lapses, normalized>>
Delivers(r) ==
    /\ queue[r] # <<>> /\ queue' = [queue EXCEPT ![r] = Tail(@)]
    /\ normalized' \in {normalized, N!With(Head(queue[r]))}
    /\ UNCHANGED <<pc, event, versions, lapses>>
Forgotten ==
    /\ \A r \in Replicas : pc'[r] = "produce" => pc[r] = "produce" /\ event'[r] = event[r]
    /\ \A r \in Replicas : queue'[r] \in {queue[r], <<>>}
    /\ \A c \in Curves : Passes(versions[c], lapses[c], versions'[c], lapses'[c])
    /\ UNCHANGED normalized

LEMMA VersionsStep ==
    ASSUME Typed, [Next]_vars
    PROVE  Forgotten \/ \E r \in Replicas : Draws(r) \/ Sends(r) \/ Delivers(r)
<1> USE DEF N!groupVars, N!replicaVars, N!counterVars
<1>a. /\ \A c \in Curves : versions[c] \in Nat /\ lapses[c] \in Nat
      /\ pc \in [Replicas -> {"poll", "version", "produce", "commit"}]
      /\ event \in [Replicas -> {N!NoEvent} \cup Events]
      /\ queue \in [Replicas -> Seq(Events)] /\ versions \in [Curves -> Nat]
      /\ lapses \in [Curves -> Nat]
      /\ \A c \in Curves : Passes(versions[c], lapses[c], versions[c], lapses[c])
  BY DEF Typed, Passes
<1>1. CASE WriterMoves \/ UNCHANGED vars
  BY <1>1, <1>a DEF WriterMoves, vars, normalizerVars, Forgotten
<1>2. ASSUME NEW r \in Replicas, NEW p \in Sources, N!Poll(r, p) PROVE Forgotten
  <2>1. /\ \E to \in {"version", "commit"} : pc' = [pc EXCEPT ![r] = to]
        /\ \A s \in Replicas \ {r} : event'[s] = event[s]
        /\ UNCHANGED <<versions, lapses, queue, normalized>>
    BY <1>2, <1>a DEF N!Poll, N!Goes
  <2> QED
    BY <1>a, <2>1 DEF Forgotten
<1>3. ASSUME NEW r \in Replicas, N!NextVersion(r) PROVE Draws(r)
  BY <1>3 DEF N!NextVersion, N!Goes, Draws
<1>4. ASSUME NEW r \in Replicas, N!NextVersionRaises(r) PROVE Forgotten
  <2>1. /\ pc' = [pc EXCEPT ![r] = "commit"]
        /\ versions' \in {versions, [versions EXCEPT ![N!Curve(r)] = @ + 1]}
        /\ UNCHANGED <<event, lapses, queue, normalized>>
    BY <1>4 DEF N!NextVersionRaises, N!Goes
  <2>2. \A c \in Curves : versions[c] <= versions'[c] /\ lapses'[c] = lapses[c]
    <3> DEFINE d == N!Curve(r)
    <3>1. versions' = versions \/ versions' = [versions EXCEPT ![d] = @ + 1]
      BY <2>1
    <3> HIDE DEF d
    <3>2. ASSUME NEW c \in Curves PROVE versions[c] <= versions'[c]
      <4>1. versions[c] \in Nat /\ versions \in [Curves -> Nat]
        BY <1>a
      <4>2. versions'[c] \in {versions[c], versions[c] + 1}
        BY <3>1, <4>1
      <4> QED
        BY <4>1, <4>2
    <3> QED
      BY <2>1, <3>2
  <2>3. \A c \in Curves : Passes(versions[c], lapses[c], versions'[c], lapses'[c])
    BY <2>2 DEF Passes
  <2> QED
    BY <1>a, <2>1, <2>3 DEF Forgotten
<1>5. ASSUME NEW r \in Replicas, N!Produce(r) PROVE Sends(r)
  BY <1>5 DEF N!Produce, N!Goes, Sends
<1>6. ASSUME NEW r \in Replicas, N!ProduceRaises(r) \/ N!Commit(r) \/ N!Ends(r) PROVE Forgotten
  <2>1. /\ \E to \in {"poll", "commit"} : pc' = [pc EXCEPT ![r] = to]
        /\ \A s \in Replicas \ {r} : event'[s] = event[s]
        /\ UNCHANGED <<versions, lapses, normalized>>
        /\ \A s \in Replicas : queue'[s] \in {queue[s], <<>>}
    BY <1>6, <1>a DEF N!ProduceRaises, N!Commit, N!Ends, N!Restarts, N!Forgets, N!Goes
  <2> QED
    BY <1>a, <2>1 DEF Forgotten
<1>7. ASSUME NEW r \in Replicas, N!Deliver(r) \/ N!DeliveryFails(r) PROVE Delivers(r)
  BY <1>7 DEF N!Deliver, N!DeliveryFails, Delivers
<1>8. CASE (\E p \in Sources : N!Rebalance(p)) \/ N!MonthEnds(LastMonth)
  BY <1>8, <1>a DEF N!Rebalance, N!MonthEnds, Forgotten
<1>9. ASSUME NEW c \in Curves, N!CounterLapses(c) PROVE Forgotten
  <2>1. /\ lapses' = [lapses EXCEPT ![c] = @ + 1] /\ versions' = [versions EXCEPT ![c] = 0]
        /\ UNCHANGED <<pc, event, queue, normalized>>
    BY <1>9 DEF N!CounterLapses
  <2>2. \A d \in Curves : \/ lapses[d] < lapses'[d]
                          \/ lapses'[d] = lapses[d] /\ versions'[d] = versions[d]
    BY <1>a, <2>1
  <2>3. \A d \in Curves : Passes(versions[d], lapses[d], versions'[d], lapses'[d])
    BY <1>a, <2>2 DEF Passes
  <2> QED
    BY <2>1, <2>3 DEF Forgotten
<1> QED
  BY <1>1, <1>2, <1>3, <1>4, <1>5, <1>6, <1>7, <1>8, <1>9
     DEF Next, Normalizes, N!Step, N!Incident, N!Crash, N!CommitRefused, WriterMoves

\* What has been issued stays so as the counter advances.
LEMMA IssuedStays ==
    ASSUME NEW e \in Events, NEW l \in Nat, NEW v \in Nat, NEW l2 \in Nat, NEW v2 \in Nat,
           Issued(e, l, v), Passes(v, l, v2, l2)
    PROVE  Issued(e, l2, v2)
<1>1. e.life \in Nat /\ e.version \in Nat
  BY DEF Events
<1> QED
  BY <1>1 DEF Issued, Passes

\* No step gives a version twice in one life of the counter.
LEMMA DistinctStep ==
    ASSUME Typed, Typed', [Next]_vars, NEW c \in Curves, Numbered(c), Distinct(c)
    PROVE  Numbered(c)' /\ Distinct(c)'
<1>a. /\ normalized[c] \in Seq(Events) /\ versions[c] \in Nat /\ lapses[c] \in Nat
      /\ \A r \in Replicas : queue[r] \in Seq(Events)
      /\ \A r \in Replicas : pc[r] = "produce" => event[r] \in Events
      /\ pc \in [Replicas -> {"poll", "version", "produce", "commit"}]
      /\ queue \in [Replicas -> Seq(Events)] /\ versions \in [Curves -> Nat]
      /\ lapses \in [Curves -> Nat] /\ event \in [Replicas -> {N!NoEvent} \cup Events]
  BY DEF Typed
<1>b. /\ \A k \in InTopic(c) : normalized[c][k] \in Events
      /\ \A r \in Replicas : \A k \in InQueue(c, r) : queue[r][k] \in Events
      /\ \A r \in Replicas : InHand(c, r) => event[r] \in Events
  <2>1. \A k \in InTopic(c) : normalized[c][k] \in Events
    BY <1>a DEF InTopic
  <2>2. ASSUME NEW r \in Replicas, NEW k \in InQueue(c, r) PROVE queue[r][k] \in Events
    <3>1. queue[r] \in Seq(Events) /\ k \in 1..Len(queue[r])
      BY <1>a DEF InQueue
    <3> QED
      BY <3>1
  <2>3. \A r \in Replicas : InHand(c, r) => event[r] \in Events
    BY <1>a DEF InHand
  <2> QED
    BY <2>1, <2>2, <2>3
<1>1. CASE Forgotten
  <2>1. InTopic(c)' = InTopic(c) /\ normalized' = normalized
    BY <1>1 DEF Forgotten, InTopic
  <2>2. \A r \in Replicas : InHand(c, r)' => InHand(c, r) /\ event'[r] = event[r]
    BY <1>1 DEF Forgotten, InHand
  <2>3. \A r \in Replicas : \A k \in InQueue(c, r)' : k \in InQueue(c, r) /\ queue'[r][k] = queue[r][k]
    BY <1>1 DEF Forgotten, InQueue
  <2>4. /\ Passes(versions[c], lapses[c], versions'[c], lapses'[c])
        /\ versions'[c] \in Nat /\ lapses'[c] \in Nat
    BY <1>1 DEF Forgotten, Typed
  <2>5. Numbered(c)'
    <3>1. ASSUME NEW e \in Events, Issued(e, lapses[c], versions[c])
          PROVE  Issued(e, lapses'[c], versions'[c])
      BY <1>a, <2>4, <3>1, IssuedStays
    <3>2. \A k \in InTopic(c)' : Issued(normalized'[c][k], lapses'[c], versions'[c])
      BY <1>b, <2>1, <3>1 DEF Numbered
    <3>3. \A r \in Replicas : \A k \in InQueue(c, r)' :
             Issued(queue'[r][k], lapses'[c], versions'[c])
      BY <1>b, <2>3, <3>1 DEF Numbered
    <3>4. \A r \in Replicas : InHand(c, r)' => Issued(event'[r], lapses'[c], versions'[c])
      BY <1>b, <2>2, <3>1 DEF Numbered
    <3> QED
      BY <3>2, <3>3, <3>4 DEF Numbered
  <2>6. Distinct(c)'
    BY <2>1, <2>2, <2>3 DEF Distinct
  <2> QED
    BY <2>5, <2>6
<1>2. ASSUME NEW r \in Replicas, Draws(r) PROVE Numbered(c)' /\ Distinct(c)'
  <2>1. InTopic(c)' = InTopic(c) /\ normalized' = normalized
    BY <1>2 DEF Draws, InTopic
  <2>2. \A s \in Replicas : InQueue(c, s)' = InQueue(c, s) /\ queue'[s] = queue[s]
    BY <1>2 DEF Draws, InQueue
  <2>3. \A s \in Replicas \ {r} : (InHand(c, s)' <=> InHand(c, s)) /\ event'[s] = event[s]
    BY <1>2, <1>a DEF Draws, InHand
  <2>4. ~InHand(c, r) /\ event[r] \in Events
    BY <1>2 DEF Draws, InHand, Typed
  <2>5. /\ event'[r] = [event[r] EXCEPT !.version = versions[N!Curve(r)] + 1,
                                        !.life = lapses[N!Curve(r)]]
        /\ N!PartitionOf(event[r]) = N!Curve(r)
    <3>1. N!PartitionOf(event[r]) = N!Curve(r)
      BY DEF N!PartitionOf, N!Curve
    <3>2. event'[r] = [event[r] EXCEPT !.version = versions[N!Curve(r)] + 1,
                                       !.life = lapses[N!Curve(r)]]
      BY <1>2, <1>a DEF Draws
    <3> QED
      BY <3>1, <3>2
  <2>6. /\ event'[r].version = versions[N!Curve(r)] + 1 /\ event'[r].life = lapses[N!Curve(r)]
        /\ event'[r].instrument = event[r].instrument /\ event'[r].tenor = event[r].tenor
    BY <2>4, <2>5 DEF Events
  <2>7. N!PartitionOf(event'[r]) = N!Curve(r)
    BY <2>5, <2>6 DEF N!PartitionOf
  <2>8. CASE N!Curve(r) = c
    <3> DEFINE v == versions'[c]
               l == lapses'[c]
    <3>1. /\ v = versions[c] + 1 /\ l = lapses[c] /\ v \in Nat /\ l \in Nat
          /\ event'[r].version = v /\ event'[r].life = l
      BY <1>2, <1>a, <2>6, <2>8 DEF Draws
    <3>2. Issued(event'[r], l, v) /\ Number(event'[r]) = <<l, v>>
      BY <3>1 DEF Issued, Number
    <3>3. ASSUME NEW e \in Events, Issued(e, lapses[c], versions[c])
          PROVE  Issued(e, l, v) /\ Number(e) # <<l, v>>
      <4>1. e.life \in Nat /\ e.version \in Nat
        BY DEF Events
      <4> HIDE DEF l, v
      <4> QED
        BY <1>a, <3>1, <3>3, <4>1 DEF Issued, Number
    <3> HIDE DEF l, v
    <3>5. /\ Issued(event'[r], l, v) /\ Number(event'[r]) = <<l, v>>
          /\ \A k \in InTopic(c) : Issued(normalized[c][k], l, v) /\ Number(normalized[c][k]) # <<l, v>>
          /\ \A s \in Replicas : \A k \in InQueue(c, s) :
                Issued(queue[s][k], l, v) /\ Number(queue[s][k]) # <<l, v>>
          /\ \A s \in Replicas :
                InHand(c, s) => Issued(event[s], l, v) /\ Number(event[s]) # <<l, v>>
      BY <1>b, <3>2, <3>3 DEF Numbered
    <3>6. Numbered(c)'
      BY <2>1, <2>2, <2>3, <3>5 DEF Numbered, l, v
    <3>7. Distinct(c)'
      <4>1. \A j, k \in InTopic(c)' :
               Number(normalized'[c][j]) = Number(normalized'[c][k]) => j = k
        BY <2>1 DEF Distinct
      <4>2. \A j \in InTopic(c)', s \in Replicas : \A k \in InQueue(c, s)' :
               Number(normalized'[c][j]) # Number(queue'[s][k])
        BY <2>1, <2>2 DEF Distinct
      <4>3. \A j \in InTopic(c)', s \in Replicas :
               InHand(c, s)' => Number(normalized'[c][j]) # Number(event'[s])
        BY <2>1, <2>3, <3>5 DEF Distinct
      <4>4. \A s, t \in Replicas : \A j \in InQueue(c, s)', k \in InQueue(c, t)' :
               Number(queue'[s][j]) = Number(queue'[t][k]) => s = t /\ j = k
        BY <2>2 DEF Distinct
      <4>5. \A s, t \in Replicas : \A j \in InQueue(c, s)' :
               InHand(c, t)' => Number(queue'[s][j]) # Number(event'[t])
        BY <2>2, <2>3, <3>5 DEF Distinct
      <4>6. \A s, t \in Replicas :
               InHand(c, s)' /\ InHand(c, t)' /\ Number(event'[s]) = Number(event'[t]) => s = t
        BY <2>3, <3>5 DEF Distinct
      <4> QED
        BY <4>1, <4>2, <4>3, <4>4, <4>5, <4>6 DEF Distinct
    <3> QED
      BY <3>6, <3>7
  <2>9. CASE N!Curve(r) # c
    <3>1. versions'[c] = versions[c] /\ lapses'[c] = lapses[c]
      BY <1>2, <1>a, <2>9 DEF Draws
    <3>2. ~InHand(c, r)'
      BY <2>7, <2>9 DEF InHand
    <3>3. \A s \in Replicas : InHand(c, s)' => InHand(c, s) /\ event'[s] = event[s]
      BY <2>3, <3>2
    <3>4. Numbered(c)'
      BY <2>1, <2>2, <3>1, <3>3 DEF Numbered
    <3>5. Distinct(c)'
      BY <2>1, <2>2, <3>3 DEF Distinct
    <3> QED
      BY <3>4, <3>5
  <2> QED
    BY <2>8, <2>9
<1>3. ASSUME NEW r \in Replicas, Sends(r) PROVE Numbered(c)' /\ Distinct(c)'
  <2>1. InTopic(c)' = InTopic(c) /\ normalized' = normalized /\ event' = event
        /\ versions' = versions /\ lapses' = lapses
    BY <1>3 DEF Sends, InTopic
  <2>2. \A s \in Replicas \ {r} : InQueue(c, s)' = InQueue(c, s) /\ queue'[s] = queue[s]
    BY <1>3, <1>a DEF Sends, InQueue
  <2>3. \A s \in Replicas \ {r} : InHand(c, s)' <=> InHand(c, s)
    BY <1>3, <1>a DEF Sends, InHand
  <2>4. ~InHand(c, r)' /\ event[r] \in Events /\ queue[r] \in Seq(Events)
    BY <1>3, <1>a DEF Sends, InHand
  <2> DEFINE last == Len(queue[r]) + 1
  <2>5. /\ Len(queue'[r]) = last /\ queue'[r][last] = event[r]
        /\ \A k \in 1..Len(queue[r]) : queue'[r][k] = queue[r][k]
        /\ Len(queue[r]) \in Nat
    <3>1. queue'[r] = Append(queue[r], event[r])
      BY <1>3, <1>a DEF Sends
    <3> QED
      BY <2>4, <3>1
  <2>6. \A k \in InQueue(c, r)' : \/ k \in InQueue(c, r) /\ queue'[r][k] = queue[r][k]
                                  \/ k = last /\ InHand(c, r) /\ queue'[r][k] = event[r]
    <3>1. \A k \in 1..last : k \in 1..Len(queue[r]) \/ k = last
      BY <2>5
    <3>2. pc[r] = "produce"
      BY <1>3 DEF Sends
    <3> QED
      BY <2>5, <3>1, <3>2 DEF InQueue, InHand
  <2> HIDE DEF last
  <2>7. Numbered(c)'
    BY <2>1, <2>2, <2>3, <2>4, <2>6 DEF Numbered
  <2>8. Distinct(c)'
    <3>1. \A j, k \in InTopic(c)' :
             Number(normalized'[c][j]) = Number(normalized'[c][k]) => j = k
      BY <2>1 DEF Distinct
    <3>2. \A j \in InTopic(c)', s \in Replicas : \A k \in InQueue(c, s)' :
             Number(normalized'[c][j]) # Number(queue'[s][k])
      BY <2>1, <2>2, <2>6 DEF Distinct
    <3>3. \A j \in InTopic(c)', s \in Replicas :
             InHand(c, s)' => Number(normalized'[c][j]) # Number(event'[s])
      BY <2>1, <2>3, <2>4 DEF Distinct
    <3>4. \A s, t \in Replicas : \A j \in InQueue(c, s)', k \in InQueue(c, t)' :
             Number(queue'[s][j]) = Number(queue'[t][k]) => s = t /\ j = k
      BY <2>1, <2>2, <2>6 DEF Distinct
    <3>5. \A s, t \in Replicas : \A j \in InQueue(c, s)' :
             InHand(c, t)' => Number(queue'[s][j]) # Number(event'[t])
      BY <2>1, <2>2, <2>3, <2>4, <2>6 DEF Distinct
    <3>6. \A s, t \in Replicas :
             InHand(c, s)' /\ InHand(c, t)' /\ Number(event'[s]) = Number(event'[t]) => s = t
      BY <2>1, <2>3, <2>4 DEF Distinct
    <3> QED
      BY <3>1, <3>2, <3>3, <3>4, <3>5, <3>6 DEF Distinct
  <2> QED
    BY <2>7, <2>8
<1>4. ASSUME NEW r \in Replicas, Delivers(r) PROVE Numbered(c)' /\ Distinct(c)'
  <2> DEFINE head == Head(queue[r])
             last == Len(normalized[c]) + 1
  <2>1. head \in Events /\ queue[r] # <<>> /\ queue[r] \in Seq(Events)
    BY <1>4, <1>a DEF Delivers
  <2>2. /\ head = queue[r][1] /\ Len(queue[r]) \in Nat /\ 1 \in 1..Len(queue[r])
        /\ Len(Tail(queue[r])) = Len(queue[r]) - 1
        /\ \A k \in 1..Len(queue[r]) - 1 : Tail(queue[r])[k] = queue[r][k + 1]
    BY <2>1
  <2>3. UNCHANGED <<pc, event, versions, lapses>> /\ \A s \in Replicas : InHand(c, s)' <=> InHand(c, s)
    BY <1>4 DEF Delivers, InHand
  <2>4. \A s \in Replicas \ {r} : InQueue(c, s)' = InQueue(c, s) /\ queue'[s] = queue[s]
    BY <1>4, <1>a DEF Delivers, InQueue
  <2>5. \A k \in InQueue(c, r)' : /\ k \in Int /\ k + 1 \in InQueue(c, r) /\ k + 1 # 1
                                  /\ queue'[r][k] = queue[r][k + 1]
    <3>1. queue'[r] = Tail(queue[r])
      BY <1>4, <1>a DEF Delivers
    <3>2. \A k \in 1..Len(queue[r]) - 1 : k + 1 \in 1..Len(queue[r]) /\ k + 1 # 1 /\ k \in Int
      BY <2>2
    <3> QED
      BY <2>2, <3>1, <3>2 DEF InQueue
  <2>6. \A k \in InTopic(c)' : \/ k \in InTopic(c) /\ normalized'[c][k] = normalized[c][k]
                               \/ /\ k = last /\ 1 \in InQueue(c, r)
                                  /\ normalized'[c][k] = queue[r][1]
    <3>0. normalized' \in {normalized, N!With(head)} /\ normalized \in [Curves -> Seq(Events)]
      BY <1>4 DEF Delivers, Typed
    <3> HIDE DEF head
    <3>3. CASE normalized' = normalized
      BY <3>3 DEF InTopic
    <3>1. CASE N!PartitionOf(head) # c
      <4>1. N!With(head)[c] = normalized[c]
        BY <2>1, <3>0, <3>1, WithProperties
      <4>2. normalized'[c] = normalized[c]
        BY <3>0, <4>1
      <4> QED
        BY <4>2 DEF InTopic
    <3>2. CASE N!PartitionOf(head) = c /\ normalized' = N!With(head)
      <4>1. /\ Len(normalized'[c]) = last /\ normalized'[c][last] = head
            /\ \A k \in 1..Len(normalized[c]) : normalized'[c][k] = normalized[c][k]
        <5>1. normalized \in [Curves -> Seq(Events)] /\ head \in Events
          BY <2>1, <3>0
        <5>2. normalized' = N!With(head) /\ N!PartitionOf(head) = c
          BY <3>2
        <5> QED
          BY <5>1, <5>2, WithProperties
      <4>2. Len(normalized[c]) \in Nat
        BY <1>a
      <4>3. 1 \in InQueue(c, r)
        BY <2>2, <3>2 DEF InQueue
      <4> QED
        BY <2>2, <4>1, <4>2, <4>3 DEF InTopic
    <3> QED
      BY <3>0, <3>1, <3>2, <3>3
  <2> HIDE DEF head, last
  <2>7. Numbered(c)'
    BY <2>3, <2>4, <2>5, <2>6 DEF Numbered
  <2>8. Distinct(c)'
    <3>1. \A j, k \in InTopic(c)' :
             Number(normalized'[c][j]) = Number(normalized'[c][k]) => j = k
      BY <2>6 DEF Distinct
    <3>2. \A j \in InTopic(c)', s \in Replicas : \A k \in InQueue(c, s)' :
             Number(normalized'[c][j]) # Number(queue'[s][k])
      <4>1. ASSUME NEW j \in InTopic(c)', NEW s \in Replicas \ {r}, NEW k \in InQueue(c, s)'
            PROVE  Number(normalized'[c][j]) # Number(queue'[s][k])
        BY <2>4, <2>6 DEF Distinct
      <4>2. ASSUME NEW j \in InTopic(c)', NEW k \in InQueue(c, r)'
            PROVE  Number(normalized'[c][j]) # Number(queue'[r][k])
        BY <2>5, <2>6 DEF Distinct
      <4> QED
        BY <4>1, <4>2
    <3>3. \A j \in InTopic(c)', s \in Replicas :
             InHand(c, s)' => Number(normalized'[c][j]) # Number(event'[s])
      BY <2>3, <2>6 DEF Distinct
    <3>4. \A s, t \in Replicas : \A j \in InQueue(c, s)', k \in InQueue(c, t)' :
             Number(queue'[s][j]) = Number(queue'[t][k]) => s = t /\ j = k
      <4>1. ASSUME NEW j \in InQueue(c, r)', NEW k \in InQueue(c, r)',
                   Number(queue'[r][j]) = Number(queue'[r][k])
            PROVE  j = k
        <5>1. j + 1 = k + 1 /\ j \in Int /\ k \in Int
          BY <2>5, <4>1 DEF Distinct
        <5> QED
          BY <5>1
      <4>2. ASSUME NEW j \in InQueue(c, r)', NEW s \in Replicas \ {r}, NEW k \in InQueue(c, s)'
            PROVE  Number(queue'[r][j]) # Number(queue'[s][k])
        BY <2>4, <2>5 DEF Distinct
      <4>3. ASSUME NEW s \in Replicas \ {r}, NEW t \in Replicas \ {r},
                   NEW j \in InQueue(c, s)', NEW k \in InQueue(c, t)',
                   Number(queue'[s][j]) = Number(queue'[t][k])
            PROVE  s = t /\ j = k
        BY <2>4, <4>3 DEF Distinct
      <4> QED
        BY <4>1, <4>2, <4>3
    <3>5. \A s, t \in Replicas : \A j \in InQueue(c, s)' :
             InHand(c, t)' => Number(queue'[s][j]) # Number(event'[t])
      BY <2>3, <2>4, <2>5 DEF Distinct
    <3>6. \A s, t \in Replicas :
             InHand(c, s)' /\ InHand(c, t)' /\ Number(event'[s]) = Number(event'[t]) => s = t
      BY <2>3 DEF Distinct
    <3> QED
      BY <3>1, <3>2, <3>3, <3>4, <3>5, <3>6 DEF Distinct
  <2> QED
    BY <2>7, <2>8
<1> QED
  BY <1>1, <1>2, <1>3, <1>4, VersionsStep

\* Versions that are distinct in these places are distinct in CurveEvents.
LEMMA DistinctSuffices ==
    ASSUME Typed, \A c \in Curves : Distinct(c)
    PROVE  VersionsUnique
<1> SUFFICES ASSUME NEW c \in Curves, NEW x \in CurveEvents(c), NEW y \in CurveEvents(c), x # y
             PROVE  Number(CurveEventAt(x)) # Number(CurveEventAt(y))
  BY DEF VersionsUnique, Number
<1>1. Replicas \cap Curves = {}
  BY PipelineAssumption
<1>2. DOMAIN normalized[c] = InTopic(c) /\ \A r \in Replicas : DOMAIN queue[r] = 1..Len(queue[r])
  BY DEF Typed, InTopic
<1>3. ASSUME NEW z \in CurveEvents(c)
      PROVE  \/ \E k \in InTopic(c) : z = <<c, k>> /\ Number(CurveEventAt(z)) = Number(normalized[c][k])
             \/ \E r \in Replicas : \E k \in InQueue(c, r) :
                   z = <<r, k>> /\ Number(CurveEventAt(z)) = Number(queue[r][k])
  <2>1. CASE z \in {c} \X DOMAIN normalized[c]
    BY <1>2, <2>1 DEF CurveEventAt
  <2>2. CASE \E r \in Replicas : \E k \in DOMAIN queue[r] :
                z = <<r, k>> /\ N!PartitionOf(queue[r][k]) = c
    <3>1. PICK r \in Replicas : \E k \in DOMAIN queue[r] :
                z = <<r, k>> /\ N!PartitionOf(queue[r][k]) = c
      BY <2>2
    <3>2. PICK k \in DOMAIN queue[r] : z = <<r, k>> /\ N!PartitionOf(queue[r][k]) = c
      BY <3>1
    <3>3. Number(CurveEventAt(z)) = Number(queue[r][k]) /\ k \in InQueue(c, r)
      BY <1>1, <1>2, <3>2 DEF CurveEventAt, InQueue
    <3> QED
      BY <3>2, <3>3
  <2> QED
    BY <2>1, <2>2 DEF CurveEvents
<1>4. ASSUME NEW j \in InTopic(c), NEW k \in InTopic(c), x = <<c, j>>, y = <<c, k>>
      PROVE  Number(normalized[c][j]) # Number(normalized[c][k])
  BY <1>4 DEF Distinct
<1>5. ASSUME NEW r \in Replicas, NEW s \in Replicas,
             NEW j \in InQueue(c, r), NEW k \in InQueue(c, s), x = <<r, j>>, y = <<s, k>>
      PROVE  Number(queue[r][j]) # Number(queue[s][k])
  BY <1>5 DEF Distinct
<1>6. ASSUME NEW j \in InTopic(c), NEW r \in Replicas, NEW k \in InQueue(c, r)
      PROVE  Number(normalized[c][j]) # Number(queue[r][k])
  BY DEF Distinct
<1> QED
  BY <1>3, <1>4, <1>5, <1>6

\* At first nothing is anywhere.
LEMMA TypedAtFirst ==
    ASSUME Init
    PROVE  Typed /\ \A c \in Curves : Numbered(c) /\ Distinct(c)
<1>1. /\ today = FirstMonth /\ troubles = 0
      /\ position = [p \in Sources |-> 1] /\ committed = [p \in Sources |-> 1]
      /\ pc = [r \in Replicas |-> "poll"]
      /\ current = [r \in Replicas |-> <<>>]
      /\ event = [r \in Replicas |-> N!NoEvent]
      /\ versions = [c \in Curves |-> 0] /\ lapses = [c \in Curves |-> 0]
      /\ queue = [r \in Replicas |-> <<>>]
      /\ normalized = [c \in Curves |-> <<>>]
  BY DEF Init, N!InitAt, N!NoMessage
<1>2. FirstMonth \in Months
  BY PipelineAssumption
<1>3. Typed
  BY <1>1, <1>2 DEF Typed
<1>4. \A c \in Curves : InTopic(c) = {}
  BY <1>1 DEF InTopic
<1>5. \A c \in Curves, r \in Replicas : InQueue(c, r) = {} /\ ~InHand(c, r)
  BY <1>1 DEF InQueue, InHand
<1>6. \A c \in Curves : Numbered(c) /\ Distinct(c)
  BY <1>4, <1>5 DEF Numbered, Distinct
<1> QED
  BY <1>3, <1>6

\* The types are an invariant.
LEMMA AlwaysTyped == Spec => []Typed
<1>1. Init => Typed
  BY TypedAtFirst
<1>2. Typed /\ [Next]_vars => Typed'
  BY TypedStep
<1> QED
  BY <1>1, <1>2, PTL DEF Spec

\* Two curve events of a curve have the same version only if the counter lapsed
\* between them: replicas draw versions from one counter, which a lost, failed or
\* redelivered event only makes them skip (normalizer.py:185-196).
THEOREM VersionsAreUnique == Spec => []VersionsUnique
<1> DEFINE Unique == \A c \in Curves : Numbered(c) /\ Distinct(c)
<1>1. Init => Unique
  BY TypedAtFirst
<1>2. Typed /\ Unique /\ Typed' /\ [Next]_vars => Unique'
  <2> SUFFICES ASSUME Typed, Unique, Typed', [Next]_vars, NEW c \in Curves
               PROVE  Numbered(c)' /\ Distinct(c)'
    OBVIOUS
  <2> QED
    BY DistinctStep
<1>3. Typed /\ Unique => VersionsUnique
  BY DistinctSuffices
<1> QED
  BY <1>1, <1>2, <1>3, AlwaysTyped, PTL DEF Spec

-----------------------------------------------------------------------------

\* n steps from a month lead to M+n.
LEMMA StepsAreMonthsForward ==
    ASSUME NEW m \in Months
    PROVE  \A n \in 0..12 : Steps(m, 12)[n] = MonthsForward(m, n)
<1> DEFINE Unrolls(f) == f = [n \in 0..12 |-> IF n = 0 THEN m ELSE NextMonth(f[n - 1])]
           forward == [n \in 0..12 |-> MonthsForward(m, n)]
<1>1. Unrolls(forward)
  <2>1. \A n \in 0..12 : n # 0 => MonthsForward(m, n) = NextMonth(forward[n - 1])
    <3> SUFFICES ASSUME NEW n \in 1..12 PROVE MonthsForward(m, n) = NextMonth(forward[n - 1])
      OBVIOUS
    <3>1. n - 1 \in Nat /\ n - 1 \in 0..12 /\ (n - 1) + 1 = n
      OBVIOUS
    <3> QED
      BY <3>1, OneMonthFurther
  <2>2. MonthsForward(m, 0) = m
    BY NoMonthsForward
  <2> QED
    BY <2>1, <2>2
<1> HIDE DEF forward
<1>2. \E f : Unrolls(f)
  BY <1>1
<1> DEFINE steps == CHOOSE f : Unrolls(f)
<1>3. Unrolls(steps)
  BY <1>2
<1>4. Steps(m, 12) = steps
  BY DEF Steps
<1> HIDE DEF steps
<1>5. steps[0] = m /\ \A n \in 1..12 : steps[n] = NextMonth(steps[n - 1])
  BY <1>3
<1> HIDE DEF Unrolls
<1>6. steps[0] = MonthsForward(m, 0)
  BY <1>5, NoMonthsForward
<1>7. ASSUME NEW n \in 0..11, steps[n] = MonthsForward(m, n)
      PROVE  steps[n + 1] = MonthsForward(m, n + 1)
  <2>1. n + 1 \in 1..12 /\ (n + 1) - 1 = n /\ n \in Nat
    OBVIOUS
  <2> QED
    BY <1>5, <1>7, <2>1, OneMonthFurther
<1>8. /\ steps[1] = MonthsForward(m, 1) /\ steps[2] = MonthsForward(m, 2)
      /\ steps[3] = MonthsForward(m, 3) /\ steps[4] = MonthsForward(m, 4)
      /\ steps[5] = MonthsForward(m, 5) /\ steps[6] = MonthsForward(m, 6)
  BY <1>6, <1>7
<1>9. /\ steps[7] = MonthsForward(m, 7) /\ steps[8] = MonthsForward(m, 8)
      /\ steps[9] = MonthsForward(m, 9) /\ steps[10] = MonthsForward(m, 10)
      /\ steps[11] = MonthsForward(m, 11) /\ steps[12] = MonthsForward(m, 12)
  BY <1>7, <1>8
<1> QED
  BY <1>4, <1>6, <1>8, <1>9

\* Relative tenors agree with the calendar in whatever month it is
\* (tenor_mapper.py:105): the property of the run, of every month there is.
THEOREM TenorsAlwaysAgree == Spec => []TenorsAgree
<1>1. Typed => TenorsAgree
  <2> SUFFICES ASSUME today \in Months
               PROVE  TenorsAgree
    BY DEF Typed
  <2>1. \A n \in 0..12 : MonthsForward(today, n) = Steps(today, 12)[n]
    BY StepsAreMonthsForward
  <2>2. ASSUME NEW n \in 0..4
        PROVE  QuartersForward(today, n) = QuarterOf(Steps(today, 12)[3 * n])
    <3>1. n \in Nat /\ 3 * n \in 0..12
      OBVIOUS
    <3> QED
      BY <2>1, <3>1, QuartersAreThreeMonths
  <2> QED
    BY <2>1, <2>2 DEF TenorsAgree
<1> QED
  BY <1>1, AlwaysTyped, PTL

-----------------------------------------------------------------------------

\* The topic grows at its end, by events of the partition's curve.
Grown ==
    \A c \in Curves : /\ Len(normalized'[c]) \in Nat /\ Len(normalized[c]) <= Len(normalized'[c])
                      /\ \A k \in 1..Len(normalized[c]) : normalized'[c][k] = normalized[c][k]

LEMMA TopicStep ==
    ASSUME Typed, InPartition, [Next]_vars
    PROVE  /\ Grown /\ InPartition'
           /\ WriterMoves \/ (UNCHANGED writerVars /\ troubles' \in {troubles, troubles + 1})
<1>a. normalized \in [Curves -> Seq(Events)] /\ queue \in [Replicas -> Seq(Events)]
  BY DEF Typed
<1>b. \A c \in Curves : normalized[c] \in Seq(Events) /\ Len(normalized[c]) \in Nat
  BY <1>a
<1>1. ASSUME normalized' = normalized PROVE Grown /\ InPartition'
  <2>1. \A c \in Curves : Len(normalized[c]) <= Len(normalized[c])
    BY <1>b
  <2>2. Grown
    BY <1>1, <1>b, <2>1 DEF Grown
  <2>3. InPartition'
    BY <1>1 DEF InPartition
  <2> QED
    BY <2>2, <2>3
<1>2. ASSUME NEW r \in Replicas, N!Deliver(r) PROVE Grown /\ InPartition'
  <2> DEFINE head == Head(queue[r])
  <2>1. normalized' = N!With(head) /\ head \in Events
    BY <1>2, <1>a DEF N!Deliver
  <2> HIDE DEF head
  <2>2. ASSUME NEW c \in Curves, N!PartitionOf(head) = c
        PROVE  /\ Len(normalized'[c]) = Len(normalized[c]) + 1
               /\ normalized'[c][Len(normalized[c]) + 1] = head
               /\ \A k \in 1..Len(normalized[c]) : normalized'[c][k] = normalized[c][k]
    BY <1>a, <2>1, <2>2, WithProperties
  <2>3. ASSUME NEW c \in Curves, N!PartitionOf(head) # c
        PROVE  normalized'[c] = normalized[c]
    BY <1>a, <2>1, <2>3, WithProperties
  <2>4. Grown
    BY <1>b, <2>2, <2>3 DEF Grown
  <2>5. ASSUME NEW c \in Curves, NEW k \in 1..Len(normalized'[c])
        PROVE  N!PartitionOf(normalized'[c][k]) = c
    <3>1. CASE N!PartitionOf(head) = c
      <4>1. k \in 1..Len(normalized[c]) \/ k = Len(normalized[c]) + 1
        BY <1>b, <2>2, <3>1
      <4> QED
        BY <2>2, <3>1, <4>1 DEF InPartition
    <3>2. CASE N!PartitionOf(head) # c
      BY <2>3, <3>2 DEF InPartition
    <3> QED
      BY <3>1, <3>2
  <2> QED
    BY <2>4, <2>5 DEF InPartition
<1>3. \/ WriterMoves \/ UNCHANGED vars
      \/ NormalizerMoves /\ troubles' \in {troubles, troubles + 1}
           /\ (normalized' = normalized \/ \E r \in Replicas : N!Deliver(r))
  <2>1. ASSUME Normalizes \/ N!Incident \/ N!MonthEnds(LastMonth)
        PROVE  /\ troubles' \in {troubles, troubles + 1}
               /\ normalized' = normalized \/ \E r \in Replicas : N!Deliver(r)
    <3>1. ASSUME NEW r \in Replicas, NEW p \in Sources, N!Poll(r, p)
          PROVE  troubles' = troubles /\ normalized' = normalized
      BY <3>1 DEF N!Poll
    <3>2. ASSUME NEW r \in Replicas,
                 N!NextVersion(r) \/ N!Produce(r) \/ N!Commit(r) \/ N!CommitRefused(r)
          PROVE  troubles' = troubles /\ normalized' = normalized
      BY <3>2 DEF N!NextVersion, N!Produce, N!Commit, N!CommitRefused, N!Ends
    <3>3. ASSUME NEW r \in Replicas, N!NextVersionRaises(r) \/ N!ProduceRaises(r) \/ N!Crash(r)
          PROVE  troubles' = troubles + 1 /\ normalized' = normalized
      BY <3>3 DEF N!NextVersionRaises, N!ProduceRaises, N!Crash, N!Ends, N!Trouble
    <3>4. ASSUME NEW r \in Replicas, N!Deliver(r) PROVE troubles' = troubles
      BY <3>4 DEF N!Deliver
    <3>5. CASE (\E p \in Sources : N!Rebalance(p)) \/ N!MonthEnds(LastMonth)
      BY <3>5 DEF N!Rebalance, N!MonthEnds, N!Trouble
    <3>6. ASSUME NEW r \in Replicas, N!DeliveryFails(r)
          PROVE  troubles' = troubles + 1 /\ normalized' = normalized
      BY <3>6 DEF N!DeliveryFails, N!Trouble
    <3>7. ASSUME NEW c \in Curves, N!CounterLapses(c)
          PROVE  troubles' = troubles + 1 /\ normalized' = normalized
      BY <3>7 DEF N!CounterLapses, N!Trouble
    <3> QED
      BY <2>1, <3>1, <3>2, <3>3, <3>4, <3>5, <3>6, <3>7 DEF Normalizes, N!Step, N!Incident
  <2> QED
    BY <2>1 DEF Next, NormalizerMoves, WriterMoves
<1>4. WriterMoves \/ UNCHANGED vars => normalized' = normalized
  BY DEF WriterMoves, vars
<1>5. UNCHANGED vars => UNCHANGED writerVars /\ troubles' = troubles
  BY DEF vars
<1>6. NormalizerMoves => UNCHANGED writerVars
  BY DEF NormalizerMoves
<1> QED
  BY <1>1, <1>2, <1>3, <1>4, <1>5, <1>6

\* What is an entry stays one, with the same event.
LEMMA EntriesStay ==
    ASSUME Typed, Grown
    PROVE  /\ Entries \subseteq Entries'
           /\ \A entry \in Entries : W!EventAt(entry)' = W!EventAt(entry)
<1>1. ASSUME NEW c \in Curves, NEW o \in Nat, o \in 1..Len(normalized[c])
      PROVE  o \in 1..Len(normalized'[c]) /\ normalized'[c][o] = normalized[c][o]
  <2>1. Len(normalized[c]) \in Nat
    BY DEF Typed
  <2> QED
    BY <1>1, <2>1 DEF Grown
<1>2. ASSUME NEW entry \in Entries
      PROVE  entry \in Entries' /\ normalized'[entry[1]][entry[2]] = normalized[entry[1]][entry[2]]
  <2>1. entry \in Curves \X Nat /\ entry[2] \in 1..Len(normalized[entry[1]])
    BY DEF Entries
  <2> QED
    BY <1>1, <2>1 DEF Entries
<1> QED
  BY <1>2 DEF W!EventAt

\* An entry holds an event.
LEMMA EntryHoldsEvent ==
    ASSUME Typed, NEW entry \in Entries
    PROVE  /\ W!EventAt(entry) \in Events
           /\ W!EventAt(entry).instrument \in Instruments
           /\ W!EventAt(entry).time \in Nat
<1>1. entry[1] \in Curves /\ entry[2] \in 1..Len(normalized[entry[1]])
  BY DEF Entries
<1>2. normalized[entry[1]] \in Seq(Events)
  BY <1>1 DEF Typed
<1>3. W!EventAt(entry) \in Events
  BY <1>1, <1>2 DEF W!EventAt
<1> QED
  BY <1>3 DEF Events

\* The transaction, and what a writer that is done forgets.
Executes(w) ==
    /\ wPc[w] = "write" /\ W!Execute(w)
    /\ UNCHANGED <<wOwner, wCommitted, wPosition, snapshot, wRebalances>>
    /\ \/ wPc' = [wPc EXCEPT ![w] = "assemble"] /\ UNCHANGED <<wCurrent, wRead, failed, troubles>>
       \/ /\ wPc' = [wPc EXCEPT ![w] = "poll"] /\ W!WForgets(w)
          /\ failed' = failed \cup {wCurrent[w]} /\ troubles' = troubles + 1
GivesUp(w) ==
    /\ wPc[w] \in {"write", "assemble", "set"} /\ wPc' = [wPc EXCEPT ![w] = "poll"]
    /\ failed' = failed \cup {wCurrent[w]} /\ troubles' = troubles + 1
    /\ snapshot' \in {snapshot, [snapshot EXCEPT ![W!Instrument(w)] = wRead[w]]}
    /\ W!WForgets(w)
    /\ UNCHANGED <<wOwner, wCommitted, wPosition, latest, history, wRebalances, applied>>
Moves(c) ==
    /\ wRebalances' = wRebalances + 1 /\ troubles' = troubles + 1
    /\ \E w \in Writers : wOwner' = [wOwner EXCEPT ![c] = w]
    /\ wPosition' = [wPosition EXCEPT ![c] = wCommitted[c]]
    /\ UNCHANGED <<wCommitted, wPc, wCurrent, wRead, latest, history, snapshot, applied, failed>>
Restart(w) ==
    /\ troubles' \in {troubles, troubles + 1}
    /\ (wPc[w] = "commit" /\ wOwner[wCurrent[w][1]] # w) \/ troubles' = troubles + 1
    /\ W!WEnds(w)

\* What a writer's step does.
LEMMA WriterStep ==
    ASSUME WriterMoves
    PROVE  \/ \E w \in Writers : \/ \E c \in Curves : W!WPoll(w, c)
                                 \/ Executes(w) \/ W!Assemble(w) \/ W!SetSnapshot(w)
                                 \/ GivesUp(w) \/ W!WCommit(w) \/ Restart(w)
           \/ \E c \in Curves : Moves(c)
<1>1. ASSUME NEW w \in Writers, W!Write(w) PROVE Executes(w)
  BY <1>1 DEF W!Write, W!WGoes, Executes, W!wGroupVars
<1>2. ASSUME NEW w \in Writers, W!HandlingRaises(w) PROVE Executes(w) \/ GivesUp(w)
  <2>1. CASE wPc[w] = "write" /\ W!Execute(w) /\ UNCHANGED snapshot
    BY <1>2, <2>1 DEF W!HandlingRaises, W!Trouble, Executes, W!wGroupVars
  <2>2. CASE \/ UNCHANGED <<W!redisVars, applied>>
             \/ /\ wPc[w] = "set"
                /\ snapshot' = [snapshot EXCEPT ![W!Instrument(w)] = wRead[w]]
                /\ UNCHANGED <<latest, history, applied>>
    BY <1>2, <2>2 DEF W!HandlingRaises, W!Trouble, GivesUp, W!wGroupVars, W!redisVars
  <2> QED
    BY <1>2, <2>1, <2>2 DEF W!HandlingRaises
<1>3. ASSUME NEW w \in Writers, W!WCrash(w) \/ W!WCommitRefused(w) PROVE Restart(w)
  BY <1>3 DEF W!WCrash, W!WCommitRefused, W!Trouble, Restart
<1>4. ASSUME NEW c \in Curves, W!WRebalance(c) PROVE Moves(c)
  BY <1>4 DEF W!WRebalance, W!Trouble, Moves, W!wReplicaVars, W!redisVars, W!wHistoryVars
<1> QED
  BY <1>1, <1>2, <1>3, <1>4 DEF WriterMoves, Writes, W!WStep, W!WIncident

\* A writer keeps to the topic.
LEMMA WTypedStep ==
    ASSUME Typed, InPartition, WTyped, [Next]_vars
    PROVE  WTyped'
<1>a. /\ WriterMoves \/ (UNCHANGED writerVars /\ troubles' \in {troubles, troubles + 1})
      /\ Entries \subseteq Entries'
  BY TopicStep, EntriesStay
<1>c. \A c \in Curves : Len(normalized'[c]) \in Nat /\ Len(normalized[c]) <= Len(normalized'[c])
  BY TopicStep DEF Grown
<1> USE DEF WTyped, Busy
<1>b. \A c \in Curves : Len(normalized[c]) \in Nat
  BY DEF Typed
<1>1. CASE UNCHANGED writerVars /\ troubles' \in {troubles, troubles + 1}
  <2>1. /\ \A c \in Curves : /\ wCommitted'[c] \in 1..Len(normalized'[c]) + 1
                             /\ wPosition'[c] \in 1..Len(normalized'[c]) + 1
    <3> SUFFICES ASSUME NEW c \in Curves
                 PROVE  /\ wCommitted[c] \in 1..Len(normalized'[c]) + 1
                        /\ wPosition[c] \in 1..Len(normalized'[c]) + 1
      BY <1>1 DEF writerVars
    <3>1. /\ wCommitted[c] \in 1..Len(normalized[c]) + 1
          /\ wPosition[c] \in 1..Len(normalized[c]) + 1
      OBVIOUS
    <3>2. Len(normalized'[c]) \in Nat /\ Len(normalized[c]) <= Len(normalized'[c])
      BY <1>c
    <3> HIDE DEF WTyped
    <3> QED
      BY <1>b, <3>1, <3>2
  <2>2. {troubles', wRebalances'} \subseteq Nat
    BY <1>1 DEF writerVars
  <2>3. applied' \subseteq Entries' /\ IsFiniteSet(applied')
    BY <1>1, <1>a DEF writerVars
  <2>4. \A w \in Writers : Busy(w)' => wCurrent'[w] \in Entries'
    BY <1>1, <1>a DEF writerVars
  <2> QED
    BY <1>1, <2>1, <2>2, <2>3, <2>4 DEF writerVars
<1>2. CASE WriterMoves
  <2>a. normalized' = normalized /\ Entries' = Entries
    BY <1>2 DEF WriterMoves, Entries
  <2>1. ASSUME NEW w \in Writers, NEW c \in Curves, W!WPoll(w, c) PROVE WTyped'
    <3>1. /\ wPosition[c] <= Len(normalized[c])
          /\ wPc' = [wPc EXCEPT ![w] = "write"]
          /\ wCurrent' = [wCurrent EXCEPT ![w] = <<c, wPosition[c]>>]
          /\ wPosition' = [wPosition EXCEPT ![c] = @ + 1]
          /\ UNCHANGED <<wOwner, wCommitted, wRead, latest, history, snapshot, troubles,
                         wRebalances, applied>>
      BY <2>1 DEF W!WPoll, W!WGoes, W!redisVars, W!wHistoryVars
    <3>2. wPosition[c] \in 1..Len(normalized[c]) /\ wPosition[c] + 1 \in 1..Len(normalized[c]) + 1
          /\ wPosition[c] + 1 \in Nat
      BY <1>b, <3>1
    <3>3. <<c, wPosition[c]>> \in Entries
      BY <3>2 DEF Entries
    <3>4. wPosition' \in [Curves -> Nat]
      BY <3>1, <3>2
    <3>5. \A d \in Curves : /\ wCommitted'[d] \in 1..Len(normalized'[d]) + 1
                            /\ wPosition'[d] \in 1..Len(normalized'[d]) + 1
      BY <2>a, <3>1, <3>2
    <3>6. \A v \in Writers : Busy(v)' => wCurrent'[v] \in Entries'
      BY <2>a, <3>1, <3>3
    <3>7. wPc' \in [Writers -> {"poll", "write", "assemble", "set", "commit"}]
      BY <3>1
    <3>8. wCurrent' = [v \in Writers |-> wCurrent'[v]]
      BY <3>1
    <3> QED
      BY <2>a, <3>1, <3>4, <3>5, <3>6, <3>7, <3>8
  <2>2. ASSUME NEW w \in Writers, Executes(w) PROVE WTyped'
    <3>1. /\ wPc[w] = "write" /\ wCurrent[w] \in Entries
          /\ \E to \in {"poll", "assemble"} : wPc' = [wPc EXCEPT ![w] = to]
          /\ UNCHANGED <<wOwner, wCommitted, wPosition, snapshot, wRebalances>>
          /\ troubles' \in {troubles, troubles + 1}
      BY <2>2 DEF Executes
    <3>2. /\ latest' = [i \in Instruments |-> latest'[i]]
          /\ history' = [i \in Instruments |-> history'[i]]
          /\ applied' = applied \cup {wCurrent[w]}
      BY <2>2 DEF Executes, W!Execute
    <3>3. /\ wCurrent' = [v \in Writers |-> wCurrent'[v]]
          /\ wRead' = [v \in Writers |-> wRead'[v]]
          /\ \A v \in Writers : Busy(v)' => Busy(v) /\ wCurrent'[v] = wCurrent[v]
      BY <2>2 DEF Executes, W!WForgets
    <3>4. wPc' \in [Writers -> {"poll", "write", "assemble", "set", "commit"}]
      BY <3>1
    <3>5. applied' \subseteq Entries' /\ IsFiniteSet(applied')
      BY <2>a, <3>1, <3>2, FS_AddElement
    <3>6. {troubles', wRebalances'} \subseteq Nat
      BY <3>1
    <3> QED
      BY <2>a, <3>1, <3>2, <3>3, <3>4, <3>5, <3>6
  <2>3. ASSUME NEW w \in Writers, W!Assemble(w) \/ W!SetSnapshot(w) PROVE WTyped'
    <3>1. /\ wPc[w] # "poll"
          /\ \E to \in {"set", "commit"} : wPc' = [wPc EXCEPT ![w] = to]
          /\ wRead' = [v \in Writers |-> wRead'[v]]
          /\ snapshot' = [i \in Instruments |-> snapshot'[i]]
          /\ UNCHANGED <<wOwner, wCommitted, wPosition, wCurrent, latest, history, troubles,
                         wRebalances, applied>>
      BY <2>3 DEF W!Assemble, W!SetSnapshot, W!WGoes, W!wGroupVars, W!redisVars, W!wHistoryVars
    <3>2. wPc' \in [Writers -> {"poll", "write", "assemble", "set", "commit"}]
      BY <3>1
    <3>3. \A v \in Writers : Busy(v)' => wCurrent'[v] \in Entries
      BY <3>1
    <3> QED
      BY <2>a, <3>1, <3>2, <3>3
  <2>4. ASSUME NEW w \in Writers, GivesUp(w) PROVE WTyped'
    <3>1. /\ wPc' = [wPc EXCEPT ![w] = "poll"]
          /\ wCurrent' = [v \in Writers |-> wCurrent'[v]]
          /\ wRead' = [v \in Writers |-> wRead'[v]]
          /\ \A v \in Writers : Busy(v)' => Busy(v) /\ wCurrent'[v] = wCurrent[v]
          /\ snapshot' = [i \in Instruments |-> snapshot'[i]]
          /\ troubles' = troubles + 1
          /\ UNCHANGED <<wOwner, wCommitted, wPosition, latest, history, wRebalances, applied>>
      BY <2>4 DEF GivesUp, W!WForgets
    <3>2. wPc' \in [Writers -> {"poll", "write", "assemble", "set", "commit"}]
      BY <3>1
    <3>3. {troubles', wRebalances'} \subseteq Nat
      BY <3>1
    <3> QED
      BY <2>a, <3>1, <3>2, <3>3
  <2>5. ASSUME NEW w \in Writers, W!WCommit(w) PROVE WTyped'
    <3>1. /\ wPc[w] = "commit" /\ wPc' = [wPc EXCEPT ![w] = "poll"]
          /\ wCommitted' = [wCommitted EXCEPT ![wCurrent[w][1]] = wCurrent[w][2] + 1]
          /\ wCurrent' = [v \in Writers |-> wCurrent'[v]]
          /\ wRead' = [v \in Writers |-> wRead'[v]]
          /\ \A v \in Writers : Busy(v)' => Busy(v) /\ wCurrent'[v] = wCurrent[v]
          /\ UNCHANGED <<wOwner, wPosition, latest, history, snapshot, troubles, wRebalances,
                         applied>>
      BY <2>5 DEF W!WCommit, W!WForgets, W!redisVars, W!wHistoryVars
    <3>2. wPc' \in [Writers -> {"poll", "write", "assemble", "set", "commit"}]
      BY <3>1
    <3>3. /\ wCurrent[w][1] \in Curves /\ wCurrent[w][2] \in Nat
          /\ wCurrent[w][2] \in 1..Len(normalized[wCurrent[w][1]])
      BY <3>1 DEF Entries
    <3>4. /\ wCurrent[w][2] + 1 \in Nat
          /\ wCurrent[w][2] + 1 \in 1..Len(normalized[wCurrent[w][1]]) + 1
      BY <1>b, <3>3
    <3>5. wCommitted' \in [Curves -> Nat]
      BY <3>1, <3>3, <3>4
    <3>6. \A c \in Curves : wCommitted'[c] \in 1..Len(normalized[c]) + 1
      BY <3>1, <3>3, <3>4
    <3> QED
      BY <2>a, <3>1, <3>2, <3>5, <3>6
  <2>6. ASSUME NEW w \in Writers, Restart(w) PROVE WTyped'
    <3>1. /\ wPc' = [wPc EXCEPT ![w] = "poll"]
          /\ wCurrent' = [v \in Writers |-> wCurrent'[v]]
          /\ wRead' = [v \in Writers |-> wRead'[v]]
          /\ \A v \in Writers : Busy(v)' => Busy(v) /\ wCurrent'[v] = wCurrent[v]
          /\ wPosition' = [c \in Curves |-> IF wOwner[c] = w THEN wCommitted[c] ELSE wPosition[c]]
          /\ troubles' \in {troubles, troubles + 1}
          /\ UNCHANGED <<wOwner, wCommitted, latest, history, snapshot, wRebalances, applied>>
      BY <2>6 DEF Restart, W!WEnds, W!WForgets, W!WRestarts, W!redisVars, W!wHistoryVars
    <3>2. wPc' \in [Writers -> {"poll", "write", "assemble", "set", "commit"}]
      BY <3>1
    <3>3. {troubles', wRebalances'} \subseteq Nat
      BY <3>1
    <3>4. wPosition' \in [Curves -> Nat]
      BY <3>1
    <3>5. \A c \in Curves : wPosition'[c] \in 1..Len(normalized[c]) + 1
      BY <3>1
    <3> QED
      BY <2>a, <3>1, <3>2, <3>3, <3>4, <3>5
  <2>7. ASSUME NEW c \in Curves, Moves(c) PROVE WTyped'
    <3>1. /\ wOwner' \in [Curves -> Writers]
          /\ wPosition' = [wPosition EXCEPT ![c] = wCommitted[c]]
          /\ {troubles', wRebalances'} \subseteq Nat
          /\ UNCHANGED <<wCommitted, wPc, wCurrent, wRead, latest, history, snapshot, applied>>
      <4>1. wOwner' \in [Curves -> Writers]
        BY <2>7 DEF Moves
      <4>2. troubles' = troubles + 1 /\ wRebalances' = wRebalances + 1
        BY <2>7 DEF Moves
      <4>3. {troubles', wRebalances'} \subseteq Nat
        BY <4>2
      <4> QED
        BY <2>7, <4>1, <4>3 DEF Moves
    <3>2. wPosition' \in [Curves -> Nat]
      BY <3>1
    <3>3. \A d \in Curves : wPosition'[d] \in 1..Len(normalized[d]) + 1
      BY <3>1
    <3> QED
      BY <2>a, <3>1, <3>2, <3>3
  <2> QED
    BY <1>2, <2>1, <2>2, <2>3, <2>4, <2>5, <2>6, <2>7, WriterStep
<1> QED
  BY <1>a, <1>1, <1>2

LEMMA WTypedAtFirst == ASSUME Init PROVE InPartition /\ WTyped
<1>1. /\ normalized = [c \in Curves |-> <<>>] /\ troubles = 0
      /\ wOwner \in [Curves -> Writers]
      /\ wCommitted = [c \in Curves |-> 1] /\ wPosition = [c \in Curves |-> 1]
      /\ wPc = [w \in Writers |-> "poll"]
      /\ wCurrent = [w \in Writers |-> W!NoEntry] /\ wRead = [w \in Writers |-> W!NoTenors]
      /\ latest = [i \in Instruments |-> W!NoTenors]
      /\ history = [i \in Instruments |-> {}]
      /\ snapshot = [i \in Instruments |-> W!NoTenors]
      /\ wRebalances = 0 /\ applied = {}
  BY PipelineAssumption DEF Init, N!InitAt, W!Init
<1>2. \A c \in Curves : Len(normalized[c]) = 0
  BY <1>1
<1>3. InPartition
  BY <1>2 DEF InPartition
<1>4. \A c \in Curves : /\ wCommitted[c] \in 1..Len(normalized[c]) + 1
                        /\ wPosition[c] \in 1..Len(normalized[c]) + 1
  BY <1>1, <1>2
<1>5. applied \subseteq Entries /\ IsFiniteSet(applied)
  BY <1>1, FS_EmptySet
<1> QED
  BY <1>1, <1>3, <1>4, <1>5 DEF WTyped, Busy

\* What the proofs about the writers start from.
Sound == Typed /\ InPartition /\ WTyped
LEMMA AlwaysSound == Spec => []Sound
<1>1. Init => Sound
  BY TypedAtFirst, WTypedAtFirst DEF Sound
<1>2. Sound /\ [Next]_vars => Sound'
  BY TypedStep, TopicStep, WTypedStep DEF Sound
<1> QED
  BY <1>1, <1>2, PTL DEF Spec

-----------------------------------------------------------------------------

\* A writer counts as we do.
LEMMA SameCardinality == \A S : W!Cardinality(S) = Cardinality(S)
BY DEF W!Cardinality, Cardinality

\* The smaller of two numbers.
LEMMA SmallerOfTwo ==
    ASSUME NEW a \in Nat, NEW b \in Nat
    PROVE  W!Min({a, b}) = IF a <= b THEN a ELSE b
<1> DEFINE m == IF a <= b THEN a ELSE b
           Least(x) == x \in {a, b} /\ \A y \in {a, b} : x <= y
<1>1. Least(m) /\ \A x : Least(x) => x = m
  OBVIOUS
<1>2. W!Min({a, b}) = CHOOSE x : Least(x)
  BY DEF W!Min
<1> QED
  BY <1>1, <1>2

\* Trimming a set that has gained an element: at most one leaves it.
LEMMA TrimProperties ==
    ASSUME NEW members, IsFiniteSet(members), NEW kept \in SUBSET members,
           W!Trim(members, kept)
    PROVE  /\ IsFiniteSet(kept)
           /\ Cardinality(members) <= HistoryMax => kept = members
           /\ Cardinality(members) > HistoryMax => Cardinality(kept) = HistoryMax
<1>1. HistoryMax \in Nat /\ Cardinality(members) \in Nat
  BY PipelineAssumption, FS_CardinalityType
<1>2. Cardinality(kept) = IF HistoryMax <= Cardinality(members) THEN HistoryMax
                                                                ELSE Cardinality(members)
  BY <1>1, SmallerOfTwo, SameCardinality DEF W!Trim
<1>3. IsFiniteSet(kept) /\ (Cardinality(members) = Cardinality(kept) => kept = members)
  BY FS_Subset
<1> QED
  BY <1>1, <1>2, <1>3

\* The history of one instrument: the most recent of all.
MostRecent(i) ==
    /\ history[i] \subseteq W!EntriesOf(i)
    /\ W!Cardinality(history[i]) = W!Min({HistoryMax, W!Cardinality(W!EntriesOf(i))})
    /\ \A h \in history[i], e \in W!EntriesOf(i) \ history[i] : W!Time(e) <= W!Time(h)

\* Trimming, of sets E of entries and H of its most recent ones.
LEMMA TrimKeepsMostRecent ==
    ASSUME NEW E, IsFiniteSet(E), NEW H \in SUBSET E, NEW x,
           Cardinality(H) = W!Min({HistoryMax, Cardinality(E)}),
           \A e \in E \cup {x} : W!Time(e) \in Nat,
           \A h \in H, e \in E \ H : W!Time(e) <= W!Time(h),
           NEW kept \in SUBSET (H \cup {x}), W!Trim(H \cup {x}, kept)
    PROVE  /\ Cardinality(kept) = W!Min({HistoryMax, Cardinality(E \cup {x})})
           /\ \A h \in kept, e \in (E \cup {x}) \ kept : W!Time(e) <= W!Time(h)
<1> DEFINE members == H \cup {x}
<1>1. /\ HistoryMax \in Nat /\ Cardinality(E) \in Nat /\ Cardinality(E \cup {x}) \in Nat
      /\ IsFiniteSet(H) /\ IsFiniteSet(members) /\ Cardinality(H) \in Nat
      /\ Cardinality(members) \in Nat
  BY PipelineAssumption, FS_CardinalityType, FS_AddElement, FS_Subset
<1>2. /\ Cardinality(E \cup {x}) = IF x \in E THEN Cardinality(E) ELSE Cardinality(E) + 1
      /\ Cardinality(members) = IF x \in H THEN Cardinality(H) ELSE Cardinality(H) + 1
  BY <1>1, FS_AddElement
<1>3. /\ Cardinality(H) = IF HistoryMax <= Cardinality(E) THEN HistoryMax ELSE Cardinality(E)
      /\ W!Min({HistoryMax, Cardinality(E \cup {x})})
           = IF HistoryMax <= Cardinality(E \cup {x}) THEN HistoryMax ELSE Cardinality(E \cup {x})
  BY <1>1, SmallerOfTwo
<1>4. Cardinality(H) = Cardinality(E) => H = E
  BY FS_Subset
<1>5. /\ Cardinality(members) <= HistoryMax => kept = members
      /\ Cardinality(members) > HistoryMax => Cardinality(kept) = HistoryMax
  BY <1>1, TrimProperties
<1>6. Cardinality(kept) = W!Min({HistoryMax, Cardinality(E \cup {x})})
  <2> DEFINE e == Cardinality(E)
             h == Cardinality(H)
  <2>1. CASE x \in H
    <3>1. Cardinality(members) = h /\ Cardinality(E \cup {x}) = e
      BY <1>2, <2>1
    <3> QED
      BY <1>1, <1>3, <1>5, <2>1, <3>1
  <2>2. CASE x \in E /\ x \notin H
    <3>1. Cardinality(members) = h + 1 /\ Cardinality(E \cup {x}) = e /\ h = HistoryMax
      BY <1>1, <1>2, <1>3, <1>4, <2>2
    <3> QED
      BY <1>1, <1>3, <1>5, <3>1
  <2>3. CASE x \notin E
    <3>1. Cardinality(members) = h + 1 /\ Cardinality(E \cup {x}) = e + 1
      BY <1>2, <2>3
    <3>2. CASE HistoryMax <= e
      <4>1. h = HistoryMax /\ Cardinality(members) > HistoryMax /\ HistoryMax <= e + 1
        <5>1. h = HistoryMax /\ Cardinality(members) = h + 1
          BY <1>3, <3>1, <3>2
        <5>2. e \in Nat /\ h \in Nat
          BY <1>1
        <5> HIDE DEF e, h
        <5> QED
          BY <3>2, <5>1, <5>2
      <4> QED
        BY <1>3, <1>5, <3>1, <4>1
    <3>3. CASE ~(HistoryMax <= e)
      <4>1. h = e /\ Cardinality(members) <= HistoryMax /\ e + 1 <= HistoryMax
        <5>1. h = e /\ Cardinality(members) = h + 1
          BY <1>3, <3>1, <3>3
        <5>2. e \in Nat /\ HistoryMax \in Nat
          BY <1>1
        <5> HIDE DEF e, h
        <5> QED
          BY <3>3, <5>1, <5>2
      <4>2. Cardinality(kept) = e + 1
        BY <1>5, <3>1, <4>1
      <4> QED
        BY <1>1, <1>3, <3>1, <4>1, <4>2
    <3> QED
      BY <3>2, <3>3
  <2> QED
    BY <2>1, <2>2, <2>3
<1>7. \A h \in kept, m \in members \ kept : W!Time(m) <= W!Time(h)
  <2>1. \A h \in kept, m \in members \ kept : W!Time(h) >= W!Time(m)
    BY DEF W!Trim
  <2> QED
    BY <2>1
<1>8. ASSUME NEW h \in kept, NEW e \in (E \cup {x}) \ kept PROVE W!Time(e) <= W!Time(h)
  <2>1. CASE e \in members
    BY <1>7, <2>1
  <2>2. CASE e \notin members
    <3>1. e \in E \ H /\ h \in members
      BY <2>2
    <3>2. CASE h \in H
      BY <3>1, <3>2
    <3>3. CASE h = x /\ x \notin H
      <4>1. Cardinality(H) = HistoryMax
        BY <1>1, <1>3, <1>4, <3>1
      <4>2. Cardinality(members) > HistoryMax /\ Cardinality(kept) = HistoryMax
        BY <1>1, <1>2, <1>5, <3>3, <4>1
      <4>3. PICK m \in members : m \notin kept
        BY <1>1, <4>2
      <4>4. m \in H /\ m \in E
        BY <3>3, <4>3
      <4>5. W!Time(e) <= W!Time(m) /\ W!Time(m) <= W!Time(h)
        BY <1>7, <3>1, <4>3, <4>4
      <4>6. W!Time(e) \in Nat /\ W!Time(m) \in Nat /\ W!Time(h) \in Nat
        BY <3>1, <3>3, <4>4
      <4> QED
        BY <4>5, <4>6
    <3> QED
      BY <3>1, <3>2, <3>3
  <2> QED
    BY <2>1, <2>2
<1> QED
  BY <1>6, <1>8

LEMMA HistoryStep ==
    ASSUME Sound, HistoryHoldsMostRecent, [Next]_vars
    PROVE  HistoryHoldsMostRecent'
<1>a. Typed /\ InPartition /\ WTyped
  BY DEF Sound
<1>b. \A i \in Instruments : MostRecent(i)
  BY DEF HistoryHoldsMostRecent, W!HistoryHoldsMostRecent, MostRecent
<1>c. /\ Grown
      /\ WriterMoves \/ (UNCHANGED writerVars /\ troubles' \in {troubles, troubles + 1})
      /\ \A entry \in Entries : W!EventAt(entry)' = W!EventAt(entry)
  BY <1>a, TopicStep, EntriesStay
<1>d. applied \subseteq Entries /\ IsFiniteSet(applied)
  BY <1>a DEF WTyped
<1> SUFFICES ASSUME NEW i \in Instruments PROVE MostRecent(i)'
  BY DEF HistoryHoldsMostRecent, W!HistoryHoldsMostRecent, MostRecent
<1>e. W!EntriesOf(i) \subseteq Entries /\ history[i] \subseteq W!EntriesOf(i)
  BY <1>b, <1>d DEF W!EntriesOf, MostRecent
<1>1. ASSUME history'[i] = history[i], W!EntriesOf(i)' = W!EntriesOf(i)
      PROVE  MostRecent(i)'
  <2>1. ASSUME NEW e \in W!EntriesOf(i) PROVE W!EventAt(e)' = W!EventAt(e)
    BY <1>c, <1>e
  <2>2. \A e \in W!EntriesOf(i) : W!Time(e)' = W!Time(e)
    BY <2>1 DEF W!Time
  <2> QED
    BY <1>1, <1>b, <1>e, <2>2 DEF MostRecent
<1>2. CASE UNCHANGED <<history, applied>>
  <2>1. \A e \in applied : W!EventAt(e)' = W!EventAt(e)
    BY <1>c, <1>d
  <2>2. W!EntriesOf(i)' = W!EntriesOf(i)
    BY <1>2, <2>1 DEF W!EntriesOf
  <2> QED
    BY <1>1, <1>2, <2>2
<1>3. ASSUME NEW w \in Writers, Executes(w), WriterMoves PROVE MostRecent(i)'
  <2> DEFINE x == wCurrent[w]
             E == W!EntriesOf(i)
             H == history[i]
  <2>1. normalized' = normalized /\ x \in Entries
    BY <1>3, <1>a DEF WriterMoves, Executes, WTyped, Busy
  <2>2. /\ applied' = applied \cup {x}
        /\ \E kept \in SUBSET (history[W!Instrument(w)] \cup {x}) :
              /\ W!Trim(history[W!Instrument(w)] \cup {x}, kept)
              /\ history' = [history EXCEPT ![W!Instrument(w)] = kept]
    BY <1>3 DEF Executes, W!Execute
  <2>3. \A e : W!EventAt(e)' = W!EventAt(e) /\ W!Time(e)' = W!Time(e)
    BY <2>1 DEF W!EventAt, W!Time
  <2>4. W!Instrument(w) = W!EventAt(x).instrument
    BY DEF W!Instrument
  <2>5. W!EntriesOf(i)' = {e \in applied \cup {x} : W!EventAt(e).instrument = i}
    BY <2>2, <2>3 DEF W!EntriesOf
  <2>6. CASE W!Instrument(w) # i
    <3>1. W!EntriesOf(i)' = E
      BY <2>4, <2>5, <2>6 DEF W!EntriesOf
    <3>2. history'[i] = history[i]
      BY <2>2, <2>6, <1>a DEF WTyped
    <3> QED
      BY <1>1, <3>1, <3>2
  <2>7. CASE W!Instrument(w) = i
    <3>1. W!EntriesOf(i)' = E \cup {x}
      BY <2>4, <2>5, <2>7 DEF W!EntriesOf
    <3>2. PICK kept \in SUBSET (H \cup {x}) :
             W!Trim(H \cup {x}, kept) /\ history' = [history EXCEPT ![i] = kept]
      BY <2>2, <2>7
    <3>3. history'[i] = kept
      BY <3>2, <1>a DEF WTyped
    <3>4. IsFiniteSet(E)
      BY <1>d, FS_Subset DEF W!EntriesOf
    <3>5. /\ H \in SUBSET E /\ Cardinality(H) = W!Min({HistoryMax, Cardinality(E)})
          /\ \A h \in H, e \in E \ H : W!Time(e) <= W!Time(h)
      BY <1>b, SameCardinality DEF MostRecent
    <3>6. \A e \in E \cup {x} : W!Time(e) \in Nat
      <4>1. E \cup {x} \subseteq Entries
        BY <1>e, <2>1
      <4> QED
        BY <1>a, <4>1, EntryHoldsEvent DEF W!Time
    <3> HIDE DEF E, H, x
    <3>7. /\ Cardinality(kept) = W!Min({HistoryMax, Cardinality(E \cup {x})})
          /\ \A h \in kept, e \in (E \cup {x}) \ kept : W!Time(e) <= W!Time(h)
      BY <3>2, <3>4, <3>5, <3>6, TrimKeepsMostRecent
    <3>8. kept \subseteq E \cup {x}
      BY <3>2, <3>5
    <3> QED
      BY <2>3, <3>1, <3>3, <3>7, <3>8, SameCardinality DEF MostRecent
  <2> QED
    BY <2>6, <2>7
<1>4. CASE WriterMoves
  <2>1. ASSUME NEW w \in Writers, \/ \E c \in Curves : W!WPoll(w, c)
                                  \/ W!Assemble(w) \/ W!SetSnapshot(w)
                                  \/ GivesUp(w) \/ W!WCommit(w) \/ Restart(w)
        PROVE  UNCHANGED <<history, applied>>
    BY <2>1 DEF W!WPoll, W!Assemble, W!SetSnapshot, GivesUp, W!WCommit, Restart, W!WEnds,
                W!redisVars, W!wHistoryVars
  <2>2. ASSUME NEW c \in Curves, Moves(c) PROVE UNCHANGED <<history, applied>>
    BY <2>2 DEF Moves
  <2> QED
    BY <1>2, <1>3, <1>4, <2>1, <2>2, WriterStep
<1> QED
  BY <1>2, <1>4, <1>c DEF writerVars

\* The history of an instrument holds the most recent of all events ever written,
\* in whatever order they came and however often (curve_store.py:128).
THEOREM HistoryAlwaysMostRecent == Spec => []HistoryHoldsMostRecent
<1>1. Init => HistoryHoldsMostRecent
  <2> SUFFICES ASSUME Init, NEW i \in Instruments PROVE MostRecent(i)
    BY DEF HistoryHoldsMostRecent, W!HistoryHoldsMostRecent, MostRecent
  <2>1. history[i] = {} /\ W!EntriesOf(i) = {}
    BY DEF Init, W!Init, W!EntriesOf
  <2>2. W!Cardinality({}) = 0
    BY SameCardinality, FS_EmptySet
  <2>3. W!Min({HistoryMax, 0}) = 0
    BY SmallerOfTwo, PipelineAssumption
  <2> QED
    BY <2>1, <2>2, <2>3 DEF MostRecent
<1>2. Sound /\ HistoryHoldsMostRecent /\ [Next]_vars => HistoryHoldsMostRecent'
  BY HistoryStep
<1> QED
  BY <1>1, <1>2, AlwaysSound, PTL DEF Spec

-----------------------------------------------------------------------------

LEMMA SnapshotStep ==
    ASSUME Sound, SnapshotFollows, [Next]_vars
    PROVE  SnapshotFollows'
<1>a. Typed /\ InPartition /\ WTyped
  BY DEF Sound
<1>b. /\ Grown
      /\ WriterMoves \/ (UNCHANGED writerVars /\ troubles' \in {troubles, troubles + 1})
      /\ \A entry \in Entries : W!EventAt(entry)' = W!EventAt(entry)
  BY <1>a, TopicStep, EntriesStay
<1>c. troubles \in Nat
  BY <1>a DEF WTyped
<1> SUFFICES ASSUME troubles' = 0
             PROVE  /\ \A w \in Writers : Busy(w)' => wOwner'[wCurrent'[w][1]] = w
                    /\ \A w \in Writers : W!SoleWriter(w)' => Follows(w)'
  BY DEF SnapshotFollows
<1>d. ASSUME troubles = 0
      PROVE  /\ \A w \in Writers : Busy(w) => wOwner[wCurrent[w][1]] = w
             /\ \A w \in Writers : W!SoleWriter(w) => Follows(w)
  BY <1>d DEF SnapshotFollows
<1>1. CASE UNCHANGED writerVars /\ troubles' \in {troubles, troubles + 1}
  <2>1. troubles = 0
    BY <1>c, <1>1
  <2>2. ASSUME NEW w \in Writers, Busy(w) PROVE W!Instrument(w)' = W!Instrument(w)
    <3>1. wCurrent[w] \in Entries /\ wCurrent' = wCurrent
      BY <1>a, <1>1, <2>2 DEF WTyped, writerVars
    <3> QED
      BY <1>b, <3>1 DEF W!Instrument, W!EventAt
  <2>3. UNCHANGED <<wOwner, wPc, wCurrent, wRead, latest, snapshot>>
    BY <1>1 DEF writerVars
  <2>4. \A w \in Writers : Busy(w)' => wOwner'[wCurrent'[w][1]] = w
    BY <1>d, <2>1, <2>3 DEF Busy
  <2>5. ASSUME NEW w \in Writers, W!SoleWriter(w)' PROVE Follows(w)'
    <3>1. Follows(w)
      BY <1>d, <2>1, <2>3, <2>5 DEF W!SoleWriter
    <3> QED
      BY <2>2, <2>3, <3>1 DEF Follows, EnoughTenors, Busy
  <2> QED
    BY <2>4, <2>5
<1>2. CASE WriterMoves
  <2>a. normalized' = normalized
    BY <1>2 DEF WriterMoves
  <2>b. \A w : wCurrent'[w] = wCurrent[w] => W!Instrument(w)' = W!Instrument(w)
    BY <2>a DEF W!Instrument, W!EventAt
  <2>c. \A w \in Writers : Busy(w) => wCurrent[w][1] \in Curves /\ W!Instrument(w) \in Instruments
    <3>1. \A w \in Writers : Busy(w) => wCurrent[w] \in Entries
      BY <1>a DEF WTyped
    <3> QED
      BY <1>a, <3>1, EntryHoldsEvent DEF Entries, W!Instrument
  <2>1. ASSUME NEW v \in Writers,
               NEW from \in {"poll", "write", "assemble", "set", "commit"},
               NEW to \in {"poll", "write", "assemble", "set", "commit"},
               wPc[v] = from, wPc' = [wPc EXCEPT ![v] = to],
               troubles = 0, wOwner' = wOwner,
               \A w \in Writers \ {v} : wCurrent'[w] = wCurrent[w],
               to # "poll" => wOwner[wCurrent'[v][1]] = v,
               from = "poll" => to # "poll" /\ wCurrent'[v][1] \in Curves,
               W!SoleWriter(v) => Follows(v)'
        PROVE  /\ \A w \in Writers : Busy(w)' => wOwner'[wCurrent'[w][1]] = w
               /\ \A w \in Writers : W!SoleWriter(w)' => Follows(w)'
    <3>1. wPc'[v] = to /\ \A w \in Writers \ {v} : wPc'[w] = wPc[w]
      BY <1>a, <2>1 DEF WTyped
    <3>2. \A w \in Writers : Busy(w)' => wOwner'[wCurrent'[w][1]] = w
      BY <1>d, <2>1, <3>1 DEF Busy
    <3>3. ASSUME NEW w \in Writers, W!SoleWriter(w)' PROVE Follows(w)'
      <4>1. CASE w = v
        BY <2>1, <3>3, <4>1 DEF W!SoleWriter
      <4>2. CASE w # v
        <5>1. \A c \in Curves : wOwner[c] # v
          BY <2>1, <3>3, <4>2 DEF W!SoleWriter
        <5>2. CASE from = "poll"
          BY <2>1, <5>1, <5>2
        <5>3. CASE from # "poll"
          <6>1. wCurrent[v][1] \in Curves /\ wOwner[wCurrent[v][1]] = v
            BY <1>d, <2>1, <2>c, <5>3 DEF Busy
          <6> QED
            BY <5>1, <6>1
        <5> QED
          BY <5>2, <5>3
      <4> QED
        BY <4>1, <4>2
    <3> QED
      BY <3>2, <3>3
  <2>2. ASSUME NEW v \in Writers, NEW c \in Curves, W!WPoll(v, c)
        PROVE  /\ \A w \in Writers : Busy(w)' => wOwner'[wCurrent'[w][1]] = w
               /\ \A w \in Writers : W!SoleWriter(w)' => Follows(w)'
    <3>1. /\ wPc[v] = "poll" /\ wPc' = [wPc EXCEPT ![v] = "write"] /\ wOwner[c] = v
          /\ wCurrent' = [wCurrent EXCEPT ![v] = <<c, wPosition[c]>>]
          /\ UNCHANGED <<wOwner, latest, snapshot, troubles>>
      BY <2>2 DEF W!WPoll, W!WGoes, W!redisVars
    <3>2. wCurrent'[v][1] = c /\ \A w \in Writers \ {v} : wCurrent'[w] = wCurrent[w]
      BY <1>a, <3>1 DEF WTyped
    <3>3. wPc'[v] = "write"
      BY <1>a, <3>1 DEF WTyped
    <3>4. W!SoleWriter(v) => Follows(v)'
      BY <1>d, <3>1, <3>3 DEF Follows, EnoughTenors
    <3> QED
      BY <2>1, <3>1, <3>2, <3>4
  <2>3. ASSUME NEW v \in Writers, Executes(v)
        PROVE  /\ \A w \in Writers : Busy(w)' => wOwner'[wCurrent'[w][1]] = w
               /\ \A w \in Writers : W!SoleWriter(w)' => Follows(w)'
    <3>1. /\ wPc[v] = "write" /\ wPc' = [wPc EXCEPT ![v] = "assemble"]
          /\ UNCHANGED <<wOwner, wCurrent, wRead, snapshot, troubles>>
      BY <1>c, <2>3 DEF Executes
    <3>2. \A i \in Instruments : i # W!Instrument(v) => latest'[i] = latest[i]
      BY <1>a, <2>3 DEF Executes, W!Execute, WTyped
    <3>3. wPc'[v] = "assemble" /\ W!Instrument(v)' = W!Instrument(v)
      BY <1>a, <2>b, <3>1 DEF WTyped
    <3>4. wOwner[wCurrent[v][1]] = v
      BY <1>d, <3>1 DEF Busy
    <3>5. W!SoleWriter(v) => Follows(v)'
      BY <1>d, <3>1, <3>2, <3>3 DEF Follows, EnoughTenors
    <3> QED
      BY <2>1, <3>1, <3>4, <3>5
  <2>4. ASSUME NEW v \in Writers, W!Assemble(v)
        PROVE  /\ \A w \in Writers : Busy(w)' => wOwner'[wCurrent'[w][1]] = w
               /\ \A w \in Writers : W!SoleWriter(w)' => Follows(w)'
    <3> DEFINE enough == EnoughTenors(W!Instrument(v))
    <3>1. /\ wPc[v] = "assemble"
          /\ wPc' = [wPc EXCEPT ![v] = IF enough THEN "set" ELSE "commit"]
          /\ wRead' = [wRead EXCEPT ![v] = latest[W!Instrument(v)]]
          /\ UNCHANGED <<wOwner, wCurrent, latest, snapshot, troubles>>
      BY <2>4 DEF W!Assemble, W!WGoes, W!wGroupVars, W!redisVars, EnoughTenors
    <3>2. /\ wPc'[v] = IF enough THEN "set" ELSE "commit"
          /\ wRead'[v] = latest[W!Instrument(v)] /\ W!Instrument(v)' = W!Instrument(v)
      BY <1>a, <2>b, <3>1 DEF WTyped
    <3>3. wOwner[wCurrent[v][1]] = v
      BY <1>d, <3>1 DEF Busy
    <3>4. W!SoleWriter(v) => Follows(v)'
      <4>1. ASSUME W!SoleWriter(v), NEW i \in Instruments, EnoughTenors(i), snapshot[i] # latest[i]
            PROVE  W!Instrument(v) = i /\ enough
        BY <1>d, <3>1, <4>1 DEF Follows
      <4>2. wPc'[v] = "set" => wRead'[v] = latest'[W!Instrument(v)']
        BY <3>1, <3>2
      <4>3. ASSUME W!SoleWriter(v), NEW i \in Instruments, EnoughTenors(i)', snapshot'[i] # latest'[i]
            PROVE  wPc'[v] \in {"assemble", "set"} /\ W!Instrument(v)' = i
        BY <3>1, <3>2, <4>1, <4>3 DEF EnoughTenors
      <4> QED
        BY <4>2, <4>3 DEF Follows
    <3> HIDE DEF enough
    <3> QED
      BY <2>1, <3>1, <3>3, <3>4
  <2>5. ASSUME NEW v \in Writers, W!SetSnapshot(v)
        PROVE  /\ \A w \in Writers : Busy(w)' => wOwner'[wCurrent'[w][1]] = w
               /\ \A w \in Writers : W!SoleWriter(w)' => Follows(w)'
    <3>1. /\ wPc[v] = "set" /\ wPc' = [wPc EXCEPT ![v] = "commit"]
          /\ snapshot' = [snapshot EXCEPT ![W!Instrument(v)] = wRead[v]]
          /\ UNCHANGED <<wOwner, wCurrent, wRead, latest, troubles>>
      BY <2>5 DEF W!SetSnapshot, W!WGoes, W!wGroupVars
    <3>2. wPc'[v] = "commit" /\ W!Instrument(v)' = W!Instrument(v)
      BY <1>a, <2>b, <3>1 DEF WTyped
    <3>3. wOwner[wCurrent[v][1]] = v
      BY <1>d, <3>1 DEF Busy
    <3>4. /\ snapshot'[W!Instrument(v)] = wRead[v]
          /\ \A i \in Instruments : i # W!Instrument(v) => snapshot'[i] = snapshot[i]
      BY <1>a, <2>c, <3>1 DEF WTyped, Busy
    <3>5. W!SoleWriter(v) => Follows(v)'
      BY <1>d, <3>1, <3>2, <3>4 DEF Follows, EnoughTenors
    <3> QED
      BY <2>1, <3>1, <3>3, <3>5
  <2>6. ASSUME NEW v \in Writers, W!WCommit(v)
        PROVE  /\ \A w \in Writers : Busy(w)' => wOwner'[wCurrent'[w][1]] = w
               /\ \A w \in Writers : W!SoleWriter(w)' => Follows(w)'
    <3>1. /\ wPc[v] = "commit" /\ wPc' = [wPc EXCEPT ![v] = "poll"]
          /\ UNCHANGED <<wOwner, latest, snapshot, troubles>>
          /\ wCurrent' = [wCurrent EXCEPT ![v] = W!NoEntry]
      BY <2>6 DEF W!WCommit, W!WForgets, W!redisVars
    <3>2. wPc'[v] = "poll" /\ \A w \in Writers \ {v} : wCurrent'[w] = wCurrent[w]
      BY <1>a, <3>1 DEF WTyped
    <3>3. W!SoleWriter(v) => Follows(v)'
      BY <1>d, <3>1, <3>2 DEF Follows, EnoughTenors
    <3> QED
      BY <2>1, <3>1, <3>2, <3>3
  <2>7. ASSUME NEW v \in Writers, Restart(v) PROVE FALSE
    BY <1>c, <1>d, <2>7 DEF Restart, Busy
  <2>8. ASSUME NEW v \in Writers, GivesUp(v) PROVE FALSE
    BY <1>c, <2>8 DEF GivesUp
  <2>9. ASSUME NEW c \in Curves, Moves(c) PROVE FALSE
    BY <1>c, <2>9 DEF Moves
  <2> QED
    BY <1>2, <2>2, <2>3, <2>4, <2>5, <2>6, <2>7, <2>8, <2>9, WriterStep
<1> QED
  BY <1>b, <1>1, <1>2

\* As long as nothing goes wrong, the snapshot that a sole writer leaves is the hash,
\* though it is made of a read of its own after the transaction.
THEOREM SnapshotAlwaysTheHash == Spec => []SnapshotIsTheHash
<1>1. Init => SnapshotFollows
  BY DEF Init, W!Init, SnapshotFollows, Follows, Busy
<1>2. Sound /\ SnapshotFollows /\ [Next]_vars => SnapshotFollows'
  BY SnapshotStep
<1>3. SnapshotFollows => SnapshotIsTheHash
  BY DEF SnapshotFollows, Follows, EnoughTenors, SnapshotIsTheHash, W!SnapshotIsTheHash
<1> QED
  BY <1>1, <1>2, <1>3, AlwaysSound, PTL DEF Spec

-----------------------------------------------------------------------------


\* What is read stays in order, as long as no partition changes hands.
LEMMA InStepStep ==
    ASSUME Sound, InStep, [Next]_vars, \A c \in Curves : ~Moves(c)
    PROVE  InStep'
<1>a. Typed /\ InPartition /\ WTyped
  BY DEF Sound
<1>b. WriterMoves \/ UNCHANGED writerVars
  BY <1>a, TopicStep
<1>c. /\ wOwner \in [Curves -> Writers]
      /\ wCommitted \in [Curves -> Nat] /\ wPosition \in [Curves -> Nat]
      /\ wPc \in [Writers -> {"poll", "write", "assemble", "set", "commit"}]
      /\ wCurrent = [w \in Writers |-> wCurrent[w]]
      /\ \A w \in Writers : Busy(w) => wCurrent[w][1] \in Curves /\ wCurrent[w][2] \in Nat
                                         /\ wCurrent[w] = <<wCurrent[w][1], wCurrent[w][2]>>
  BY <1>a DEF WTyped, Entries
<1>1. ASSUME UNCHANGED <<wOwner, wCommitted, wPosition>>, failed \subseteq failed',
             \A w \in Writers : Busy(w)' => Busy(w) /\ wCurrent'[w] = wCurrent[w],
             \A w \in Writers : Busy(w) /\ ~Busy(w)' => wCurrent[w] \in failed'
      PROVE  InStep'
  <2>1. \A w \in Writers : Busy(w)' => Held(w)'
    BY <1>1 DEF InStep, Held
  <2>2. ASSUME NEW c, NEW o, Settled(c, o) PROVE Settled(c, o)'
    BY <1>1, <2>2 DEF Settled
  <2> QED
    BY <1>1, <2>1, <2>2 DEF InStep
<1>2. ASSUME NEW v \in Writers, NEW d \in Curves, W!WPoll(v, d) PROVE InStep'
  <2>1. /\ wOwner[d] = v /\ wPc[v] = "poll" /\ wPc' = [wPc EXCEPT ![v] = "write"]
        /\ wCurrent' = [wCurrent EXCEPT ![v] = <<d, wPosition[d]>>]
        /\ wPosition' = [wPosition EXCEPT ![d] = @ + 1]
        /\ UNCHANGED <<wOwner, wCommitted, failed>>
    BY <1>2 DEF W!WPoll, W!WGoes, W!wHistoryVars
  <2>2. /\ Busy(v)' /\ wCurrent'[v] = <<d, wPosition[d]>> /\ ~Busy(v)
        /\ wPosition'[d] = wPosition[d] + 1
        /\ \A w \in Writers \ {v} : (Busy(w)' <=> Busy(w)) /\ wCurrent'[w] = wCurrent[w]
        /\ \A c \in Curves \ {d} : wPosition'[c] = wPosition[c]
    BY <1>c, <2>1 DEF Busy
  <2>3. wCommitted[d] <= wPosition[d] /\ wCommitted[d] \in Nat /\ wPosition[d] \in Nat
    BY <1>c DEF InStep
  <2>4. \A c \in Curves : wCommitted'[c] <= wPosition'[c]
    <3>1. wCommitted'[d] <= wPosition'[d]
      BY <2>1, <2>2, <2>3
    <3>2. \A c \in Curves \ {d} : wCommitted'[c] <= wPosition'[c]
      BY <2>1, <2>2 DEF InStep
    <3> QED
      BY <3>1, <3>2
  <2>5. ASSUME NEW w \in Writers, Busy(w)' PROVE Held(w)'
    <3>1. CASE w = v
      BY <2>1, <2>2, <2>3, <3>1 DEF Held
    <3>2. CASE w # v
      <4>1. Held(w) /\ wCurrent[w][1] \in Curves
        BY <1>c, <2>2, <2>5, <3>2 DEF InStep
      <4>2. wCurrent[w][1] # d
        BY <2>1, <3>2, <4>1 DEF Held
      <4> QED
        BY <2>1, <2>2, <3>2, <4>1, <4>2 DEF Held
    <3> QED
      BY <3>1, <3>2
  <2>6. ASSUME NEW c, NEW o, Settled(c, o) PROVE Settled(c, o)'
    BY <2>1, <2>2, <2>6 DEF Settled
  <2>7. ASSUME NEW c \in Curves, NEW o \in wCommitted'[c]..(wPosition'[c] - 1) PROVE Settled(c, o)'
    <3>1. CASE c = d /\ o = wPosition[d]
      BY <2>2, <3>1 DEF Settled
    <3>2. CASE c = d /\ o # wPosition[d]
      <4>1. o \in wCommitted[d]..(wPosition[d] - 1)
        BY <2>1, <2>2, <2>3, <2>7, <3>2
      <4> QED
        BY <2>6, <3>2, <4>1 DEF InStep
    <3>3. CASE c # d
      BY <2>1, <2>2, <2>6, <2>7, <3>3 DEF InStep
    <3> QED
      BY <3>1, <3>2, <3>3
  <2> QED
    BY <2>4, <2>5, <2>7 DEF InStep
<1>3. ASSUME NEW v \in Writers, W!WCommit(v) PROVE InStep'
  <2> DEFINE d == wCurrent[v][1]
  <2>1. /\ wPc[v] = "commit" /\ wPc' = [wPc EXCEPT ![v] = "poll"]
        /\ wCurrent' = [wCurrent EXCEPT ![v] = W!NoEntry]
        /\ wCommitted' = [wCommitted EXCEPT ![d] = wCurrent[v][2] + 1]
        /\ UNCHANGED <<wOwner, wPosition, failed>>
    BY <1>3 DEF W!WCommit, W!WForgets, W!wHistoryVars
  <2>2. /\ Busy(v) /\ ~Busy(v)' /\ Held(v) /\ d \in Curves
        /\ \A w \in Writers \ {v} : (Busy(w)' <=> Busy(w)) /\ wCurrent'[w] = wCurrent[w]
    BY <1>c, <2>1 DEF Busy, InStep
  <2>3. wCurrent[v][2] + 1 = wPosition[d] /\ wPosition[d] \in Nat /\ wOwner[d] = v
    <3>1. wPosition[d] \in Nat /\ wCurrent[v][2] = wPosition[d] - 1 /\ wOwner[d] = v
      BY <1>c, <2>2 DEF Held
    <3> QED
      BY <3>1
  <2>4. wCommitted'[d] = wPosition[d] /\ \A c \in Curves \ {d} : wCommitted'[c] = wCommitted[c]
    BY <1>c, <2>1, <2>2, <2>3
  <2>5. \A c \in Curves : wCommitted'[c] <= wPosition'[c]
    BY <2>1, <2>3, <2>4 DEF InStep
  <2>6. ASSUME NEW w \in Writers, Busy(w)' PROVE Held(w)'
    <3>1. w # v /\ Held(w) /\ wCurrent[w][1] \in Curves
      BY <1>c, <2>2, <2>6 DEF InStep
    <3>2. wCurrent[w][1] # d
      BY <2>3, <3>1 DEF Held
    <3> QED
      BY <2>1, <2>2, <2>4, <3>1, <3>2 DEF Held
  <2>7. ASSUME NEW c \in Curves, NEW o \in wCommitted'[c]..(wPosition'[c] - 1) PROVE Settled(c, o)'
    <3>1. c # d
      BY <2>1, <2>3, <2>4, <2>7
    <3>2. Settled(c, o)
      BY <2>1, <2>4, <2>7, <3>1 DEF InStep
    <3>3. wCurrent[v] # <<c, o>>
      BY <3>1
    <3> QED
      BY <2>1, <2>2, <3>2, <3>3 DEF Settled
  <2> QED
    BY <2>5, <2>6, <2>7 DEF InStep
<1>4. ASSUME NEW v \in Writers, Restart(v) PROVE InStep'
  <2>1. /\ wPc' = [wPc EXCEPT ![v] = "poll"]
        /\ wCurrent' = [wCurrent EXCEPT ![v] = W!NoEntry]
        /\ wPosition' = [c \in Curves |-> IF wOwner[c] = v THEN wCommitted[c] ELSE wPosition[c]]
        /\ UNCHANGED <<wOwner, wCommitted, failed>>
    BY <1>4 DEF Restart, W!WEnds, W!WForgets, W!WRestarts, W!wHistoryVars
  <2>2. /\ ~Busy(v)'
        /\ \A w \in Writers \ {v} : (Busy(w)' <=> Busy(w)) /\ wCurrent'[w] = wCurrent[w]
        /\ \A c \in Curves : IF wOwner[c] = v THEN wPosition'[c] = wCommitted[c]
                                              ELSE wPosition'[c] = wPosition[c]
    BY <1>c, <2>1 DEF Busy
  <2>3. \A c \in Curves : wCommitted'[c] <= wPosition'[c]
    BY <1>c, <2>1, <2>2 DEF InStep
  <2>4. ASSUME NEW w \in Writers, Busy(w)' PROVE Held(w)'
    <3>1. w # v /\ Held(w) /\ wCurrent[w][1] \in Curves
      BY <1>c, <2>2, <2>4 DEF InStep
    <3> QED
      BY <2>1, <2>2, <3>1 DEF Held
  <2>5. ASSUME NEW c \in Curves, NEW o \in wCommitted'[c]..(wPosition'[c] - 1) PROVE Settled(c, o)'
    <3>1. wOwner[c] # v
      BY <1>c, <2>1, <2>2, <2>5
    <3>2. Settled(c, o)
      BY <2>1, <2>2, <2>5, <3>1 DEF InStep
    <3>3. Busy(v) => wCurrent[v] # <<c, o>>
      BY <3>1 DEF InStep, Held
    <3> QED
      BY <2>1, <2>2, <3>2, <3>3 DEF Settled
  <2> QED
    BY <2>3, <2>4, <2>5 DEF InStep
<1>5. ASSUME NEW v \in Writers, Executes(v) \/ W!Assemble(v) \/ W!SetSnapshot(v) \/ GivesUp(v)
      PROVE  InStep'
  <2>1. /\ wPc[v] # "poll" /\ UNCHANGED <<wOwner, wCommitted, wPosition>>
        /\ \A w \in Writers \ {v} : wPc'[w] = wPc[w] /\ wCurrent'[w] = wCurrent[w]
        /\ \/ wPc'[v] # "poll" /\ wCurrent'[v] = wCurrent[v] /\ failed' = failed
           \/ wPc'[v] = "poll" /\ failed' = failed \cup {wCurrent[v]}
    <3>1. CASE Executes(v)
      BY <1>c, <3>1 DEF Executes, W!WForgets
    <3>2. CASE W!Assemble(v)
      BY <1>c, <3>2 DEF W!Assemble, W!WGoes, W!wGroupVars, W!wHistoryVars
    <3>3. CASE W!SetSnapshot(v)
      BY <1>c, <3>3 DEF W!SetSnapshot, W!WGoes, W!wGroupVars, W!wHistoryVars
    <3>4. CASE GivesUp(v)
      BY <1>c, <3>4 DEF GivesUp, W!WForgets
    <3> QED
      BY <1>5, <3>1, <3>2, <3>3, <3>4
  <2> QED
    BY <1>1, <2>1 DEF Busy
<1>6. CASE UNCHANGED writerVars
  BY <1>1, <1>6 DEF writerVars, Busy
<1> QED
  BY <1>b, <1>2, <1>3, <1>4, <1>5, <1>6, WriterStep

\* Prices of one instrument and tenor come from one partition.
LEMMA OnePartition ==
    ASSUME InPartition, NEW a \in Entries, NEW b \in Entries,
           W!EventAt(a).instrument = W!EventAt(b).instrument, Tenor(a) = Tenor(b)
    PROVE  a[1] = b[1]
<1>1. N!PartitionOf(W!EventAt(a)) = a[1] /\ N!PartitionOf(W!EventAt(b)) = b[1]
  BY DEF InPartition, W!EventAt, Entries
<1> QED
  BY <1>1 DEF N!PartitionOf, Tenor

\* What the transaction makes of the hash.
LEMMA HashAfter ==
    ASSUME WTyped, Typed, NEW v \in Writers, Executes(v)
    PROVE  LET x == wCurrent[v]
               i == W!Instrument(v)
           IN /\ x \in Entries /\ i \in Instruments
              /\ DOMAIN latest'[i] = DOMAIN latest[i] \cup {Tenor(x)} /\ latest'[i][Tenor(x)] = x
              /\ \A t \in DOMAIN latest[i] \ {Tenor(x)} : latest'[i][t] = latest[i][t]
              /\ \A j \in Instruments \ {i} : latest'[j] = latest[j]
<1> DEFINE x == wCurrent[v]
           i == W!Instrument(v)
<1>1. x \in Entries
  BY DEF WTyped, Busy, Executes
<1>2. i \in Instruments
  BY <1>1, EntryHoldsEvent DEF W!Instrument
<1>3. latest' = [latest EXCEPT ![i] = W!HSet(@, Tenor(x), x)]
  BY DEF Executes, W!Execute, Tenor
<1>4. latest'[i] = W!HSet(latest[i], Tenor(x), x) /\ \A j \in Instruments \ {i} : latest'[j] = latest[j]
  BY <1>2, <1>3 DEF WTyped
<1> QED
  BY <1>1, <1>2, <1>4 DEF W!HSet

\* A price stays in its place.
LEMMA InPlaceStep ==
    ASSUME Sound, InPlace, [Next]_vars
    PROVE  InPlace'
<1>a. Typed /\ InPartition /\ WTyped
  BY DEF Sound
<1>b. /\ WriterMoves \/ UNCHANGED writerVars
      /\ Entries \subseteq Entries' /\ \A entry \in Entries : W!EventAt(entry)' = W!EventAt(entry)
  BY <1>a, TopicStep, EntriesStay
<1>1. CASE latest' = latest
  BY <1>1, <1>b DEF InPlace, Tenor
<1>2. ASSUME NEW v \in Writers, Executes(v) PROVE InPlace'
  <2> DEFINE x == wCurrent[v]
             i == W!Instrument(v)
  <2>1. /\ x \in Entries /\ i \in Instruments
        /\ DOMAIN latest'[i] = DOMAIN latest[i] \cup {Tenor(x)} /\ latest'[i][Tenor(x)] = x
        /\ \A t \in DOMAIN latest[i] \ {Tenor(x)} : latest'[i][t] = latest[i][t]
        /\ \A j \in Instruments \ {i} : latest'[j] = latest[j]
    BY <1>2, <1>a, HashAfter
  <2>2. W!EventAt(x).instrument = i
    BY DEF W!Instrument
  <2> HIDE DEF x, i
  <2>3. ASSUME NEW j \in Instruments, NEW t \in DOMAIN latest'[j]
        PROVE  LET entry == latest'[j][t]
               IN entry \in Entries /\ W!EventAt(entry).instrument = j /\ Tenor(entry) = t
    <3>1. CASE j = i /\ t = Tenor(x)
      BY <2>1, <2>2, <3>1
    <3>2. CASE ~(j = i /\ t = Tenor(x))
      <4>1. t \in DOMAIN latest[j] /\ latest'[j][t] = latest[j][t]
        BY <2>1, <2>3, <3>2
      <4> QED
        BY <4>1 DEF InPlace
    <3> QED
      BY <3>1, <3>2
  <2> QED
    BY <1>b, <2>3 DEF InPlace, Tenor
<1>3. CASE WriterMoves
  <2>1. ASSUME NEW w \in Writers, \/ \E c \in Curves : W!WPoll(w, c)
                                  \/ W!Assemble(w) \/ W!SetSnapshot(w)
                                  \/ GivesUp(w) \/ W!WCommit(w) \/ Restart(w)
        PROVE  latest' = latest
    BY <2>1 DEF W!WPoll, W!Assemble, W!SetSnapshot, GivesUp, W!WCommit, Restart, W!WEnds,
                W!redisVars
  <2>2. ASSUME NEW c \in Curves, Moves(c) PROVE latest' = latest
    BY <2>2 DEF Moves
  <2> QED
    BY <1>1, <1>2, <1>3, <2>1, <2>2, WriterStep
<1> QED
  BY <1>1, <1>3, <1>b DEF writerVars

\* A committed price stays until a later one comes, as long as no partition changes
\* hands.
LEMMA StickStep ==
    ASSUME Sound, InStep, Stick, [Next]_vars, \A c \in Curves : ~Moves(c)
    PROVE  Stick'
<1>a. Typed /\ InPartition /\ WTyped
  BY DEF Sound
<1>b. /\ Grown
      /\ WriterMoves \/ UNCHANGED writerVars
      /\ \A entry \in Entries : W!EventAt(entry)' = W!EventAt(entry)
  BY <1>a, TopicStep, EntriesStay
<1>c. /\ \A c \in Curves : wCommitted[c] \in Nat
      /\ \A w \in Writers : Busy(w) => wCurrent[w] \in Entries
      /\ wPc \in [Writers -> {"poll", "write", "assemble", "set", "commit"}]
      /\ wCommitted \in [Curves -> Nat] /\ wCurrent = [w \in Writers |-> wCurrent[w]]
  BY <1>a DEF WTyped
<1>g. \A c \in Curves : \A k \in 1..Len(normalized[c]) : normalized'[c][k] = normalized[c][k]
  BY <1>a, TopicStep DEF Grown
<1>d. ASSUME NEW c \in Curves, NEW o \in 1..(wCommitted[c] - 1)
      PROVE  <<c, o>> \in Entries /\ o \in Nat /\ normalized'[c][o] = normalized[c][o]
  <2>1. wCommitted[c] \in 1..Len(normalized[c]) + 1 /\ Len(normalized[c]) \in Nat
    BY <1>a DEF WTyped, Typed
  <2>2. o \in 1..Len(normalized[c])
    BY <2>1
  <2>3. <<c, o>> \in Entries
    BY <2>2 DEF Entries
  <2>4. normalized'[c][o] = normalized[c][o]
    BY <1>g, <2>2
  <2> QED
    BY <2>2, <2>3, <2>4
<1>e. ASSUME NEW w \in Writers, Busy(w), wCurrent'[w] = wCurrent[w]
      PROVE  W!Instrument(w)' = W!Instrument(w) /\ Tenor(wCurrent[w])' = Tenor(wCurrent[w])
  <2>1. wCurrent[w] \in Entries
    BY <1>c, <1>e
  <2>2. W!EventAt(wCurrent[w])' = W!EventAt(wCurrent[w])
    BY <1>b, <1>e, <2>1 DEF W!EventAt
  <2> QED
    BY <2>2 DEF W!Instrument, Tenor
<1>1. ASSUME UNCHANGED <<wCommitted, latest>>, failed \subseteq failed',
             \A w \in Writers : wPc'[w] \in {"assemble", "set", "commit"} =>
                wPc[w] \in {"assemble", "set", "commit"} /\ wCurrent'[w] = wCurrent[w]
      PROVE  Stick'
  <2>1. ASSUME NEW c \in Curves, NEW o \in 1..(wCommitted[c] - 1), <<c, o>> \notin failed'
        PROVE  NotBefore(c, o)'
    BY <1>1, <1>d, <2>1 DEF Stick, NotBefore
  <2>2. ASSUME NEW w \in Writers, wPc'[w] \in {"assemble", "set", "commit"}
        PROVE  Fresh(w)'
    <3>1. Busy(w) /\ wCurrent'[w] = wCurrent[w] /\ Fresh(w)
      BY <1>1, <2>2 DEF Busy, Stick
    <3> QED
      BY <1>1, <1>e, <3>1 DEF Fresh
  <2> QED
    BY <1>1, <2>1, <2>2 DEF Stick
<1>2. ASSUME NEW v \in Writers, Executes(v) PROVE Stick'
  <2> DEFINE x == wCurrent[v]
             i == W!Instrument(v)
             d == x[1]
  <2>1. /\ x \in Entries /\ i \in Instruments
        /\ DOMAIN latest'[i] = DOMAIN latest[i] \cup {Tenor(x)} /\ latest'[i][Tenor(x)] = x
        /\ \A t \in DOMAIN latest[i] \ {Tenor(x)} : latest'[i][t] = latest[i][t]
        /\ \A j \in Instruments \ {i} : latest'[j] = latest[j]
    BY <1>2, <1>a, HashAfter
  <2>2. /\ wPc[v] = "write" /\ wCommitted' = wCommitted /\ failed \subseteq failed'
        /\ \A w \in Writers \ {v} : wPc'[w] = wPc[w] /\ wCurrent'[w] = wCurrent[w]
        /\ wPc'[v] = "assemble" => wCurrent'[v] = x
        /\ wPc'[v] \in {"assemble", "poll"}
    BY <1>2, <1>c DEF Executes, W!WForgets
  <2>3. Held(v) /\ d \in Curves /\ x[2] \in Nat /\ W!EventAt(x).instrument = i
    BY <2>1, <2>2 DEF InStep, Busy, Entries, W!Instrument
  <2>4. wCommitted[d] <= x[2]
    <3>1. x[2] = wPosition[d] - 1 /\ wCommitted[d] < wPosition[d]
      BY <2>3 DEF Held
    <3>2. wCommitted[d] \in Nat /\ wPosition[d] \in Nat
      BY <1>c, <2>3, <1>a DEF WTyped
    <3> HIDE DEF x, d
    <3> QED
      BY <3>1, <3>2
  <2>5. ASSUME NEW c \in Curves, NEW o \in 1..(wCommitted[c] - 1), <<c, o>> \notin failed'
        PROVE  NotBefore(c, o)'
    <3> DEFINE e == normalized[c][o]
    <3>1. /\ <<c, o>> \in Entries /\ o \in Nat /\ normalized'[c][o] = e
          /\ W!EventAt(<<c, o>>) = e /\ Tenor(<<c, o>>) = e.tenor
      BY <1>d DEF W!EventAt, Tenor
    <3>2. e.instrument \in Instruments
      BY <1>a, <3>1, EntryHoldsEvent
    <3>3. e.tenor \in DOMAIN latest[e.instrument] /\ latest[e.instrument][e.tenor][2] >= o
      BY <2>2, <2>5 DEF Stick, NotBefore
    <3> HIDE DEF e, x, i, d
    <3>4. CASE e.instrument = i /\ e.tenor = Tenor(x)
      <4>1. c = d
        BY <1>a, <2>1, <2>3, <3>1, <3>4, OnePartition DEF d
      <4>2. x[2] >= o
        BY <1>c, <2>3, <2>4, <4>1
      <4>3. e.tenor \in DOMAIN latest'[e.instrument] /\ latest'[e.instrument][e.tenor][2] >= o
        BY <2>1, <3>4, <4>2
      <4> QED
        BY <3>1, <4>3 DEF NotBefore
    <3>5. CASE ~(e.instrument = i /\ e.tenor = Tenor(x))
      <4>1. /\ e.tenor \in DOMAIN latest'[e.instrument]
            /\ latest'[e.instrument][e.tenor] = latest[e.instrument][e.tenor]
        BY <2>1, <3>2, <3>3, <3>5
      <4> QED
        BY <3>1, <3>3, <4>1 DEF NotBefore
    <3> QED
      BY <3>4, <3>5
  <2>6. ASSUME NEW w \in Writers, wPc'[w] \in {"assemble", "set", "commit"}
        PROVE  Fresh(w)'
    <3>1. CASE w = v
      <4>1. wCurrent'[v] = x /\ Busy(v)
        BY <2>2, <2>6, <3>1 DEF Busy
      <4>2. W!Instrument(v)' = i /\ Tenor(x)' = Tenor(x)
        BY <1>e, <4>1
      <4> QED
        BY <2>1, <3>1, <4>1, <4>2 DEF Fresh
    <3>2. CASE w # v
      <4>1. /\ wPc[w] \in {"assemble", "set", "commit"} /\ Busy(w) /\ wCurrent'[w] = wCurrent[w]
            /\ Fresh(w) /\ wCurrent[w] \in Entries
        BY <1>c, <2>2, <2>6, <3>2 DEF Busy, Stick
      <4>2. W!Instrument(w)' = W!Instrument(w) /\ Tenor(wCurrent[w])' = Tenor(wCurrent[w])
        BY <1>e, <4>1
      <4>3. wCurrent[w][1] # d
        BY <2>3, <3>2, <4>1 DEF InStep, Held
      <4>4. W!EventAt(wCurrent[w]).instrument = W!Instrument(w)
        BY DEF W!Instrument
      <4>5. W!Instrument(w) \in Instruments
        BY <1>a, <4>1, <4>4, EntryHoldsEvent
      <4>6. ~(W!Instrument(w) = i /\ Tenor(wCurrent[w]) = Tenor(x))
        BY <1>a, <2>1, <2>3, <4>1, <4>3, <4>4, OnePartition
      <4> HIDE DEF x, i, d
      <4>7. /\ Tenor(wCurrent[w]) \in DOMAIN latest'[W!Instrument(w)]
            /\ latest'[W!Instrument(w)][Tenor(wCurrent[w])] = wCurrent[w]
        BY <2>1, <4>1, <4>5, <4>6 DEF Fresh
      <4> QED
        BY <4>1, <4>2, <4>7 DEF Fresh
    <3> QED
      BY <3>1, <3>2
  <2> QED
    BY <2>2, <2>5, <2>6 DEF Stick
<1>3. ASSUME NEW v \in Writers, W!WCommit(v) PROVE Stick'
  <2> DEFINE x == wCurrent[v]
             d == x[1]
  <2>1. /\ wPc[v] = "commit" /\ wPc' = [wPc EXCEPT ![v] = "poll"]
        /\ wCurrent' = [wCurrent EXCEPT ![v] = W!NoEntry]
        /\ wCommitted' = [wCommitted EXCEPT ![d] = x[2] + 1]
        /\ UNCHANGED <<latest, failed>>
    BY <1>3 DEF W!WCommit, W!WForgets, W!redisVars, W!wHistoryVars
  <2>2. /\ Busy(v) /\ Held(v) /\ Fresh(v) /\ x \in Entries
        /\ \A w \in Writers \ {v} : wPc'[w] = wPc[w] /\ wCurrent'[w] = wCurrent[w]
        /\ wPc'[v] = "poll"
    BY <1>c, <2>1 DEF Busy, InStep, Stick
  <2>3. /\ d \in Curves /\ x[2] \in Nat /\ x = <<d, x[2]>> /\ x[2] \in 1..Len(normalized[d])
        /\ wCommitted'[d] = x[2] + 1
        /\ \A c \in Curves \ {d} : wCommitted'[c] = wCommitted[c]
    BY <1>c, <2>1, <2>2 DEF Entries
  <2>4. x[2] = wPosition[d] - 1 /\ wOwner[d] = v /\ wPosition[d] \in Nat
    BY <1>a, <2>2, <2>3 DEF Held, WTyped
  <2>5. ASSUME NEW w \in Writers, wPc'[w] \in {"assemble", "set", "commit"}
        PROVE  Fresh(w)'
    <3>1. Busy(w) /\ wCurrent'[w] = wCurrent[w] /\ Fresh(w)
      BY <2>2, <2>5 DEF Busy, Stick
    <3> QED
      BY <1>e, <2>1, <3>1 DEF Fresh
  <2>6. ASSUME NEW c \in Curves, NEW o \in 1..(wCommitted[c] - 1), <<c, o>> \notin failed'
        PROVE  NotBefore(c, o)'
    BY <1>d, <2>1, <2>6 DEF Stick, NotBefore
  <2>7. ASSUME NEW c \in Curves, NEW o \in Nat, <<c, o>> = x PROVE NotBefore(c, o)'
    <3>1. normalized'[c][o] = normalized[c][o]
      BY <1>g, <2>3, <2>7
    <3>2. W!EventAt(x) = normalized[c][o]
      BY <2>7 DEF W!EventAt
    <3>3. /\ W!EventAt(x).tenor \in DOMAIN latest[W!EventAt(x).instrument]
          /\ latest[W!EventAt(x).instrument][W!EventAt(x).tenor] = <<c, o>>
      BY <2>2, <2>7 DEF Fresh, Tenor, W!Instrument
    <3>4. <<c, o>>[2] >= o
      OBVIOUS
    <3> HIDE DEF x, d
    <3> QED
      BY <2>1, <3>1, <3>2, <3>3, <3>4 DEF NotBefore
  <2>8. ASSUME NEW o \in wCommitted[d]..(x[2] - 1) PROVE <<d, o>> \in failed
    <3>1. o \in wCommitted[d]..(wPosition[d] - 1) /\ o # x[2]
      <4>1. wCommitted[d] \in Nat /\ o \in Int /\ wCommitted[d] <= o /\ o <= x[2] - 1
        BY <1>c, <2>3, <2>8
      <4> HIDE DEF x, d
      <4> QED
        BY <2>3, <2>4, <4>1
    <3>2. Settled(d, o)
      BY <2>3, <3>1 DEF InStep
    <3>3. ASSUME NEW w \in Writers, Busy(w), wCurrent[w] = <<d, o>> PROVE FALSE
      <4>1. w = v
        BY <2>4, <3>3 DEF InStep, Held
      <4> QED
        BY <2>3, <3>1, <3>3, <4>1
    <3> QED
      BY <3>2, <3>3 DEF Settled
  <2>9. ASSUME NEW c \in Curves, NEW o \in 1..(wCommitted'[c] - 1), <<c, o>> \notin failed'
        PROVE  NotBefore(c, o)'
    <3>1. CASE c # d
      BY <2>3, <2>6, <2>9, <3>1
    <3>2. CASE c = d
      <4>1. \/ o \in 1..(wCommitted[d] - 1) \/ o = x[2] \/ o \in wCommitted[d]..(x[2] - 1)
        <5>1. o \in 1..x[2] /\ wCommitted[d] \in Nat
          BY <1>c, <2>3, <2>9, <3>2
        <5> HIDE DEF x, d
        <5> QED
          BY <2>3, <5>1
      <4>2. CASE o \in 1..(wCommitted[d] - 1)
        BY <2>6, <2>9, <3>2, <4>2
      <4>3. CASE o = x[2]
        BY <2>3, <2>7, <3>2, <4>3
      <4>4. CASE o \in wCommitted[d]..(x[2] - 1)
        BY <2>1, <2>8, <2>9, <3>2, <4>4
      <4> QED
        BY <4>1, <4>2, <4>3, <4>4
    <3> QED
      BY <3>1, <3>2
  <2> QED
    BY <2>5, <2>9 DEF Stick
<1>4. ASSUME NEW v \in Writers, \/ \E c \in Curves : W!WPoll(v, c)
                                \/ W!Assemble(v) \/ W!SetSnapshot(v) \/ GivesUp(v) \/ Restart(v)
      PROVE  Stick'
  <2>1. /\ UNCHANGED <<wCommitted, latest>> /\ failed \subseteq failed'
        /\ \A w \in Writers \ {v} : wPc'[w] = wPc[w] /\ wCurrent'[w] = wCurrent[w]
        /\ \/ wPc'[v] \in {"poll", "write"}
           \/ wPc[v] \in {"assemble", "set", "commit"} /\ wCurrent'[v] = wCurrent[v]
    <3>1. ASSUME NEW c \in Curves, W!WPoll(v, c)
          PROVE  /\ UNCHANGED <<wCommitted, latest, failed>> /\ wPc'[v] = "write"
                 /\ \A w \in Writers \ {v} : wPc'[w] = wPc[w] /\ wCurrent'[w] = wCurrent[w]
      BY <1>c, <3>1 DEF W!WPoll, W!WGoes, W!redisVars, W!wHistoryVars
    <3>2. CASE W!Assemble(v) \/ W!SetSnapshot(v)
      BY <1>c, <3>2 DEF W!Assemble, W!SetSnapshot, W!WGoes, W!wGroupVars, W!redisVars, W!wHistoryVars
    <3>3. CASE GivesUp(v)
      BY <1>c, <3>3 DEF GivesUp, W!WForgets
    <3>4. CASE Restart(v)
      BY <1>c, <3>4 DEF Restart, W!WEnds, W!WForgets, W!redisVars, W!wHistoryVars
    <3> QED
      BY <1>4, <3>1, <3>2, <3>3, <3>4
  <2> QED
    BY <1>1, <2>1
<1>5. CASE UNCHANGED writerVars
  BY <1>1, <1>5 DEF writerVars
<1> QED
  BY <1>b, <1>2, <1>3, <1>4, <1>5, WriterStep

\* As long as no partition changes hands, a committed price is not replaced by an
\* earlier one: crashes, redeliveries and the failed writes that a commit passed do
\* not bring it back (writer.py).
THEOREM CommittedPricesAlwaysStick == Spec => []CommittedPricesStick
<1> DEFINE Ordered == InPlace /\ (wRebalances = 0 => InStep /\ Stick)
<1>1. Init => Ordered
  <2> SUFFICES ASSUME Init PROVE Ordered
    OBVIOUS
  <2>1. /\ \A c \in Curves : wCommitted[c] = 1 /\ wPosition[c] = 1
        /\ \A w \in Writers : wPc[w] = "poll"
        /\ \A i \in Instruments : DOMAIN latest[i] = {}
    BY DEF Init, W!Init, W!NoTenors
  <2>2. InPlace
    BY <2>1 DEF InPlace
  <2>3. InStep
    BY <2>1 DEF InStep, Busy
  <2>4. Stick
    BY <2>1 DEF Stick
  <2> QED
    BY <2>2, <2>3, <2>4
<1>2. Sound /\ Ordered /\ [Next]_vars => Ordered'
  <2> SUFFICES ASSUME Sound, Ordered, [Next]_vars PROVE Ordered'
    OBVIOUS
  <2>1. InPlace'
    BY InPlaceStep
  <2>2. ASSUME wRebalances' = 0
        PROVE  wRebalances = 0 /\ \A c \in Curves : ~Moves(c)
    <3>1. /\ wRebalances \in Nat
          /\ WriterMoves \/ UNCHANGED writerVars
      BY TopicStep DEF Sound, WTyped
    <3>2. ASSUME NEW c \in Curves, Moves(c) PROVE FALSE
      <4>1. wRebalances' = wRebalances + 1
        BY <3>2 DEF Moves
      <4>2. wRebalances \in Nat
        BY <3>1
      <4> QED
        BY <2>2, <4>1, <4>2
    <3>3. ASSUME NEW w \in Writers, \/ \E c \in Curves : W!WPoll(w, c)
                                    \/ Executes(w) \/ W!Assemble(w) \/ W!SetSnapshot(w)
                                    \/ GivesUp(w) \/ W!WCommit(w) \/ Restart(w)
          PROVE  wRebalances' = wRebalances
      BY <3>3 DEF W!WPoll, Executes, W!Assemble, W!SetSnapshot, GivesUp, W!WCommit, Restart, W!WEnds
    <3>4. UNCHANGED writerVars => wRebalances' = wRebalances
      BY DEF writerVars
    <3> QED
      BY <2>2, <3>1, <3>2, <3>3, <3>4, WriterStep
  <2>3. wRebalances' = 0 => InStep' /\ Stick'
    BY <2>2, InStepStep, StickStep
  <2> QED
    BY <2>1, <2>3
<1>3. Sound /\ Ordered => CommittedPricesStick
  <2> SUFFICES ASSUME Sound, InPlace, InStep, Stick, NEW c \in Curves, NEW o \in 1..(wCommitted[c] - 1),
                      <<c, o>> \notin failed
               PROVE  LET e == normalized[c][o]
                          hash == latest[e.instrument]
                      IN /\ e.tenor \in DOMAIN hash /\ hash[e.tenor][1] = c
                         /\ hash[e.tenor][2] >= o
    BY DEF CommittedPricesStick, W!CommittedPricesStick
  <2> DEFINE e == normalized[c][o]
             entry == latest[e.instrument][e.tenor]
  <2>1. NotBefore(c, o)
    BY DEF Stick
  <2>2. <<c, o>> \in Entries
    <3>1. wCommitted[c] \in 1..Len(normalized[c]) + 1 /\ Len(normalized[c]) \in Nat
      BY DEF Sound, WTyped, Typed
    <3>2. o \in 1..Len(normalized[c])
      BY <3>1
    <3> QED
      BY <3>2 DEF Entries
  <2>3. W!EventAt(<<c, o>>) = e /\ Tenor(<<c, o>>) = e.tenor
    BY DEF W!EventAt, Tenor
  <2>4. e.instrument \in Instruments
    BY <2>2, <2>3, EntryHoldsEvent DEF Sound
  <2>5. e.tenor \in DOMAIN latest[e.instrument] /\ entry[2] >= o
    BY <2>1 DEF NotBefore
  <2>6. entry \in Entries /\ W!EventAt(entry).instrument = e.instrument /\ Tenor(entry) = e.tenor
    BY <2>4, <2>5 DEF InPlace
  <2> HIDE DEF e, entry
  <2>7. entry[1] = <<c, o>>[1]
    BY <2>2, <2>3, <2>6, OnePartition DEF Sound
  <2> QED
    BY <2>5, <2>7 DEF e, entry
<1> QED
  BY <1>1, <1>2, <1>3, AlwaysSound, PTL DEF Spec

=============================================================================
