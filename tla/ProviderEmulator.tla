-------------------------- MODULE ProviderEmulator --------------------------
(***************************************************************************)
(* The provider-emulator: a loop that once per cycle collects a batch of   *)
(* events per instrument - synthetic ones, or those of its Databento cache *)
(* - injects faults into them, drains the two queues in which delayed and  *)
(* out-of-order events are held, and publishes the result to               *)
(* market.events.raw.                                                      *)
(*                                                                         *)
(* An exception abandons the rest of the cycle; the loop goes on.  SIGTERM *)
(* ends the loop at its next check, with events possibly still held.       *)
(***************************************************************************)
EXTENDS Integers, Sequences, FiniteSets, SequencesExt

CONSTANTS
    Instruments,    \* settings.instruments, a sequence
    Tenors,         \* the tenors of each instrument's synthetic batch
    Bars,           \* the events Databento returns for each instrument, 0 if none
    QueueMax,       \* delay_queue_max_size, of each of the two queues
    RefreshEvery,   \* cycles between two Databento fetches: 10 in the code
    MaxCycles,      \* bound: cycles whose own events are followed
    MaxFaults,      \* bound: faults rolled
    MaxOutages,     \* bound: Databento fetches that fail for an instrument
    MaxRaises       \* bound: calls of produce() that raise

InstrumentSet == ToSet(Instruments)

ASSUME EmulatorAssumption ==
    /\ Instruments \in Seq(InstrumentSet) /\ IsInjective(Instruments)
    /\ Tenors \in [InstrumentSet -> Nat \ {0}]
    /\ Bars \in [InstrumentSet -> Nat]
    /\ RefreshEvery \in Nat \ {0}
    /\ {QueueMax, MaxCycles, MaxFaults, MaxOutages, MaxRaises} \subseteq Nat

VARIABLES
    cycle,          \* self._cycle, up to MaxCycles
    pc,             \* where the loop is
    cache,          \* the instruments databento_events has events of
    clean,          \* clean_events, one batch per instrument still to inject
    batch,          \* what inject() has still to go through
    ready,          \* ready_events
    delayQueue,     \* _delay_queue
    oooQueue,       \* _ooo_queue; a set, since it is released shuffled
    due,            \* held events whose release_at has passed
    shutdown,       \* _shutdown_event
    published,      \* events produce() accepted, in order
    faults,         \* faults rolled so far
    outages,        \* fetches that failed so far
    raises,         \* calls of produce() that raised so far
    collected,      \* history: names of the events collected
    dropped,        \* history: events a partial curve discarded
    abandoned       \* history: events given up with a cycle that raised

queueVars == <<delayQueue, oooQueue, due>>
boundVars == <<faults, outages, raises>>
historyVars == <<collected, dropped, abandoned>>
vars == <<cycle, pc, cache, clean, batch, ready, queueVars, shutdown,
          published, boundVars, historyVars>>

Marks == {"ALTERED", "PARTIAL_CURVE", "DELAYED", "OUT_OF_ORDER", "DUPLICATE"}

\* An event with its injected_faults.  STALE, MALFORMED and SCHEMA_DRIFT change
\* the content only and are one mark here.  The pass is the cycle that collected
\* it: a cached event is collected again in every cycle until the next fetch.
Event == [pass : 1..MaxCycles, instrument : InstrumentSet, tenor : Nat \ {0},
          cached : BOOLEAN, marks : SUBSET Marks]

\* One event as one cycle collected it.
Name(e) == <<e.pass, e.instrument, e.tenor>>

\* The cycle after which the cache that a cycle uses was fetched, 0 for the first.
LastFetch(pass) == ((pass - 1) \div RefreshEvery) * RefreshEvery

\* event_id is drawn when an event is built: by the generator in the cycle that
\* publishes it, or by the adapter at the fetch, for all the cycles that follow.
EventId(e) ==
    <<e.cached, IF e.cached THEN LastFetch(e.pass) ELSE e.pass, e.instrument, e.tenor>>

Marked(e, mark) == [e EXCEPT !.marks = @ \cup {mark}]

\* One event per tenor, in the order of the curve.
Curve(pass, i, size, cached) ==
    [k \in 1..size |-> [pass |-> pass, instrument |-> i, tenor |-> k,
                       cached |-> cached, marks |-> {}]]

Mapped == {i \in InstrumentSet : Bars[i] > 0}

\* A fetch returns the bars of every instrument but those that fail, whose errors
\* are logged and skipped.
Fetched(failing) == Mapped \ failing

Init ==
    /\ cycle = 0
    /\ pc = "check"
    /\ \E failing \in SUBSET Mapped :
          /\ outages = Cardinality(failing)
          /\ cache = Fetched(failing)
    /\ outages <= MaxOutages
    /\ clean = <<>> /\ batch = <<>> /\ ready = <<>>
    /\ delayQueue = <<>> /\ oooQueue = {} /\ due = {}
    /\ shutdown = FALSE
    /\ published = <<>>
    /\ faults = 0 /\ raises = 0
    /\ collected = {} /\ dropped = {} /\ abandoned = <<>>

-----------------------------------------------------------------------------
(* Collecting.                                                             *)

\* The cached events of an instrument, or else a synthetic curve.  Whatever is
\* done to an event is done to a copy of it: the cached ones stay unmarked.
BatchOf(i) == Curve(cycle + 1, i, IF i \in cache THEN Bars[i] ELSE Tenors[i], i \in cache)

Collected == [n \in DOMAIN Instruments |-> BatchOf(Instruments[n])]

EventsIn(batches) == UNION {ToSet(b) : b \in ToSet(batches)}

\* After MaxCycles the loop goes on, its own events are no longer followed.
StartCycle ==
    /\ pc = "check"
    /\ ~shutdown
    /\ pc' = "inject"
    /\ IF cycle < MaxCycles
       THEN /\ cycle' = cycle + 1
            /\ clean' = Collected
            /\ collected' = collected \cup {Name(e) : e \in EventsIn(Collected)}
       ELSE UNCHANGED <<cycle, clean, collected>>
    /\ UNCHANGED <<cache, batch, ready, queueVars, shutdown, published,
                   boundVars, dropped, abandoned>>

-----------------------------------------------------------------------------
(* inject().                                                               *)

\* The elements of s that are in S, in their order.
Only(s, S) ==
    LET only[n \in 0..Len(s)] ==
            IF n = 0 THEN <<>>
            ELSE IF s[n] \in S THEN Append(only[n - 1], s[n]) ELSE only[n - 1]
    IN only[Len(s)]

\* max(1, int(n * fraction)) for a fraction of 0.2 to 0.5.
DropCounts(n) == {c \in 1..n : c >= n \div 5 /\ c <= n \div 2}

\* What a partial curve leaves of a batch: every event kept is marked.
Kept(curve, gone) ==
    LET kept == Only(curve, ToSet(curve) \ gone)
    IN [k \in DOMAIN kept |-> Marked(kept[k], "PARTIAL_CURVE")]

TakeBatch ==
    /\ pc = "inject" /\ batch = <<>> /\ clean # <<>>
    /\ clean' = Tail(clean)
    /\ \/ batch' = Head(clean) /\ UNCHANGED <<faults, dropped>>
       \/ /\ Len(Head(clean)) > 2
          /\ faults < MaxFaults
          /\ faults' = faults + 1
          /\ \E gone \in SUBSET ToSet(Head(clean)) :
                /\ Cardinality(gone) \in DropCounts(Len(Head(clean)))
                /\ batch' = Kept(Head(clean), gone)
                /\ dropped' = dropped \cup gone
    /\ UNCHANGED <<cycle, pc, cache, ready, queueVars, shutdown, published,
                   outages, raises, collected, abandoned>>

DelayBeyondLimit(e) ==
    /\ Len(delayQueue) <= QueueMax
    /\ delayQueue' = Append(delayQueue, Marked(e, "DELAYED"))
    /\ UNCHANGED <<oooQueue, ready>>
DelayWhenFull(e) ==
    /\ delayQueue' = IF Len(delayQueue) < QueueMax
                     THEN Append(delayQueue, Marked(e, "DELAYED")) ELSE delayQueue
    /\ UNCHANGED <<oooQueue, ready>>
\* DELAYED was rolled and there is room; without room the event goes on.
Delay(e) ==
    /\ Len(delayQueue) < QueueMax
    /\ delayQueue' = Append(delayQueue, Marked(e, "DELAYED"))
    /\ UNCHANGED <<oooQueue, ready>>

HoldUnmarked(e) ==
    /\ Cardinality(oooQueue) < QueueMax
    /\ oooQueue' = oooQueue \cup {e}
    /\ UNCHANGED <<delayQueue, ready>>
\* OUT_OF_ORDER was rolled and there is room.
HoldBack(e) ==
    /\ Cardinality(oooQueue) < QueueMax
    /\ oooQueue' = oooQueue \cup {Marked(e, "OUT_OF_ORDER")}
    /\ UNCHANGED <<delayQueue, ready>>

\* Both the event and its copy are marked.
Duplicate(e) ==
    LET twice == Marked(e, "DUPLICATE")
    IN ready' = ready \o <<twice, twice>> /\ UNCHANGED <<delayQueue, oooQueue>>

PassOn(e) == ready' = Append(ready, e) /\ UNCHANGED <<delayQueue, oooQueue>>

\* _apply_event_faults(): the event may be altered, and then takes the first of
\* the four ways whose roll succeeds.
InjectEvent ==
    /\ pc = "inject" /\ batch # <<>>
    /\ batch' = Tail(batch)
    /\ \E altered \in {0, 1} :
          LET e == IF altered = 1 THEN Marked(Head(batch), "ALTERED") ELSE Head(batch)
          IN \/ PassOn(e) /\ faults' = faults + altered
             \/ (Delay(e) \/ HoldBack(e) \/ Duplicate(e)) /\ faults' = faults + altered + 1
    /\ faults' <= MaxFaults
    /\ UNCHANGED <<cycle, pc, cache, clean, due, shutdown, published, outages,
                   raises, historyVars>>

-----------------------------------------------------------------------------
(* Draining and publishing.                                                *)

Held == ToSet(delayQueue) \cup oooQueue

AboutToDrain == pc = "inject" /\ clean = <<>> /\ batch = <<>>

Due == Only(delayQueue, due)
Early == Only(delayQueue, ToSet(delayQueue) \ due)

DrainOneQueue ==
    /\ AboutToDrain
    /\ pc' = "publish"
    /\ ready' = ready \o Due
    /\ delayQueue' = Early
    /\ due' = due \ ToSet(delayQueue)
    /\ UNCHANGED <<cycle, cache, clean, batch, oooQueue, shutdown, published,
                   boundVars, historyVars>>
\* drain_ready(): the due events leave the queues, those of the delay queue in
\* its order, then those of the out-of-order queue shuffled.
Drain ==
    /\ AboutToDrain
    /\ pc' = "publish"
    /\ \E shuffled \in SetToSeqs(oooQueue \cap due) :
          ready' = ready \o Due \o shuffled
    /\ delayQueue' = Early
    /\ oooQueue' = oooQueue \ due
    /\ due' = {}
    /\ UNCHANGED <<cycle, cache, clean, batch, shutdown, published, boundVars, historyVars>>

PublishEvent ==
    /\ pc = "publish" /\ ready # <<>>
    /\ published' = Append(published, Head(ready))
    /\ ready' = Tail(ready)
    /\ UNCHANGED <<cycle, pc, cache, clean, batch, queueVars, shutdown, boundVars,
                   historyVars>>

\* produce() raises BufferError: run() catches it, and whatever the cycle had
\* still to publish is gone, the drained events included.
PublishRaises ==
    /\ pc = "publish" /\ ready # <<>> /\ raises < MaxRaises
    /\ raises' = raises + 1
    /\ pc' = "refresh"
    /\ ready' = <<>>
    /\ abandoned' = abandoned \o ready
    /\ UNCHANGED <<cycle, cache, clean, batch, queueVars, shutdown, published,
                   faults, outages, collected, dropped>>

FinishCycle ==
    /\ pc = "publish" /\ ready = <<>>
    /\ pc' = "refresh"
    /\ UNCHANGED <<cycle, cache, clean, batch, ready, queueVars, shutdown,
                   published, boundVars, historyVars>>

\* Every RefreshEvery cycles the cache is fetched again, whatever the cycle did.
\* An instrument whose fetch fails is synthetic until the next refresh.
Refresh ==
    /\ pc = "refresh"
    /\ pc' = "check"
    /\ IF Mapped # {} /\ cycle % RefreshEvery = 0
       THEN \E failing \in SUBSET Mapped :
               /\ outages' = outages + Cardinality(failing)
               /\ outages' <= MaxOutages
               /\ cache' = Fetched(failing)
       ELSE UNCHANGED <<cache, outages>>
    /\ UNCHANGED <<cycle, clean, batch, ready, queueVars, shutdown, published,
                   faults, raises, historyVars>>

\* _shutdown(): flush() waits for the delivery of what was published; the events
\* still held go with the process.
Shutdown ==
    /\ pc = "check" /\ shutdown
    /\ pc' = "stopped"
    /\ UNCHANGED <<cycle, cache, clean, batch, ready, queueVars, shutdown,
                   published, boundVars, historyVars>>

-----------------------------------------------------------------------------
(* The environment: the clock and the signal.  Each is a step only where the *)
(* loop looks at what it changes: at what moment before makes no difference. *)

Elapse ==
    /\ AboutToDrain
    /\ \E e \in Held \ due : due' = due \cup {e}
    /\ UNCHANGED <<cycle, pc, cache, clean, batch, ready, delayQueue, oooQueue,
                   shutdown, published, boundVars, historyVars>>

HandleSignal ==
    /\ pc = "check"
    /\ ~shutdown
    /\ shutdown' = TRUE
    /\ UNCHANGED <<cycle, pc, cache, clean, batch, ready, queueVars, published,
                   boundVars, historyVars>>

Loop ==
    \/ StartCycle \/ TakeBatch \/ InjectEvent \/ Drain
    \/ PublishEvent \/ PublishRaises \/ FinishCycle \/ Refresh \/ Shutdown

Next == Loop \/ Elapse \/ HandleSignal

Spec == Init /\ [][Next]_vars

\* The loop runs, and the clock advances from one drain to the next.
FairSpec == Spec /\ WF_vars(Loop) /\ SF_vars(Elapse)

-----------------------------------------------------------------------------
(* Correctness.                                                            *)

\* The variables have their types, and neither queue holds more than its
\* limit: the checks in _apply_event_faults() are made before each insertion.
TypeOK ==
    /\ cycle \in 0..MaxCycles
    /\ pc \in {"check", "inject", "publish", "refresh", "stopped"}
    /\ cache \subseteq Mapped
    /\ clean \in Seq(Seq(Event))
    /\ {batch, ready, delayQueue, published, abandoned} \subseteq Seq(Event)
    /\ oooQueue \subseteq Event
    /\ due \subseteq Held
    /\ Len(delayQueue) <= QueueMax
    /\ Cardinality(oooQueue) <= QueueMax
    /\ shutdown \in BOOLEAN
    /\ faults \in 0..MaxFaults
    /\ outages \in 0..MaxOutages
    /\ raises \in 0..MaxRaises

\* Every event there is, but those a partial curve discarded.
Events == EventsIn(clean \o <<batch, delayQueue, ready, published, abandoned>>) \cup oooQueue

Positions(s, name) == {k \in DOMAIN s : Name(s[k]) = name}
Count(s, name) == Cardinality(Positions(s, name))

\* How many there are of a name.
Copies(name) ==
    Cardinality(UNION {{n} \X Positions(clean[n], name) : n \in DOMAIN clean})
    + Count(batch, name) + Count(delayQueue, name)
    + Cardinality({e \in oooQueue : Name(e) = name})
    + Count(ready, name) + Count(published, name) + Count(abandoned, name)

\* An event that was collected is in one place: about to be injected, held,
\* about to be published, published, or lost - dropped with a partial curve, or
\* abandoned with a cycle that raised.  It is in two places only as an injected
\* duplicate.  inject() and drain_ready() move events between six lists, with
\* early returns and full queues in between.
NothingUnaccounted ==
    LET discarded == {Name(e) : e \in dropped}
    IN \A name \in collected :
          \/ Copies(name) = 1 /\ name \notin discarded
          \/ Copies(name) = 0 /\ name \in discarded
          \/ /\ Copies(name) = 2 /\ name \notin discarded
             /\ \A e \in Events : Name(e) = name => "DUPLICATE" \in e.marks

\* The DUPLICATE mark says that there are two of the event as its cycle collected
\* it.
DuplicatesRecorded ==
    \A e \in Events : "DUPLICATE" \in e.marks <=> Copies(Name(e)) = 2

\* The marks do not tell every event_id that is published twice: a cached event
\* goes out unmarked in each cycle of its fetch.  That is the only way: of two
\* events with one event_id both are marked, or both are from the cache and two
\* cycles collected them.
RepeatsAreMarkedOrCached ==
    \A m, n \in DOMAIN published :
        m # n /\ EventId(published[m]) = EventId(published[n])
        => LET e == published[m]
               f == published[n]
           IN \/ "DUPLICATE" \in e.marks \cap f.marks
              \/ e.cached /\ f.cached /\ e.pass # f.pass

\* The mark PARTIAL_CURVE says that other tenors of the same batch are missing.
PartialCurvesRecorded ==
    LET partial == {<<e.pass, e.instrument>> : e \in dropped}
    IN \A e \in Events :
          "PARTIAL_CURVE" \in e.marks <=> <<e.pass, e.instrument>> \in partial

\* e was collected before f.
Precedes(e, f) ==
    /\ e.instrument = f.instrument
    /\ e.pass < f.pass \/ (e.pass = f.pass /\ e.tenor < f.tenor)

\* An event published after a later one of its instrument was held.
ReorderingRecorded ==
    \A m, n \in DOMAIN published :
        m < n /\ Precedes(published[n], published[m])
            => published[n].marks \cap {"DELAYED", "OUT_OF_ORDER"} # {}

\* "Every injected fault is recorded in the event's injected_faults field"
\* (fault_injector.py:6): the marks of what is published tell which events the
\* injector repeated, reordered, or left of a batch.  What they do not tell is
\* that a cached event was published before, by an earlier cycle.
FaultsAreRecorded ==
    /\ DuplicatesRecorded /\ RepeatsAreMarkedOrCached
    /\ PartialCurvesRecorded /\ ReorderingRecorded

\* The held events come out: full queues, cycles that raise and failing fetches
\* do not keep them in.  Only a process that stops keeps (and loses) them.
HeldComeOut == <>[](Held = {} \/ pc = "stopped")
=============================================================================
