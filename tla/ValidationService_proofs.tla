---------------------- MODULE ValidationService_proofs ----------------------
(***************************************************************************)
(* What holds of the validation-service for every log, every assignment of *)
(* ids and kinds, and every number of replicas: the types, one verdict per *)
(* deduplication key, that commits never go back, and that what is         *)
(* committed has an outcome, or a mishap of its own.                       *)
(*                                                                         *)
(* The strengthening has three parts: where the owner stands relative to   *)
(* the committed offset; a balance of verdicts given, verdicts in the      *)
(* making and keys set, against keys expired and calls raised; and that a  *)
(* key is only ever set on behalf of an event that has an outcome, is      *)
(* getting one, or was lost.                                               *)
(***************************************************************************)
EXTENDS ValidationService, TLAPS, FiniteSetTheorems

\* A replica that is busy has read a message, and a claim or a verdict is about
\* one that passed the schema rules.
InHand ==
    \A r \in Replicas :
        /\ pc[r] # "poll" => position[r] >= 2
        /\ pc[r] \in {"claim", "verdict"} => Claimable(Current(r))

\* The owner is at the committed offset, or busy with the message there.
OwnerInStep == position[owner] = IF pc[owner] = "poll" THEN committed ELSE committed + 1

Placed == TypeOK /\ InHand /\ OwnerInStep

\* The replicas that will give the event with id i a verdict.
Deciders(i) == {r \in Replicas :
    pc[r] \in {"verdict", "produce"} /\ Claimable(Current(r)) /\ Id(r) = i}

\* A verdict given, one in the making and a claim still to be had each need a
\* claim: the first one, or one after an expiry or a fault.
Unset(i) == IF i \in seen THEN 0 ELSE 1
Incidents == expiries + faults
Balance(i) ==
    /\ IsFiniteSet(Deciders(i))
    /\ outcomes[i] + Cardinality(Deciders(i)) + Unset(i) <= 1 + Incidents
Balanced == \A i \in Ids : Balance(i)

\* The messages whose outcome was handed to a producer, or lost on the way.
Settled == {m[1] : m \in Sent} \cup lost

\* The event with id i is settled, or is getting an outcome.
Covered(i) == Deciders(i) # {} \/ \E o \in Settled : Claimable(o) /\ IdOf[o] = i
Accounted(o) == o \in Settled \/ (Claimable(o) /\ Covered(IdOf[o]))

\* Each key was set for a covered event, and each message that is, or is about to
\* be, committed is accounted for.
Accounts ==
    /\ \A i \in seen : Covered(i)
    /\ \A r \in Replicas : pc[r] = "commit" => Accounted(Current(r))
    /\ \A o \in Offsets : o < committed => Accounted(o)

-----------------------------------------------------------------------------

\* The offset of the message in hand is one of the log's.
LEMMA CurrentIsOffset ==
    ASSUME Placed, NEW r \in Replicas, pc[r] # "poll"
    PROVE  Current(r) \in Offsets /\ Id(r) \in Ids /\ position[r] = Current(r) + 1
<1>1. position[r] \in 2..MaxOffset + 1
  BY ValidationAssumption DEF Placed, TypeOK, InHand
<1>2. Current(r) \in Offsets /\ position[r] = Current(r) + 1
  BY <1>1, ValidationAssumption DEF Current, Offsets
<1> QED
  BY <1>2, ValidationAssumption DEF Id

\* A step of one replica leaves the others where they were.
LEMMA OthersStay ==
    ASSUME TypeOK, NEW r \in Replicas,
           \/ Poll(r) \/ Claim(r) \/ ClaimRepeated(r) \/ ClaimRaises(r) \/ Verdict(r)
           \/ Produce(r) \/ ProduceRaises(r) \/ Commit(r) \/ Deliver(r) \/ DeliveryFails(r)
           \/ Rebalance(r) \/ Crash(r) \/ Exit(r)
    PROVE  \A s \in Replicas \ {r} : pc'[s] = pc[s] /\ position'[s] = position[s]
<1> USE DEF TypeOK, groupVars, replicaVars, outVars, counters, historyVars
<1>1. CASE Poll(r) \/ Claim(r) \/ ClaimRepeated(r) \/ ClaimRaises(r) \/ Verdict(r)
  BY <1>1 DEF Poll, Goes, Claim, ClaimRepeated, ClaimRaises, Verdict
<1>2. CASE \/ Produce(r) \/ ProduceRaises(r) \/ Commit(r) \/ Deliver(r) \/ DeliveryFails(r)
           \/ Rebalance(r)
  BY <1>2 DEF Goes, Produce, ProduceRaises, Commit, Deliver, DeliveryFails, Rebalance
<1>3. CASE Crash(r) \/ Exit(r)
  BY <1>3 DEF Crash, Exit, Restart
<1> QED
  BY <1>1, <1>2, <1>3

\* Every variable keeps its type, a busy replica has a message in hand, and the
\* owner stays in step with the committed offset.
LEMMA PlacedStep == ASSUME Placed, [Next]_vars PROVE Placed'
<1> USE DEF Placed, TypeOK, InHand, groupVars, replicaVars, outVars, counters, historyVars
<1>a. \A r \in Replicas : pc[r] # "poll" => Current(r) \in Offsets /\ Id(r) \in Ids
  BY CurrentIsOffset
<1>e. \A r \in Replicas : InHands(r) \subseteq Offsets
  BY <1>a DEF InHands
<1>b. /\ 1 \in 1..MaxOffset + 1 /\ position \in [Replicas -> Int] /\ committed \in Int
      /\ MaxOffset \in Int
  BY ValidationAssumption
<1>c. Topics = {"validated", "dlq"}
  BY DEF Topics
<1>d. ASSUME UNCHANGED <<committed, owner, position, pc, outcome>>,
             seen' \subseteq Ids, queue' \in [Replicas -> SUBSET (Offsets \X Topics)],
             topics' \subseteq Offsets \X Topics, outcomes' \in [Ids -> Nat],
             lost' \subseteq Offsets,
             {stops', rebalances', expiries', faults', timeouts', drops'} \subseteq Nat
      PROVE  Placed'
  BY <1>d DEF OwnerInStep, Current
<1>1. ASSUME NEW r \in Replicas, Poll(r) PROVE Placed'
  <2>1. /\ owner = r /\ pc[r] = "poll" /\ position[r] \in 1..MaxOffset
        /\ position' = [position EXCEPT ![r] = @ + 1]
        /\ pc' = [pc EXCEPT ![r] = IF KindOf[position[r]] \in {"undecodable", "incomplete"}
                                   THEN "produce" ELSE "claim"]
        /\ outcome' \in [Replicas -> Topics]
    BY <1>1, <1>c, <1>b DEF Poll, Goes, Chooses
  <2>2. position'[r] = position[r] + 1 /\ position'[r] \in 2..MaxOffset + 1
    BY <2>1, <1>b
  <2>3. Current(r)' = position[r]
    BY <2>2, <2>1, <1>b DEF Current
  <2>4. pc'[r] = "claim" => Claimable(Current(r)')
    BY <2>1, <2>3, ValidationAssumption DEF Claimable, Offsets, Kinds
  <2>5. TypeOK'
    BY <1>1, <2>1, <2>2, <1>b DEF Poll
  <2>6. InHand'
    BY <2>1, <2>2, <2>4 DEF Current
  <2>7. OwnerInStep'
    BY <1>1, <2>1, <2>2 DEF Poll, OwnerInStep
  <2> QED
    BY <2>5, <2>6, <2>7
<1>2. ASSUME NEW r \in Replicas, NEW from \in {"claim", "verdict", "produce"},
             NEW to \in {"verdict", "produce", "commit", "exit"},
             pc[r] = from, pc' = [pc EXCEPT ![r] = to],
             to = "verdict" => from = "claim",
             UNCHANGED <<committed, owner, position>>, outcome' \in [Replicas -> Topics],
             seen' \subseteq Ids, queue' \in [Replicas -> SUBSET (Offsets \X Topics)],
             topics' = topics, outcomes' \in [Ids -> Nat],
             lost' \subseteq Offsets,
             {stops', rebalances', expiries', faults', timeouts', drops'} \subseteq Nat
      PROVE  Placed'
  <2>1. TypeOK'
    BY <1>2
  <2>2. InHand'
    BY <1>2 DEF Current
  <2>3. OwnerInStep'
    BY <1>2 DEF OwnerInStep
  <2> QED
    BY <2>1, <2>2, <2>3
<1>3. ASSUME NEW r \in Replicas, Claim(r) PROVE Placed'
  <2>1. seen' \subseteq Ids
    BY <1>3, <1>a DEF Claim
  <2> QED
    BY <1>3, <1>2, <2>1 DEF Claim
<1>4. ASSUME NEW r \in Replicas, ClaimRepeated(r) PROVE Placed'
  <2>1. seen' \subseteq Ids /\ timeouts' \in Nat /\ lost' \subseteq Offsets
    BY <1>4, <1>a DEF ClaimRepeated, Goes
  <2> QED
    BY <1>4, <1>2, <2>1 DEF ClaimRepeated, Goes
<1>5. ASSUME NEW r \in Replicas, ClaimRaises(r) PROVE Placed'
  <2>1. seen' \subseteq Ids /\ faults' \in Nat /\ outcome' \in [Replicas -> Topics]
    BY <1>5, <1>a, <1>c DEF ClaimRaises, Goes, Chooses
  <2> QED
    BY <1>5, <1>2, <2>1 DEF ClaimRaises, Goes
<1>6. ASSUME NEW r \in Replicas, Verdict(r) PROVE Placed'
  <2>1. outcome' \in [Replicas -> Topics]
    BY <1>6, <1>c DEF Verdict, Chooses
  <2> QED
    BY <1>6, <1>2, <2>1 DEF Verdict, Goes
<1>7. ASSUME NEW r \in Replicas, Produce(r) PROVE Placed'
  <2>1. queue' \in [Replicas -> SUBSET (Offsets \X Topics)] /\ outcomes' \in [Ids -> Nat]
    BY <1>7, <1>a DEF Produce, Goes
  <2> QED
    BY <1>7, <1>2, <2>1 DEF Produce, Goes
<1>8. ASSUME NEW r \in Replicas, ProduceRaises(r) PROVE Placed'
  <2>1. stops' \in Nat /\ lost' \subseteq Offsets
    BY <1>8, <1>e DEF ProduceRaises
  <2> QED
    BY <1>8, <1>2, <2>1 DEF ProduceRaises, Goes
<1>9. ASSUME NEW r \in Replicas, Commit(r) PROVE Placed'
  <2>1. /\ pc[r] = "commit" /\ pc' = [pc EXCEPT ![r] = IF owner = r THEN "poll" ELSE "exit"]
        /\ committed' = (IF owner = r THEN position[r] ELSE committed)
        /\ UNCHANGED <<owner, position>>
    BY <1>9 DEF Commit, Goes, NextToRead
  <2>2. TypeOK'
    BY <1>9, <2>1 DEF Commit
  <2>3. InHand'
    BY <2>1 DEF Current
  <2>4. OwnerInStep'
    BY <2>1 DEF OwnerInStep
  <2> QED
    BY <2>2, <2>3, <2>4
<1>10. ASSUME NEW r \in Replicas, Deliver(r) PROVE Placed'
  <2>1. queue' \in [Replicas -> SUBSET (Offsets \X Topics)] /\ topics' \subseteq Offsets \X Topics
    BY <1>10 DEF Deliver
  <2> QED
    BY <1>10, <2>1, <1>d DEF Deliver
<1>16. ASSUME NEW r \in Replicas, DeliveryFails(r) PROVE Placed'
  <2>1. PICK m \in queue[r] : lost' = lost \cup {m[1]}
    BY <1>16 DEF DeliveryFails
  <2>2. lost' \subseteq Offsets
    BY <2>1
  <2>3. queue' \in [Replicas -> SUBSET (Offsets \X Topics)] /\ drops' \in Nat
    BY <1>16 DEF DeliveryFails
  <2> QED
    BY <1>16, <2>2, <2>3, <1>d DEF DeliveryFails
<1>11. ASSUME NEW r \in Replicas, Rebalance(r) PROVE Placed'
  <2>1. /\ pc[r] = "poll" /\ position' = [position EXCEPT ![r] = committed] /\ owner' = r
        /\ UNCHANGED <<pc, committed>>
    BY <1>11 DEF Rebalance
  <2>2. TypeOK'
    BY <1>11 DEF Rebalance
  <2>3. InHand'
    BY <2>1 DEF Current
  <2>4. OwnerInStep'
    BY <2>1 DEF OwnerInStep
  <2> QED
    BY <2>2, <2>3, <2>4
<1>12. ASSUME NEW r \in Replicas, NEW delivered \in SUBSET queue[r], Restart(r, delivered),
              stops' \in Nat, timeouts' \in Nat
       PROVE  Placed'
  <2>1. /\ pc' = [pc EXCEPT ![r] = "poll"] /\ position' = [position EXCEPT ![r] = committed]
        /\ UNCHANGED <<owner, committed>>
    BY <1>12 DEF Restart
  <2>5. {m[1] : m \in queue[r] \ delivered} \subseteq Offsets
    <3>1. \A m \in queue[r] : m[1] \in Offsets
      OBVIOUS
    <3> QED
      BY <3>1
  <2>6. lost' \subseteq Offsets
    BY <1>12, <2>5, <1>e DEF Restart
  <2>2. TypeOK'
    BY <1>12, <2>6 DEF Restart
  <2>3. InHand'
    BY <2>1 DEF Current
  <2>4. OwnerInStep'
    BY <2>1 DEF OwnerInStep
  <2> QED
    BY <2>2, <2>3, <2>4
<1>13. ASSUME NEW r \in Replicas, Crash(r) \/ Exit(r) PROVE Placed'
  <2>1. PICK delivered \in SUBSET queue[r] : Restart(r, delivered)
    BY <1>13 DEF Crash, Exit
  <2>2. stops' \in Nat /\ timeouts' \in Nat
    BY <1>13 DEF Crash, Exit
  <2> QED
    BY <2>1, <2>2, <1>12
<1>14. ASSUME NEW i \in Ids, Expire(i) PROVE Placed'
  <2>1. seen' \subseteq Ids /\ expiries' \in Nat
    BY <1>14 DEF Expire
  <2> QED
    BY <1>14, <2>1, <1>d DEF Expire
<1>15. CASE UNCHANGED vars
  BY <1>15, <1>d DEF vars
<1> QED
  BY <1>1, <1>3, <1>4, <1>5, <1>6, <1>7, <1>8, <1>9, <1>10, <1>11, <1>13, <1>14, <1>15,
     <1>16 DEF Next
-----------------------------------------------------------------------------

\* Between two states, only replica r can become or stop being a decider.
LEMMA DecidersOfOthers ==
    ASSUME NEW r \in Replicas, NEW i,
           \A s \in Replicas \ {r} : pc'[s] = pc[s] /\ position'[s] = position[s]
    PROVE  /\ Deciders(i)' \subseteq Deciders(i) \cup {r}
           /\ Deciders(i) \subseteq Deciders(i)' \cup {r}
BY DEF Deciders, Claimable, Id, Current

\* Each verdict takes a decider, each decider a claim, and each claim a key that
\* was not set, or an incident.
LEMMA BalancedStep == ASSUME Placed, Balanced, [Next]_vars PROVE Balanced'
<1> USE DEF groupVars, replicaVars, outVars, counters, historyVars, Incidents
<1> SUFFICES ASSUME NEW i \in Ids PROVE Balance(i)'
  BY DEF Balanced
<1>a. /\ IsFiniteSet(Deciders(i)) /\ Cardinality(Deciders(i)) \in Nat
      /\ outcomes[i] + Cardinality(Deciders(i)) + Unset(i) <= 1 + Incidents
      /\ outcomes[i] \in Nat /\ expiries \in Nat /\ faults \in Nat
      /\ Incidents \in Nat /\ Incidents = expiries + faults
  BY FS_CardinalityType DEF Balanced, Balance, Placed, TypeOK, Incidents
<1>b. expiries' \in Nat /\ faults' \in Nat
  BY PlacedStep DEF Placed, TypeOK
<1>u. /\ i \in seen => Unset(i) = 0
      /\ i \notin seen => Unset(i) = 1
      /\ i \in seen' => Unset(i)' = 0
      /\ i \notin seen' => Unset(i)' = 1
  BY DEF Unset
<1>v. Unset(i) \in Int /\ Unset(i)' \in Int /\ Incidents \in Int /\ Incidents' \in Int
  BY <1>a, <1>b, <1>u
<1>w. ASSUME IsFiniteSet(Deciders(i)'),
             outcomes'[i] \in Int,
             outcomes'[i] + Cardinality(Deciders(i)') + Unset(i)' - Incidents'
                <= outcomes[i] + Cardinality(Deciders(i)) + Unset(i) - Incidents
      PROVE  Balance(i)'
  <2>1. Cardinality(Deciders(i)') \in Int
    BY <1>w, FS_CardinalityType
  <2>2. outcomes'[i] + Cardinality(Deciders(i)') + Unset(i)' <= 1 + Incidents'
    BY <1>a, <1>v, <1>w, <2>1
  <2> QED
    BY <1>w, <2>2 DEF Balance
<1>c. ASSUME Deciders(i)' \subseteq Deciders(i), outcomes'[i] = outcomes[i],
             \/ Incidents' = Incidents /\ (i \in seen => i \in seen')
             \/ Incidents' = Incidents + 1
      PROVE  Balance(i)'
  <2>1. /\ IsFiniteSet(Deciders(i)') /\ Cardinality(Deciders(i)') <= Cardinality(Deciders(i))
        /\ Cardinality(Deciders(i)') \in Nat
    BY <1>a, <1>c, FS_Subset, FS_CardinalityType
  <2>2. CASE Incidents' = Incidents /\ (i \in seen => i \in seen')
    <3>1. Unset(i)' <= Unset(i)
      BY <1>u, <2>2
    <3> QED
      BY <1>a, <1>c, <1>v, <1>w, <2>1, <2>2, <3>1
  <2>3. CASE Incidents' = Incidents + 1
    <3>1. Unset(i)' <= Unset(i) + 1
      BY <1>u
    <3> QED
      BY <1>a, <1>c, <1>v, <1>w, <2>1, <2>3, <3>1
  <2> QED
    BY <1>c, <2>2, <2>3
<1>d. ASSUME NEW r, Deciders(i)' \subseteq Deciders(i) \cup {r}, outcomes'[i] = outcomes[i],
             \/ Incidents' = Incidents /\ i \notin seen /\ i \in seen'
             \/ Incidents' = Incidents + 1 /\ (i \in seen => i \in seen')
      PROVE  Balance(i)'
  <2>1. IsFiniteSet(Deciders(i) \cup {r})
        /\ Cardinality(Deciders(i) \cup {r}) <= Cardinality(Deciders(i)) + 1
    BY <1>a, FS_AddElement
  <2>2. Cardinality(Deciders(i) \cup {r}) \in Nat
    BY <2>1, FS_CardinalityType
  <2>3. /\ IsFiniteSet(Deciders(i)') /\ Cardinality(Deciders(i)') \in Nat
        /\ Cardinality(Deciders(i)') <= Cardinality(Deciders(i) \cup {r})
    BY <1>d, <2>1, FS_Subset, FS_CardinalityType
  <2>4. Cardinality(Deciders(i)') <= Cardinality(Deciders(i)) + 1
    BY <1>a, <2>1, <2>2, <2>3
  <2>5. CASE Incidents' = Incidents /\ i \notin seen /\ i \in seen'
    <3>1. Unset(i)' <= Unset(i) + (-1)
      BY <1>u, <2>5
    <3> QED
      BY <1>a, <1>d, <1>v, <1>w, <2>3, <2>4, <2>5, <3>1
  <2>6. CASE Incidents' = Incidents + 1 /\ (i \in seen => i \in seen')
    <3>1. Unset(i)' <= Unset(i)
      BY <1>u, <2>6
    <3> QED
      BY <1>a, <1>d, <1>v, <1>w, <2>3, <2>4, <2>6, <3>1
  <2> QED
    BY <1>d, <2>5, <2>6
<1>e. ASSUME NEW r \in Deciders(i), Deciders(i)' \subseteq Deciders(i) \ {r},
             outcomes'[i] = outcomes[i] + 1, Incidents' = Incidents, seen' = seen
      PROVE  Balance(i)'
  <2>1. /\ IsFiniteSet(Deciders(i) \ {r})
        /\ Cardinality(Deciders(i) \ {r}) = Cardinality(Deciders(i)) - 1
    BY <1>a, FS_RemoveElement
  <2>2. /\ IsFiniteSet(Deciders(i)') /\ Cardinality(Deciders(i)') \in Nat
        /\ Cardinality(Deciders(i)') <= Cardinality(Deciders(i) \ {r})
    BY <1>e, <2>1, FS_Subset, FS_CardinalityType
  <2>3. Cardinality(Deciders(i)') <= Cardinality(Deciders(i)) - 1
    BY <1>a, <2>1, <2>2
  <2>4. Unset(i)' <= Unset(i)
    BY <1>e, <1>u
  <2> QED
    BY <1>a, <1>e, <1>v, <1>w, <2>2, <2>3, <2>4
<1>f. \A r \in Replicas : r \in Deciders(i)
          <=> pc[r] \in {"verdict", "produce"} /\ Claimable(Current(r)) /\ Id(r) = i
  BY DEF Deciders
<1>g. \A r \in Replicas : r \in Deciders(i)'
          <=> pc'[r] \in {"verdict", "produce"} /\ Claimable(Current(r))' /\ Id(r)' = i
  BY DEF Deciders
<1>h. \A r \in Replicas : position'[r] = position[r] =>
          (Claimable(Current(r))' <=> Claimable(Current(r))) /\ Id(r)' = Id(r)
  BY DEF Claimable, Current, Id
<1>i. pc \in [Replicas -> {"poll", "claim", "verdict", "produce", "commit", "exit"}]
  BY DEF Placed, TypeOK
<1>1. ASSUME NEW r \in Replicas, Poll(r) PROVE Balance(i)'
  <2>1. Deciders(i)' \subseteq Deciders(i) \cup {r}
    BY <1>1, OthersStay, DecidersOfOthers DEF Placed
  <2>2. position[r] \in Int /\ position'[r] = position[r] + 1 /\ Current(r)' = position[r]
    BY <1>1, ValidationAssumption DEF Poll, Placed, TypeOK, Current
  <2>3. r \notin Deciders(i)'
    BY <1>1, <1>g, <1>i, <2>2 DEF Poll, Goes, Claimable
  <2> QED
    BY <1>1, <1>c, <2>1, <2>3 DEF Poll
<1>2. ASSUME NEW r \in Replicas, Claim(r) PROVE Balance(i)'
  <2>1. Deciders(i)' \subseteq Deciders(i) \cup {r}
    BY <1>2, OthersStay, DecidersOfOthers DEF Placed
  <2>2. UNCHANGED <<outcomes, expiries, faults>> /\ seen' = seen \cup {Id(r)}
        /\ position' = position
    BY <1>2 DEF Claim
  <2>3. CASE Id(r) = i /\ i \notin seen
    BY <2>1, <2>2, <2>3, <1>d
  <2>4. CASE ~(Id(r) = i /\ i \notin seen)
    <3>1. r \notin Deciders(i)'
      BY <1>2, <2>2, <2>4, <1>g, <1>h, <1>i DEF Claim, IsFirst
    <3> QED
      BY <2>1, <2>2, <3>1, <1>c
  <2> QED
    BY <2>3, <2>4
<1>3. ASSUME NEW r \in Replicas, ClaimRaises(r) PROVE Balance(i)'
  <2>1. Deciders(i)' \subseteq Deciders(i) \cup {r}
    BY <1>3, OthersStay, DecidersOfOthers DEF Placed
  <2>2. Incidents' = Incidents + 1
    BY <1>3, <1>a DEF ClaimRaises
  <2> QED
    BY <1>3, <2>1, <2>2, <1>d DEF ClaimRaises
<1>4. ASSUME NEW r \in Replicas, Produce(r) PROVE Balance(i)'
  <2>1. Deciders(i)' \subseteq Deciders(i) \cup {r}
    BY <1>4, OthersStay, DecidersOfOthers DEF Placed
  <2>2. r \notin Deciders(i)'
    BY <1>4, <1>g, <1>i DEF Produce, Goes
  <2>3. UNCHANGED <<seen, expiries, faults>> /\ pc[r] = "produce"
    BY <1>4 DEF Produce, Goes
  <2>4. CASE Claimable(Current(r)) /\ Id(r) = i
    <3>1. outcomes'[i] = outcomes[i] + 1 /\ r \in Deciders(i)
      BY <1>4, <2>3, <2>4, <1>f DEF Produce, Claimable, Placed, TypeOK
    <3> QED
      BY <2>1, <2>2, <2>3, <3>1, <1>e
  <2>5. CASE ~(Claimable(Current(r)) /\ Id(r) = i)
    <3>1. outcomes'[i] = outcomes[i]
      BY <1>4, <2>5 DEF Produce, Claimable, Placed, TypeOK
    <3> QED
      BY <2>1, <2>2, <2>3, <3>1, <1>c
  <2> QED
    BY <2>4, <2>5
<1>5. ASSUME NEW r \in Replicas, Verdict(r) PROVE Balance(i)'
  <2>1. Deciders(i)' \subseteq Deciders(i) \cup {r}
    BY <1>5, OthersStay, DecidersOfOthers DEF Placed
  <2>2. r \in Deciders(i)' => r \in Deciders(i)
    BY <1>5, <1>f, <1>g, <1>h DEF Verdict, Goes
  <2> QED
    BY <1>5, <2>1, <2>2, <1>c DEF Verdict
<1>6. ASSUME NEW r \in Replicas,
             ClaimRepeated(r) \/ ProduceRaises(r) \/ Commit(r) \/ Crash(r) \/ Exit(r)
      PROVE  Balance(i)'
  <2>1. Deciders(i)' \subseteq Deciders(i) \cup {r}
    BY <1>6, OthersStay, DecidersOfOthers DEF Placed
  <2>2. pc'[r] \in {"commit", "exit", "poll"}
    BY <1>6, <1>i DEF ClaimRepeated, ProduceRaises, Commit, Crash, Exit, Restart, Goes
  <2>3. r \notin Deciders(i)'
    BY <2>2, <1>g
  <2>4. UNCHANGED <<outcomes, expiries, faults>> /\ seen \subseteq seen'
    BY <1>6 DEF ClaimRepeated, ProduceRaises, Commit, Crash, Exit, Restart
  <2> QED
    BY <2>1, <2>3, <2>4, <1>c
<1>7. ASSUME NEW r \in Replicas, Deliver(r) \/ DeliveryFails(r) \/ Rebalance(r)
      PROVE  Balance(i)'
  <2>1. Deciders(i)' \subseteq Deciders(i) \cup {r}
    BY <1>7, OthersStay, DecidersOfOthers DEF Placed
  <2>2. r \in Deciders(i)' => r \in Deciders(i)
    BY <1>7, <1>f, <1>g, <1>h DEF Deliver, DeliveryFails, Rebalance
  <2> QED
    BY <1>7, <2>1, <2>2, <1>c DEF Deliver, DeliveryFails, Rebalance
<1>8. ASSUME NEW k \in Ids, Expire(k) PROVE Balance(i)'
  <2>1. Deciders(i)' \subseteq Deciders(i)
    BY <1>8 DEF Expire, Deciders, Claimable, Current, Id
  <2>2. Incidents' = Incidents + 1
    BY <1>8, <1>a DEF Expire
  <2> QED
    BY <1>8, <2>1, <2>2, <1>c DEF Expire
<1>9. CASE UNCHANGED vars
  <2>1. Deciders(i)' \subseteq Deciders(i)
    BY <1>9 DEF vars, Deciders, Claimable, Current, Id
  <2> QED
    BY <1>9, <2>1, <1>c DEF vars
<1> QED
  BY <1>1, <1>2, <1>3, <1>4, <1>5, <1>6, <1>7, <1>8, <1>9 DEF Next
-----------------------------------------------------------------------------

\* A message that was handed to a producer is settled.
LEMMA ProducedIsSettled ==
    ASSUME Placed, NEW r \in Replicas, Produce(r)
    PROVE  Current(r) \in Settled' /\ Current(r)' = Current(r)
<1>1. <<Current(r), outcome[r]>> \in Sent' /\ Current(r)' = Current(r)
  BY DEF Produce, Sent, Placed, TypeOK, Current
<1>2. PICK m : m = <<Current(r), outcome[r]>>
  OBVIOUS
<1>3. m \in Sent' /\ m[1] = Current(r)
  BY <1>1, <1>2
<1> QED
  BY <1>1, <1>3 DEF Settled

\* What leaves a producer's queue reaches the topics, or is lost: a message that was
\* settled stays so.
LEMMA SettledKept ==
    ASSUME Placed, [Next]_vars
    PROVE  Settled \subseteq Settled'
<1> USE DEF groupVars, replicaVars, outVars, counters, historyVars
<1>a. queue \in [Replicas -> SUBSET (Offsets \X Topics)]
  BY DEF Placed, TypeOK
<1>b. \A o : o \in Settled <=>
          \/ o \in lost
          \/ \E m \in topics : m[1] = o
          \/ \E r \in Replicas : \E m \in queue[r] : m[1] = o
  BY DEF Settled, Sent
<1>c. \A o : o \in Settled' <=>
          \/ o \in lost'
          \/ \E m \in topics' : m[1] = o
          \/ \E r \in Replicas : \E m \in queue'[r] : m[1] = o
  BY DEF Settled, Sent
<1>d. ASSUME lost \subseteq lost', topics \subseteq topics',
             \A r \in Replicas : \A m \in queue[r] :
                m \in queue'[r] \/ m \in topics' \/ m[1] \in lost'
      PROVE  Settled \subseteq Settled'
  BY <1>b, <1>c, <1>d
<1>1. ASSUME NEW r \in Replicas,
             \/ Poll(r) \/ Claim(r) \/ ClaimRepeated(r) \/ ClaimRaises(r) \/ Verdict(r)
             \/ ProduceRaises(r) \/ Commit(r) \/ Rebalance(r)
      PROVE  Settled \subseteq Settled'
  BY <1>1, <1>d DEF Poll, Claim, ClaimRepeated, ClaimRaises, Verdict, ProduceRaises, Commit,
     Rebalance
<1>2. ASSUME NEW r \in Replicas, Produce(r) PROVE Settled \subseteq Settled'
  BY <1>2, <1>a, <1>d DEF Produce
<1>3. ASSUME NEW r \in Replicas, Deliver(r) \/ DeliveryFails(r)
      PROVE  Settled \subseteq Settled'
  BY <1>3, <1>a, <1>d DEF Deliver, DeliveryFails
<1>4. ASSUME NEW r \in Replicas, Crash(r) \/ Exit(r) PROVE Settled \subseteq Settled'
  <2>1. PICK delivered \in SUBSET queue[r] : Restart(r, delivered)
    BY <1>4 DEF Crash, Exit
  <2>2. /\ topics' = topics \cup delivered /\ lost \subseteq lost'
        /\ \A m \in queue[r] \ delivered : m[1] \in lost'
        /\ \A s \in Replicas \ {r} : queue'[s] = queue[s]
    BY <2>1, <1>a DEF Restart
  <2> QED
    BY <2>2, <1>d
<1>5. CASE (\E i \in Ids : Expire(i)) \/ UNCHANGED vars
  BY <1>5, <1>d DEF Expire, vars
<1> QED
  BY <1>1, <1>2, <1>3, <1>4, <1>5 DEF Next

\* And then an event that is settled, or a replica decides on, stays covered.
LEMMA CoveredStays ==
    ASSUME Placed, [Next]_vars, NEW i, Covered(i)
    PROVE  Covered(i)'
<1> USE DEF groupVars, replicaVars, outVars, counters, historyVars
<1>a. Settled \subseteq Settled'
  BY SettledKept
<1>b. ASSUME NEW o \in Settled', Claimable(o) /\ IdOf[o] = i PROVE Covered(i)'
  BY <1>b DEF Covered, Claimable
<1>d. pc \in [Replicas -> {"poll", "claim", "verdict", "produce", "commit", "exit"}]
  BY DEF Placed, TypeOK
<1>e. SUFFICES ASSUME NEW s \in Deciders(i) PROVE Covered(i)'
  BY <1>a, <1>b DEF Covered
<1>f. /\ s \in Replicas /\ pc[s] \in {"verdict", "produce"} /\ Claimable(Current(s))
      /\ Id(s) = i /\ IdOf[Current(s)] = i
  BY DEF Deciders, Id
<1>g. ASSUME pc'[s] \in {"verdict", "produce"}, position'[s] = position[s] PROVE Covered(i)'
  <2>1. s \in Deciders(i)'
    BY <1>f, <1>g DEF Deciders, Claimable, Current, Id
  <2> QED
    BY <2>1 DEF Covered
<1>1. ASSUME NEW r \in Replicas, r # s,
             \/ Poll(r) \/ Claim(r) \/ ClaimRepeated(r) \/ ClaimRaises(r) \/ Verdict(r)
             \/ Produce(r) \/ ProduceRaises(r) \/ Commit(r) \/ Deliver(r) \/ DeliveryFails(r)
             \/ Rebalance(r) \/ Crash(r) \/ Exit(r)
      PROVE  Covered(i)'
  <2>1. pc'[s] = pc[s] /\ position'[s] = position[s]
    BY <1>1, <1>f, OthersStay DEF Placed
  <2> QED
    BY <2>1, <1>f, <1>g
<1>2. CASE Produce(s)
  <2>1. Current(s) \in Settled'
    BY <1>2, <1>f, ProducedIsSettled
  <2> QED
    BY <2>1, <1>f, <1>b
<1>3. CASE Verdict(s) \/ Deliver(s) \/ DeliveryFails(s)
  BY <1>3, <1>d, <1>f, <1>g DEF Verdict, Deliver, DeliveryFails, Goes
<1>4. CASE Poll(s) \/ Claim(s) \/ ClaimRepeated(s) \/ ClaimRaises(s) \/ Commit(s) \/ Rebalance(s)
           \/ Exit(s)
  BY <1>4, <1>f DEF Poll, Claim, ClaimRepeated, ClaimRaises, Commit, Rebalance, Exit, Goes
<1>5. CASE ProduceRaises(s) \/ Crash(s)
  <2>1. Current(s) \in lost'
    BY <1>5, <1>f DEF ProduceRaises, Crash, Restart, InHands
  <2> QED
    BY <2>1, <1>f, <1>b DEF Settled
<1>6. CASE (\E k \in Ids : Expire(k)) \/ UNCHANGED vars
  BY <1>6, <1>f, <1>g DEF Expire, vars
<1> QED
  BY <1>1, <1>2, <1>3, <1>4, <1>5, <1>6, <1>f DEF Next

\* A message that is accounted for stays so.
LEMMA AccountedStays ==
    ASSUME Placed, [Next]_vars, NEW o, Accounted(o)
    PROVE  Accounted(o)'
BY SettledKept, CoveredStays DEF Accounted, Claimable

\* A key is set for an event in hand, a replica goes to its commit with the
\* message sent, lost or discarded as a covered duplicate, and the commit passes
\* one message only.
LEMMA AccountsStep == ASSUME Placed, Accounts, [Next]_vars PROVE Accounts'
<1> USE DEF groupVars, replicaVars, outVars, counters, historyVars
<1>a. /\ \A i \in seen : Covered(i)
      /\ \A r \in Replicas : pc[r] = "commit" => Accounted(Current(r))
      /\ \A o \in Offsets : o < committed => Accounted(o)
  BY DEF Accounts
<1>b. pc \in [Replicas -> {"poll", "claim", "verdict", "produce", "commit", "exit"}]
  BY DEF Placed, TypeOK
<1>c. ASSUME NEW r \in Replicas, ClaimRepeated(r)
      PROVE  /\ pc[r] = "claim" /\ position' = position /\ Current(r)' = Current(r)
             /\ Claimable(Current(r)) /\ Current(r) \in Settled'
             /\ seen' = seen \cup {Id(r)}
  BY <1>c DEF ClaimRepeated, Goes, Placed, InHand, Current, Settled
<1>1. ASSUME NEW i \in seen' PROVE Covered(i)'
  <2>1. CASE i \in seen
    BY <2>1, <1>a, CoveredStays
  <2>2. ASSUME NEW r \in Replicas, Claim(r) \/ ClaimRaises(r), i \notin seen PROVE Covered(i)'
    <3>1. i = Id(r) /\ pc[r] = "claim" /\ position' = position
      BY <2>2 DEF Claim, ClaimRaises, Goes
    <3>2. pc'[r] \in {"verdict", "produce"}
      BY <2>2, <3>1, <1>b DEF Claim, ClaimRaises, Goes, IsFirst
    <3>3. Claimable(Current(r)) /\ r \in Replicas
      BY <3>1 DEF Placed, InHand
    <3>4. r \in Deciders(i)'
      BY <3>1, <3>2, <3>3 DEF Deciders, Claimable, Current, Id
    <3> QED
      BY <3>4 DEF Covered
  <2>3. CASE seen' \subseteq seen
    BY <2>1, <2>3
  <2>4. ASSUME NEW r \in Replicas, ClaimRepeated(r), i \notin seen PROVE Covered(i)'
    <3>1. IdOf[Current(r)] = i /\ Claimable(Current(r)) /\ Current(r) \in Settled'
      BY <2>4, <1>c DEF Id
    <3> QED
      BY <3>1 DEF Covered, Claimable
  <2> QED
    BY <2>1, <2>2, <2>3, <2>4 DEF Next, vars, Poll, Verdict, Produce, ProduceRaises, Commit,
       Deliver, DeliveryFails, Rebalance, Crash, Exit, Restart, Expire
<1>2. ASSUME NEW r \in Replicas, pc'[r] = "commit" PROVE Accounted(Current(r))'
  <2>1. ASSUME pc[r] = "commit", position'[r] = position[r] PROVE Accounted(Current(r))'
    <3>1. Accounted(Current(r)) /\ Current(r)' = Current(r)
      BY <2>1, <1>a DEF Current
    <3>2. \A o : Accounted(o) => Accounted(o)'
      BY AccountedStays
    <3> QED
      BY <3>1, <3>2 DEF Accounted
  <2>2. CASE Claim(r)
    <3>1. Id(r) \in seen /\ pc[r] = "claim" /\ position' = position
      BY <2>2, <1>2, <1>b DEF Claim, IsFirst
    <3>2. PICK i \in seen : i = Id(r)
      BY <3>1
    <3>3. Covered(i)'
      BY <3>2, <1>a, CoveredStays
    <3>4. Claimable(Current(r)) /\ Current(r)' = Current(r) /\ Id(r)' = Id(r)
      BY <3>1 DEF Placed, InHand, Current, Id
    <3>5. Claimable(Current(r))' /\ IdOf[Current(r)'] = i
      BY <3>2, <3>4 DEF Claimable, Id
    <3> QED
      BY <3>3, <3>5 DEF Accounted, Covered
  <2>3. CASE Produce(r)
    <3>1. Current(r) \in Settled' /\ Current(r)' = Current(r)
      BY <2>3, ProducedIsSettled
    <3> QED
      BY <3>1 DEF Accounted
  <2>4. CASE ClaimRepeated(r)
    BY <2>4, <1>c DEF Accounted
  <2>5. CASE \/ Poll(r) \/ ClaimRaises(r) \/ Verdict(r) \/ ProduceRaises(r) \/ Commit(r)
             \/ Crash(r) \/ Exit(r)
    <3>1. pc'[r] # "commit"
      BY <2>5, <1>b DEF Poll, ClaimRaises, Verdict, ProduceRaises, Commit, Crash, Exit, Restart,
         Goes
    <3> QED
      BY <3>1, <1>2
  <2>6. CASE \/ Deliver(r) \/ DeliveryFails(r) \/ Rebalance(r) \/ (\E i \in Ids : Expire(i))
             \/ UNCHANGED vars
    BY <2>6, <2>1, <1>2 DEF Deliver, DeliveryFails, Rebalance, Expire, vars
  <2>7. ASSUME NEW s \in Replicas, s # r,
               \/ Poll(s) \/ Claim(s) \/ ClaimRepeated(s) \/ ClaimRaises(s) \/ Verdict(s)
               \/ Produce(s) \/ ProduceRaises(s) \/ Commit(s) \/ Deliver(s) \/ DeliveryFails(s)
               \/ Rebalance(s) \/ Crash(s) \/ Exit(s)
        PROVE  Accounted(Current(r))'
    <3>1. pc'[r] = pc[r] /\ position'[r] = position[r]
      BY <2>7, OthersStay DEF Placed
    <3> QED
      BY <3>1, <2>1, <1>2
  <2> QED
    BY <2>2, <2>3, <2>4, <2>5, <2>6, <2>7 DEF Next
<1>3. ASSUME NEW o \in Offsets, o < committed' PROVE Accounted(o)'
  <2>1. CASE o < committed
    BY <2>1, <1>a, AccountedStays
  <2>2. CASE committed' = committed
    BY <2>1, <2>2, <1>3
  <2>3. ASSUME NEW r \in Replicas, Commit(r), owner = r PROVE Accounted(o)'
    <3>1. committed' = position[r] /\ pc[r] = "commit" /\ position[r] = committed + 1
      BY <2>3 DEF Commit, Goes, NextToRead, Placed, OwnerInStep
    <3>2. committed \in Int /\ o \in Int /\ Current(r) = committed
      BY <3>1, ValidationAssumption DEF Placed, TypeOK, Offsets, Current
    <3>3. o < committed \/ o = Current(r)
      BY <3>1, <3>2, <1>3
    <3>4. Accounted(Current(r))
      BY <3>1, <1>a
    <3> QED
      BY <2>1, <3>3, <3>4, AccountedStays
  <2> QED
    BY <2>2, <2>3 DEF Next, vars, Poll, Claim, ClaimRepeated, ClaimRaises, Verdict, Produce,
       ProduceRaises, Commit, Deliver, DeliveryFails, Rebalance, Crash, Exit, Restart, Expire
<1> QED
  BY <1>1, <1>2, <1>3 DEF Accounts

-----------------------------------------------------------------------------

\* The partition starts at its first offset with no key set.
LEMMA InitPlaced == Init => Placed /\ Balanced /\ Accounts
<1> SUFFICES ASSUME Init PROVE Placed /\ Balanced /\ Accounts
  OBVIOUS
<1>1. Placed
  BY ValidationAssumption DEF Init, Placed, TypeOK, InHand, OwnerInStep, Topics
<1>2. \A i \in Ids : Deciders(i) = {} /\ outcomes[i] = 0
  BY DEF Init, Deciders
<1>3. Balanced
  <2> SUFFICES ASSUME NEW i \in Ids PROVE Balance(i)
    BY DEF Balanced
  <2>1. IsFiniteSet(Deciders(i)) /\ Cardinality(Deciders(i)) = 0
    BY <1>2, FS_EmptySet
  <2>2. Unset(i) = 1 /\ Incidents = 0
    BY DEF Init, Unset, Incidents
  <2> QED
    BY <1>2, <2>1, <2>2 DEF Balance
<1>4. Accounts
  BY DEF Init, Accounts, Offsets
<1> QED
  BY <1>1, <1>3, <1>4

\* The three parts of the strengthening are invariants.
LEMMA AlwaysPlaced == Spec => [](Placed /\ Balanced /\ Accounts)
<1>1. Placed /\ Balanced /\ Accounts /\ [Next]_vars => (Placed /\ Balanced /\ Accounts)'
  BY PlacedStep, BalancedStep, AccountsStep
<1> QED
  BY InitPlaced, <1>1, PTL DEF Spec

\* The variables keep their types, for every log and number of replicas.
THEOREM TypeCorrect == Spec => []TypeOK
BY AlwaysPlaced, PTL DEF Placed

\* However many replicas and redeliveries there are, an id gets one verdict, and
\* another only after a key expired or Redis raised.
THEOREM OneVerdict == Spec => []OneVerdictPerKey
<1>1. Placed /\ Balanced => OneVerdictPerKey
  <2> SUFFICES ASSUME Placed, Balanced, NEW i \in Ids
               PROVE  outcomes[i] <= 1 + expiries + faults
    BY DEF OneVerdictPerKey
  <2>1. /\ outcomes[i] + Cardinality(Deciders(i)) + Unset(i) <= 1 + Incidents
        /\ Cardinality(Deciders(i)) \in Nat /\ Unset(i) \in 0..1 /\ outcomes[i] \in Nat
        /\ expiries \in Nat /\ faults \in Nat
    BY FS_CardinalityType DEF Balanced, Balance, Unset, Placed, TypeOK
  <2> QED
    BY <2>1 DEF Incidents
<1> QED
  BY AlwaysPlaced, <1>1, PTL

\* Every committed message has an outcome, or a replica about to give it one, or its
\* event was lost by a mishap that it was in the way of.
THEOREM CommittedIsAccounted == Spec => []CommittedHasOutcome
<1>1. Placed /\ Accounts => CommittedHasOutcome
  <2> SUFFICES ASSUME Accounts, NEW o \in Offsets, o < committed
               PROVE  HasOutcome(o) \/ WasLost(o) \/ (Claimable(o) /\ Deciding(IdOf[o]))
    BY DEF CommittedHasOutcome
  <2>1. Accounted(o)
    BY DEF Accounts
  <2>2. ASSUME NEW p \in Settled, SameEvent(p, o) PROVE HasOutcome(o) \/ WasLost(o)
    BY <2>2 DEF Settled, HasOutcome, WasLost
  <2>3. CASE Claimable(o) /\ Deciders(IdOf[o]) # {}
    BY <2>3 DEF Deciders, Deciding
  <2>4. CASE \E p \in Settled : SameEvent(p, o)
    BY <2>2, <2>4
  <2> QED
    BY <2>1, <2>3, <2>4 DEF Accounted, Covered, SameEvent
<1> QED
  BY AlwaysPlaced, <1>1, PTL

\* No replica, and no commit of one that lost the partition, takes the committed
\* offset back.
THEOREM CommitsOnlyAdvance == Spec => CommitsAdvance
<1>1. Placed /\ [Next]_vars => [committed' >= committed]_committed
  <2> SUFFICES ASSUME Placed, [Next]_vars PROVE committed' >= committed
    OBVIOUS
  <2>1. committed \in Int
    BY ValidationAssumption DEF Placed, TypeOK
  <2>2. ASSUME NEW r \in Replicas, Commit(r) PROVE committed' >= committed
    <3>1. CASE owner = r
      BY <2>1, <2>2, <3>1 DEF Commit, Goes, NextToRead, Placed, OwnerInStep
    <3>2. CASE owner # r
      BY <2>1, <2>2, <3>2 DEF Commit
    <3> QED
      BY <3>1, <3>2
  <2>3. CASE committed' = committed
    BY <2>1, <2>3
  <2> QED
    BY <2>2, <2>3 DEF Next, vars, groupVars, Poll, Claim, ClaimRepeated, ClaimRaises, Verdict,
       Produce, ProduceRaises, Deliver, DeliveryFails, Rebalance, Crash, Exit, Restart, Expire
<1> QED
  BY AlwaysPlaced, <1>1, PTL DEF Spec, CommitsAdvance
=============================================================================
