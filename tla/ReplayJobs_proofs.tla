------------------------- MODULE ReplayJobs_proofs -------------------------
(***************************************************************************)
(* What holds of the replay jobs for every number of engines and jobs and  *)
(* whatever calls raise: the types, that no job runs twice, that each lost *)
(* job has an incident of its own, that a settled job stays settled, and   *)
(* that a listing is complete.                                             *)
(*                                                                         *)
(* The strengthening says where a job can be: it is being submitted, in    *)
(* the queue or with one engine, and while it can still be claimed it      *)
(* never ran and has no final status.                                      *)
(***************************************************************************)
EXTENDS ReplayJobs, TLAPS, FiniteSetTheorems, SequenceTheorems, WellFoundedInduction

\* A job is in one place at most: with save_job(), in the queue, or with one engine.
OnePlace ==
    /\ \A e, f \in Engines : job[e] = job[f] /\ job[e] # NoJob => e = f
    /\ \A e \in Engines : job[e] \notin pending
    /\ \A j \in Jobs : submission[j] \in {"new", "hashed"} =>
            j \notin pending /\ \A e \in Engines : job[e] # j

\* Its hash was written before the queue or an engine got it, and until it
\* is marked it never ran and has no final status.
Unclaimed(j) ==
    \/ submission[j] \in {"new", "hashed"}
    \/ j \in pending
    \/ \E e \in Engines : job[e] = j /\ pc[e] \in {"fetch", "mark"}

Progress ==
    /\ \A j \in Jobs : submission[j] = "new" => status[j] = "absent"
    /\ \A j \in Jobs : submission[j] = "hashed" => status[j] # "absent"
    /\ \A j \in pending : status[j] # "absent"
    /\ \A e \in Engines : job[e] \in Jobs => status[job[e]] # "absent"
    /\ \A j \in Jobs : Unclaimed(j) => runs[j] = 0 /\ status[j] \notin Terminal
    /\ \A e \in Engines : pc[e] = "push" => status[job[e]] \in Terminal

\* Once its status is final, only the engine that ran it still works on a job.
Final(j) ==
    /\ status[j] \in Terminal
    /\ \A e \in Engines : job[e] = j => pc[e] \in {"report", "push"}

\* The recent list holds such jobs, and a listing owes no others.
OnlyFinal ==
    /\ \A j \in ToSet(recent) : Final(j)
    /\ listing => \A j \in owed \ DOMAIN listed : Final(j)

Tracked == TypeOK /\ OnePlace /\ Progress /\ AtMostOnce /\ OnlyFinal

-----------------------------------------------------------------------------

\* Of finitely many things with places, one has the least place.
LEMMA FirstExists ==
    ASSUME NEW S, IsFiniteSet(S), S # {}, NEW at, \A j \in S : at[j] \in Int
    PROVE  \E j \in S : \A k \in S : at[j] <= at[k]
<1> DEFINE Before(j) == {k \in S : at[k] < at[j]}
           B == {Before(j) : j \in S}
<1>1. IsWellFoundedOn(StrictSubsetOrdering(S), SUBSET S)
  BY FS_StrictSubsetOrderingWellFounded, FS_FiniteSubsetsOfFinite
<1>2. B \subseteq SUBSET S /\ B # {}
  OBVIOUS
<1>3. PICK s \in B : \A t \in B : <<t, s>> \notin StrictSubsetOrdering(S)
  BY <1>1, <1>2, WFMin
<1>4. PICK j \in S : s = Before(j)
  BY <1>3
<1>5. ASSUME NEW k \in S, ~(at[j] <= at[k]) PROVE FALSE
  <2>1. k \in Before(j) /\ k \notin Before(k)
    BY <1>5
  <2>2. \A i \in S : at[i] < at[k] => at[i] < at[j]
    BY <1>5
  <2>3. <<Before(k), Before(j)>> \in StrictSubsetOrdering(S)
    BY <2>1, <2>2 DEF StrictSubsetOrdering
  <2> QED
    BY <1>3, <1>4, <2>3
<1> QED
  BY <1>5

\* ZPOPMIN has a job to return whenever the queue is not empty.
LEMMA OldestIsPending == ASSUME TypeOK, pending # {} PROVE Oldest \in pending
<1> DEFINE at == [j \in pending |-> j]
<1>1. IsFiniteSet(pending) /\ pending \subseteq Int
  <2>1. IsFiniteSet(Jobs) /\ Jobs \subseteq Int
    BY FS_Interval, ReplayAssumption DEF Jobs
  <2>2. pending \in SUBSET Jobs
    BY DEF TypeOK
  <2> QED
    BY <2>1, <2>2, FS_Subset
<1>2. \E j \in pending : \A k \in pending : at[j] <= at[k]
  <2>1. \A j \in pending : at[j] \in Int
    BY <1>1
  <2> HIDE DEF at
  <2> QED
    BY <1>1, <2>1, FirstExists
<1> QED
  BY <1>2 DEF Oldest

\* What the two reads of a listing return: every job of the queue and every job
\* near the head of the recent list, with its place.
LEMMA ReadProperties ==
    ASSUME TypeOK
    PROVE  /\ DOMAIN QueueIds = pending /\ DOMAIN RecentIds = ToSet(Newest)
           /\ QueueIds \in [pending -> Nat] /\ RecentIds \in [ToSet(Newest) -> Nat]
           /\ ToSet(Newest) \subseteq ToSet(recent) /\ ToSet(recent) \subseteq Jobs
<1> DEFINE n == IF ListMax < Len(recent) THEN ListMax ELSE Len(recent)
<1>1. recent \in Seq(Jobs) /\ Len(recent) \in Nat /\ DOMAIN recent = 1..Len(recent)
  BY LenProperties DEF TypeOK
<1>2. \A i \in 1..Len(recent) : recent[i] \in Jobs
  BY <1>1, ElementOfSeq
<1>3. n \in Nat /\ n <= Len(recent)
  BY <1>1, ReplayAssumption
<1>4. \A i \in 1..n : recent[i] \in Jobs
  BY <1>1, <1>2, <1>3
<1>5. /\ Newest \in Seq(Jobs) /\ Len(Newest) = n
      /\ \A i \in 1..n : Newest[i] = recent[i]
  <2>1. Newest = SubSeq(recent, 1, n)
    BY DEF Newest
  <2> HIDE DEF n
  <2>2. CASE n = 0
    <3>1. Newest = << >>
      BY <2>1, <2>2, SubSeqProperties
    <3> QED
      BY <2>2, <3>1, EmptySeq
  <2>3. CASE n # 0
    BY <1>3, <1>4, <2>1, <2>3, SubSeqProperties
  <2> QED
    BY <2>2, <2>3
<1> HIDE DEF n
<1>6. DOMAIN Newest = 1..n
  BY <1>3, <1>5, LenProperties
<1>7. ToSet(Newest) \subseteq ToSet(recent) /\ ToSet(recent) \subseteq Jobs
  BY <1>1, <1>2, <1>3, <1>5, <1>6 DEF ToSet
<1>8. QueueIds \in [pending -> Nat]
  BY ReplayAssumption DEF QueueIds, TypeOK, Jobs
<1>9. RecentIds \in [ToSet(Newest) -> Nat]
  <2> SUFFICES ASSUME NEW j
               PROVE  Cardinality({i \in DOMAIN Newest : \A k \in 1..i : Newest[k] # j}) \in Nat
    BY DEF RecentIds
  <2>1. IsFiniteSet(DOMAIN Newest)
    BY <1>3, <1>6, FS_Interval
  <2>2. {i \in DOMAIN Newest : \A k \in 1..i : Newest[k] # j} \in SUBSET DOMAIN Newest
    OBVIOUS
  <2> QED
    BY <2>1, <2>2, FS_Subset, FS_CardinalityType
<1> QED
  BY <1>7, <1>8, <1>9

\* A listing that leaves out one of the ids it read has reached its limit: what
\* is ahead of the first one left out was returned, and is as much as the limit.
LEMMA CutMeansFull ==
    ASSUME NEW first, NEW second, NEW P, NEW R, IsFiniteSet(P), IsFiniteSet(R),
           first \in [P -> Nat], second \in [R -> Nat],
           ~((P \cup R) \subseteq Reached(first, second))
    PROVE  Cardinality(Reached(first, second)) >= ListMax
<1> DEFINE Out == (P \cup R) \ Reached(first, second)
<1>1. IsFiniteSet(P \cup R) /\ Reached(first, second) \in SUBSET (P \cup R)
  BY FS_Union DEF Reached
<1>2. IsFiniteSet(Reached(first, second)) /\ Cardinality(Reached(first, second)) \in Nat
  BY <1>1, FS_Subset, FS_CardinalityType
<1>3. ASSUME NEW j \in Out, Ahead(first, second, j) \subseteq Reached(first, second)
      PROVE  Cardinality(Reached(first, second)) >= ListMax
  <2>1. /\ IsFiniteSet(Ahead(first, second, j))
        /\ Cardinality(Ahead(first, second, j)) <= Cardinality(Reached(first, second))
    BY <1>2, <1>3, FS_Subset
  <2>2. Cardinality(Ahead(first, second, j)) \in Nat
    BY <2>1, FS_CardinalityType
  <2>3. ~(Cardinality(Ahead(first, second, j)) < ListMax)
    BY DEF Reached
  <2> QED
    BY <1>2, <2>1, <2>2, <2>3, ReplayAssumption
<1>4. CASE Out \cap P # {}
  <2>1. IsFiniteSet(Out \cap P) /\ \A j \in Out \cap P : first[j] \in Int
    BY FS_Intersection
  <2>2. PICK j \in Out \cap P : \A k \in Out \cap P : first[j] <= first[k]
    BY <1>4, <2>1, FirstExists
  <2>3. Ahead(first, second, j) \subseteq Reached(first, second)
    BY <2>2 DEF Ahead
  <2> QED
    BY <1>3, <2>2, <2>3
<1>5. CASE Out \cap P = {}
  <2>1. Out \subseteq R /\ Out # {} /\ P \subseteq Reached(first, second)
    BY <1>5
  <2>2. IsFiniteSet(Out) /\ \A j \in Out : second[j] \in Int
    BY <2>1, FS_Subset
  <2>3. PICK j \in Out : \A k \in Out : second[j] <= second[k]
    BY <2>1, <2>2, FirstExists
  <2>4. Ahead(first, second, j) \subseteq Reached(first, second)
    BY <2>1, <2>3 DEF Ahead
  <2> QED
    BY <1>3, <2>3, <2>4
<1> QED
  BY <1>4, <1>5

\* LPUSH and LTRIM put the job on the list, drop others at most and keep the cap.
LEMMA PushedProperties ==
    ASSUME recent \in Seq(Jobs), NEW j \in Jobs
    PROVE  /\ Pushed(j) \in Seq(Jobs) /\ Len(Pushed(j)) <= RecentMax
           /\ ToSet(Pushed(j)) \subseteq ToSet(recent) \cup {j}
<1> DEFINE longer == <<j>> \o recent
<1>1. <<j>> \in Seq(Jobs) /\ Len(<<j>>) = 1 /\ <<j>>[1] = j /\ Len(recent) \in Nat
  BY LenProperties
<1>2. /\ longer \in Seq(Jobs) /\ Len(longer) = 1 + Len(recent)
      /\ \A i \in 1..Len(longer) : longer[i] = IF i <= 1 THEN j ELSE recent[i - 1]
  BY <1>1, ConcatProperties
<1>3. \A i \in 1..Len(longer) : longer[i] \in ToSet(recent) \cup {j}
  <2> SUFFICES ASSUME NEW i \in 1..Len(longer), i # 1 PROVE longer[i] \in ToSet(recent)
    BY <1>2
  <2>1. i - 1 \in 1..Len(recent) /\ longer[i] = recent[i - 1]
    BY <1>1, <1>2
  <2> QED
    BY <2>1, LenProperties DEF ToSet
<1>4. CASE Len(longer) > RecentMax
  <2>1. RecentMax \in Nat /\ RecentMax >= 1 /\ Pushed(j) = SubSeq(longer, 1, RecentMax)
    BY <1>4, ReplayAssumption DEF Pushed
  <2>2. \A i \in 1..RecentMax : i \in 1..Len(longer) /\ longer[i] \in Jobs
    BY <1>1, <1>2, <1>4, <2>1, ElementOfSeq
  <2> HIDE DEF longer
  <2>3. /\ Pushed(j) \in Seq(Jobs) /\ Len(Pushed(j)) = RecentMax
        /\ \A i \in 1..RecentMax : Pushed(j)[i] = longer[i]
    BY <2>1, <2>2, SubSeqProperties
  <2>4. DOMAIN Pushed(j) = 1..RecentMax
    BY <2>3, LenProperties
  <2> QED
    BY <1>3, <2>1, <2>2, <2>3, <2>4 DEF ToSet
<1>5. CASE ~(Len(longer) > RecentMax)
  <2>1. Pushed(j) = longer
    BY <1>5 DEF Pushed
  <2> HIDE DEF longer
  <2>2. DOMAIN longer = 1..Len(longer)
    BY <1>2, LenProperties
  <2> QED
    BY <1>1, <1>2, <1>3, <1>5, <2>1, <2>2, ReplayAssumption DEF ToSet
<1> QED
  BY <1>4, <1>5

\* Every variable keeps its type; in particular an engine has a job whenever it
\* is not polling, and the recent list keeps its cap.
LEMMA TypeStep == ASSUME TypeOK, [Next]_vars PROVE TypeOK'
<1> USE DEF TypeOK, redisVars, engineVars, troubleVars, listVars, history
<1>a. NoJob \notin Jobs /\ ToSet(recent) \subseteq Jobs
  <2>1. DOMAIN recent = 1..Len(recent) /\ \A i \in 1..Len(recent) : recent[i] \in Jobs
    BY ElementOfSeq, LenProperties
  <2>2. ToSet(recent) \subseteq Jobs
    BY <2>1 DEF ToSet
  <2> QED
    BY <2>2, ReplayAssumption DEF NoJob, Jobs
<1>b. ASSUME NEW e \in Engines, Dies(e) PROVE
        /\ pc' \in [Engines -> {"poll", "fetch", "mark", "run", "report", "push"}]
        /\ job' \in [Engines -> Jobs \cup {NoJob}]
        /\ \A f \in Engines : job'[f] = NoJob <=> pc'[f] = "poll"
        /\ verdict' \in [Engines -> Terminal] /\ stopping' \in [Engines -> BOOLEAN]
  BY <1>b, <1>a DEF Dies, Terminal
<1>1. ASSUME NEW j \in Jobs, SaveHash(j) PROVE TypeOK'
  BY <1>1 DEF SaveHash, Sets
<1>2. ASSUME NEW j \in Jobs, Enqueue(j) PROVE TypeOK'
  BY <1>2 DEF Enqueue
<1>3. ASSUME NEW j \in Jobs, SaveFails(j) PROVE TypeOK'
  <2>1. status' \in [Jobs -> {"absent", "pending", "running"} \cup Terminal] /\ pending' \subseteq Jobs
    BY <1>3 DEF SaveFails, Sets
  <2>2. submission' \in [Jobs -> {"new", "hashed", "queued", "refused"}]
    BY <1>3 DEF SaveFails
  <2>3. {faults', crashes', signals'} \subseteq Nat
    BY <1>3 DEF SaveFails, Raises
  <2> QED
    BY <1>3, <2>1, <2>2, <2>3 DEF SaveFails
<1>4. CASE ListFirst
  <2>1. pending \in SUBSET Jobs /\ listed' \in [pending -> Nat]
    BY <1>4, ReadProperties DEF ListFirst, Collection
  <2>2. DOMAIN listed' \subseteq Jobs /\ listed' \in [DOMAIN listed' -> Nat]
    BY <2>1
  <2> QED
    BY <1>4, <2>2, <1>a DEF ListFirst
<1>5. CASE ListSecond
  <2>1. listed' \in [{} -> Nat] /\ {} \in SUBSET Jobs
    BY <1>5 DEF ListSecond
  <2>2. DOMAIN listed' \subseteq Jobs /\ listed' \in [DOMAIN listed' -> Nat]
    BY <2>1
  <2>3. Reached(listed, Collection(2)) \subseteq Jobs
    BY ReadProperties DEF Reached, Collection
  <2> QED
    BY <1>5, <2>2, <2>3 DEF ListSecond
<1>6. ASSUME NEW e \in Engines, Pop(e) PROVE TypeOK'
  <2>1. Oldest \in Jobs
    BY <1>6, OldestIsPending DEF Pop
  <2> QED
    BY <1>6, <2>1, <1>a DEF Pop, Goes
<1>7. ASSUME NEW e \in Engines, PopRaises(e) PROVE TypeOK'
  BY <1>7 DEF PopRaises, Raises
<1>8. ASSUME NEW e \in Engines, Fetch(e) PROVE TypeOK'
  <2>1. CASE Dies(e)
    BY <1>8, <2>1, <1>b DEF Fetch
  <2>2. CASE ~Dies(e)
    <3>1. UNCHANGED <<redisVars, submission, history, troubleVars, listVars, verdict, stopping>>
      BY <1>8, <2>2 DEF Fetch
    <3>2. \/ pc' = [pc EXCEPT ![e] = "poll"] /\ job' = [job EXCEPT ![e] = NoJob]
          \/ pc[e] = "fetch" /\ pc' = [pc EXCEPT ![e] = "mark"] /\ job' = job
      BY <1>8, <2>2 DEF Fetch
    <3>3. /\ pc' \in [Engines -> {"poll", "fetch", "mark", "run", "report", "push"}]
          /\ job' \in [Engines -> Jobs \cup {NoJob}]
          /\ \A f \in Engines : job'[f] = NoJob <=> pc'[f] = "poll"
      BY <3>2, <1>a
    <3> QED
      BY <3>1, <3>3
  <2> QED
    BY <2>1, <2>2
<1>9. ASSUME NEW e \in Engines, Mark(e) PROVE TypeOK'
  <2>1. job[e] \in Jobs
    BY <1>9, <1>a DEF Mark, Goes
  <2> QED
    BY <1>9, <2>1 DEF Mark, Goes, Sets
<1>10. ASSUME NEW e \in Engines, ClaimRaises(e) PROVE TypeOK'
  <2>1. job[e] \in Jobs
    BY <1>10, <1>a DEF ClaimRaises
  <2>2. status' \in [Jobs -> {"absent", "pending", "running"} \cup Terminal]
    BY <1>10, <2>1 DEF ClaimRaises, Sets
  <2> QED
    BY <1>10, <2>2, <1>a DEF ClaimRaises, Raises
<1>11. ASSUME NEW e \in Engines, Run(e) PROVE TypeOK'
  BY <1>11 DEF Run, Goes, Terminal
<1>12. ASSUME NEW e \in Engines, Report(e) PROVE TypeOK'
  BY <1>12 DEF Report, Goes, Sets
<1>13. ASSUME NEW e \in Engines, Push(e) PROVE TypeOK'
  <2>1. job[e] \in Jobs
    BY <1>13, <1>a DEF Push, Goes
  <2>2. recent' \in Seq(Jobs) /\ Len(recent') <= RecentMax
    BY <1>13, <2>1, PushedProperties DEF Push
  <2> QED
    BY <1>13, <2>1, <2>2, <1>a DEF Push, Goes, Terminal
<1>14. ASSUME NEW e \in Engines, UpdateRaises(e) PROVE TypeOK'
  <2>1. job[e] \in Jobs
    BY <1>14, <1>a DEF UpdateRaises
  <2>2. /\ recent' \in Seq(Jobs) /\ Len(recent') <= RecentMax /\ filed' \subseteq Jobs
        /\ status' \in [Jobs -> {"absent", "pending", "running"} \cup Terminal]
    BY <1>14, <2>1, PushedProperties DEF UpdateRaises, Sets
  <2>a. {faults', crashes', signals'} \subseteq Nat
    BY <1>14 DEF UpdateRaises, Raises
  <2>3. CASE verdict[e] = "completed"
    <3>1. /\ pc' = [pc EXCEPT ![e] = "report"] /\ verdict' \in [Engines -> Terminal]
          /\ UNCHANGED <<job, stopping>>
      BY <1>14, <2>3 DEF UpdateRaises, Terminal
    <3>2. \A f \in Engines : job'[f] = NoJob <=> pc'[f] = "poll"
      BY <3>1, <2>1, <1>a
    <3> QED
      BY <1>14, <2>2, <2>a, <3>1, <3>2 DEF UpdateRaises
  <2>4. CASE verdict[e] # "completed"
    BY <1>14, <2>2, <2>a, <2>4, <1>b DEF UpdateRaises
  <2> QED
    BY <2>3, <2>4
<1>15. ASSUME NEW e \in Engines, Sigterm(e) PROVE TypeOK'
  BY <1>15 DEF Sigterm
<1>16. ASSUME NEW e \in Engines, Exit(e) PROVE TypeOK'
  BY <1>16, <1>b DEF Exit
<1>17. ASSUME NEW e \in Engines, Crash(e) PROVE TypeOK'
  BY <1>17, <1>b DEF Crash
<1>18. CASE UNCHANGED vars
  BY <1>18 DEF vars
<1> QED
  BY <1>1, <1>2, <1>3, <1>4, <1>5, <1>6, <1>7, <1>8, <1>9, <1>10, <1>11, <1>12,
     <1>13, <1>14, <1>15, <1>16, <1>17, <1>18 DEF Next, Save
-----------------------------------------------------------------------------

\* No two engines pop one job, and save_job() queues a job once only.
LEMMA OnePlaceStep == ASSUME TypeOK, OnePlace, [Next]_vars PROVE OnePlace'
<1> USE DEF TypeOK, OnePlace, redisVars, engineVars, troubleVars, listVars, history
<1>a. NoJob \notin Jobs
  BY ReplayAssumption DEF NoJob, Jobs
<1>1. ASSUME NEW j \in Jobs, Save(j) \/ SaveFails(j) PROVE OnePlace'
  <2>1. /\ submission[j] \in {"new", "hashed"} /\ job' = job
        /\ \E s \in {"hashed", "queued", "refused"} :
              submission' = [submission EXCEPT ![j] = s]
        /\ pending' \in {pending, pending \cup {j}}
        /\ submission'[j] = "hashed" => pending' = pending
    BY <1>1 DEF Save, SaveHash, Enqueue, SaveFails
  <2>2. \A k \in Jobs \ {j} : submission'[k] = submission[k]
    BY <2>1
  <2>3. \A e \in Engines : job[e] # j
    BY <2>1
  <2> QED
    BY <2>1, <2>2, <2>3
<1>2. ASSUME NEW e \in Engines, Pop(e) PROVE OnePlace'
  <2>1. /\ Oldest \in pending /\ pending' = pending \ {Oldest}
        /\ job' = [job EXCEPT ![e] = Oldest] /\ submission' = submission
    BY <1>2, OldestIsPending DEF Pop
  <2> QED
    BY <2>1
<1>3. ASSUME UNCHANGED submission, pending' \subseteq pending,
             \A e \in Engines : job'[e] \in {job[e], NoJob}
      PROVE  OnePlace'
  BY <1>3, <1>a
<1>4. ASSUME NEW e \in Engines, PopRaises(e) PROVE OnePlace'
  BY <1>4, <1>3 DEF PopRaises
<1>5. ASSUME NEW e \in Engines,
             \/ Fetch(e) \/ Mark(e) \/ ClaimRaises(e) \/ Run(e) \/ Report(e) \/ Push(e)
             \/ UpdateRaises(e) \/ Sigterm(e) \/ Exit(e) \/ Crash(e)
      PROVE  OnePlace'
  <2>1. UNCHANGED <<submission, pending>> /\ job' \in {job, [job EXCEPT ![e] = NoJob]}
    BY <1>5 DEF Fetch, Mark, ClaimRaises, Run, Report, Push, UpdateRaises, Sigterm, Exit,
                Crash, Dies
  <2> QED
    BY <2>1, <1>3
<1>6. CASE ListFirst \/ ListSecond \/ UNCHANGED vars
  BY <1>6, <1>3 DEF ListFirst, ListSecond, vars
<1> QED
  BY <1>1, <1>2, <1>4, <1>5, <1>6 DEF Next

\* An engine finds the hash of the job it popped, marks it once, and has a final
\* status written before it pushes the job.
LEMMA ProgressStep ==
    ASSUME TypeOK, OnePlace, Progress, AtMostOnce, [Next]_vars
    PROVE  Progress' /\ AtMostOnce'
<1> USE DEF TypeOK, Progress, Unclaimed, redisVars, engineVars, troubleVars, listVars, history
<1>a. NoJob \notin Jobs
  BY ReplayAssumption DEF NoJob, Jobs
<1>b. TypeOK'
  BY TypeStep
<1>c. {"absent", "pending", "running"} \cap Terminal = {}
  BY DEF Terminal
<1>1. ASSUME NEW j \in Jobs, Save(j) \/ SaveFails(j) PROVE Progress' /\ AtMostOnce'
  <2>1. /\ submission[j] \in {"new", "hashed"} /\ UNCHANGED <<pc, job, runs>>
        /\ \E s \in {"hashed", "queued", "refused"} :
              submission' = [submission EXCEPT ![j] = s]
        /\ pending' \in {pending, pending \cup {j}}
        /\ submission'[j] = "hashed" => submission[j] = "new" /\ status'[j] = "pending"
        /\ pending' # pending => submission[j] = "hashed" /\ status' = status
        /\ status' \in {status, [status EXCEPT ![j] = "pending"]}
    BY <1>1 DEF Save, SaveHash, Enqueue, SaveFails, Sets
  <2>2. \A k \in Jobs \ {j} : submission'[k] = submission[k] /\ status'[k] = status[k]
    BY <2>1
  <2>3. \A e \in Engines : job[e] # j
    BY <2>1 DEF OnePlace
  <2>4. status'[j] \notin Terminal /\ runs[j] = 0
    BY <2>1, <1>c
  <2>5. Progress'
    <3>1. \A k \in Jobs : submission'[k] = "new" => status'[k] = "absent"
      BY <2>1, <2>2
    <3>2. \A k \in Jobs : submission'[k] = "hashed" => status'[k] # "absent"
      BY <2>1, <2>2
    <3>3. \A k \in pending' : status'[k] # "absent"
      BY <2>1, <2>2
    <3>4. \A e \in Engines : job'[e] \in Jobs => status'[job'[e]] # "absent"
      BY <2>1, <2>2, <2>3
    <3>5. \A k \in Jobs : Unclaimed(k)' => runs'[k] = 0 /\ status'[k] \notin Terminal
      BY <2>1, <2>2, <2>4
    <3>6. \A e \in Engines : pc'[e] = "push" => status'[job'[e]] \in Terminal
      BY <2>1, <2>2, <2>3, <1>a
    <3> QED
      BY <3>1, <3>2, <3>3, <3>4, <3>5, <3>6
  <2> QED
    BY <2>1, <2>5 DEF AtMostOnce
<1>2. ASSUME NEW e \in Engines, Pop(e) PROVE Progress' /\ AtMostOnce'
  <2>1. /\ Oldest \in pending /\ pending' = pending \ {Oldest}
        /\ job' = [job EXCEPT ![e] = Oldest] /\ pc' = [pc EXCEPT ![e] = "fetch"]
        /\ UNCHANGED <<submission, status, runs>>
    BY <1>2, OldestIsPending DEF Pop, Goes
  <2>2. \A k \in Jobs : Unclaimed(k)' => Unclaimed(k)
    BY <2>1
  <2> QED
    BY <2>1, <2>2 DEF AtMostOnce
<1>3. ASSUME UNCHANGED <<submission, status, runs>>, pending' \subseteq pending,
             \A e \in Engines :
                \/ job'[e] = job[e] /\ (pc'[e] \in {"fetch", "mark"} => pc[e] \in {"fetch", "mark"})
                      /\ (pc'[e] = "push" => pc[e] = "push")
                \/ job'[e] = NoJob /\ pc'[e] = "poll"
      PROVE  Progress' /\ AtMostOnce'
  <2>1. \A k \in Jobs : Unclaimed(k)' => Unclaimed(k)
    BY <1>3, <1>a
  <2>2. \A e \in Engines : job'[e] \in Jobs => status'[job'[e]] # "absent"
    BY <1>3, <1>a
  <2>3. \A e \in Engines : pc'[e] = "push" => status'[job'[e]] \in Terminal
    BY <1>3
  <2> QED
    BY <1>3, <2>1, <2>2, <2>3 DEF AtMostOnce
<1>4. ASSUME NEW e \in Engines, PopRaises(e) PROVE Progress' /\ AtMostOnce'
  BY <1>4, <1>3 DEF PopRaises
<1>5. ASSUME NEW e \in Engines,
             Fetch(e) \/ Run(e) \/ Push(e) \/ Sigterm(e) \/ Exit(e) \/ Crash(e)
      PROVE  Progress' /\ AtMostOnce'
  <2>1. UNCHANGED <<submission, status, runs, pending>>
    BY <1>5 DEF Fetch, Run, Push, Sigterm, Exit, Crash, Dies
  <2>2. \A f \in Engines \ {e} : job'[f] = job[f] /\ pc'[f] = pc[f]
    BY <1>5 DEF Fetch, Run, Push, Sigterm, Exit, Crash, Dies, Goes
  <2>3. \/ job'[e] = job[e] /\ pc[e] = "fetch" /\ pc'[e] = "mark"
        \/ job'[e] = job[e] /\ pc'[e] = "report"
        \/ job'[e] = job[e] /\ pc'[e] = pc[e]
        \/ job'[e] = NoJob /\ pc'[e] = "poll"
    BY <1>5 DEF Fetch, Run, Push, Sigterm, Exit, Crash, Dies, Goes
  <2> QED
    BY <2>1, <2>2, <2>3, <1>3
<1>6. CASE ListFirst \/ ListSecond \/ UNCHANGED vars
  BY <1>6, <1>3 DEF ListFirst, ListSecond, vars
<1>7. ASSUME NEW e \in Engines, job[e] \in Jobs, UNCHANGED <<submission, pending>>,
             \A f \in Engines \ {e} : job'[f] = job[f] /\ pc'[f] = pc[f],
             job'[e] = job[e] \/ job'[e] = NoJob,
             NEW s \in {"running"} \cup Terminal, status' = [status EXCEPT ![job[e]] = s],
             \A k \in Jobs \ {job[e]} : runs'[k] = runs[k],
             runs'[job[e]] <= 1, pc'[e] \notin {"fetch", "mark"},
             pc'[e] = "push" => s \in Terminal
      PROVE  Progress' /\ AtMostOnce'
  <2>1. \A k \in Jobs \ {job[e]} : status'[k] = status[k]
    BY <1>7
  <2>2. status'[job[e]] = s /\ s # "absent"
    BY <1>7, <1>c
  <2>3. job[e] \notin pending /\ submission[job[e]] \notin {"new", "hashed"}
    BY <1>7 DEF OnePlace
  <2>4. \A f \in Engines \ {e} : job[f] # job[e]
    BY <1>7, <1>a DEF OnePlace
  <2>5. \A f \in Engines : pc'[f] \in {"fetch", "mark"} =>
            job'[f] = job[f] /\ pc[f] = pc'[f] /\ job[f] # job[e]
    BY <1>7, <2>4
  <2>6. \A k \in Jobs : Unclaimed(k)' => k # job[e] /\ Unclaimed(k)
    BY <1>7, <2>3, <2>5
  <2>7. \A f \in Engines : pc'[f] = "push" => status'[job'[f]] \in Terminal
    <3> SUFFICES ASSUME NEW f \in Engines, pc'[f] = "push" PROVE status'[job'[f]] \in Terminal
      OBVIOUS
    <3>1. CASE f = e
      BY <1>7, <3>1, <2>2, <1>b
    <3>2. CASE f # e
      <4>1. job'[f] = job[f] /\ pc[f] = "push" /\ job[f] \in Jobs \ {job[e]}
        BY <1>7, <3>2, <2>4
      <4> QED
        BY <4>1, <2>1
    <3> QED
      BY <3>1, <3>2
  <2>8. \A f \in Engines : job'[f] \in Jobs => status'[job'[f]] # "absent"
    <3> SUFFICES ASSUME NEW f \in Engines, job'[f] \in Jobs PROVE status'[job'[f]] # "absent"
      OBVIOUS
    <3>1. CASE f = e
      BY <1>7, <3>1, <2>2, <1>a
    <3>2. CASE f # e
      <4>1. job'[f] = job[f] /\ job[f] \in Jobs \ {job[e]} /\ status[job[f]] # "absent"
        BY <1>7, <3>2, <2>4
      <4> QED
        BY <4>1, <2>1
    <3> QED
      BY <3>1, <3>2
  <2>9. \A k \in Jobs : Unclaimed(k)' => runs'[k] = 0 /\ status'[k] \notin Terminal
    <3> SUFFICES ASSUME NEW k \in Jobs, Unclaimed(k)'
                 PROVE  runs'[k] = 0 /\ status'[k] \notin Terminal
      OBVIOUS
    <3>1. k # job[e] /\ Unclaimed(k)
      BY <2>6
    <3> HIDE DEF Unclaimed
    <3>2. runs[k] = 0 /\ status[k] \notin Terminal
      BY <3>1
    <3> QED
      BY <1>7, <2>1, <3>1, <3>2
  <2>10. AtMostOnce'
    BY <1>7 DEF AtMostOnce
  <2> QED
    BY <1>7, <2>1, <2>2, <2>3, <2>7, <2>8, <2>9, <2>10
<1>8. ASSUME NEW e \in Engines, Mark(e) PROVE Progress' /\ AtMostOnce'
  <2>1. job[e] \in Jobs /\ pc[e] = "mark" /\ pc' = [pc EXCEPT ![e] = "run"] /\ job' = job
    BY <1>8, <1>a DEF Mark, Goes
  <2>2. runs[job[e]] = 0 /\ runs' = [runs EXCEPT ![job[e]] = @ + 1]
    BY <1>8, <2>1 DEF Mark
  <2>3. status' = [status EXCEPT ![job[e]] = "running"] /\ UNCHANGED <<submission, pending>>
    BY <1>8 DEF Mark, Sets
  <2>4. /\ \A f \in Engines \ {e} : job'[f] = job[f] /\ pc'[f] = pc[f]
        /\ \A k \in Jobs \ {job[e]} : runs'[k] = runs[k]
        /\ runs'[job[e]] <= 1 /\ job'[e] = job[e] /\ pc'[e] = "run"
    BY <2>1, <2>2
  <2> QED
    BY <2>1, <2>3, <2>4, <1>7
<1>9. ASSUME NEW e \in Engines, Report(e) PROVE Progress' /\ AtMostOnce'
  <2>1. job[e] \in Jobs /\ verdict[e] \in Terminal /\ runs[job[e]] <= 1
    BY <1>9, <1>a DEF Report, Goes, AtMostOnce
  <2> QED
    BY <1>9, <2>1, <1>7 DEF Report, Sets, Goes
<1>10. ASSUME NEW e \in Engines, ClaimRaises(e) PROVE Progress' /\ AtMostOnce'
  <2>1. job[e] \in Jobs /\ runs[job[e]] <= 1
    BY <1>10, <1>a DEF ClaimRaises, AtMostOnce
  <2>2. /\ pc' = [pc EXCEPT ![e] = "poll"] /\ job' = [job EXCEPT ![e] = NoJob]
        /\ UNCHANGED <<pending, submission, runs>>
    BY <1>10 DEF ClaimRaises
  <2>a. /\ \A f \in Engines \ {e} : job'[f] = job[f] /\ pc'[f] = pc[f]
        /\ job'[e] = NoJob /\ pc'[e] = "poll"
    BY <2>2
  <2>3. CASE status' = status
    BY <2>2, <2>a, <2>3, <1>3
  <2>4. CASE Sets(job[e], "running")
    <3>1. "running" \in {"running"} \cup Terminal /\ status' = [status EXCEPT ![job[e]] = "running"]
      BY <2>4 DEF Sets
    <3> QED
      BY <2>1, <2>2, <2>a, <3>1, <1>7
  <2> QED
    BY <1>10, <2>3, <2>4 DEF ClaimRaises
<1>11. ASSUME NEW e \in Engines, UpdateRaises(e) PROVE Progress' /\ AtMostOnce'
  <2>1. job[e] \in Jobs /\ runs[job[e]] <= 1 /\ verdict[e] \in Terminal
    BY <1>11, <1>a DEF UpdateRaises, AtMostOnce
  <2>2. /\ \/ pc' = [pc EXCEPT ![e] = "poll"] /\ job' = [job EXCEPT ![e] = NoJob]
           \/ pc' = [pc EXCEPT ![e] = "report"] /\ job' = job
        /\ UNCHANGED <<pending, submission, runs>>
    BY <1>11 DEF UpdateRaises, Dies
  <2>a. /\ \A f \in Engines \ {e} : job'[f] = job[f] /\ pc'[f] = pc[f]
        /\ \/ job'[e] = NoJob /\ pc'[e] = "poll"
           \/ job'[e] = job[e] /\ pc'[e] = "report"
    BY <2>2
  <2>3. CASE status' = status
    BY <2>2, <2>a, <2>3, <1>3
  <2>4. CASE Sets(job[e], verdict[e])
    <3>1. status' = [status EXCEPT ![job[e]] = verdict[e]]
      BY <2>4 DEF Sets
    <3> QED
      BY <2>1, <2>2, <2>a, <3>1, <1>7
  <2> QED
    BY <1>11, <2>3, <2>4 DEF UpdateRaises
<1> QED
  BY <1>1, <1>2, <1>4, <1>5, <1>6, <1>8, <1>9, <1>10, <1>11 DEF Next
-----------------------------------------------------------------------------

\* A final status is overwritten by a final one only, and by an engine that holds
\* the job to report it; and no engine gets the job that does not hold it.
LEMMA FinalStatusStep ==
    ASSUME TypeOK, OnePlace, Progress, [Next]_vars, NEW j \in Jobs, status[j] \in Terminal
    PROVE  /\ status'[j] \in Terminal
           /\ status'[j] # status[j] => \E e \in Engines : job[e] = j
           /\ \A e \in Engines : job'[e] = j =>
                job[e] = j /\ (pc[e] \in {"report", "push"} => pc'[e] \in {"report", "push"})
<1> USE DEF TypeOK, redisVars, engineVars, troubleVars, listVars, history
<1> DEFINE Goal == /\ status'[j] \in Terminal
                   /\ status'[j] # status[j] => \E e \in Engines : job[e] = j
                   /\ \A e \in Engines : job'[e] = j =>
                        /\ job[e] = j
                        /\ pc[e] \in {"report", "push"} => pc'[e] \in {"report", "push"}
<1>a. NoJob # j /\ ~Unclaimed(j)
  BY ReplayAssumption DEF NoJob, Jobs, Progress
<1>1. ASSUME NEW k \in Jobs, Save(k) \/ SaveFails(k) PROVE Goal
  <2>1. submission[k] \in {"new", "hashed"} /\ UNCHANGED <<pc, job>>
        /\ status' \in {status, [status EXCEPT ![k] = "pending"]}
    BY <1>1 DEF Save, SaveHash, Enqueue, SaveFails, Sets
  <2>2. k # j
    BY <2>1, <1>a DEF Unclaimed
  <2> QED
    BY <2>1, <2>2
<1>2. ASSUME NEW e \in Engines, Pop(e) PROVE Goal
  <2>1. Oldest # j
    BY <1>2, <1>a, OldestIsPending DEF Pop, Unclaimed
  <2> QED
    BY <1>2, <2>1 DEF Pop, Goes
<1>3. ASSUME NEW e \in Engines, PopRaises(e) PROVE Goal
  BY <1>3 DEF PopRaises
<1>4. CASE ListFirst \/ ListSecond \/ UNCHANGED vars
  BY <1>4 DEF ListFirst, ListSecond, vars
<1>5. ASSUME NEW e \in Engines,
             \/ Fetch(e) \/ Mark(e) \/ ClaimRaises(e) \/ Run(e) \/ Report(e) \/ Push(e)
             \/ UpdateRaises(e) \/ Sigterm(e) \/ Exit(e) \/ Crash(e)
      PROVE  Goal
  <2>1. \A f \in Engines \ {e} : job'[f] = job[f] /\ pc'[f] = pc[f]
    BY <1>5 DEF Fetch, Mark, ClaimRaises, Run, Report, Push, UpdateRaises, Sigterm, Exit,
                Crash, Dies, Goes
  <2>2. \/ job'[e] = NoJob
        \/ job'[e] = job[e] /\ pc'[e] \in {"report", "push"}
        \/ job'[e] = job[e] /\ pc'[e] = pc[e]
        \/ job'[e] = job[e] /\ pc[e] \in {"fetch", "mark"}
    BY <1>5 DEF Fetch, Mark, ClaimRaises, Run, Report, Push, UpdateRaises, Sigterm, Exit,
                Crash, Dies, Goes
  <2>3. \/ status' = status
        \/ pc[e] = "mark" /\ status' = [status EXCEPT ![job[e]] = "running"]
        \/ status' = [status EXCEPT ![job[e]] = verdict[e]]
    BY <1>5 DEF Fetch, Mark, ClaimRaises, Run, Report, Push, UpdateRaises, Sigterm, Exit,
                Crash, Goes, Sets
  <2>4. pc[e] = "mark" => job[e] # j
    BY <1>a DEF Unclaimed
  <2>5. status'[j] = status[j] \/ (job[e] = j /\ status'[j] \in Terminal)
    BY <2>3, <2>4
  <2> QED
    BY <2>1, <2>2, <2>5, <1>a
<1> QED
  BY <1>1, <1>2, <1>3, <1>4, <1>5 DEF Next

\* What is final stays so.
LEMMA FinalIsForGood ==
    ASSUME TypeOK, OnePlace, Progress, [Next]_vars, NEW j \in Jobs, Final(j)
    PROVE  Final(j)'
BY FinalStatusStep DEF Final

\* Only jobs with a final status reach the recent list.
LEMMA RecentStep ==
    ASSUME Tracked, [Next]_vars
    PROVE  \A j \in ToSet(recent)' : Final(j)'
<1> USE DEF Tracked, redisVars, engineVars, troubleVars, listVars, history
<1>1. ASSUME ToSet(recent)' \subseteq ToSet(recent)
      PROVE  \A j \in ToSet(recent)' : Final(j)'
  <2>1. \A j \in ToSet(recent) : j \in Jobs /\ Final(j)
    <3>1. DOMAIN recent = 1..Len(recent) /\ \A i \in 1..Len(recent) : recent[i] \in Jobs
      BY ElementOfSeq, LenProperties DEF TypeOK
    <3> QED
      BY <3>1 DEF ToSet, OnlyFinal
  <2> QED
    BY <1>1, <2>1, FinalIsForGood
<1>2. ASSUME recent' = recent PROVE \A j \in ToSet(recent)' : Final(j)'
  BY <1>1, <1>2 DEF ToSet
<1>3. ASSUME NEW e \in Engines, pc[e] = "push", recent' = Pushed(job[e])
      PROVE  \A j \in ToSet(recent)' : Final(j)'
  <2>1. job[e] \in Jobs
    BY <1>3 DEF TypeOK
  <2>2. ToSet(recent)' \subseteq ToSet(recent) \cup {job[e]}
    <3>1. ToSet(Pushed(job[e])) \subseteq ToSet(recent) \cup {job[e]}
      BY <2>1, PushedProperties DEF TypeOK
    <3>2. ToSet(recent)' = ToSet(Pushed(job[e]))
      BY <1>3 DEF ToSet
    <3> QED
      BY <3>1, <3>2
  <2>3. Final(job[e])
    BY <1>3, <2>1, ReplayAssumption DEF Final, Progress, OnePlace, NoJob, Jobs
  <2>4. \A j \in ToSet(recent) : j \in Jobs /\ Final(j)
    <3>1. DOMAIN recent = 1..Len(recent) /\ \A i \in 1..Len(recent) : recent[i] \in Jobs
      BY ElementOfSeq, LenProperties DEF TypeOK
    <3> QED
      BY <3>1 DEF ToSet, OnlyFinal
  <2> QED
    BY <2>1, <2>2, <2>3, <2>4, FinalIsForGood
<1>4. CASE recent' # recent
  <2>1. PICK e \in Engines : Push(e) \/ UpdateRaises(e)
    BY <1>4 DEF Next, vars, Save, SaveHash, Enqueue, SaveFails, ListFirst, ListSecond, Pop,
                PopRaises, Fetch, Mark, ClaimRaises, Run, Report, Sigterm, Exit, Crash
  <2> QED
    BY <1>3, <1>4, <2>1 DEF Push, Goes, UpdateRaises
<1> QED
  BY <1>2, <1>4

\* A listing owes what it has not seen in the queue, which is final then and
\* stays so.
LEMMA OnlyFinalStep == ASSUME Tracked, [Next]_vars PROVE OnlyFinal'
<1> USE DEF Tracked, redisVars, engineVars, troubleVars, listVars, history
<1>1. \A j \in ToSet(recent)' : Final(j)'
  BY RecentStep
<1>2. \A j \in owed \ DOMAIN listed : j \in Jobs
  BY DEF TypeOK
<1>3. CASE ListFirst
  <2>0. DOMAIN listed' = pending
    BY <1>3, ReadProperties DEF ListFirst, Collection
  <2>1. owed' \ DOMAIN listed' \subseteq ToSet(recent) /\ ToSet(recent)' = ToSet(recent)
    BY <1>3, <2>0 DEF ListFirst, ToSet
  <2> QED
    BY <1>1, <2>1 DEF OnlyFinal
<1>4. CASE ListSecond
  BY <1>1, <1>4 DEF OnlyFinal, ListSecond
<1>5. CASE UNCHANGED listVars
  BY <1>1, <1>2, <1>5, FinalIsForGood DEF OnlyFinal
<1> QED
  BY <1>3, <1>4, <1>5 DEF Next, vars, Save, SaveHash, Enqueue, SaveFails, Pop, PopRaises,
     Fetch, Mark, ClaimRaises, Run, Report, Push, UpdateRaises, Sigterm, Exit, Crash

\* The strengthening is inductive.
LEMMA TrackedStep == Tracked /\ [Next]_vars => Tracked'
BY TypeStep, OnePlaceStep, ProgressStep, OnlyFinalStep DEF Tracked

\* Nothing has been submitted, queued or claimed at first.
LEMMA InitTracked == Init => Tracked
<1> SUFFICES ASSUME Init PROVE Tracked
  OBVIOUS
<1>1. recent \in Seq(Jobs) /\ Len(recent) = 0 /\ ToSet(recent) = {}
  BY EmptySeq DEF Init, ToSet
<1>2. NoJob \notin Jobs /\ RecentMax >= 0
  BY ReplayAssumption DEF NoJob, Jobs
<1>3. TypeOK
  <2>1. /\ pc \in [Engines -> {"poll", "fetch", "mark", "run", "report", "push"}]
        /\ job \in [Engines -> Jobs \cup {NoJob}]
        /\ \A e \in Engines : job[e] = NoJob <=> pc[e] = "poll"
        /\ verdict \in [Engines -> Terminal] /\ stopping \in [Engines -> BOOLEAN]
    BY DEF Init, Terminal
  <2>2. /\ status \in [Jobs -> {"absent", "pending", "running"} \cup Terminal]
        /\ submission \in [Jobs -> {"new", "hashed", "queued", "refused"}]
        /\ runs \in [Jobs -> Nat] /\ {faults, crashes, signals} \subseteq Nat
    BY DEF Init
  <2>3. DOMAIN listed \subseteq Jobs /\ listed \in [DOMAIN listed -> Nat]
    <3>1. listed = << >> /\ DOMAIN << >> = {}
      BY DEF Init
    <3> QED
      BY <3>1
  <2> QED
    BY <1>1, <1>2, <2>1, <2>2, <2>3 DEF Init, TypeOK
<1>4. OnePlace
  BY <1>2 DEF Init, OnePlace
<1>5. Progress /\ AtMostOnce
  BY <1>2 DEF Init, Progress, AtMostOnce, Unclaimed, Terminal
<1> QED
  BY <1>1, <1>3, <1>4, <1>5 DEF Init, Tracked, OnlyFinal

\* The strengthening is an invariant.
LEMMA AlwaysTracked == Spec => []Tracked
BY InitTracked, TrackedStep, PTL DEF Spec
-----------------------------------------------------------------------------

\* The accepted jobs that no reader will come across and that are no broken hash.
Lost == Missing \ Unreadable
Incidents == faults + crashes

\* A step loses no accepted job, or it is an incident and loses one.
LEMMA LossStep ==
    ASSUME Tracked, [Next]_vars
    PROVE  \/ Lost' \subseteq Lost /\ Incidents' >= Incidents
           \/ \E j : Lost' \subseteq Lost \cup {j} /\ Incidents' = Incidents + 1
<1> USE DEF Tracked, Lost, Missing, Held, redisVars, engineVars, troubleVars, listVars, history
<1> DEFINE Goal == \/ Lost' \subseteq Lost /\ Incidents' >= Incidents
                   \/ \E j : Lost' \subseteq Lost \cup {j} /\ Incidents' = Incidents + 1
<1>a. faults \in Nat /\ crashes \in Nat /\ NoJob \notin Jobs
  BY ReplayAssumption DEF TypeOK, NoJob, Jobs
<1>b. ASSUME faults' = faults, crashes' = crashes, Lost' \subseteq Lost PROVE Goal
  BY <1>a, <1>b DEF Incidents
<1>c. ASSUME NEW j, \/ faults' = faults + 1 /\ crashes' = crashes
                    \/ faults' = faults /\ crashes' = crashes + 1,
             Lost' \subseteq Lost \cup {j}
      PROVE  Goal
  BY <1>a, <1>c DEF Incidents
<1>d. ASSUME NEW e \in Engines, job' = [job EXCEPT ![e] = NoJob]
      PROVE  Held \subseteq Held' \cup {job[e]}
  BY <1>d DEF TypeOK
<1>1. ASSUME NEW j \in Jobs, Save(j) \/ SaveFails(j) PROVE Goal
  <2>1. \A k \in Jobs \ {j} : submission'[k] = submission[k]
    BY <1>1 DEF Save, SaveHash, Enqueue, SaveFails, TypeOK
  <2>2. submission'[j] = "queued" => pending' = pending \cup {j}
    BY <1>1 DEF Save, SaveHash, Enqueue, SaveFails, TypeOK
  <2>3. pending \subseteq pending' /\ UNCHANGED <<job, filed>>
    BY <1>1 DEF Save, SaveHash, Enqueue, SaveFails
  <2>4. Lost' \subseteq Lost
    BY <2>1, <2>2, <2>3
  <2>5. CASE Save(j)
    BY <2>4, <2>5, <1>b DEF Save, SaveHash, Enqueue
  <2>6. CASE SaveFails(j)
    BY <2>4, <2>6, <1>c DEF SaveFails, Raises
  <2> QED
    BY <1>1, <2>5, <2>6
<1>2. ASSUME NEW e \in Engines, Pop(e) PROVE Goal
  <2>1. job[e] = NoJob /\ Oldest \in Jobs /\ job' = [job EXCEPT ![e] = Oldest]
    BY <1>2, OldestIsPending DEF Pop, Goes, TypeOK
  <2>2. Held \cup {Oldest} \subseteq Held'
    BY <2>1, <1>a DEF TypeOK
  <2>3. Lost' \subseteq Lost
    BY <1>2, <2>2 DEF Pop
  <2> QED
    BY <1>2, <2>3, <1>b DEF Pop
<1>3. ASSUME NEW e \in Engines, PopRaises(e) PROVE Goal
  <2>1. Lost' \subseteq Lost \cup {Oldest}
    BY <1>3 DEF PopRaises
  <2> QED
    BY <1>3, <2>1, <1>c DEF PopRaises, Raises
<1>4. ASSUME NEW e \in Engines, Fetch(e) PROVE Goal
  <2>1. status[job[e]] # "absent"
    BY <1>4, <1>a DEF Fetch, TypeOK, Progress
  <2>2. job' = job \/ (job' = [job EXCEPT ![e] = NoJob] /\ job[e] \in Unreadable)
    BY <1>4, <2>1 DEF Fetch, Dies
  <2>3. UNCHANGED <<pending, submission, filed, faults, crashes>>
    BY <1>4 DEF Fetch
  <2>4. Held \subseteq Held' \cup Unreadable
    BY <2>2, <1>d
  <2>5. Lost' \subseteq Lost
    BY <2>3, <2>4
  <2> QED
    BY <2>3, <2>5, <1>b
<1>5. ASSUME NEW e \in Engines, Push(e) PROVE Goal
  <2>1. Held \subseteq Held' \cup filed' /\ filed \subseteq filed'
    BY <1>5, <1>d DEF Push
  <2>2. Lost' \subseteq Lost
    BY <1>5, <2>1 DEF Push
  <2> QED
    BY <1>5, <2>2, <1>b DEF Push
<1>6. ASSUME NEW e \in Engines, ClaimRaises(e) \/ UpdateRaises(e) PROVE Goal
  <2>1. /\ UNCHANGED <<pending, submission>> /\ filed \subseteq filed'
        /\ job' \in {job, [job EXCEPT ![e] = NoJob]}
    BY <1>6 DEF ClaimRaises, UpdateRaises, Dies
  <2>2. Held \subseteq Held' \cup {job[e]}
    BY <2>1, <1>d
  <2>3. Lost' \subseteq Lost \cup {job[e]}
    BY <2>1, <2>2
  <2> QED
    BY <1>6, <2>3, <1>c DEF ClaimRaises, UpdateRaises, Raises
<1>7. ASSUME NEW e \in Engines, Crash(e) PROVE Goal
  <2>1. Held \subseteq Held' \cup {job[e]}
    BY <1>7, <1>d DEF Crash, Dies
  <2>2. Lost' \subseteq Lost \cup {job[e]}
    BY <1>7, <2>1 DEF Crash
  <2> QED
    BY <1>7, <2>2, <1>c DEF Crash
<1>8. ASSUME NEW e \in Engines, Exit(e) PROVE Goal
  <2>1. job[e] = NoJob /\ Held \subseteq Held' \cup {job[e]}
    BY <1>8, <1>d DEF Exit, Dies, TypeOK
  <2>2. Lost' \subseteq Lost
    BY <1>8, <2>1 DEF Exit
  <2> QED
    BY <1>8, <2>2, <1>b DEF Exit
<1>9. ASSUME UNCHANGED <<pending, submission, job, filed, faults, crashes>> PROVE Goal
  BY <1>9, <1>b
<1>10. CASE ListFirst \/ ListSecond \/ UNCHANGED vars
  BY <1>10, <1>9 DEF ListFirst, ListSecond, vars
<1>11. ASSUME NEW e \in Engines, Mark(e) \/ Run(e) \/ Report(e) \/ Sigterm(e) PROVE Goal
  BY <1>11, <1>9 DEF Mark, Run, Report, Sigterm
<1> QED
  BY <1>1, <1>2, <1>3, <1>4, <1>5, <1>6, <1>7, <1>8, <1>10, <1>11 DEF Next

-----------------------------------------------------------------------------

\* The variables keep their types, for any number of engines and jobs.
THEOREM TypeCorrect == Spec => []TypeOK
BY AlwaysTracked, PTL DEF Tracked

\* Whatever calls raise and wherever engines die, no job is handed to a replayer
\* twice, with any number of engines.
THEOREM NoJobRunsTwice == Spec => []AtMostOnce
BY AlwaysTracked, PTL DEF Tracked

\* Each accepted job that goes missing has a raising call or a crash of its own,
\* or a hash that does not deserialise; SIGTERMs lose none.
THEOREM LossesHaveIncidents == Spec => []EachLossHasItsIncident
<1>1. Init => EachLossHasItsIncident
  <2> SUFFICES ASSUME Init PROVE EachLossHasItsIncident
    OBVIOUS
  <2>1. Missing \ Unreadable = {}
    BY DEF Init, Missing
  <2>2. Cardinality(Missing \ Unreadable) = 0
    BY <2>1, FS_EmptySet
  <2>3. faults = 0 /\ crashes = 0
    BY DEF Init
  <2> QED
    BY <2>2, <2>3 DEF EachLossHasItsIncident
<1>2. Tracked /\ Tracked' /\ EachLossHasItsIncident /\ [Next]_vars => EachLossHasItsIncident'
  <2> SUFFICES ASSUME Tracked, Tracked', EachLossHasItsIncident, [Next]_vars
               PROVE  EachLossHasItsIncident'
    OBVIOUS
  <2>1. /\ Incidents \in Nat /\ Incidents' \in Nat /\ Cardinality(Lost) <= Incidents
    BY DEF Tracked, TypeOK, Incidents, EachLossHasItsIncident, Lost
  <2>2. IsFiniteSet(Lost) /\ Cardinality(Lost) \in Nat
    <3>1. IsFiniteSet(Jobs) /\ Lost \in SUBSET Jobs
      BY FS_Interval, ReplayAssumption DEF Jobs, Lost, Missing
    <3> QED
      BY <3>1, FS_Subset, FS_CardinalityType
  <2>3. CASE Lost' \subseteq Lost /\ Incidents' >= Incidents
    <3>1. Cardinality(Lost') <= Cardinality(Lost) /\ Cardinality(Lost') \in Nat
      BY <2>2, <2>3, FS_Subset, FS_CardinalityType
    <3> QED
      BY <2>1, <2>2, <2>3, <3>1 DEF EachLossHasItsIncident, Lost, Incidents
  <2>4. ASSUME NEW j, Lost' \subseteq Lost \cup {j}, Incidents' = Incidents + 1
        PROVE  EachLossHasItsIncident'
    <3>1. IsFiniteSet(Lost \cup {j}) /\ Cardinality(Lost \cup {j}) <= Cardinality(Lost) + 1
      BY <2>2, FS_AddElement
    <3>2. /\ IsFiniteSet(Lost') /\ Cardinality(Lost') <= Cardinality(Lost \cup {j})
      BY <2>4, <3>1, FS_Subset
    <3>3. Cardinality(Lost') \in Nat /\ Cardinality(Lost \cup {j}) \in Nat
      BY <3>1, <3>2, FS_CardinalityType
    <3>4. Cardinality(Lost') <= Incidents'
      BY <2>1, <2>2, <2>4, <3>1, <3>2, <3>3
    <3> QED
      BY <3>4 DEF EachLossHasItsIncident, Lost, Incidents
  <2> QED
    BY <2>3, <2>4, LossStep
<1> QED
  BY <1>1, <1>2, AlwaysTracked, PTL DEF Spec

\* A job that no engine is working on keeps its final status: neither a late
\* write nor a second claim takes it back.
THEOREM SettledStaysSettled == Spec => SettledForGood
<1>1. Tracked /\ [Next]_vars =>
        [\A j \in Jobs : Settled(j) => Settled(j)' /\ status'[j] = status[j]]_<<status, job>>
  <2> SUFFICES ASSUME Tracked, [Next]_vars, NEW j \in Jobs, Settled(j)
               PROVE  Settled(j)' /\ status'[j] = status[j]
    OBVIOUS
  <2>1. NoJob # j /\ \A e \in Engines : job[e] # j
    BY ReplayAssumption DEF Settled, Held, NoJob, Jobs
  <2>2. /\ status'[j] \in Terminal /\ status'[j] = status[j]
        /\ \A e \in Engines : job'[e] # j
    BY <2>1, FinalStatusStep DEF Tracked, Settled
  <2> QED
    BY <2>2 DEF Settled, Held
<1> QED
  BY <1>1, AlwaysTracked, PTL DEF Spec, SettledForGood

\* What a listing that stays below its limit does not return, of the jobs that
\* were in either collection when it began, has a final status and was pushed out
\* of the part of the recent list that it reads.
THEOREM ListingsAreComplete == Spec => ListingComplete
<1>1. Tracked /\ [Next]_vars =>
        [listing /\ ~listing' =>
            \/ Cardinality(shown') >= ListMax
            \/ \A j \in owed' : status[j] \in Terminal /\ j \notin ToSet(Newest)]_listVars
  <2> SUFFICES ASSUME Tracked, [Next]_vars, listing, ~listing', NEW j \in owed',
                      ~(status[j] \in Terminal /\ j \notin ToSet(Newest))
               PROVE  Cardinality(shown') >= ListMax
    OBVIOUS
  <2> DEFINE reached == Reached(listed, RecentIds)
  <2>1. ListSecond
    BY DEF Next, vars, listVars, Save, SaveHash, Enqueue, SaveFails, ListFirst, Pop, PopRaises,
           Fetch, Mark, ClaimRaises, Run, Report, Push, UpdateRaises, Sigterm, Exit, Crash
  <2>2. shown' = reached /\ j \in owed /\ j \notin reached
    BY <2>1 DEF ListSecond, Collection
  <2>3. DOMAIN listed \in SUBSET Jobs /\ listed \in [DOMAIN listed -> Nat]
    BY DEF Tracked, TypeOK
  <2>4. RecentIds \in [ToSet(Newest) -> Nat] /\ ToSet(Newest) \in SUBSET Jobs
    BY ReadProperties DEF Tracked
  <2>5. IsFiniteSet(DOMAIN listed) /\ IsFiniteSet(ToSet(Newest))
    <3>1. IsFiniteSet(Jobs)
      BY FS_Interval, ReplayAssumption DEF Jobs
    <3> QED
      BY <2>3, <2>4, <3>1, FS_Subset
  <2>6. j \in DOMAIN listed \cup ToSet(Newest)
    BY <2>2 DEF Tracked, OnlyFinal, Final
  <2>7. Cardinality(reached) >= ListMax
    BY <2>2, <2>3, <2>4, <2>5, <2>6, CutMeansFull
  <2> QED
    BY <2>2, <2>7
<1> QED
  BY <1>1, AlwaysTracked, PTL DEF Spec, ListingComplete
=============================================================================
