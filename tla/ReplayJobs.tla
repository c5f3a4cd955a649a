----------------------------- MODULE ReplayJobs -----------------------------
(***************************************************************************)
(* Replay jobs in Redis: the ops-api submits and lists them, replay-engine *)
(* instances claim, run and settle them.  A job is a hash (its status), a  *)
(* member of the sorted set of pending jobs until an engine pops it, and,  *)
(* once settled, an entry of a capped list of recent jobs.                 *)
(*                                                                         *)
(* Every call to Redis is a step of its own: any other process may run     *)
(* between two of them, the calling process may die there, and the call    *)
(* may raise, before or after it was applied.                              *)
(***************************************************************************)
EXTENDS Integers, FiniteSets, SequencesExt

CONSTANTS
    Engines,         \* replay-engine processes
    MaxJobs,         \* jobs are numbered in the order of requested_at
    Unreadable,      \* jobs whose hash does not deserialise to a ReplayJob
    RecentMax,       \* _RECENT_MAX
    ListMax,         \* limit of a listing: min(limit, replay_list_limit)
    MaxTroubles      \* bound: Redis calls that raise, crashes and SIGTERMs

Jobs == 1..MaxJobs

ASSUME ReplayAssumption ==
    /\ MaxJobs \in Nat
    /\ Unreadable \subseteq Jobs
    /\ RecentMax \in Nat \ {0}
    /\ ListMax \in Nat \ {0}
    /\ MaxTroubles \in Nat

VARIABLES
    status,       \* status field of each job's hash, "absent" without a hash
    pending,      \* the sorted set replay:jobs:pending
    recent,       \* the list replay:jobs:recent
    submission,   \* how far save_job() got for each job
    pc,           \* where each engine is
    job,          \* the job each engine popped, or NoJob
    verdict,      \* the status each engine is about to write
    stopping,     \* the engines' shutdown events
    runs,         \* history: how often each job was handed to a replayer
    filed,        \* history: the jobs that reached the recent list
    faults,       \* Redis calls that raised so far
    crashes,      \* engines killed so far
    signals,      \* SIGTERMs so far
    listing,      \* the ops-api is in the middle of list_all_jobs()
    listed,       \* the ids of its first read, each with its place there
    shown,        \* history: the jobs the latest listing returned
    owed          \* history: jobs in either collection when the listing began;
                  \* when it is over, those of them it did not return

redisVars == <<status, pending, recent>>
engineVars == <<pc, job, verdict, stopping>>
troubleVars == <<faults, crashes, signals>>
listVars == <<listing, listed, shown, owed>>
history == <<runs, filed>>
vars == <<redisVars, submission, engineVars, history, troubleVars, listVars>>

NoJob == 0
Terminal == {"completed", "failed"}
MoreTrouble == faults + crashes + signals < MaxTroubles
Held == {job[e] : e \in Engines} \ {NoJob}

Init ==
    /\ status = [j \in Jobs |-> "absent"]
    /\ pending = {}
    /\ recent = <<>>
    /\ submission = [j \in Jobs |-> "new"]
    /\ pc = [e \in Engines |-> "poll"]
    /\ job = [e \in Engines |-> NoJob]
    /\ verdict = [e \in Engines |-> "failed"]
    /\ stopping = [e \in Engines |-> FALSE]
    /\ runs = [j \in Jobs |-> 0]
    /\ filed = {}
    /\ faults = 0 /\ crashes = 0 /\ signals = 0
    /\ listing = FALSE /\ listed = <<>> /\ shown = {} /\ owed = {}

Sets(j, s) == status' = [status EXCEPT ![j] = s]
Goes(e, from, to) ==
    /\ pc[e] = from
    /\ pc' = [pc EXCEPT ![e] = to]

Raises == MoreTrouble /\ faults' = faults + 1 /\ UNCHANGED <<crashes, signals>>

-----------------------------------------------------------------------------
(* The ops-api: save_job() and list_all_jobs().                            *)

\* HSET of the new job, then ZADD.
SaveHash(j) ==
    /\ submission[j] = "new"
    /\ submission' = [submission EXCEPT ![j] = "hashed"]
    /\ Sets(j, "pending")
    /\ UNCHANGED <<pending, recent, engineVars, history, troubleVars, listVars>>

Enqueue(j) ==
    /\ submission[j] = "hashed"
    /\ submission' = [submission EXCEPT ![j] = "queued"]
    /\ pending' = pending \cup {j}
    /\ UNCHANGED <<status, recent, engineVars, history, troubleVars, listVars>>

Save(j) == SaveHash(j) \/ Enqueue(j)

\* Either call raises, or the ops-api dies between them: the client gets an
\* error, and the job may be half saved, or saved whole.
SaveFails(j) ==
    /\ submission[j] \in {"new", "hashed"}
    /\ Raises
    /\ submission' = [submission EXCEPT ![j] = "refused"]
    /\ \/ UNCHANGED <<status, pending>>
       \/ submission[j] = "new" /\ Sets(j, "pending") /\ UNCHANGED pending
       \/ submission[j] = "hashed" /\ pending' = pending \cup {j} /\ UNCHANGED status
    /\ UNCHANGED <<recent, engineVars, history, listVars>>

\* ZRANGE of the pending set, then LRANGE 0 .. limit - 1 of the recent list: what
\* a read returns is a function from jobs to places.  Where a job comes twice,
\* the place is its first.
Newest == SubSeq(recent, 1, IF ListMax < Len(recent) THEN ListMax ELSE Len(recent))
QueueIds == [j \in pending |-> j]
RecentIds ==
    [j \in ToSet(Newest) |->
        Cardinality({i \in DOMAIN Newest : \A k \in 1..i : Newest[k] # j})]

CollectionSwapped(read) == IF read = 1 THEN RecentIds ELSE QueueIds
Collection(read) == IF read = 1 THEN QueueIds ELSE RecentIds

\* The loop over the ids of both reads passes over those it has seen, and ends
\* when it has `limit` jobs.
Ahead(first, second, j) ==
    IF j \in DOMAIN first
    THEN {k \in DOMAIN first : first[k] < first[j]}
    ELSE DOMAIN first \cup {k \in DOMAIN second : second[k] < second[j]}
Reached(first, second) ==
    {j \in DOMAIN first \cup DOMAIN second : Cardinality(Ahead(first, second, j)) < ListMax}

ListFirst ==
    /\ ~listing
    /\ listing' = TRUE
    /\ listed' = Collection(1)
    /\ shown' = {}
    /\ owed' = pending \cup ToSet(recent)
    /\ UNCHANGED <<redisVars, submission, engineVars, history, troubleVars>>

\* After the second read, one get_job() per id until the limit is reached, which
\* raises for a hash that does not deserialise: the listing returns nothing.
ListSecond ==
    /\ listing
    /\ listing' = FALSE
    /\ listed' = <<>>
    /\ LET reached == Reached(listed, Collection(2))
       IN IF reached \cap Unreadable = {}
          THEN shown' = reached /\ owed' = owed \ reached
          ELSE shown' = {} /\ owed' = {}
    /\ UNCHANGED <<redisVars, submission, engineVars, history, troubleVars>>

-----------------------------------------------------------------------------
(* The engine: claim_pending_job(), _execute_job(), update_status().       *)

\* The exception leaves the poll loop, main() exits 1, and a new process starts.
Dies(e) ==
    /\ pc' = [pc EXCEPT ![e] = "poll"]
    /\ job' = [job EXCEPT ![e] = NoJob]
    /\ verdict' = [verdict EXCEPT ![e] = "failed"]
    /\ stopping' = [stopping EXCEPT ![e] = FALSE]

Oldest == CHOOSE j \in pending : \A k \in pending : j <= k

PopWithoutRemoval(e) ==
    /\ ~stopping[e]
    /\ pending # {}
    /\ Goes(e, "poll", "fetch")
    /\ job' = [job EXCEPT ![e] = Oldest]
    /\ UNCHANGED <<redisVars, submission, verdict, stopping, history, troubleVars, listVars>>

\* ZPOPMIN takes the job that was requested first.
Pop(e) ==
    /\ ~stopping[e]
    /\ pending # {}
    /\ Goes(e, "poll", "fetch")
    /\ job' = [job EXCEPT ![e] = Oldest]
    /\ pending' = pending \ {Oldest}
    /\ UNCHANGED <<status, recent, submission, verdict, stopping, history, troubleVars,
                   listVars>>

\* ZPOPMIN raises: the loop waits and polls again.  If the call was applied,
\* nobody has the job.
PopRaises(e) ==
    /\ pc[e] = "poll"
    /\ ~stopping[e]
    /\ pending # {}
    /\ Raises
    /\ pending' \in {pending, pending \ {Oldest}}
    /\ UNCHANGED <<status, recent, submission, engineVars, history, listVars>>

\* get_job(): no hash ends the claim; one that does not deserialise kills the
\* process, whose loop expects Redis errors only.
Fetch(e) ==
    /\ pc[e] = "fetch"
    /\ \/ /\ status[job[e]] = "absent"
          /\ pc' = [pc EXCEPT ![e] = "poll"]
          /\ job' = [job EXCEPT ![e] = NoJob]
          /\ UNCHANGED <<verdict, stopping>>
       \/ /\ status[job[e]] # "absent" /\ job[e] \in Unreadable
          /\ Dies(e)
       \/ /\ status[job[e]] # "absent" /\ job[e] \notin Unreadable
          /\ pc' = [pc EXCEPT ![e] = "mark"]
          /\ UNCHANGED <<job, verdict, stopping>>
    /\ UNCHANGED <<redisVars, submission, history, troubleVars, listVars>>

\* HSET status running, and the job goes to its replayer.
Mark(e) ==
    /\ Goes(e, "mark", "run")
    /\ Sets(job[e], "running")
    /\ runs' = [runs EXCEPT ![job[e]] = @ + 1]
    /\ UNCHANGED <<pending, recent, submission, job, verdict, stopping, filed,
                   troubleVars, listVars>>

\* A Redis error in either of the two calls ends the claim, and the loop goes on
\* without the job it popped.
ClaimRaises(e) ==
    /\ pc[e] \in {"fetch", "mark"}
    /\ Raises
    /\ pc' = [pc EXCEPT ![e] = "poll"]
    /\ job' = [job EXCEPT ![e] = NoJob]
    /\ \/ UNCHANGED status
       \/ pc[e] = "mark" /\ Sets(job[e], "running")
    /\ UNCHANGED <<pending, recent, submission, verdict, stopping, history, listVars>>

\* The replayer returns or raises.
Run(e) ==
    /\ Goes(e, "run", "report")
    /\ \E v \in Terminal : verdict' = [verdict EXCEPT ![e] = v]
    /\ UNCHANGED <<redisVars, submission, job, stopping, history, troubleVars, listVars>>

\* update_status(): HSET of the terminal status, then LPUSH and LTRIM in one
\* transaction.
Report(e) ==
    /\ Goes(e, "report", "push")
    /\ Sets(job[e], verdict[e])
    /\ UNCHANGED <<pending, recent, submission, job, verdict, stopping, history,
                   troubleVars, listVars>>

PushedUntrimmed(j) == <<j>> \o recent
Pushed(j) ==
    LET longer == <<j>> \o recent
    IN IF Len(longer) > RecentMax THEN SubSeq(longer, 1, RecentMax) ELSE longer

Push(e) ==
    /\ Goes(e, "push", "poll")
    /\ recent' = Pushed(job[e])
    /\ filed' = filed \cup {job[e]}
    /\ job' = [job EXCEPT ![e] = NoJob]
    /\ verdict' = [verdict EXCEPT ![e] = "failed"]
    /\ UNCHANGED <<status, pending, submission, stopping, runs, troubleVars, listVars>>

\* A Redis error in either call: _execute_job() reports a completed job as
\* failed; when that raises as well, nothing catches it.
UpdateRaises(e) ==
    /\ pc[e] \in {"report", "push"}
    /\ Raises
    /\ \/ UNCHANGED <<status, recent, filed>>
       \/ pc[e] = "report" /\ Sets(job[e], verdict[e]) /\ UNCHANGED <<recent, filed>>
       \/ /\ pc[e] = "push"
          /\ recent' = Pushed(job[e])
          /\ filed' = filed \cup {job[e]}
          /\ UNCHANGED status
    /\ IF verdict[e] = "completed"
       THEN /\ verdict' = [verdict EXCEPT ![e] = "failed"]
            /\ pc' = [pc EXCEPT ![e] = "report"]
            /\ UNCHANGED <<job, stopping>>
       ELSE Dies(e)
    /\ UNCHANGED <<pending, submission, runs, listVars>>

-----------------------------------------------------------------------------
(* Shutdown and crash.                                                     *)

Sigterm(e) ==
    /\ ~stopping[e]
    /\ MoreTrouble
    /\ signals' = signals + 1
    /\ stopping' = [stopping EXCEPT ![e] = TRUE]
    /\ UNCHANGED <<redisVars, submission, pc, job, verdict, history, faults, crashes,
                   listVars>>

ExitMidJob(e) ==
    /\ stopping[e]
    /\ Dies(e)
    /\ UNCHANGED <<redisVars, submission, history, troubleVars, listVars>>

ExitWhenDrained(e) ==
    /\ stopping[e]
    /\ pc[e] = "poll"
    /\ pending = {}
    /\ Dies(e)
    /\ UNCHANGED <<redisVars, submission, history, troubleVars, listVars>>
\* The loop sees the flag between two jobs only.
Exit(e) ==
    /\ stopping[e]
    /\ pc[e] = "poll"
    /\ Dies(e)
    /\ UNCHANGED <<redisVars, submission, history, troubleVars, listVars>>

Crash(e) ==
    /\ MoreTrouble
    /\ crashes' = crashes + 1
    /\ Dies(e)
    /\ UNCHANGED <<redisVars, submission, history, faults, signals, listVars>>

EngineStep(e) ==
    Pop(e) \/ Fetch(e) \/ Mark(e) \/ Run(e) \/ Report(e) \/ Push(e) \/ Exit(e)

Next ==
    \/ \E j \in Jobs : Save(j) \/ SaveFails(j)
    \/ ListFirst \/ ListSecond
    \/ \E e \in Engines :
        \/ Pop(e) \/ PopRaises(e)
        \/ Fetch(e) \/ Mark(e) \/ ClaimRaises(e)
        \/ Run(e)
        \/ Report(e) \/ Push(e) \/ UpdateRaises(e)
        \/ Sigterm(e) \/ Exit(e) \/ Crash(e)

Spec == Init /\ [][Next]_vars

\* Every engine is scheduled and every replayer comes back.  Nothing obliges a
\* job to be submitted, a listing to be made or a call to raise.
FairSpec == Spec /\ \A e \in Engines : WF_vars(EngineStep(e))

-----------------------------------------------------------------------------
(* Correctness.                                                            *)

TypeOK ==
    /\ status \in [Jobs -> {"absent", "pending", "running"} \cup Terminal]
    /\ pending \subseteq Jobs
    /\ recent \in Seq(Jobs) /\ Len(recent) <= RecentMax
    /\ submission \in [Jobs -> {"new", "hashed", "queued", "refused"}]
    /\ pc \in [Engines -> {"poll", "fetch", "mark", "run", "report", "push"}]
    /\ job \in [Engines -> Jobs \cup {NoJob}]
    /\ \A e \in Engines : job[e] = NoJob <=> pc[e] = "poll"
    /\ verdict \in [Engines -> Terminal]
    /\ stopping \in [Engines -> BOOLEAN]
    /\ runs \in [Jobs -> Nat]
    /\ filed \subseteq Jobs
    /\ {faults, crashes, signals} \subseteq Nat
    /\ listing \in BOOLEAN
    /\ DOMAIN listed \subseteq Jobs /\ listed \in [DOMAIN listed -> Nat]
    /\ shown \subseteq Jobs /\ owed \subseteq Jobs

\* "Allows multiple engine replicas without a job running twice"
\* (README.md:902): whatever calls raise and wherever engines die, a job is
\* handed to a replayer at most once.
AtMostOnce == \A j \in Jobs : runs[j] <= 1

\* An accepted job that no reader of Redis will come across: not in the queue,
\* with no engine, and never put on the recent list.
Missing == {j \in Jobs : submission[j] = "queued"} \ (pending \cup Held \cup filed)

\* Each accepted job that goes missing is the work of an incident of its own - a
\* raising call, a crash or an unreadable hash; stopping engines with SIGTERM, at
\* any point of a job, costs none.
EachLossHasItsIncident == Cardinality(Missing \ Unreadable) <= faults + crashes

\* A job that no engine is working on keeps its final status for good: no late
\* write of a submission or of another engine takes it back.
Settled(j) == status[j] \in Terminal /\ j \notin Held
SettledForGood ==
    [][\A j \in Jobs : Settled(j) => Settled(j)' /\ status'[j] = status[j]]_<<status, job>>

\* Although it reads the queue and the recent list one after the other while
\* engines move jobs, a listing that does not reach its limit returns each job
\* that was in either when it began, unless newer jobs pushed it out of the part
\* of the recent list that is read.
ListingComplete ==
    [][listing /\ ~listing' =>
        \/ Cardinality(shown') >= ListMax
        \/ \A j \in owed' : status[j] \in Terminal /\ j \notin ToSet(Newest)]_listVars

\* In the end every accepted job is settled, or went missing.
AcceptedJobsSettle ==
    <>[](\A j \in Jobs :
            submission[j] = "queued" => status[j] \in Terminal \/ j \in Missing)

\* The claim of the failure table (docs/architecture/system-overview.md:270):
\* after a crash in the middle of a job, "Engine startup scans for `running` jobs
\* older than a configurable timeout and re-queues them as `pending`".  (Raising
\* Redis calls, which leave a job there too, are left aside.)
RunningJobsRecovered ==
    \A j \in Jobs :
        status[j] = "running" /\ faults = 0 ~> status[j] # "running" \/ faults > 0
=============================================================================
