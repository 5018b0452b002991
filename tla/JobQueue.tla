------------------------------- MODULE JobQueue -------------------------------
(***************************************************************************)
(* The Postgres-backed job table `job_run`, the worker processes that poll *)
(* it, their heartbeat threads, and the API and scheduler handlers that    *)
(* enqueue (jobs/service.py, services/worker/app/main.py and the           *)
(* dispatcher).                                                            *)
(*                                                                         *)
(* Time is kept relative to now: `due` is the time left until next_run_at  *)
(* and `age` the time since locked_at, both in ticks and both saturating,  *)
(* so that the state stays finite however long the system runs.  `before`  *)
(* keeps the rest of what next_run_at says, the order in which rows are    *)
(* offered to the claim query.                                             *)
(***************************************************************************)
EXTENDS Integers, FiniteSets, FiniteSetsExt

CONSTANTS
  Jobs,          \* identities of the rows the table may come to hold
  Workers,       \* worker processes
  Requesters,    \* API request handlers and scheduler ticks, each with its session
  WorkerId,      \* WorkerId[w]: settings.worker_id of process w (need not be unique)
  Ids,           \* the worker_id values
  Keys,          \* a job type with its payload, i.e. what dedupe_key tells apart
  Plain,         \* the keys enqueued without deduplication (manual URL, CSV)
  FollowOn,      \* FollowOn[k]: the keys a handler of k enqueues
  Lease,         \* STALE_RUNNING_JOB_LOCK_SECONDS, in ticks
  BeatEvery,     \* JOB_HEARTBEAT_INTERVAL_SECONDS, in ticks
  RetryDelay,    \* retry_delay_seconds, in ticks
  MaxAttempts,   \* settings.worker_max_attempts
  MaxRequests,   \* bound of the model: rows the requesters insert
  MaxFaults      \* bound of the model: crashes and late heartbeats, in all

ASSUME TimingAssumption ==
  /\ Lease \in Nat /\ BeatEvery \in Nat /\ RetryDelay \in Nat
  /\ 0 < BeatEvery /\ BeatEvery < Lease

ASSUME ParameterAssumption ==
  /\ MaxAttempts \in Nat \ {0} /\ MaxRequests \in Nat /\ MaxFaults \in Nat
  /\ WorkerId \in [Workers -> Ids]
  /\ Plain \subseteq Keys
  /\ FollowOn \in [Keys -> SUBSET Keys]

\* Finitely many rows and processes, and a process is a worker or a requester.
ASSUME PopulationAssumption ==
  /\ IsFiniteSet(Jobs) /\ IsFiniteSet(Workers) /\ IsFiniteSet(Requesters)
  /\ Requesters \cap Workers = {}

None == "none"
Active == {"QUEUED", "RUNNING"}
Final == {"SUCCEEDED", "DEAD"}
Status == {"ABSENT", "FAILED"} \cup Active \cup Final

VARIABLES
  job,           \* job[j]: the row j, ABSENT until it is inserted
  before,        \* <<i, j>>: row i has the earlier next_run_at
  worker,        \* worker[w]: a process, its job object and its heartbeat thread
  request,       \* request[r]: the key that r found no active row for, or None
  requests,      \* history: rows inserted by requesters
  faults         \* faults[j]: history: crashes and late heartbeats of processes running j

vars == <<job, before, worker, request, requests, faults>>

ASSUME NoneAssumption == None \notin Jobs /\ None \notin Keys /\ None \notin Ids

Rows == [status : Status, key : Keys \cup {None}, attempts : Nat,
         owner : Ids \cup {None}, age : 0 .. Lease, due : 0 .. RetryDelay]

Processes == [pc : {"idle", "working", "enqueued", "down"}, job : Jobs \cup {None},
              copy : Nat, beat : {"off", "timely", "late"}, left : 0 .. BeatEvery,
              todo : SUBSET Keys]

FaultCounts == [crashed : Nat, late : Nat]

\* The job table, the processes and the requests are well formed.
TypeOK ==
  /\ job \in [Jobs -> Rows]
  /\ before \subseteq Jobs \X Jobs
  /\ worker \in [Workers -> Processes]
  /\ request \in [Requesters -> Keys \cup {None}]
  /\ requests \in Nat
  /\ faults \in [Jobs -> FaultCounts]

Absent == {j \in Jobs : job[j].status = "ABSENT"}
Runs(w, j) == worker[w].pc \in {"working", "enqueued"} /\ worker[w].job = j
Busy(w) == worker[w].pc \in {"working", "enqueued"}

IdleProcess == [pc |-> "idle", job |-> None, copy |-> 0, beat |-> "off", left |-> 0,
                todo |-> {}]
AbsentRow == [status |-> "ABSENT", key |-> None, attempts |-> 0, owner |-> None,
              age |-> 0, due |-> 0]

Init ==
  /\ job = [j \in Jobs |-> AbsentRow]
  /\ before = {}
  /\ worker = [w \in Workers |-> IdleProcess]
  /\ request = [r \in Requesters |-> None]
  /\ requests = 0
  /\ faults = [j \in Jobs |-> [crashed |-> 0, late |-> 0]]

-------------------------------------------------------------------------------
(* Enqueueing: a query for an active row, and an insert that nothing ties to it. *)

\* Broken variant: only running rows count as duplicates.
HasRunningRow(k) == \E j \in Jobs : job[j].key = k /\ job[j].status = "RUNNING"

HasActiveRow(k) == \E j \in Jobs : job[j].key = k /\ job[j].status \in Active

NewRow(k) == [AbsentRow EXCEPT !.status = "QUEUED", !.key = k]

\* next_run_at = now: after every row already due, ahead of the retries still waiting.
OrderWithNew(New) ==
  LET old == Jobs \ (Absent \cup New)
      isDue == {j \in old : job[j].due = 0}
  IN  before \cup (isDue \X New) \cup (New \X (old \ isDue))

\* A requester runs the duplicate query; when it finds a row it returns that row.
RequestChecks(r, k) ==
  /\ request[r] = None
  /\ k \in Plain \/ ~HasActiveRow(k)
  /\ request' = [request EXCEPT ![r] = k]
  /\ UNCHANGED <<job, before, worker, requests, faults>>

\* The requester's insert is committed.
RequestInserts(r) ==
  /\ request[r] # None
  /\ requests < MaxRequests
  /\ \E j \in Absent :
       /\ job' = [job EXCEPT ![j] = NewRow(request[r])]
       /\ before' = OrderWithNew({j})
  /\ request' = [request EXCEPT ![r] = None]
  /\ requests' = requests + 1
  /\ UNCHANGED <<worker, faults>>

-------------------------------------------------------------------------------
(* Workers *)

\* Broken variant: the lease ends a tick early, when a timely heartbeat may still renew it.
StaleEarly(j) == job[j].age >= Lease - 1

Stale(j) == job[j].age >= Lease

\* Broken variants: dead rows are offered again; abandoned rows never are.
ClaimableDead(j) ==
  \/ job[j].status \in {"QUEUED", "FAILED", "DEAD"} /\ job[j].due = 0
  \/ job[j].status = "RUNNING" /\ Stale(j)
ClaimableFresh(j) == job[j].status \in {"QUEUED", "FAILED"} /\ job[j].due = 0

Claimable(j) ==
  \/ job[j].status \in {"QUEUED", "FAILED"} /\ job[j].due = 0
  \/ job[j].status = "RUNNING" /\ Stale(j)

\* claim_next_job, its commit, and the start of the heartbeat thread.
Claim(w, j) ==
  /\ worker[w].pc = "idle"
  /\ Claimable(j)
  /\ \A i \in Jobs : Claimable(i) => <<i, j>> \notin before
  /\ job' = [job EXCEPT ![j] = [job[j] EXCEPT !.status = "RUNNING", !.owner = WorkerId[w],
                                               !.age = 0, !.attempts = @ + 1]]
  /\ worker' = [worker EXCEPT ![w] =
                  [pc |-> "working", job |-> j, copy |-> job[j].attempts + 1,
                   beat |-> "timely", left |-> BeatEvery, todo |-> {}]]
  /\ UNCHANGED <<before, request, requests, faults>>

\* refresh_job_lock in the heartbeat thread: keep the lock, or notice it is lost and stop.
Beat(w) ==
  LET j == worker[w].job
      mine == job[j].status = "RUNNING" /\ job[j].owner = WorkerId[w]
  IN  /\ Busy(w)
      /\ \/ worker[w].beat = "timely" /\ worker[w].left = 0
         \/ worker[w].beat = "late"
      /\ \/ /\ mine
            /\ job' = [job EXCEPT ![j].age = 0]
            /\ worker' = [worker EXCEPT ![w].beat = "timely", ![w].left = BeatEvery]
         \/ /\ ~mine
            /\ worker' = [worker EXCEPT ![w].beat = "off"]
            /\ UNCHANGED job
      /\ UNCHANGED <<before, request, requests, faults>>

\* The handler reaches its enqueue calls: the rows are flushed, invisible until commit.
HandlerEnqueues(w) ==
  /\ worker[w].pc = "working"
  /\ LET k == job[worker[w].job].key
     IN  worker' = [worker EXCEPT
                      ![w].pc = "enqueued",
                      ![w].todo = {f \in Keys : f \in FollowOn[k] /\ (f \in Plain \/ ~HasActiveRow(f))}]
  /\ UNCHANGED <<job, before, request, requests, faults>>

\* The commit that ends an execution: the row's new columns and the flushed rows together.
\* The row is written by its id, whoever holds it now.  `tail` holds when next_run_at was
\* written with a time later than any other row's.
CommitEnd(w, row, tail) ==
  LET j == worker[w].job
      K == worker[w].todo
  IN  /\ \E id \in [K -> Absent] :
           /\ \A a, b \in K : id[a] = id[b] => a = b
           /\ LET New == {id[k] : k \in K}
                  order == OrderWithNew(New)
              IN  /\ job' = [i \in Jobs |-> IF i = j THEN row
                                            ELSE IF i \in New
                                                 THEN NewRow(CHOOSE k \in K : id[k] = i)
                                                 ELSE job[i]]
                  /\ before' = IF ~tail THEN order
                               ELSE {p \in order : p[1] # j}
                                    \cup (((Jobs \ Absent) \cup New) \ {j}) \X {j}
      /\ worker' = [worker EXCEPT ![w] = IdleProcess]
      /\ UNCHANGED <<request, requests, faults>>

\* mark_job_succeeded after the handler returned.
Succeed(w) ==
  /\ worker[w].pc = "enqueued"
  /\ CommitEnd(w, [job[worker[w].job] EXCEPT !.status = "SUCCEEDED", !.age = Lease], FALSE)

\* The attempts are used up; broken variant: one too many is allowed.
ExhaustedLate(attempts) == attempts > MaxAttempts
Exhausted(attempts) == attempts >= MaxAttempts

\* mark_job_failed after the handler raised, or for a job type nobody handles.  The decision
\* uses the attempts of the worker's own copy; what the handler flushed is committed too.
Fail(w) ==
  LET row == job[worker[w].job]
  IN  /\ Busy(w)
      /\ \/ /\ Exhausted(worker[w].copy)
            /\ CommitEnd(w, [row EXCEPT !.status = "DEAD", !.age = Lease, !.due = 0], FALSE)
         \/ /\ ~Exhausted(worker[w].copy)
            /\ CommitEnd(w, [row EXCEPT !.status = "FAILED", !.age = Lease,
                                        !.due = RetryDelay], TRUE)

-------------------------------------------------------------------------------
(* Faults and time *)

TotalFaults == MapThenSumSet(LAMBDA j : faults[j].crashed + faults[j].late, Jobs)

\* The process dies: its transaction rolls back and its heartbeat stops; the row stays RUNNING.
\* This is also what a database error does, since the session is not rolled back before the
\* failure is recorded and nothing above process_next_job catches the second error.
Crash(w) ==
  /\ Busy(w)
  /\ TotalFaults < MaxFaults
  /\ faults' = [faults EXCEPT ![worker[w].job].crashed = @ + 1]
  /\ worker' = [worker EXCEPT ![w] = [IdleProcess EXCEPT !.pc = "down"]]
  /\ UNCHANGED <<job, before, request, requests>>

\* The container's restart policy.
Restart(w) ==
  /\ worker[w].pc = "down"
  /\ worker' = [worker EXCEPT ![w] = IdleProcess]
  /\ UNCHANGED <<job, before, request, requests, faults>>

\* The heartbeat thread misses its deadline, because it raised or the process was stalled.
BeatIsLate(w) ==
  /\ Busy(w)
  /\ worker[w].beat = "timely"
  /\ TotalFaults < MaxFaults
  /\ faults' = [faults EXCEPT ![worker[w].job].late = @ + 1]
  /\ worker' = [worker EXCEPT ![w].beat = "late"]
  /\ UNCHANGED <<job, before, request, requests>>

\* The time left to wait after a tick; broken variant: not stopped at zero.
WaitedOn(left) == left - 1
Waited(left) == IF left > 0 THEN left - 1 ELSE 0

\* One tick.  A timely heartbeat fires before its interval is exceeded.
Tick ==
  /\ \A w \in Workers : worker[w].beat = "timely" => worker[w].left > 0
  /\ job' = [j \in Jobs |->
               [job[j] EXCEPT !.age = IF @ < Lease THEN @ + 1 ELSE Lease,
                              !.due = Waited(@)]]
  /\ worker' = [w \in Workers |->
                  [worker[w] EXCEPT !.left = IF worker[w].beat = "timely" THEN @ - 1 ELSE @]]
  /\ UNCHANGED <<before, request, requests, faults>>

-------------------------------------------------------------------------------
RequesterStep == \E r \in Requesters : (\E k \in Keys : RequestChecks(r, k)) \/ RequestInserts(r)
WorkerStep(w) == (\E j \in Jobs : Claim(w, j)) \/ HandlerEnqueues(w) \/ Succeed(w) \/ Fail(w)
FaultStep(w) == Crash(w) \/ BeatIsLate(w)

Next ==
  \/ RequesterStep
  \/ \E w \in Workers : WorkerStep(w) \/ Beat(w) \/ Restart(w) \/ FaultStep(w)
  \/ Tick

Spec == Init /\ [][Next]_vars

\* Handlers return, polling goes on, threads and containers are scheduled, time passes.
Fairness ==
  /\ \A w \in Workers :
       /\ WF_vars(WorkerStep(w))
       /\ WF_vars(worker[w].beat = "timely" /\ Beat(w))
       /\ WF_vars(Restart(w))
  /\ WF_vars(Tick)

FairSpec == Spec /\ Fairness

-------------------------------------------------------------------------------
(* Properties *)

\* As long as no heartbeat of a process running j was late, j is run by one process at a time,
\* whatever crashes, retries and lease reclaims happen.
ExclusiveRun ==
  \A j \in Jobs : faults[j].late = 0 =>
    \A v, w \in Workers : Runs(v, j) /\ Runs(w, j) => v = w

\* As long as no heartbeat of a process running j was late, the end of j is final: no slow
\* process overwrites SUCCEEDED or DEAD.
FinalStaysFinal ==
  [][\A j \in Jobs : job[j].status \in Final /\ faults[j].late = 0
                       => job'[j].status = job[j].status]_vars

\* Reclaims of abandoned jobs are not checked against max_attempts, yet each execution beyond
\* it is paid for by a fault of a process that was running that very job.
AttemptsCharged ==
  \A j \in Jobs : job[j].attempts <= MaxAttempts + faults[j].crashed + faults[j].late

\* The duplicate check is a query without a lock, so enqueuers that check together insert
\* twins.  There are never more of them than enqueuers: the rows waiting in the queue with one
\* key and the inserts about to be made for it are at most the requesters, plus the workers
\* when some handler enqueues that key.
Enqueuing(k) == {r \in Requesters : request[r] = k} \cup {w \in Workers : k \in worker[w].todo}
Enqueuers(k) == Requesters \cup (IF \E f \in Keys : k \in FollowOn[f] THEN Workers ELSE {})
TwinsBounded ==
  \A k \in Keys \ Plain :
    Cardinality({j \in Jobs : job[j].key = k /\ job[j].status = "QUEUED"})
      + Cardinality(Enqueuing(k)) <= Cardinality(Enqueuers(k))

\* Every row inserted reaches SUCCEEDED or DEAD and stays there, through crashes, late
\* heartbeats and retries.
EveryJobEnds ==
  \A j \in Jobs : job[j].status # "ABSENT" ~> [](job[j].status \in Final)
===============================================================================
