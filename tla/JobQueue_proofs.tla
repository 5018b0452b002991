---------------------------- MODULE JobQueue_proofs ----------------------------
(***************************************************************************)
(* Theorems about JobQueue for every number of rows, processes and         *)
(* requesters and every lease longer than the heartbeat interval.          *)
(*                                                                         *)
(* The inductive invariant is TypeOK, ExclusiveRun and LeaseHeld: a        *)
(* process whose heartbeat was never late still owns the row it runs, and  *)
(* the lock's age plus the time left to its next beat stay within one      *)
(* heartbeat interval, which is shorter than the lease.                    *)
(*                                                                         *)
(* Two bounds on counts rest on it.  Charged: what a row may still cost in *)
(* executions is covered by the faults it has suffered, since the last     *)
(* execution of a running row keeps it from being claimed until it is      *)
(* late.  Twins: rows waiting with a key and intentions to insert one are  *)
(* counted together, since an insert turns the one into the other.         *)
(***************************************************************************)
EXTENDS JobQueue, FiniteSetTheorems, TLAPS

USE DEF Active, Final, Status

LeaseHeld ==
  \A w \in Workers : Busy(w) =>
    LET j == worker[w].job IN
      /\ j \in Jobs
      /\ faults[j].late = 0 =>
           /\ job[j].status = "RUNNING"
           /\ job[j].owner = WorkerId[w]
           /\ worker[w].beat = "timely"
           /\ job[j].age + worker[w].left <= BeatEvery

IInv == TypeOK /\ LeaseHeld /\ ExclusiveRun

-------------------------------------------------------------------------------
\* A row typed by its columns: what each update of a row has to keep.
LEMMA RowType ==
  ASSUME NEW r \in Rows
  PROVE  /\ \A s \in Status : [r EXCEPT !.status = s, !.age = Lease] \in Rows
         /\ \A s \in Status, d \in 0 .. RetryDelay :
              [r EXCEPT !.status = s, !.age = Lease, !.due = d] \in Rows
         /\ \A o \in Ids : [r EXCEPT !.status = "RUNNING", !.owner = o, !.age = 0,
                                     !.attempts = @ + 1] \in Rows
         /\ [r EXCEPT !.age = 0] \in Rows
<1>1. 0 \in 0 .. Lease /\ Lease \in 0 .. Lease
  BY TimingAssumption
<1>2. \A s \in Status : [r EXCEPT !.status = s, !.age = Lease] \in Rows
  BY <1>1 DEF Rows
<1>3. \A s \in Status, d \in 0 .. RetryDelay :
        [r EXCEPT !.status = s, !.age = Lease, !.due = d] \in Rows
  BY <1>1 DEF Rows
<1>4. \A o \in Ids : [r EXCEPT !.status = "RUNNING", !.owner = o, !.age = 0,
                               !.attempts = @ + 1] \in Rows
  <2>1. r.attempts + 1 \in Nat
    BY DEF Rows
  <2>2. "RUNNING" \in Status
    OBVIOUS
  <2> QED
    BY <1>1, <2>1, <2>2 DEF Rows
<1>5. [r EXCEPT !.age = 0] \in Rows
  BY <1>1 DEF Rows
<1> QED
  BY <1>2, <1>3, <1>4, <1>5

LEMMA TickedRowType ==
  ASSUME NEW r \in Rows
  PROVE  [r EXCEPT !.age = IF @ < Lease THEN @ + 1 ELSE Lease,
                   !.due = IF @ > 0 THEN @ - 1 ELSE 0] \in Rows
<1>1. (IF r.age < Lease THEN r.age + 1 ELSE Lease) \in 0 .. Lease
  BY TimingAssumption DEF Rows
<1>2. (IF r.due > 0 THEN r.due - 1 ELSE 0) \in 0 .. RetryDelay
  BY TimingAssumption DEF Rows
<1> QED
  BY <1>1, <1>2 DEF Rows

LEMMA NewRowType == \A k \in Keys : NewRow(k) \in Rows
<1>1. 0 \in 0 .. Lease /\ 0 \in 0 .. RetryDelay /\ 0 \in Nat
  BY TimingAssumption
<1>2. "ABSENT" \in Status /\ "QUEUED" \in Status
  OBVIOUS
<1>3. AbsentRow \in Rows
  BY <1>1, <1>2 DEF AbsentRow, Rows
<1> QED
  BY <1>2, <1>3 DEF NewRow, Rows

LEMMA OrderType ==
  ASSUME TypeOK, NEW New \in SUBSET Jobs
  PROVE  OrderWithNew(New) \subseteq Jobs \X Jobs
BY DEF OrderWithNew, Absent, TypeOK

\* What a commit that ends an execution does, with the inserted rows made explicit.
LEMMA CommitEndShape ==
  ASSUME TypeOK, NEW w \in Workers, Busy(w), worker[w].job \in Jobs,
         NEW row \in Rows, NEW tail \in BOOLEAN, CommitEnd(w, row, tail)
  PROVE  /\ \E New \in SUBSET Absent :
              /\ job' \in [Jobs -> Rows]
              /\ \A i \in Jobs : i # worker[w].job /\ i \notin New => job'[i] = job[i]
              /\ job'[worker[w].job] = row
         /\ before' \subseteq Jobs \X Jobs
         /\ worker' = [worker EXCEPT ![w] = IdleProcess]
         /\ UNCHANGED <<request, requests, faults>>
<1> DEFINE j == worker[w].job
           K == worker[w].todo
<1>0. K \subseteq Keys
  BY DEF TypeOK, Processes
<1>1. PICK id \in [K -> Absent] :
        LET New == {id[k] : k \in K}
            order == OrderWithNew(New)
        IN  /\ job' = [i \in Jobs |-> IF i = j THEN row
                                      ELSE IF i \in New
                                           THEN NewRow(CHOOSE k \in K : id[k] = i)
                                           ELSE job[i]]
            /\ before' = IF ~tail THEN order
                         ELSE {p \in order : p[1] # j}
                              \cup (((Jobs \ Absent) \cup New) \ {j}) \X {j}
  BY DEF CommitEnd
<1> DEFINE New == {id[k] : k \in K}
<1>2. New \subseteq Absent /\ New \subseteq Jobs
  BY DEF Absent
<1>3. ASSUME NEW i \in New PROVE NewRow(CHOOSE k \in K : id[k] = i) \in Rows
  <2>1. \E k \in K : id[k] = i
    OBVIOUS
  <2>2. (CHOOSE k \in K : id[k] = i) \in K
    BY <2>1
  <2> QED
    BY <2>2, <1>0, NewRowType
<1>4. job' \in [Jobs -> Rows]
  <2>1. job' = [i \in Jobs |-> IF i = j THEN row
                               ELSE IF i \in New THEN NewRow(CHOOSE k \in K : id[k] = i) ELSE job[i]]
    BY <1>1
  <2>2. ASSUME NEW i \in Jobs PROVE job[i] \in Rows /\ row \in Rows
    BY DEF TypeOK
  <2> DEFINE new(i) == NewRow(CHOOSE k \in K : id[k] = i)
  <2>3. \A i \in New : new(i) \in Rows
    BY <1>3
  <2> HIDE DEF New, new, j
  <2> QED
    BY <2>1, <2>2, <2>3 DEF new
<1>5. before' \subseteq Jobs \X Jobs
  <2>1. OrderWithNew(New) \subseteq Jobs \X Jobs
    BY <1>2, OrderType
  <2> QED
    BY <1>1, <1>2, <2>1
<1>6. /\ \A i \in Jobs : i # worker[w].job /\ i \notin New => job'[i] = job[i]
      /\ job'[worker[w].job] = row
  BY <1>1
<1> QED
  BY <1>2, <1>4, <1>5, <1>6 DEF CommitEnd

-------------------------------------------------------------------------------
LEMMA InitHolds == Init => IInv
<1> SUFFICES ASSUME Init PROVE IInv
  OBVIOUS
<1>1. 0 \in 0 .. Lease /\ 0 \in 0 .. RetryDelay /\ 0 \in 0 .. BeatEvery /\ 0 \in Nat
  BY TimingAssumption
<1>2. AbsentRow \in Rows
  BY <1>1 DEF AbsentRow, Rows
<1>3. IdleProcess \in Processes
  BY <1>1 DEF IdleProcess, Processes
<1>4. TypeOK
  BY <1>1, <1>2, <1>3 DEF Init, TypeOK, FaultCounts
<1>5. \A w \in Workers : ~Busy(w)
  BY DEF Init, Busy, IdleProcess
<1> QED
  BY <1>4, <1>5 DEF IInv, LeaseHeld, ExclusiveRun, Runs, Busy

\* A process that keeps its heartbeat timely is not preempted: its row is not claimable.
LEMMA HeldNotClaimable ==
  ASSUME IInv, NEW w \in Workers, NEW j \in Jobs, Runs(w, j), faults[j].late = 0
  PROVE  ~Claimable(j)
<1>1. job[j].status = "RUNNING" /\ job[j].age + worker[w].left <= BeatEvery
  BY DEF IInv, LeaseHeld, Runs, Busy
<1>2. job[j].age \in Nat /\ worker[w].left \in Nat
  BY TimingAssumption DEF IInv, TypeOK, Rows, Processes
<1> QED
  BY <1>1, <1>2, TimingAssumption DEF Claimable, Stale

LEMMA RequesterKeeps == ASSUME IInv, RequesterStep PROVE IInv'
<1>1. CASE \E r \in Requesters, k \in Keys : RequestChecks(r, k)
  BY <1>1 DEF RequestChecks, IInv, TypeOK, LeaseHeld, ExclusiveRun, Busy, Runs
<1>2. ASSUME NEW r \in Requesters, RequestInserts(r) PROVE IInv'
  <2>1. PICK i \in Absent : /\ job' = [job EXCEPT ![i] = NewRow(request[r])]
                            /\ before' = OrderWithNew({i})
    BY <1>2 DEF RequestInserts
  <2>2. NewRow(request[r]) \in Rows
    BY <1>2, NewRowType DEF RequestInserts, IInv, TypeOK
  <2>3. i \in Jobs
    BY DEF Absent
  <2>4. before' \subseteq Jobs \X Jobs
    BY <2>1, <2>3, OrderType DEF IInv
  <2>5. TypeOK'
    <3>1. job' \in [Jobs -> Rows]
      BY <2>1, <2>2 DEF IInv, TypeOK
    <3>2. request' \in [Requesters -> Keys \cup {None}] /\ requests' \in Nat
      BY <1>2 DEF RequestInserts, IInv, TypeOK
    <3> QED
      BY <1>2, <2>4, <3>1, <3>2 DEF RequestInserts, IInv, TypeOK
  <2>6. LeaseHeld'
    BY <1>2, <2>1, <2>3 DEF RequestInserts, IInv, TypeOK, LeaseHeld, Busy, Absent
  <2> QED
    BY <1>2, <2>5, <2>6 DEF RequestInserts, IInv, ExclusiveRun, Runs
<1> QED
  BY <1>1, <1>2 DEF RequesterStep

LEMMA ClaimKeeps ==
  ASSUME IInv, NEW w \in Workers, NEW j \in Jobs, Claim(w, j)
  PROVE  IInv'
<1> DEFINE p == [pc |-> "working", job |-> j, copy |-> job[j].attempts + 1,
                 beat |-> "timely", left |-> BeatEvery, todo |-> {}]
           row == [job[j] EXCEPT !.status = "RUNNING", !.owner = WorkerId[w],
                                 !.age = 0, !.attempts = @ + 1]
<1>1. job' = [job EXCEPT ![j] = row] /\ worker' = [worker EXCEPT ![w] = p]
  BY DEF Claim
<1>2. WorkerId[w] \in Ids
  BY ParameterAssumption
<1>3. row \in Rows
  BY <1>2, RowType DEF IInv, TypeOK
<1>4. p \in Processes
  <2>1. job[j].attempts + 1 \in Nat /\ BeatEvery \in 0 .. BeatEvery
    BY TimingAssumption DEF IInv, TypeOK, Rows
  <2> QED
    BY <2>1 DEF Processes
<1>5. TypeOK'
  BY <1>1, <1>3, <1>4 DEF IInv, TypeOK, Claim
<1>6. \A v \in Workers : Runs(v, j) => faults[j].late # 0
  BY HeldNotClaimable DEF Claim
<1>7. job[j] \in Rows /\ worker \in [Workers -> Processes] /\ job \in [Jobs -> Rows]
  BY DEF IInv, TypeOK
<1>8. row.status = "RUNNING" /\ row.owner = WorkerId[w] /\ row.age = 0
  BY <1>7 DEF Rows
<1>9. LeaseHeld'
  <2> SUFFICES ASSUME NEW v \in Workers, Busy(v)'
               PROVE  LET i == worker'[v].job IN
                        /\ i \in Jobs
                        /\ faults'[i].late = 0 =>
                             /\ job'[i].status = "RUNNING"
                             /\ job'[i].owner = WorkerId[v]
                             /\ worker'[v].beat = "timely"
                             /\ job'[i].age + worker'[v].left <= BeatEvery
    BY DEF LeaseHeld
  <2>1. CASE v = w
    BY <2>1, <1>1, <1>7, <1>8, TimingAssumption DEF Claim
  <2>2. CASE v # w
    <3>1. worker'[v] = worker[v] /\ Busy(v)
      BY <2>2, <1>1, <1>7 DEF Busy
    <3>2. worker[v].job = j => faults[j].late # 0
      BY <3>1, <1>6 DEF Runs, Busy
    <3> QED
      BY <3>1, <3>2, <1>1, <1>7 DEF IInv, LeaseHeld, Claim
  <2> QED
    BY <2>1, <2>2
<1>10. ExclusiveRun'
  <2> SUFFICES ASSUME NEW i \in Jobs, faults'[i].late = 0, NEW u \in Workers, NEW v \in Workers,
                      Runs(u, i)', Runs(v, i)'
               PROVE  u = v
    BY DEF ExclusiveRun
  <2>1. faults[i].late = 0
    BY DEF Claim
  <2>2. \A x \in Workers : x # w => (Runs(x, i)' <=> Runs(x, i))
    BY <1>1, <1>7 DEF Runs
  <2>3. Runs(w, i)' => i = j
    BY <1>1, <1>7 DEF Runs
  <2>4. CASE i = j
    BY <2>1, <2>2, <2>4, <1>6
  <2>5. CASE i # j
    BY <2>1, <2>2, <2>3, <2>5 DEF IInv, ExclusiveRun
  <2> QED
    BY <2>4, <2>5
<1> QED
  BY <1>5, <1>9, <1>10 DEF IInv

\* The commit that ends an execution disturbs no other process that is still protected.
LEMMA CommitEndKeeps ==
  ASSUME IInv, NEW w \in Workers, Busy(w), NEW row \in Rows, NEW tail \in BOOLEAN,
         CommitEnd(w, row, tail)
  PROVE  IInv'
<1> DEFINE j == worker[w].job
<1>0. TypeOK /\ j \in Jobs
  BY DEF IInv, LeaseHeld
<1>1. PICK New \in SUBSET Absent :
        /\ job' \in [Jobs -> Rows]
        /\ \A i \in Jobs : i # j /\ i \notin New => job'[i] = job[i]
        /\ job'[j] = row
  BY <1>0, CommitEndShape
<1>2. /\ before' \subseteq Jobs \X Jobs
      /\ worker' = [worker EXCEPT ![w] = IdleProcess]
      /\ UNCHANGED <<request, requests, faults>>
  BY <1>0, CommitEndShape
<1>3. IdleProcess \in Processes
  BY TimingAssumption DEF IdleProcess, Processes
<1>4. TypeOK'
  BY <1>0, <1>1, <1>2, <1>3 DEF TypeOK
<1>5. \A v \in Workers : Busy(v)' => v # w /\ worker'[v] = worker[v] /\ Busy(v)
  BY <1>0, <1>2 DEF TypeOK, Busy, IdleProcess
<1>6. \A v \in Workers : v # w /\ Busy(v) /\ faults[worker[v].job].late = 0 =>
        worker[v].job # j /\ worker[v].job \notin New
  BY <1>0 DEF IInv, ExclusiveRun, LeaseHeld, Runs, Busy, Absent
<1>7. LeaseHeld'
  BY <1>1, <1>2, <1>5, <1>6 DEF IInv, LeaseHeld
<1>8. ExclusiveRun'
  BY <1>2, <1>5 DEF IInv, ExclusiveRun, Runs, Busy
<1> QED
  BY <1>4, <1>7, <1>8 DEF IInv

LEMMA SucceedKeeps == ASSUME IInv, NEW w \in Workers, Succeed(w) PROVE IInv'
<1>1. Busy(w) /\ worker[w].job \in Jobs
  BY DEF Succeed, Busy, IInv, LeaseHeld
<1>2. [job[worker[w].job] EXCEPT !.status = "SUCCEEDED", !.age = Lease] \in Rows
  BY <1>1, RowType DEF IInv, TypeOK
<1> QED
  BY <1>1, <1>2, CommitEndKeeps DEF Succeed

LEMMA FailKeeps == ASSUME IInv, NEW w \in Workers, Fail(w) PROVE IInv'
<1> DEFINE row == job[worker[w].job]
<1>1. Busy(w) /\ worker[w].job \in Jobs
  BY DEF Fail, Busy, IInv, LeaseHeld
<1>2. /\ 0 \in 0 .. RetryDelay /\ RetryDelay \in 0 .. RetryDelay
      /\ "DEAD" \in Status /\ "FAILED" \in Status
  BY TimingAssumption
<1>3. /\ [row EXCEPT !.status = "DEAD", !.age = Lease, !.due = 0] \in Rows
      /\ [row EXCEPT !.status = "FAILED", !.age = Lease, !.due = RetryDelay] \in Rows
  BY <1>1, <1>2, RowType DEF IInv, TypeOK
<1>4. CASE CommitEnd(w, [row EXCEPT !.status = "DEAD", !.age = Lease, !.due = 0], FALSE)
  BY <1>1, <1>3, <1>4, CommitEndKeeps
<1>5. CASE CommitEnd(w, [row EXCEPT !.status = "FAILED", !.age = Lease, !.due = RetryDelay],
                     TRUE)
  BY <1>1, <1>3, <1>5, CommitEndKeeps
<1> QED
  BY <1>4, <1>5 DEF Fail

LEMMA BeatKeeps == ASSUME IInv, NEW w \in Workers, Beat(w) PROVE IInv'
<1> DEFINE j == worker[w].job
           mine == job[j].status = "RUNNING" /\ job[j].owner = WorkerId[w]
<1>0. /\ Busy(w) /\ j \in Jobs
      /\ job \in [Jobs -> Rows] /\ worker \in [Workers -> Processes]
      /\ UNCHANGED <<before, request, requests, faults>>
  BY DEF Beat, IInv, LeaseHeld, TypeOK
<1>1. CASE mine /\ job' = [job EXCEPT ![j].age = 0]
                /\ worker' = [worker EXCEPT ![w].beat = "timely", ![w].left = BeatEvery]
  <2>1. job' \in [Jobs -> Rows]
    BY <1>0, <1>1, RowType
  <2>2. worker' \in [Workers -> Processes]
    <3>1. BeatEvery \in 0 .. BeatEvery
      BY TimingAssumption
    <3>2. worker' = [worker EXCEPT ![w] = [worker[w] EXCEPT !.beat = "timely",
                                                            !.left = BeatEvery]]
      BY <1>0, <1>1
    <3>3. [worker[w] EXCEPT !.beat = "timely", !.left = BeatEvery] \in Processes
      BY <1>0, <3>1 DEF Processes
    <3> QED
      BY <1>0, <3>2, <3>3
  <2>3. TypeOK'
    BY <1>0, <2>1, <2>2 DEF IInv, TypeOK
  <2>4. \A v \in Workers : worker'[v].pc = worker[v].pc /\ worker'[v].job = worker[v].job
    BY <1>0, <1>1 DEF Processes
  <2>5. LeaseHeld'
    <3> SUFFICES ASSUME NEW v \in Workers, Busy(v), faults[worker[v].job].late = 0
                 PROVE  LET i == worker[v].job IN
                          /\ job'[i].status = "RUNNING"
                          /\ job'[i].owner = WorkerId[v]
                          /\ worker'[v].beat = "timely"
                          /\ job'[i].age + worker'[v].left <= BeatEvery
      BY <1>0, <2>4 DEF LeaseHeld, IInv, Busy
    <3>1. /\ worker[v].job \in Jobs
          /\ job[worker[v].job].status = "RUNNING"
          /\ job[worker[v].job].owner = WorkerId[v]
          /\ worker[v].beat = "timely"
          /\ job[worker[v].job].age + worker[v].left <= BeatEvery
      BY DEF IInv, LeaseHeld
    <3>2. CASE v = w
      BY <3>1, <3>2, <1>0, <1>1, TimingAssumption DEF Rows, Processes
    <3>3. CASE v # w
      <4>1. worker[v].job # j
        BY <3>1, <3>3, <1>0 DEF IInv, ExclusiveRun, Runs, Busy
      <4> QED
        BY <3>1, <3>3, <4>1, <1>0, <1>1
    <3> QED
      BY <3>2, <3>3
  <2> QED
    BY <1>0, <2>3, <2>4, <2>5 DEF IInv, ExclusiveRun, Runs
<1>2. CASE ~mine /\ worker' = [worker EXCEPT ![w].beat = "off"] /\ UNCHANGED job
  <2>1. worker' \in [Workers -> Processes]
    BY <1>0, <1>2 DEF Processes
  <2>2. \A v \in Workers : /\ worker'[v].pc = worker[v].pc /\ worker'[v].job = worker[v].job
                           /\ worker'[v].left = worker[v].left
                           /\ v # w => worker'[v].beat = worker[v].beat
    BY <1>0, <1>2 DEF Processes
  <2>3. faults[j].late # 0
    BY <1>0, <1>2 DEF IInv, LeaseHeld
  <2>4. LeaseHeld'
    BY <1>0, <1>2, <2>2, <2>3 DEF IInv, LeaseHeld, Busy
  <2>5. TypeOK'
    BY <1>0, <1>2, <2>1 DEF IInv, TypeOK
  <2>6. ExclusiveRun'
    <3>1. ASSUME NEW v \in Workers, NEW i \in Jobs PROVE Runs(v, i)' => Runs(v, i)
      <4>1. worker'[v].pc = worker[v].pc /\ worker'[v].job = worker[v].job
        BY <2>2
      <4> QED
        BY <4>1 DEF Runs
    <3>2. \A i \in Jobs : faults'[i].late = faults[i].late
      BY <1>0
    <3> QED
      BY <3>1, <3>2 DEF IInv, ExclusiveRun
  <2> QED
    BY <2>4, <2>5, <2>6 DEF IInv
<1> QED
  BY <1>1, <1>2 DEF Beat

\* The steps of w that leave every row alone and every execution where it was.
LEMMA SameRunsKeeps ==
  ASSUME IInv, UNCHANGED <<job, faults>>, TypeOK',
         \A v \in Workers : Busy(v)' => /\ Busy(v)
                                        /\ worker'[v].job = worker[v].job
                                        /\ worker'[v].beat = worker[v].beat
                                        /\ worker'[v].left = worker[v].left
  PROVE  IInv'
<1>1. LeaseHeld'
  BY DEF IInv, LeaseHeld
<1>2. \A v \in Workers, i \in Jobs : Runs(v, i)' => Runs(v, i)
  BY DEF Runs, Busy
<1>3. ExclusiveRun'
  BY <1>2 DEF IInv, ExclusiveRun
<1> QED
  BY <1>1, <1>3 DEF IInv

LEMMA HandlerEnqueuesKeeps == ASSUME IInv, NEW w \in Workers, HandlerEnqueues(w) PROVE IInv'
<1> DEFINE k == job[worker[w].job].key
           T == {f \in Keys : f \in FollowOn[k] /\ (f \in Plain \/ ~HasActiveRow(f))}
           p == [worker[w] EXCEPT !.pc = "enqueued", !.todo = T]
<1>0. /\ worker[w].pc = "working" /\ worker \in [Workers -> Processes]
      /\ worker' = [worker EXCEPT ![w].pc = "enqueued", ![w].todo = T]
      /\ UNCHANGED <<job, before, request, requests, faults>>
  BY DEF HandlerEnqueues, IInv, TypeOK
<1> HIDE DEF T
<1>1. worker' = [worker EXCEPT ![w] = p]
  BY <1>0
<1>2. p \in Processes
  <2>1. T \in SUBSET Keys
    BY DEF T
  <2> QED
    BY <1>0, <2>1 DEF Processes
<1>3. TypeOK'
  BY <1>0, <1>1, <1>2 DEF IInv, TypeOK
<1>4. \A v \in Workers : Busy(v)' => /\ Busy(v)
                                     /\ worker'[v].job = worker[v].job
                                     /\ worker'[v].beat = worker[v].beat
                                     /\ worker'[v].left = worker[v].left
  BY <1>0, <1>1 DEF Busy, Processes
<1> QED
  BY <1>0, <1>3, <1>4, SameRunsKeeps

LEMMA RestartKeeps == ASSUME IInv, NEW w \in Workers, Restart(w) PROVE IInv'
<1>1. IdleProcess \in Processes
  BY TimingAssumption DEF IdleProcess, Processes
<1>2. TypeOK'
  BY <1>1 DEF Restart, IInv, TypeOK
<1>3. \A v \in Workers : Busy(v)' => v # w /\ worker'[v] = worker[v]
  BY DEF Restart, IInv, TypeOK, Busy, IdleProcess
<1> QED
  BY <1>2, <1>3, SameRunsKeeps DEF Restart, Busy

\* A fault only weakens what is promised about the row of the process it hits.
LEMMA FaultKeeps == ASSUME IInv, NEW w \in Workers, FaultStep(w) PROVE IInv'
<1> DEFINE j == worker[w].job
<1>0. /\ Busy(w) /\ j \in Jobs /\ UNCHANGED <<job, before, request, requests>>
      /\ faults \in [Jobs -> FaultCounts] /\ worker \in [Workers -> Processes]
  BY DEF FaultStep, Crash, BeatIsLate, IInv, LeaseHeld, TypeOK
<1>1. CASE Crash(w)
  <2> DEFINE down == [IdleProcess EXCEPT !.pc = "down"]
  <2>1. down \in Processes
    BY TimingAssumption DEF IdleProcess, Processes
  <2>2. /\ worker' = [worker EXCEPT ![w] = down]
        /\ faults' = [faults EXCEPT ![j].crashed = @ + 1]
    BY <1>1 DEF Crash
  <2>3. faults' \in [Jobs -> FaultCounts] /\ \A i \in Jobs : faults'[i].late = faults[i].late
    BY <1>0, <2>2 DEF FaultCounts
  <2>4. TypeOK'
    BY <1>0, <2>1, <2>2, <2>3 DEF IInv, TypeOK
  <2>5. \A v \in Workers : Busy(v)' => v # w /\ worker'[v] = worker[v] /\ Busy(v)
    BY <1>0, <2>2 DEF Busy, IdleProcess
  <2>6. LeaseHeld'
    BY <1>0, <2>3, <2>5 DEF IInv, LeaseHeld
  <2>7. \A v \in Workers, i \in Jobs : Runs(v, i)' => Runs(v, i)
    BY <2>5 DEF Runs, Busy
  <2>8. ExclusiveRun'
    BY <2>3, <2>7 DEF IInv, ExclusiveRun
  <2> QED
    BY <2>4, <2>6, <2>8 DEF IInv
<1>2. CASE BeatIsLate(w)
  <2>1. /\ worker' = [worker EXCEPT ![w].beat = "late"]
        /\ faults' = [faults EXCEPT ![j].late = @ + 1]
    BY <1>2 DEF BeatIsLate
  <2>2. faults' \in [Jobs -> FaultCounts]
    BY <1>0, <2>1 DEF FaultCounts
  <2>3. worker' \in [Workers -> Processes]
    BY <1>0, <2>1 DEF Processes
  <2>4. TypeOK'
    BY <1>0, <2>2, <2>3 DEF IInv, TypeOK
  <2>5. \A i \in Jobs : faults'[i].late = 0 => i # j /\ faults[i].late = 0
    BY <1>0, <2>1 DEF FaultCounts
  <2>6. \A v \in Workers : /\ worker'[v].pc = worker[v].pc /\ worker'[v].job = worker[v].job
                           /\ worker'[v].left = worker[v].left
                           /\ v # w => worker'[v].beat = worker[v].beat
    BY <1>0, <2>1 DEF Processes
  <2>7. LeaseHeld'
    <3> SUFFICES ASSUME NEW v \in Workers, Busy(v)'
                 PROVE  LET i == worker'[v].job IN
                          /\ i \in Jobs
                          /\ faults'[i].late = 0 =>
                               /\ job'[i].status = "RUNNING"
                               /\ job'[i].owner = WorkerId[v]
                               /\ worker'[v].beat = "timely"
                               /\ job'[i].age + worker'[v].left <= BeatEvery
      BY DEF LeaseHeld
    <3>1. worker'[v].pc = worker[v].pc /\ worker'[v].job = worker[v].job
      BY <2>6
    <3>2. Busy(v)
      BY <3>1 DEF Busy
    <3>3. worker[v].job \in Jobs
      BY <3>2 DEF IInv, LeaseHeld
    <3>4. CASE v = w
      BY <3>1, <3>3, <3>4, <2>5
    <3>5. CASE v # w
      <4>1. worker'[v] = worker[v]
        BY <3>5, <1>0, <2>1
      <4> QED
        BY <4>1, <3>2, <3>3, <2>5, <1>0 DEF IInv, LeaseHeld
    <3> QED
      BY <3>4, <3>5
  <2>8. ASSUME NEW v \in Workers, NEW i \in Jobs PROVE Runs(v, i)' => Runs(v, i)
    <3>1. worker'[v].pc = worker[v].pc /\ worker'[v].job = worker[v].job
      BY <2>6
    <3> QED
      BY <3>1 DEF Runs
  <2>9. ExclusiveRun'
    BY <2>5, <2>8 DEF IInv, ExclusiveRun
  <2> QED
    BY <2>4, <2>7, <2>9 DEF IInv
<1> QED
  BY <1>1, <1>2 DEF FaultStep

LEMMA TickKeeps == ASSUME IInv, Tick PROVE IInv'
<1>0. /\ job \in [Jobs -> Rows] /\ worker \in [Workers -> Processes]
      /\ UNCHANGED <<before, request, requests, faults>>
  BY DEF Tick, IInv, TypeOK
<1>1. job' \in [Jobs -> Rows]
  BY <1>0, TickedRowType DEF Tick, Waited
<1>2. ASSUME NEW v \in Workers
      PROVE  /\ worker'[v] \in Processes
             /\ worker'[v].pc = worker[v].pc /\ worker'[v].job = worker[v].job
             /\ worker'[v].beat = worker[v].beat
             /\ worker[v].beat = "timely" => worker[v].left \in Nat
                                            /\ worker'[v].left = worker[v].left - 1
  <2>1. worker[v] \in Processes /\ worker[v].left \in 0 .. BeatEvery
    BY <1>0 DEF Processes
  <2>2. worker[v].beat = "timely" => worker[v].left > 0
    BY DEF Tick
  <2>3. CASE worker[v].beat = "timely"
    <3>1. worker[v].left \in Nat /\ worker[v].left - 1 \in 0 .. BeatEvery
      BY <2>1, <2>2, <2>3, TimingAssumption
    <3>2. worker'[v] = [worker[v] EXCEPT !.left = worker[v].left - 1]
      BY <2>3 DEF Tick
    <3> QED
      BY <2>1, <2>3, <3>1, <3>2 DEF Processes
  <2>4. CASE worker[v].beat # "timely"
    <3>1. worker'[v] = [worker[v] EXCEPT !.left = worker[v].left]
      BY <2>4 DEF Tick
    <3> QED
      BY <2>1, <2>4, <3>1 DEF Processes
  <2> QED
    BY <2>3, <2>4
<1>3. worker' \in [Workers -> Processes]
  BY <1>2 DEF Tick
<1>4. TypeOK'
  BY <1>0, <1>1, <1>3 DEF IInv, TypeOK
<1>5. ASSUME NEW i \in Jobs
      PROVE  /\ job'[i].status = job[i].status /\ job'[i].owner = job[i].owner
             /\ job[i].age \in Nat
             /\ job[i].age < Lease => job'[i].age = job[i].age + 1
  <2>1. job[i] \in Rows /\ job[i].age \in Nat
    BY <1>0, TimingAssumption DEF Rows
  <2>2. job'[i] = [job[i] EXCEPT !.age = IF @ < Lease THEN @ + 1 ELSE Lease,
                                 !.due = IF @ > 0 THEN @ - 1 ELSE 0]
    BY DEF Tick, Waited
  <2> QED
    BY <2>1, <2>2 DEF Rows
<1>6. LeaseHeld'
  <2> SUFFICES ASSUME NEW v \in Workers, Busy(v), faults[worker[v].job].late = 0
               PROVE  LET i == worker[v].job IN
                        /\ job'[i].status = "RUNNING"
                        /\ job'[i].owner = WorkerId[v]
                        /\ worker'[v].beat = "timely"
                        /\ job'[i].age + worker'[v].left <= BeatEvery
    BY <1>0, <1>2 DEF LeaseHeld, IInv, Busy
  <2>1. /\ worker[v].job \in Jobs
        /\ job[worker[v].job].status = "RUNNING"
        /\ job[worker[v].job].owner = WorkerId[v]
        /\ worker[v].beat = "timely"
        /\ job[worker[v].job].age + worker[v].left <= BeatEvery
    BY DEF IInv, LeaseHeld
  <2>2. /\ job[worker[v].job].age \in Nat /\ worker[v].left \in Nat
        /\ worker'[v].left = worker[v].left - 1
    BY <2>1, <1>2, <1>5
  <2>3. job[worker[v].job].age < Lease
    BY <2>1, <2>2, TimingAssumption
  <2>4. job'[worker[v].job].age = job[worker[v].job].age + 1
    BY <2>1, <2>3, <1>5
  <2>5. job'[worker[v].job].age + worker'[v].left <= BeatEvery
    BY <2>1, <2>2, <2>4, TimingAssumption
  <2> QED
    BY <2>1, <2>5, <1>2, <1>5
<1>7. ASSUME NEW v \in Workers, NEW i \in Jobs PROVE Runs(v, i)' => Runs(v, i)
  <2>1. worker'[v].pc = worker[v].pc /\ worker'[v].job = worker[v].job
    BY <1>2
  <2> QED
    BY <2>1 DEF Runs
<1>8. ExclusiveRun'
  BY <1>0, <1>7 DEF IInv, ExclusiveRun
<1> QED
  BY <1>4, <1>6, <1>8 DEF IInv

LEMMA NextKeeps == IInv /\ [Next]_vars => IInv'
<1> SUFFICES ASSUME IInv, [Next]_vars PROVE IInv'
  OBVIOUS
<1>1. CASE RequesterStep
  BY <1>1, RequesterKeeps
<1>2. ASSUME NEW w \in Workers, NEW j \in Jobs, Claim(w, j) PROVE IInv'
  BY <1>2, ClaimKeeps
<1>3. ASSUME NEW w \in Workers, HandlerEnqueues(w) PROVE IInv'
  BY <1>3, HandlerEnqueuesKeeps
<1>4. ASSUME NEW w \in Workers, Succeed(w) PROVE IInv'
  BY <1>4, SucceedKeeps
<1>5. ASSUME NEW w \in Workers, Fail(w) PROVE IInv'
  BY <1>5, FailKeeps
<1>6. ASSUME NEW w \in Workers, Beat(w) PROVE IInv'
  BY <1>6, BeatKeeps
<1>7. ASSUME NEW w \in Workers, Restart(w) PROVE IInv'
  BY <1>7, RestartKeeps
<1>8. ASSUME NEW w \in Workers, FaultStep(w) PROVE IInv'
  BY <1>8, FaultKeeps
<1>9. CASE Tick
  BY <1>9, TickKeeps
<1>10. CASE UNCHANGED vars
  BY <1>10 DEF vars, IInv, TypeOK, LeaseHeld, ExclusiveRun, Runs, Busy
<1> QED
  BY <1>1, <1>2, <1>3, <1>4, <1>5, <1>6, <1>7, <1>8, <1>9, <1>10 DEF Next, WorkerStep

-------------------------------------------------------------------------------
\* The inductive invariant holds in every reachable state.
THEOREM Invariant == Spec => []IInv
<1>1. Init => IInv
  BY InitHolds
<1>2. IInv /\ [Next]_vars => IInv'
  BY NextKeeps
<1> QED
  BY <1>1, <1>2, PTL DEF Spec

\* Every variable keeps its type (the job table, the order of the queue, the processes).
THEOREM TypeCorrect == Spec => []TypeOK
<1>1. IInv => TypeOK
  BY DEF IInv
<1> QED
  BY <1>1, Invariant, PTL

\* claim_next_job with the heartbeat: a row is run by one process at a time unless a process
\* running it missed a heartbeat deadline, for any interval shorter than the lease.
THEOREM RunIsExclusive == Spec => []ExclusiveRun
<1>1. IInv => ExclusiveRun
  BY DEF IInv
<1> QED
  BY <1>1, Invariant, PTL

\* A commit leaves every other finished row alone, and its own row is not finished unless the
\* process was late: while it was not, the row is RUNNING and its own.
LEMMA CommitEndFinal ==
  ASSUME IInv, NEW w \in Workers, Busy(w), NEW row \in Rows, NEW tail \in BOOLEAN,
         CommitEnd(w, row, tail),
         NEW i \in Jobs, job[i].status \in Final, faults[i].late = 0
  PROVE  job'[i].status = job[i].status
<1>0. TypeOK /\ worker[w].job \in Jobs
  BY DEF IInv, LeaseHeld
<1>1. PICK New \in SUBSET Absent :
        /\ job' \in [Jobs -> Rows]
        /\ \A k \in Jobs : k # worker[w].job /\ k \notin New => job'[k] = job[k]
        /\ job'[worker[w].job] = row
  BY <1>0, CommitEndShape
<1>2. i # worker[w].job
  BY DEF IInv, LeaseHeld
<1>3. i \notin New
  BY DEF Absent
<1> QED
  BY <1>1, <1>2, <1>3

LEMMA StepKeepsFinal ==
  ASSUME IInv, [Next]_vars, NEW i \in Jobs, job[i].status \in Final, faults[i].late = 0
  PROVE  job'[i].status = job[i].status
<1>0. job \in [Jobs -> Rows]
  BY DEF IInv, TypeOK
<1>1. ASSUME NEW r \in Requesters, RequestInserts(r) PROVE job'[i].status = job[i].status
  BY <1>0, <1>1 DEF RequestInserts, Absent
<1>2. ASSUME NEW w \in Workers, NEW j \in Jobs, Claim(w, j)
      PROVE  job'[i].status = job[i].status
  <2>1. i # j
    BY <1>2 DEF Claim, Claimable
  <2> QED
    BY <1>0, <1>2, <2>1 DEF Claim
<1>3. ASSUME NEW w \in Workers, Beat(w) PROVE job'[i].status = job[i].status
  <2>1. CASE UNCHANGED job
    BY <2>1
  <2>2. CASE job' = [job EXCEPT ![worker[w].job].age = 0]
    BY <1>0, <2>2 DEF Rows
  <2> QED
    BY <1>3, <2>1, <2>2 DEF Beat
<1>4. ASSUME NEW w \in Workers, Succeed(w) PROVE job'[i].status = job[i].status
  <2>1. Busy(w) /\ worker[w].job \in Jobs
    BY <1>4 DEF Succeed, Busy, IInv, LeaseHeld
  <2>2. [job[worker[w].job] EXCEPT !.status = "SUCCEEDED", !.age = Lease] \in Rows
    BY <1>0, <2>1, RowType
  <2> QED
    BY <1>4, <2>1, <2>2, CommitEndFinal DEF Succeed
<1>5. ASSUME NEW w \in Workers, Fail(w) PROVE job'[i].status = job[i].status
  <2> DEFINE row == job[worker[w].job]
  <2>1. Busy(w) /\ worker[w].job \in Jobs
    BY <1>5 DEF Fail, Busy, IInv, LeaseHeld
  <2>2. /\ 0 \in 0 .. RetryDelay /\ RetryDelay \in 0 .. RetryDelay
        /\ "DEAD" \in Status /\ "FAILED" \in Status
    BY TimingAssumption
  <2>3. /\ [row EXCEPT !.status = "DEAD", !.age = Lease, !.due = 0] \in Rows
        /\ [row EXCEPT !.status = "FAILED", !.age = Lease, !.due = RetryDelay] \in Rows
    BY <1>0, <2>1, <2>2, RowType
  <2>4. CASE CommitEnd(w, [row EXCEPT !.status = "DEAD", !.age = Lease, !.due = 0], FALSE)
    BY <2>1, <2>3, <2>4, CommitEndFinal
  <2>5. CASE CommitEnd(w, [row EXCEPT !.status = "FAILED", !.age = Lease, !.due = RetryDelay],
                       TRUE)
    BY <2>1, <2>3, <2>5, CommitEndFinal
  <2> QED
    BY <1>5, <2>4, <2>5 DEF Fail
<1>6. CASE Tick
  <2>1. job'[i] = [job[i] EXCEPT !.age = IF @ < Lease THEN @ + 1 ELSE Lease,
                                 !.due = IF @ > 0 THEN @ - 1 ELSE 0]
    BY <1>6 DEF Tick, Waited
  <2> QED
    BY <1>0, <2>1 DEF Rows
<1>7. CASE UNCHANGED job
  BY <1>7
<1> QED
  BY <1>1, <1>2, <1>3, <1>4, <1>5, <1>6, <1>7
  DEF Next, RequesterStep, WorkerStep, FaultStep, RequestChecks, HandlerEnqueues, Crash,
      Restart, BeatIsLate, vars

\* mark_job_succeeded and mark_job_failed check no owner, yet they cannot reopen or overwrite
\* a finished row while no process running it missed a heartbeat deadline.
THEOREM FinalIsFinal == Spec => FinalStaysFinal
<1>1. IInv /\ [Next]_vars =>
        [\A j \in Jobs : job[j].status \in Final /\ faults[j].late = 0
                           => job'[j].status = job[j].status]_vars
  BY StepKeepsFinal
<1> QED
  BY <1>1, Invariant, PTL DEF Spec, FinalStaysFinal
-------------------------------------------------------------------------------
(* Attempts.  Let an execution be open while its failure would offer the row   *)
(* again.  Open executions, and the offer of the row itself, are covered by    *)
(* its faults: a claim uses up an offer, an end turns an open execution into   *)
(* an offer, and only a fault makes an offer out of a lock that is kept.       *)

\* The executions of j whose failure would offer the row again.
Reopening(j) == {w \in Workers : Runs(w, j) /\ ~Exhausted(worker[w].copy)}

\* w runs the execution of j that was started last.
Latest(w, j) == Runs(w, j) /\ worker[w].copy = job[j].attempts

\* The row waits for a claim, or its last execution no longer keeps the lock.
Offered(j) ==
  \/ job[j].status \in {"ABSENT", "QUEUED", "FAILED"}
  \/ job[j].status = "RUNNING" /\ \A w \in Workers : Latest(w, j) => worker[w].beat # "timely"

Spare(n) == IF n < MaxAttempts THEN 1 ELSE MaxAttempts - n

\* What j may still cost, in executions, is covered by the faults it has suffered.
AttemptsPaid ==
  \A j \in Jobs :
    Cardinality(Reopening(j)) + (IF Offered(j) THEN 1 ELSE 0)
      <= faults[j].crashed + faults[j].late + Spare(job[j].attempts)

\* The last execution of a running row owns it, and renews its lock unless it was late.
LatestHeld ==
  \A w \in Workers, j \in Jobs : Runs(w, j) =>
    /\ worker[w].copy <= job[j].attempts
    /\ job[j].status = "RUNNING" /\ Latest(w, j) =>
         /\ job[j].owner = WorkerId[w]
         /\ worker[w].beat # "off"
         /\ worker[w].beat = "timely" => job[j].age + worker[w].left <= BeatEvery

\* A row that is run, or that was ever inserted, has its columns.
RowsKept ==
  /\ \A w \in Workers : Busy(w) => job[worker[w].job].status # "ABSENT"
  /\ \A j \in Jobs : job[j].status # "ABSENT" => job[j].key \in Keys

Charged == LatestHeld /\ RowsKept /\ AttemptsPaid

-------------------------------------------------------------------------------
LEMMA ReopeningFinite ==
  /\ \A j : IsFiniteSet(Reopening(j)) /\ Cardinality(Reopening(j)) \in Nat
  /\ \A j : IsFiniteSet(Reopening(j)') /\ Cardinality(Reopening(j)') \in Nat
<1>1. \A j : Reopening(j) \in SUBSET Workers /\ Reopening(j)' \in SUBSET Workers
  BY DEF Reopening
<1>2. \A T \in SUBSET Workers : IsFiniteSet(T) /\ Cardinality(T) \in Nat
  BY FS_Subset, FS_CardinalityType, PopulationAssumption
<1> QED
  BY <1>1, <1>2

LEMMA SpareType ==
  /\ \A n \in Nat : Spare(n) \in Int /\ Spare(n) <= 1
  /\ \A n \in Nat : n + 1 < MaxAttempts => Spare(n + 1) = Spare(n)
  /\ \A n \in Nat : n + 1 >= MaxAttempts => Spare(n + 1) = Spare(n) - 1
BY ParameterAssumption DEF Spare

\* The row j costs no more than before, against no fewer faults.
LEMMA NoDearer ==
  ASSUME IInv, IInv', AttemptsPaid, NEW j \in Jobs,
         Reopening(j)' \subseteq Reopening(j), Offered(j)' => Offered(j),
         Spare(job'[j].attempts) >= Spare(job[j].attempts),
         faults'[j].crashed + faults'[j].late >= faults[j].crashed + faults[j].late
  PROVE  Cardinality(Reopening(j)') + (IF Offered(j)' THEN 1 ELSE 0)
           <= faults'[j].crashed + faults'[j].late + Spare(job'[j].attempts)
<1>1. Cardinality(Reopening(j)') <= Cardinality(Reopening(j))
  BY ReopeningFinite, FS_Subset
<1>2. /\ faults[j].crashed \in Nat /\ faults[j].late \in Nat
      /\ faults'[j].crashed \in Nat /\ faults'[j].late \in Nat
      /\ job[j].attempts \in Nat /\ job'[j].attempts \in Nat
  BY DEF IInv, TypeOK, FaultCounts, Rows
<1>3. Spare(job[j].attempts) \in Int /\ Spare(job'[j].attempts) \in Int
  BY <1>2, SpareType
<1>4. Cardinality(Reopening(j)) + (IF Offered(j) THEN 1 ELSE 0)
        <= faults[j].crashed + faults[j].late + Spare(job[j].attempts)
  BY DEF AttemptsPaid
<1> HIDE DEF Reopening, Offered, Spare
<1> QED
  BY <1>1, <1>2, <1>3, <1>4, ReopeningFinite

\* An execution that could have offered the row again is over: the row may be offered.
LEMMA PaidByItsEnd ==
  ASSUME IInv, IInv', AttemptsPaid, NEW j \in Jobs, NEW w \in Reopening(j),
         Reopening(j)' \subseteq Reopening(j) \ {w},
         job'[j].attempts = job[j].attempts, UNCHANGED faults
  PROVE  Cardinality(Reopening(j)') + (IF Offered(j)' THEN 1 ELSE 0)
           <= faults'[j].crashed + faults'[j].late + Spare(job'[j].attempts)
<1>1. Cardinality(Reopening(j) \ {w}) = Cardinality(Reopening(j)) - 1
  BY ReopeningFinite, FS_RemoveElement
<1>2. Cardinality(Reopening(j)') <= Cardinality(Reopening(j) \ {w})
  BY ReopeningFinite, FS_RemoveElement, FS_Subset
<1>3. /\ faults[j].crashed \in Nat /\ faults[j].late \in Nat
      /\ job[j].attempts \in Nat
  BY DEF IInv, TypeOK, FaultCounts, Rows
<1>4. Spare(job[j].attempts) \in Int
  BY <1>3, SpareType
<1>5. Cardinality(Reopening(j)) + (IF Offered(j) THEN 1 ELSE 0)
        <= faults[j].crashed + faults[j].late + Spare(job[j].attempts)
  BY DEF AttemptsPaid
<1> HIDE DEF Reopening, Offered, Spare
<1> QED
  BY <1>1, <1>2, <1>3, <1>4, <1>5, ReopeningFinite

\* A fault pays for the execution that may take the row over.
LEMMA PaidByFault ==
  ASSUME IInv, IInv', AttemptsPaid, NEW j \in Jobs,
         Reopening(j)' \subseteq Reopening(j),
         job'[j].attempts = job[j].attempts,
         faults'[j].crashed + faults'[j].late = faults[j].crashed + faults[j].late + 1
  PROVE  Cardinality(Reopening(j)') + (IF Offered(j)' THEN 1 ELSE 0)
           <= faults'[j].crashed + faults'[j].late + Spare(job'[j].attempts)
<1>1. Cardinality(Reopening(j)') <= Cardinality(Reopening(j))
  BY ReopeningFinite, FS_Subset
<1>2. /\ faults[j].crashed \in Nat /\ faults[j].late \in Nat
      /\ faults'[j].crashed \in Nat /\ faults'[j].late \in Nat
      /\ job[j].attempts \in Nat
  BY DEF IInv, TypeOK, FaultCounts, Rows
<1>3. Spare(job[j].attempts) \in Int
  BY <1>2, SpareType
<1>4. Cardinality(Reopening(j)) + (IF Offered(j) THEN 1 ELSE 0)
        <= faults[j].crashed + faults[j].late + Spare(job[j].attempts)
  BY DEF AttemptsPaid
<1> HIDE DEF Reopening, Offered, Spare
<1> QED
  BY <1>1, <1>2, <1>3, <1>4, ReopeningFinite

\* A claim takes an offer: one more execution, which can offer the row again only while
\* attempts are left.
LEMMA PaidByOffer ==
  ASSUME IInv, IInv', AttemptsPaid, NEW j \in Jobs, NEW w \in Workers,
         Offered(j), ~Offered(j)', UNCHANGED faults,
         job'[j].attempts = job[j].attempts + 1,
         worker'[w].copy = job[j].attempts + 1,
         Reopening(j)' \subseteq Reopening(j) \cup {w}
  PROVE  Cardinality(Reopening(j)') + (IF Offered(j)' THEN 1 ELSE 0)
           <= faults'[j].crashed + faults'[j].late + Spare(job'[j].attempts)
<1> DEFINE n == job[j].attempts
<1>1. /\ faults[j].crashed \in Nat /\ faults[j].late \in Nat /\ n \in Nat
  BY DEF IInv, TypeOK, FaultCounts, Rows
<1>2. Spare(n) \in Int /\ Spare(n + 1) \in Int
  BY <1>1, SpareType
<1>3. Cardinality(Reopening(j)) + 1 <= faults[j].crashed + faults[j].late + Spare(n)
  BY DEF AttemptsPaid
<1>4. CASE n + 1 < MaxAttempts
  <2>1. Spare(n + 1) = Spare(n)
    BY <1>1, <1>4, SpareType
  <2>2. Cardinality(Reopening(j)') <= Cardinality(Reopening(j) \cup {w})
    BY ReopeningFinite, FS_AddElement, FS_Subset
  <2>3. Cardinality(Reopening(j) \cup {w}) <= Cardinality(Reopening(j)) + 1
    <3>1. IsFiniteSet(Reopening(j)) /\ Cardinality(Reopening(j)) \in Nat
      BY ReopeningFinite
    <3>2. Cardinality(Reopening(j) \cup {w}) = IF w \in Reopening(j)
            THEN Cardinality(Reopening(j)) ELSE Cardinality(Reopening(j)) + 1
      BY <3>1, FS_AddElement
    <3> HIDE DEF Reopening
    <3> QED
      BY <3>1, <3>2
  <2>4. Cardinality(Reopening(j) \cup {w}) \in Nat
    BY ReopeningFinite, FS_AddElement, FS_CardinalityType
  <2>5. faults' = faults /\ job'[j].attempts = n + 1 /\ ~Offered(j)'
    OBVIOUS
  <2> HIDE DEF Reopening, Offered, Spare, n
  <2> QED
    BY <1>1, <1>2, <1>3, <2>1, <2>2, <2>3, <2>4, <2>5, ReopeningFinite
<1>5. CASE n + 1 >= MaxAttempts
  <2>1. Spare(n + 1) = Spare(n) - 1
    BY <1>1, <1>5, SpareType
  <2>2. w \notin Reopening(j)'
    BY <1>5 DEF Reopening, Exhausted
  <2>3. Cardinality(Reopening(j)') <= Cardinality(Reopening(j))
    BY <2>2, ReopeningFinite, FS_Subset
  <2> HIDE DEF Reopening, Offered, Spare
  <2> QED
    BY <1>1, <1>2, <1>3, <2>1, <2>3, ReopeningFinite
<1> QED
  BY <1>1, <1>4, <1>5, ParameterAssumption

-------------------------------------------------------------------------------
LEMMA InitCharged == Init => Charged
<1> SUFFICES ASSUME Init PROVE Charged
  OBVIOUS
<1>1. \A w \in Workers : ~Busy(w)
  BY DEF Init, Busy, IdleProcess
<1>2. \A j \in Jobs : Reopening(j) = {}
  BY <1>1 DEF Reopening, Runs, Busy
<1>3. AttemptsPaid
  <2> SUFFICES ASSUME NEW j \in Jobs
               PROVE  Cardinality(Reopening(j)) + (IF Offered(j) THEN 1 ELSE 0)
                        <= faults[j].crashed + faults[j].late + Spare(job[j].attempts)
    BY DEF AttemptsPaid
  <2>1. Cardinality(Reopening(j)) = 0
    BY <1>2, FS_EmptySet
  <2>2. faults[j].crashed = 0 /\ faults[j].late = 0 /\ job[j].attempts = 0
    BY DEF Init, AbsentRow
  <2>3. Spare(0) = 1
    BY ParameterAssumption DEF Spare
  <2> QED
    BY <2>1, <2>2, <2>3
<1>4. LatestHeld
  BY <1>1 DEF LatestHeld, Runs, Busy
<1>5. RowsKept
  BY <1>1 DEF RowsKept, Init, AbsentRow
<1> QED
  BY <1>3, <1>4, <1>5 DEF Charged

\* A step that starts no execution and changes only the rows of New, which it inserts.
LEMMA RequesterCharged == ASSUME IInv, Charged, RequesterStep PROVE Charged'
<1>0. IInv'
  BY RequesterKeeps
<1>1. CASE \E r \in Requesters, k \in Keys : RequestChecks(r, k)
  <2>1. UNCHANGED <<job, worker, faults>>
    BY <1>1 DEF RequestChecks
  <2> QED
    BY <2>1 DEF Charged, LatestHeld, RowsKept, AttemptsPaid, Runs, Busy, Latest, Reopening, Offered
<1>2. ASSUME NEW r \in Requesters, RequestInserts(r) PROVE Charged'
  <2>1. PICK i \in Absent : job' = [job EXCEPT ![i] = NewRow(request[r])]
    BY <1>2 DEF RequestInserts
  <2>2. UNCHANGED <<worker, faults>>
    BY <1>2 DEF RequestInserts
  <2>3. request[r] \in Keys
    BY <1>2 DEF RequestInserts, IInv, TypeOK
  <2>4. i \in Jobs /\ job[i].status = "ABSENT" /\ job \in [Jobs -> Rows]
    BY DEF Absent, IInv, TypeOK
  <2>5. job'[i].status = "QUEUED" /\ job'[i].key = request[r] /\ job'[i].attempts = 0
    BY <2>1, <2>4 DEF NewRow, AbsentRow
  <2>6. \A w \in Workers : Busy(w) => worker[w].job # i
    BY <2>4 DEF Charged, RowsKept
  <2>7. RowsKept'
    BY <2>1, <2>2, <2>3, <2>4, <2>5, <2>6 DEF Charged, RowsKept, Busy
  <2>8. LatestHeld'
    BY <2>1, <2>2, <2>4, <2>6 DEF Charged, LatestHeld, Runs, Busy, Latest
  <2>9. AttemptsPaid'
    <3> SUFFICES ASSUME NEW j \in Jobs
                 PROVE  Cardinality(Reopening(j)') + (IF Offered(j)' THEN 1 ELSE 0)
                          <= faults'[j].crashed + faults'[j].late + Spare(job'[j].attempts)
      BY DEF AttemptsPaid
    <3>1. Reopening(j)' \subseteq Reopening(j)
      BY <2>2 DEF Reopening, Runs
    <3>2. Offered(j)' => Offered(j)
      BY <2>1, <2>2, <2>4 DEF Offered, Latest, Runs
    <3>3. Spare(job'[j].attempts) >= Spare(job[j].attempts)
      <4>1. job[j].attempts \in Nat
        BY <2>4 DEF Rows
      <4>2. CASE j = i
        BY <4>1, <4>2, <2>5, SpareType, ParameterAssumption DEF Spare
      <4>3. CASE j # i
        BY <4>1, <4>3, <2>1, <2>4, SpareType
      <4> QED
        BY <4>2, <4>3
    <3>4. faults'[j].crashed + faults'[j].late >= faults[j].crashed + faults[j].late
      BY <2>2 DEF IInv, TypeOK, FaultCounts
    <3> QED
      BY <1>0, <3>1, <3>2, <3>3, <3>4, NoDearer DEF Charged
  <2> QED
    BY <2>7, <2>8, <2>9 DEF Charged
<1> QED
  BY <1>1, <1>2 DEF RequesterStep

LEMMA ClaimCharged ==
  ASSUME IInv, Charged, NEW w \in Workers, NEW j \in Jobs, Claim(w, j)
  PROVE  Charged'
<1>0. IInv' /\ job \in [Jobs -> Rows] /\ worker \in [Workers -> Processes]
  BY ClaimKeeps DEF IInv, TypeOK
<1>1. /\ job' = [job EXCEPT ![j] = [job[j] EXCEPT !.status = "RUNNING", !.owner = WorkerId[w],
                                                  !.age = 0, !.attempts = @ + 1]]
      /\ worker' = [worker EXCEPT ![w] =
                      [pc |-> "working", job |-> j, copy |-> job[j].attempts + 1,
                       beat |-> "timely", left |-> BeatEvery, todo |-> {}]]
      /\ UNCHANGED faults /\ worker[w].pc = "idle" /\ Claimable(j)
  BY DEF Claim
<1>2. /\ job'[j].status = "RUNNING" /\ job'[j].owner = WorkerId[w] /\ job'[j].age = 0
      /\ job'[j].attempts = job[j].attempts + 1 /\ job'[j].key = job[j].key
      /\ \A i \in Jobs : i # j => job'[i] = job[i]
  BY <1>0, <1>1 DEF Rows
<1>3. /\ worker'[w].pc = "working" /\ worker'[w].job = j
      /\ worker'[w].copy = job[j].attempts + 1
      /\ worker'[w].beat = "timely" /\ worker'[w].left = BeatEvery
      /\ \A v \in Workers : v # w => worker'[v] = worker[v]
  BY <1>0, <1>1
<1>4. \A v \in Workers, i \in Jobs : v # w => (Runs(v, i)' <=> Runs(v, i))
  BY <1>3 DEF Runs
<1>5. /\ \A i \in Jobs : ~Runs(w, i)
      /\ Runs(w, j)' /\ \A i \in Jobs : Runs(w, i)' => i = j
  BY <1>1, <1>3 DEF Runs
<1>6. job[j].attempts \in Nat /\ \A v \in Workers : worker[v].copy \in Nat
  BY <1>0 DEF Rows, Processes
<1>7. RowsKept'
  <2>1. job[j].status # "ABSENT"
    BY <1>1 DEF Claimable
  <2>2. ASSUME NEW v \in Workers, Busy(v)' PROVE job'[worker'[v].job].status # "ABSENT"
    <3>1. CASE v = w
      BY <3>1, <1>2, <1>3
    <3>2. CASE v # w
      <4>1. worker'[v] = worker[v] /\ Busy(v)
        BY <3>2, <2>2, <1>3 DEF Busy
      <4>2. worker[v].job \in Jobs /\ job[worker[v].job].status # "ABSENT"
        BY <4>1 DEF IInv, LeaseHeld, Charged, RowsKept
      <4> QED
        BY <4>1, <4>2, <1>2
    <3> QED
      BY <3>1, <3>2
  <2>3. \A i \in Jobs : job'[i].status # "ABSENT" => job'[i].key \in Keys
    BY <1>2, <2>1 DEF Charged, RowsKept
  <2> QED
    BY <2>2, <2>3 DEF RowsKept
<1>8. LatestHeld'
  <2> SUFFICES ASSUME NEW v \in Workers, NEW i \in Jobs, Runs(v, i)'
               PROVE  /\ worker'[v].copy <= job'[i].attempts
                      /\ job'[i].status = "RUNNING" /\ Latest(v, i)' =>
                           /\ job'[i].owner = WorkerId[v]
                           /\ worker'[v].beat # "off"
                           /\ worker'[v].beat = "timely" =>
                                job'[i].age + worker'[v].left <= BeatEvery
    BY DEF LatestHeld
  <2>1. CASE v = w
    BY <2>1, <1>2, <1>3, <1>5, <1>6, TimingAssumption
  <2>2. CASE v # w /\ i # j
    <3>1. Runs(v, i) /\ (Latest(v, i)' <=> Latest(v, i))
      BY <2>2, <1>2, <1>3, <1>4 DEF Latest
    <3> QED
      BY <2>2, <3>1, <1>2, <1>3 DEF Charged, LatestHeld
  <2>3. CASE v # w /\ i = j
    <3>1. worker[v].copy <= job[j].attempts
      BY <2>3, <1>4 DEF Charged, LatestHeld
    <3>2. ~Latest(v, i)'
      BY <2>3, <3>1, <1>2, <1>3, <1>6 DEF Latest
    <3> QED
      BY <2>3, <3>1, <3>2, <1>2, <1>3, <1>6
  <2> QED
    BY <2>1, <2>2, <2>3
<1>9. AttemptsPaid'
  <2> SUFFICES ASSUME NEW i \in Jobs
               PROVE  Cardinality(Reopening(i)') + (IF Offered(i)' THEN 1 ELSE 0)
                        <= faults'[i].crashed + faults'[i].late + Spare(job'[i].attempts)
    BY DEF AttemptsPaid
  <2>1. CASE i = j
    <3>1. Offered(j)
      <4>1. CASE job[j].status \in {"QUEUED", "FAILED"}
        BY <4>1 DEF Offered
      <4>2. CASE job[j].status = "RUNNING" /\ Stale(j)
        <5>1. ASSUME NEW v \in Workers, Latest(v, j), worker[v].beat = "timely" PROVE FALSE
          <6>1. job[j].age + worker[v].left <= BeatEvery
            BY <4>2, <5>1 DEF Charged, LatestHeld, Latest
          <6>2. job[j].age \in Nat /\ worker[v].left \in Nat
            BY <1>0, TimingAssumption DEF Rows, Processes
          <6> QED
            BY <4>2, <6>1, <6>2, TimingAssumption DEF Stale
        <5> QED
          BY <4>2, <5>1 DEF Offered
      <4> QED
        BY <1>1, <4>1, <4>2 DEF Claimable
    <3>2. ~Offered(j)'
      BY <1>2, <1>3, <1>5 DEF Offered, Latest
    <3>3. Reopening(j)' \subseteq Reopening(j) \cup {w}
      BY <1>3, <1>4 DEF Reopening
    <3> QED
      BY <2>1, <3>1, <3>2, <3>3, <1>0, <1>1, <1>2, <1>3, PaidByOffer DEF Charged
  <2>2. CASE i # j
    <3>1. Reopening(i)' \subseteq Reopening(i)
      BY <2>2, <1>3, <1>4, <1>5 DEF Reopening
    <3>2. Offered(i)' => Offered(i)
      BY <2>2, <1>2, <1>3, <1>4, <1>5 DEF Offered, Latest
    <3>3. /\ Spare(job'[i].attempts) >= Spare(job[i].attempts)
          /\ faults'[i].crashed + faults'[i].late >= faults[i].crashed + faults[i].late
      BY <2>2, <1>0, <1>1, <1>2, SpareType DEF IInv, TypeOK, FaultCounts, Rows
    <3> QED
      BY <1>0, <3>1, <3>2, <3>3, NoDearer DEF Charged
  <2> QED
    BY <2>1, <2>2
<1> QED
  BY <1>7, <1>8, <1>9 DEF Charged

\* What a commit that ends an execution does to the table, with the inserted rows named.
LEMMA CommitEndRows ==
  ASSUME IInv, RowsKept, NEW w \in Workers, Busy(w), NEW row \in Rows, NEW tail \in BOOLEAN,
         CommitEnd(w, row, tail)
  PROVE  \E id \in [worker[w].todo -> Absent] :
           /\ \A a, b \in worker[w].todo : id[a] = id[b] => a = b
           /\ \A k \in worker[w].todo : job'[id[k]] = NewRow(k)
           /\ \A i \in Jobs : i # worker[w].job /\ (\A k \in worker[w].todo : id[k] # i)
                                => job'[i] = job[i]
           /\ job'[worker[w].job] = row
<1> DEFINE j == worker[w].job
           K == worker[w].todo
<1>1. PICK id \in [K -> Absent] :
        /\ \A a, b \in K : id[a] = id[b] => a = b
        /\ job' = [i \in Jobs |-> IF i = j THEN row
                                  ELSE IF i \in {id[k] : k \in K}
                                       THEN NewRow(CHOOSE k \in K : id[k] = i)
                                       ELSE job[i]]
  BY DEF CommitEnd
<1>2. j \in Jobs /\ job[j].status # "ABSENT"
  BY DEF IInv, LeaseHeld, RowsKept
<1>3. ASSUME NEW k \in K PROVE job'[id[k]] = NewRow(k)
  <2>1. id[k] \in Jobs /\ id[k] # j
    BY <1>2 DEF Absent
  <2>2. (CHOOSE l \in K : id[l] = id[k]) = k
    BY <1>1
  <2> QED
    BY <1>1, <2>1, <2>2
<1>4. \A i \in Jobs : i # j /\ (\A k \in K : id[k] # i) => job'[i] = job[i]
  BY <1>1
<1>5. job'[j] = row
  BY <1>1, <1>2
<1> QED
  BY <1>1, <1>3, <1>4, <1>5

\* The end of an execution: the row is offered again only by one that had attempts left.
LEMMA CommitEndCharged ==
  ASSUME IInv, Charged, NEW w \in Workers, Busy(w), NEW row \in Rows, NEW tail \in BOOLEAN,
         CommitEnd(w, row, tail),
         row.status # "ABSENT", row.status # "RUNNING",
         row.attempts = job[worker[w].job].attempts, row.key = job[worker[w].job].key,
         row.status \in {"QUEUED", "FAILED"} => ~Exhausted(worker[w].copy)
  PROVE  Charged'
<1> DEFINE j == worker[w].job
           K == worker[w].todo
<1>0. IInv' /\ j \in Jobs /\ job \in [Jobs -> Rows] /\ worker \in [Workers -> Processes]
  BY CommitEndKeeps DEF IInv, LeaseHeld, TypeOK
<1>1. PICK id \in [K -> Absent] :
        /\ \A k \in K : job'[id[k]] = NewRow(k)
        /\ \A i \in Jobs : i # j /\ (\A k \in K : id[k] # i) => job'[i] = job[i]
        /\ job'[j] = row
  BY CommitEndRows DEF Charged
<1>2. worker' = [worker EXCEPT ![w] = IdleProcess] /\ UNCHANGED faults
  BY DEF CommitEnd
<1>3. K \subseteq Keys
  BY <1>0 DEF Processes
<1> HIDE DEF K
<1>4. ASSUME NEW i \in Jobs, i # j, job[i].status # "ABSENT" PROVE job'[i] = job[i]
  BY <1>1, <1>4 DEF Absent
<1>5. ASSUME NEW i \in Jobs, i # j, job[i].status = "ABSENT"
      PROVE  job'[i] = job[i] \/ \E k \in K : job'[i] = NewRow(k)
  BY <1>1, <1>5
<1>6. /\ ~Busy(w)' /\ \A i : ~Runs(w, i)'
      /\ \A v \in Workers : v # w => worker'[v] = worker[v]
  BY <1>0, <1>2 DEF Busy, Runs, IdleProcess
<1>7. \A v \in Workers, i \in Jobs : Runs(v, i)' => v # w /\ Runs(v, i)
  BY <1>6 DEF Runs
<1>8. \A v \in Workers, i \in Jobs : Runs(v, i) => job[i].status # "ABSENT"
  BY DEF Charged, RowsKept, Runs, Busy
<1>9. RowsKept'
  <2>1. ASSUME NEW v \in Workers, Busy(v)' PROVE job'[worker'[v].job].status # "ABSENT"
    <3>1. v # w /\ worker'[v] = worker[v] /\ Busy(v)
      BY <2>1, <1>6 DEF Busy
    <3>2. worker[v].job \in Jobs /\ job[worker[v].job].status # "ABSENT"
      BY <3>1 DEF IInv, LeaseHeld, Charged, RowsKept
    <3> QED
      BY <3>1, <3>2, <1>1, <1>4
  <2>2. ASSUME NEW i \in Jobs, job'[i].status # "ABSENT" PROVE job'[i].key \in Keys
    <3>1. CASE i = j
      BY <3>1, <1>1 DEF Charged, RowsKept
    <3>2. CASE i # j /\ job[i].status # "ABSENT"
      BY <3>2, <1>4 DEF Charged, RowsKept
    <3>3. CASE i # j /\ job[i].status = "ABSENT"
      BY <3>3, <2>2, <1>3, <1>5 DEF NewRow, AbsentRow
    <3> QED
      BY <3>1, <3>2, <3>3
  <2> QED
    BY <2>1, <2>2 DEF RowsKept
<1>10. LatestHeld'
  <2> SUFFICES ASSUME NEW v \in Workers, NEW i \in Jobs, Runs(v, i)'
               PROVE  /\ worker'[v].copy <= job'[i].attempts
                      /\ job'[i].status = "RUNNING" /\ Latest(v, i)' =>
                           /\ job'[i].owner = WorkerId[v]
                           /\ worker'[v].beat # "off"
                           /\ worker'[v].beat = "timely" =>
                                job'[i].age + worker'[v].left <= BeatEvery
    BY DEF LatestHeld
  <2>1. v # w /\ Runs(v, i) /\ worker'[v] = worker[v]
    BY <1>6, <1>7
  <2>2. CASE i = j
    BY <2>1, <2>2, <1>1 DEF Charged, LatestHeld
  <2>3. CASE i # j
    <3>1. job'[i] = job[i]
      BY <2>1, <2>3, <1>4, <1>8
    <3>2. Latest(v, i)' <=> Latest(v, i)
      BY <2>1, <3>1 DEF Latest, Runs
    <3> QED
      BY <2>1, <3>1, <3>2 DEF Charged, LatestHeld
  <2> QED
    BY <2>2, <2>3
<1>11. AttemptsPaid'
  <2> SUFFICES ASSUME NEW i \in Jobs
               PROVE  Cardinality(Reopening(i)') + (IF Offered(i)' THEN 1 ELSE 0)
                        <= faults'[i].crashed + faults'[i].late + Spare(job'[i].attempts)
    BY DEF AttemptsPaid
  <2>1. Reopening(i)' \subseteq Reopening(i) \ {w}
    BY <1>6, <1>7 DEF Reopening
  <2>2. /\ faults'[i].crashed + faults'[i].late >= faults[i].crashed + faults[i].late
        /\ job[i].attempts \in Nat
    BY <1>0, <1>2 DEF IInv, TypeOK, FaultCounts, Rows
  <2>3. CASE i = j /\ row.status \in {"QUEUED", "FAILED"}
    <3>1. w \in Reopening(j)
      BY <2>3, <1>0 DEF Reopening, Runs, Busy
    <3> QED
      BY <2>1, <2>3, <3>1, <1>0, <1>1, <1>2, PaidByItsEnd DEF Charged
  <2>4. CASE i = j /\ row.status \notin {"QUEUED", "FAILED"}
    <3>1. ~Offered(i)'
      BY <2>4, <1>1 DEF Offered
    <3>2. Spare(job'[i].attempts) >= Spare(job[i].attempts)
      BY <2>2, <2>4, <1>1, SpareType
    <3> QED
      BY <1>0, <2>1, <2>2, <3>1, <3>2, NoDearer DEF Charged
  <2>5. CASE i # j /\ job[i].status # "ABSENT"
    <3>1. job'[i] = job[i]
      BY <2>5, <1>4
    <3>2. Offered(i)' => Offered(i)
      <4>1. \A v \in Workers : Latest(v, i) => v # w /\ Latest(v, i)'
        BY <2>5, <3>1, <1>6 DEF Latest, Runs
      <4> QED
        BY <3>1, <4>1, <1>6 DEF Offered
    <3>3. Spare(job'[i].attempts) >= Spare(job[i].attempts)
      BY <2>2, <3>1, SpareType
    <3> QED
      BY <1>0, <2>1, <2>2, <3>2, <3>3, NoDearer DEF Charged
  <2>6. CASE i # j /\ job[i].status = "ABSENT"
    <3>1. Offered(i)
      BY <2>6 DEF Offered
    <3>2. Spare(job'[i].attempts) >= Spare(job[i].attempts)
      <4>1. CASE job'[i] = job[i]
        BY <2>2, <4>1, SpareType
      <4>2. CASE \E k \in K : job'[i] = NewRow(k)
        <5>1. job'[i].attempts = 0
          BY <4>2 DEF NewRow, AbsentRow
        <5> QED
          BY <2>2, <5>1, SpareType, ParameterAssumption DEF Spare
      <4> QED
        BY <2>6, <4>1, <4>2, <1>5
    <3> QED
      BY <1>0, <2>1, <2>2, <3>1, <3>2, NoDearer DEF Charged
  <2> QED
    BY <2>3, <2>4, <2>5, <2>6
<1> QED
  BY <1>9, <1>10, <1>11 DEF Charged

LEMMA SucceedCharged == ASSUME IInv, Charged, NEW w \in Workers, Succeed(w) PROVE Charged'
<1> DEFINE row == [job[worker[w].job] EXCEPT !.status = "SUCCEEDED", !.age = Lease]
<1>1. Busy(w) /\ worker[w].job \in Jobs /\ CommitEnd(w, row, FALSE)
  BY DEF Succeed, Busy, IInv, LeaseHeld
<1>2. row \in Rows
  BY <1>1, RowType DEF IInv, TypeOK
<1>3. /\ row.status = "SUCCEEDED" /\ row.attempts = job[worker[w].job].attempts
      /\ row.key = job[worker[w].job].key
  BY <1>1 DEF IInv, TypeOK, Rows
<1> QED
  BY <1>1, <1>2, <1>3, CommitEndCharged

LEMMA FailCharged == ASSUME IInv, Charged, NEW w \in Workers, Fail(w) PROVE Charged'
<1> DEFINE row == job[worker[w].job]
           dead == [row EXCEPT !.status = "DEAD", !.age = Lease, !.due = 0]
           failed == [row EXCEPT !.status = "FAILED", !.age = Lease, !.due = RetryDelay]
<1>1. Busy(w) /\ worker[w].job \in Jobs
  BY DEF Fail, Busy, IInv, LeaseHeld
<1>2. 0 \in 0 .. RetryDelay /\ RetryDelay \in 0 .. RetryDelay
  BY TimingAssumption
<1>3. dead \in Rows /\ failed \in Rows
  BY <1>1, <1>2, RowType DEF IInv, TypeOK
<1>4. /\ dead.status = "DEAD" /\ failed.status = "FAILED"
      /\ dead.attempts = row.attempts /\ failed.attempts = row.attempts
      /\ dead.key = row.key /\ failed.key = row.key
  BY <1>1 DEF IInv, TypeOK, Rows
<1>5. CASE CommitEnd(w, dead, FALSE)
  BY <1>1, <1>3, <1>4, <1>5, CommitEndCharged
<1>6. CASE ~Exhausted(worker[w].copy) /\ CommitEnd(w, failed, TRUE)
  BY <1>1, <1>3, <1>4, <1>6, CommitEndCharged
<1> QED
  BY <1>5, <1>6 DEF Fail

\* A step that changes no row, no execution and no heartbeat.
LEMMA SameExecutions ==
  ASSUME IInv, IInv', Charged, UNCHANGED <<job, faults>>,
         \A v \in Workers :
           /\ Busy(v)' <=> Busy(v)
           /\ Busy(v) => /\ worker'[v].job = worker[v].job
                         /\ worker'[v].copy = worker[v].copy
                         /\ worker'[v].beat = worker[v].beat
                         /\ worker'[v].left = worker[v].left
  PROVE  Charged'
<1>1. \A v \in Workers, i \in Jobs : Runs(v, i)' <=> Runs(v, i)
  BY DEF Runs, Busy
<1>2. \A v \in Workers, i \in Jobs : Latest(v, i)' <=> Latest(v, i)
  BY <1>1 DEF Latest, Runs, Busy
<1>3. RowsKept'
  BY DEF Charged, RowsKept
<1>4. LatestHeld'
  BY <1>1, <1>2 DEF Charged, LatestHeld, Runs, Busy
<1>5. \A i \in Jobs : Reopening(i)' = Reopening(i) /\ (Offered(i)' <=> Offered(i))
  BY <1>1, <1>2 DEF Reopening, Offered, Latest, Runs, Busy
<1>6. AttemptsPaid'
  BY <1>5 DEF Charged, AttemptsPaid
<1> QED
  BY <1>3, <1>4, <1>6 DEF Charged

LEMMA HandlerEnqueuesCharged ==
  ASSUME IInv, Charged, NEW w \in Workers, HandlerEnqueues(w)
  PROVE  Charged'
<1>1. worker \in [Workers -> Processes] /\ IInv'
  BY HandlerEnqueuesKeeps DEF IInv, TypeOK
<1> DEFINE k == job[worker[w].job].key
           T == {f \in Keys : f \in FollowOn[k] /\ (f \in Plain \/ ~HasActiveRow(f))}
<1>2. /\ worker[w].pc = "working" /\ UNCHANGED <<job, faults>>
      /\ worker' = [worker EXCEPT ![w].pc = "enqueued", ![w].todo = T]
  BY DEF HandlerEnqueues
<1> HIDE DEF T
<1>3. \A v \in Workers :
        /\ Busy(v)' <=> Busy(v)
        /\ Busy(v) => /\ worker'[v].job = worker[v].job
                      /\ worker'[v].copy = worker[v].copy
                      /\ worker'[v].beat = worker[v].beat
                      /\ worker'[v].left = worker[v].left
  BY <1>1, <1>2 DEF Busy, Processes
<1> QED
  BY <1>1, <1>2, <1>3, SameExecutions

LEMMA RestartCharged == ASSUME IInv, Charged, NEW w \in Workers, Restart(w) PROVE Charged'
<1>1. worker \in [Workers -> Processes] /\ IInv'
  BY RestartKeeps DEF IInv, TypeOK
<1>2. \A v \in Workers : /\ Busy(v)' <=> Busy(v)
                         /\ Busy(v) => worker'[v] = worker[v]
  BY <1>1 DEF Restart, Busy, IdleProcess
<1> QED
  BY <1>1, <1>2, SameExecutions DEF Restart

\* A fault may take the lock of a row away from its last execution, and pays for it.
LEMMA FaultCharged == ASSUME IInv, Charged, NEW w \in Workers, FaultStep(w) PROVE Charged'
<1> DEFINE j == worker[w].job
<1>0. /\ IInv' /\ Busy(w) /\ j \in Jobs /\ UNCHANGED job
      /\ faults \in [Jobs -> FaultCounts] /\ worker \in [Workers -> Processes]
  BY FaultKeeps DEF FaultStep, Crash, BeatIsLate, IInv, LeaseHeld, TypeOK
<1>1. \A v \in Workers : v # w => worker'[v] = worker[v]
  BY <1>0 DEF FaultStep, Crash, BeatIsLate
<1>2. Busy(w)' => /\ worker'[w].pc = worker[w].pc
                  /\ worker'[w].job = j /\ worker'[w].copy = worker[w].copy
                  /\ worker'[w].beat = "late"
  <2>1. CASE Crash(w)
    BY <1>0, <2>1 DEF Crash, Busy, IdleProcess
  <2>2. CASE BeatIsLate(w)
    BY <1>0, <2>2 DEF BeatIsLate, Processes
  <2> QED
    BY <2>1, <2>2 DEF FaultStep
<1>3. /\ faults'[j].crashed + faults'[j].late = faults[j].crashed + faults[j].late + 1
      /\ \A i \in Jobs : i # j => faults'[i] = faults[i]
  <2>1. faults[j].crashed \in Nat /\ faults[j].late \in Nat
    BY <1>0 DEF FaultCounts
  <2>2. CASE Crash(w)
    <3>1. faults' = [faults EXCEPT ![j].crashed = @ + 1]
      BY <2>2 DEF Crash
    <3> QED
      BY <1>0, <2>1, <3>1 DEF FaultCounts
  <2>3. CASE BeatIsLate(w)
    <3>1. faults' = [faults EXCEPT ![j].late = @ + 1]
      BY <2>3 DEF BeatIsLate
    <3> QED
      BY <1>0, <2>1, <3>1 DEF FaultCounts
  <2> QED
    BY <2>2, <2>3 DEF FaultStep
<1>4. \A v \in Workers, i \in Jobs :
        Runs(v, i)' => /\ Runs(v, i) /\ worker'[v].copy = worker[v].copy
                       /\ v # w => worker'[v] = worker[v]
                       /\ v = w => worker'[v].beat = "late"
  BY <1>0, <1>1, <1>2 DEF Runs, Busy
<1>5. RowsKept'
  BY <1>0, <1>1, <1>2 DEF Charged, RowsKept, Busy
<1>6. LatestHeld'
  BY <1>0, <1>4 DEF Charged, LatestHeld, Latest
<1>7. AttemptsPaid'
  <2> SUFFICES ASSUME NEW i \in Jobs
               PROVE  Cardinality(Reopening(i)') + (IF Offered(i)' THEN 1 ELSE 0)
                        <= faults'[i].crashed + faults'[i].late + Spare(job'[i].attempts)
    BY DEF AttemptsPaid
  <2>1. Reopening(i)' \subseteq Reopening(i)
    BY <1>4 DEF Reopening
  <2>2. job'[i].attempts = job[i].attempts
    BY <1>0
  <2>3. CASE i = j
    BY <2>1, <2>2, <2>3, <1>0, <1>3, PaidByFault DEF Charged
  <2>4. CASE i # j
    <3>1. Offered(i)' => Offered(i)
      <4>1. \A v \in Workers : Runs(v, i) => v # w /\ worker'[v] = worker[v]
        BY <2>4, <1>1 DEF Runs
      <4> QED
        BY <1>0, <4>1 DEF Offered, Latest, Runs
    <3>2. /\ Spare(job'[i].attempts) >= Spare(job[i].attempts)
          /\ faults'[i].crashed + faults'[i].late >= faults[i].crashed + faults[i].late
      <4>1. job[i].attempts \in Nat /\ faults[i].crashed \in Nat /\ faults[i].late \in Nat
        BY <1>0 DEF IInv, TypeOK, Rows, FaultCounts
      <4> QED
        BY <2>2, <2>4, <4>1, <1>3, SpareType
    <3> QED
      BY <1>0, <2>1, <3>1, <3>2, NoDearer DEF Charged
  <2> QED
    BY <2>3, <2>4
<1> QED
  BY <1>5, <1>6, <1>7 DEF Charged

LEMMA BeatCharged == ASSUME IInv, Charged, NEW w \in Workers, Beat(w) PROVE Charged'
<1> DEFINE j == worker[w].job
           mine == job[j].status = "RUNNING" /\ job[j].owner = WorkerId[w]
<1>0. /\ IInv' /\ Busy(w) /\ j \in Jobs
      /\ job \in [Jobs -> Rows] /\ worker \in [Workers -> Processes]
      /\ UNCHANGED faults
  BY BeatKeeps DEF Beat, IInv, LeaseHeld, TypeOK
<1>1. CASE mine /\ job' = [job EXCEPT ![j].age = 0]
                /\ worker' = [worker EXCEPT ![w].beat = "timely", ![w].left = BeatEvery]
  <2>1. \A i \in Jobs : /\ job'[i].status = job[i].status /\ job'[i].owner = job[i].owner
                        /\ job'[i].attempts = job[i].attempts /\ job'[i].key = job[i].key
                        /\ i # j => job'[i] = job[i]
                        /\ i = j => job'[i].age = 0
    BY <1>0, <1>1 DEF Rows
  <2>2. \A v \in Workers : /\ worker'[v].pc = worker[v].pc /\ worker'[v].job = worker[v].job
                           /\ worker'[v].copy = worker[v].copy
                           /\ v # w => worker'[v] = worker[v]
                           /\ v = w => worker'[v].beat = "timely"
                                      /\ worker'[v].left = BeatEvery
    BY <1>0, <1>1 DEF Processes
  <2>3. \A v \in Workers, i \in Jobs : /\ Runs(v, i)' <=> Runs(v, i)
                                       /\ Latest(v, i)' <=> Latest(v, i)
    BY <2>1, <2>2 DEF Runs, Latest
  <2>4. RowsKept'
    BY <1>0, <2>1, <2>2 DEF Charged, RowsKept, Busy, IInv, LeaseHeld
  <2>5. LatestHeld'
    <3> SUFFICES ASSUME NEW v \in Workers, NEW i \in Jobs, Runs(v, i)'
                 PROVE  /\ worker'[v].copy <= job'[i].attempts
                        /\ job'[i].status = "RUNNING" /\ Latest(v, i)' =>
                             /\ job'[i].owner = WorkerId[v]
                             /\ worker'[v].beat # "off"
                             /\ worker'[v].beat = "timely" =>
                                  job'[i].age + worker'[v].left <= BeatEvery
      BY DEF LatestHeld
    <3>1. /\ Runs(v, i)
          /\ worker[v].copy <= job[i].attempts
          /\ job[i].status = "RUNNING" /\ Latest(v, i) =>
               /\ job[i].owner = WorkerId[v]
               /\ worker[v].beat # "off"
               /\ worker[v].beat = "timely" => job[i].age + worker[v].left <= BeatEvery
      BY <2>3 DEF Charged, LatestHeld
    <3>2. CASE v = w
      <4>1. i = j
        BY <3>1, <3>2 DEF Runs
      <4>2. job'[i].age + worker'[v].left <= BeatEvery
        BY <3>2, <4>1, <2>1, <2>2, TimingAssumption
      <4>3. worker'[v].copy <= job'[i].attempts
        BY <3>1, <2>1, <2>2
      <4>4. job'[i].owner = WorkerId[v] /\ worker'[v].beat # "off"
        BY <3>2, <4>1, <1>1, <2>1, <2>2
      <4> QED
        BY <4>2, <4>3, <4>4
    <3>3. CASE v # w /\ i # j
      BY <3>1, <3>3, <2>1, <2>2, <2>3
    <3>4. CASE v # w /\ i = j
      <4>1. worker[v].left \in 0 .. BeatEvery
        BY <1>0 DEF Processes
      <4> QED
        BY <3>1, <3>4, <4>1, <2>1, <2>2, <2>3, TimingAssumption
    <3> QED
      BY <3>2, <3>3, <3>4
  <2>6. AttemptsPaid'
    <3> SUFFICES ASSUME NEW i \in Jobs
                 PROVE  Cardinality(Reopening(i)') + (IF Offered(i)' THEN 1 ELSE 0)
                          <= faults'[i].crashed + faults'[i].late + Spare(job'[i].attempts)
      BY DEF AttemptsPaid
    <3>1. Reopening(i)' \subseteq Reopening(i)
      BY <2>2, <2>3 DEF Reopening
    <3>2. Offered(i)' => Offered(i)
      BY <2>1, <2>2, <2>3 DEF Offered
    <3>3. job[i].attempts \in Nat /\ faults[i].crashed \in Nat /\ faults[i].late \in Nat
      BY <1>0 DEF IInv, TypeOK, Rows, FaultCounts
    <3>4. /\ Spare(job'[i].attempts) >= Spare(job[i].attempts)
          /\ faults'[i].crashed + faults'[i].late >= faults[i].crashed + faults[i].late
      BY <1>0, <2>1, <3>3, SpareType
    <3> QED
      BY <1>0, <3>1, <3>2, <3>4, NoDearer DEF Charged
  <2> QED
    BY <2>4, <2>5, <2>6 DEF Charged
<1>2. CASE ~mine /\ worker' = [worker EXCEPT ![w].beat = "off"] /\ UNCHANGED job
  <2>1. \A v \in Workers : /\ worker'[v].pc = worker[v].pc /\ worker'[v].job = worker[v].job
                           /\ worker'[v].copy = worker[v].copy
                           /\ v # w => worker'[v] = worker[v]
    BY <1>0, <1>2 DEF Processes
  <2>2. \A v \in Workers, i \in Jobs : /\ Runs(v, i)' <=> Runs(v, i)
                                       /\ Latest(v, i)' <=> Latest(v, i)
    BY <1>2, <2>1 DEF Runs, Latest
  <2>3. \A v \in Workers, i \in Jobs :
          job[i].status = "RUNNING" /\ Latest(v, i) => v # w
    BY <1>0, <1>2 DEF Charged, LatestHeld, Latest, Runs
  <2>4. RowsKept'
    BY <1>2, <2>1 DEF Charged, RowsKept, Busy
  <2>5. LatestHeld'
    BY <1>2, <2>1, <2>2, <2>3 DEF Charged, LatestHeld
  <2>6. AttemptsPaid'
    <3> SUFFICES ASSUME NEW i \in Jobs
                 PROVE  Cardinality(Reopening(i)') + (IF Offered(i)' THEN 1 ELSE 0)
                          <= faults'[i].crashed + faults'[i].late + Spare(job'[i].attempts)
      BY DEF AttemptsPaid
    <3>1. Reopening(i)' \subseteq Reopening(i)
      BY <2>1, <2>2 DEF Reopening
    <3>2. Offered(i)' => Offered(i)
      BY <1>2, <2>1, <2>2, <2>3 DEF Offered
    <3>3. job[i].attempts \in Nat /\ faults[i].crashed \in Nat /\ faults[i].late \in Nat
      BY <1>0 DEF IInv, TypeOK, Rows, FaultCounts
    <3>4. /\ Spare(job'[i].attempts) >= Spare(job[i].attempts)
          /\ faults'[i].crashed + faults'[i].late >= faults[i].crashed + faults[i].late
      BY <1>0, <1>2, <3>3, SpareType
    <3> QED
      BY <1>0, <3>1, <3>2, <3>4, NoDearer DEF Charged
  <2> QED
    BY <2>4, <2>5, <2>6 DEF Charged
<1> QED
  BY <1>1, <1>2 DEF Beat

\* A tick may only take a late lock away: the locks kept in time are renewed before it.
LEMMA TickCharged == ASSUME IInv, Charged, Tick PROVE Charged'
<1>0. /\ IInv' /\ job \in [Jobs -> Rows] /\ worker \in [Workers -> Processes]
      /\ UNCHANGED faults
  BY TickKeeps DEF Tick, IInv, TypeOK
<1>1. ASSUME NEW i \in Jobs
      PROVE  /\ job'[i].status = job[i].status /\ job'[i].owner = job[i].owner
             /\ job'[i].attempts = job[i].attempts /\ job'[i].key = job[i].key
             /\ job[i].age \in Nat
             /\ job[i].age < Lease => job'[i].age = job[i].age + 1
  <2>1. job[i] \in Rows /\ job[i].age \in Nat
    BY <1>0, TimingAssumption DEF Rows
  <2>2. job'[i] = [job[i] EXCEPT !.age = IF @ < Lease THEN @ + 1 ELSE Lease,
                                 !.due = IF @ > 0 THEN @ - 1 ELSE 0]
    BY DEF Tick, Waited
  <2> QED
    BY <2>1, <2>2 DEF Rows
<1>2. ASSUME NEW v \in Workers
      PROVE  /\ worker'[v].pc = worker[v].pc /\ worker'[v].job = worker[v].job
             /\ worker'[v].copy = worker[v].copy /\ worker'[v].beat = worker[v].beat
             /\ worker[v].beat = "timely" => /\ worker[v].left \in Nat
                                             /\ worker'[v].left = worker[v].left - 1
  <2>1. worker[v] \in Processes /\ worker[v].left \in Nat
    BY <1>0, TimingAssumption DEF Processes
  <2>2. worker'[v] = [worker[v] EXCEPT !.left = IF worker[v].beat = "timely" THEN @ - 1 ELSE @]
    BY DEF Tick
  <2> QED
    BY <2>1, <2>2 DEF Processes
<1>3. \A v \in Workers, i \in Jobs : /\ Runs(v, i)' <=> Runs(v, i)
                                     /\ Latest(v, i)' <=> Latest(v, i)
  BY <1>1, <1>2 DEF Runs, Latest
<1>4. RowsKept'
  BY <1>1, <1>2 DEF Charged, RowsKept, Busy, IInv, LeaseHeld
<1>5. LatestHeld'
  <2> SUFFICES ASSUME NEW v \in Workers, NEW i \in Jobs, Runs(v, i)'
               PROVE  /\ worker'[v].copy <= job'[i].attempts
                      /\ job'[i].status = "RUNNING" /\ Latest(v, i)' =>
                           /\ job'[i].owner = WorkerId[v]
                           /\ worker'[v].beat # "off"
                           /\ worker'[v].beat = "timely" =>
                                job'[i].age + worker'[v].left <= BeatEvery
    BY DEF LatestHeld
  <2>1. /\ Runs(v, i)
        /\ worker[v].copy <= job[i].attempts
        /\ job[i].status = "RUNNING" /\ Latest(v, i) =>
             /\ job[i].owner = WorkerId[v]
             /\ worker[v].beat # "off"
             /\ worker[v].beat = "timely" => job[i].age + worker[v].left <= BeatEvery
    BY <1>3 DEF Charged, LatestHeld
  <2>2. ASSUME job[i].status = "RUNNING", Latest(v, i), worker[v].beat = "timely"
        PROVE  job'[i].age + worker'[v].left <= BeatEvery
    <3>1. /\ job[i].age + worker[v].left <= BeatEvery
          /\ job[i].age \in Nat /\ worker[v].left \in Nat
          /\ worker'[v].left = worker[v].left - 1
      BY <2>1, <2>2, <1>1, <1>2
    <3>2. job'[i].age = job[i].age + 1
      BY <3>1, <1>1, TimingAssumption
    <3> QED
      BY <3>1, <3>2, TimingAssumption
  <2> QED
    BY <2>1, <2>2, <1>1, <1>2, <1>3
<1>6. AttemptsPaid'
  <2> SUFFICES ASSUME NEW i \in Jobs
               PROVE  Cardinality(Reopening(i)') + (IF Offered(i)' THEN 1 ELSE 0)
                        <= faults'[i].crashed + faults'[i].late + Spare(job'[i].attempts)
    BY DEF AttemptsPaid
  <2>1. Reopening(i)' \subseteq Reopening(i)
    BY <1>2, <1>3 DEF Reopening
  <2>2. Offered(i)' => Offered(i)
    BY <1>1, <1>2, <1>3 DEF Offered
  <2>3. job[i].attempts \in Nat /\ faults[i].crashed \in Nat /\ faults[i].late \in Nat
    BY <1>0 DEF IInv, TypeOK, Rows, FaultCounts
  <2>4. /\ Spare(job'[i].attempts) >= Spare(job[i].attempts)
        /\ faults'[i].crashed + faults'[i].late >= faults[i].crashed + faults[i].late
    BY <1>0, <1>1, <2>3, SpareType
  <2> QED
    BY <1>0, <2>1, <2>2, <2>4, NoDearer DEF Charged
<1> QED
  BY <1>4, <1>5, <1>6 DEF Charged

LEMMA NextCharged == IInv /\ Charged /\ [Next]_vars => Charged'
<1> SUFFICES ASSUME IInv, Charged, [Next]_vars PROVE Charged'
  OBVIOUS
<1>1. CASE RequesterStep
  BY <1>1, RequesterCharged
<1>2. ASSUME NEW w \in Workers, NEW j \in Jobs, Claim(w, j) PROVE Charged'
  BY <1>2, ClaimCharged
<1>3. ASSUME NEW w \in Workers, HandlerEnqueues(w) PROVE Charged'
  BY <1>3, HandlerEnqueuesCharged
<1>4. ASSUME NEW w \in Workers, Succeed(w) PROVE Charged'
  BY <1>4, SucceedCharged
<1>5. ASSUME NEW w \in Workers, Fail(w) PROVE Charged'
  BY <1>5, FailCharged
<1>6. ASSUME NEW w \in Workers, Beat(w) PROVE Charged'
  BY <1>6, BeatCharged
<1>7. ASSUME NEW w \in Workers, Restart(w) PROVE Charged'
  BY <1>7, RestartCharged
<1>8. ASSUME NEW w \in Workers, FaultStep(w) PROVE Charged'
  BY <1>8, FaultCharged
<1>9. CASE Tick
  BY <1>9, TickCharged
<1>10. CASE UNCHANGED vars
  <2>1. IInv' /\ UNCHANGED <<job, worker, faults>>
    BY <1>10, NextKeeps DEF vars
  <2> QED
    BY <2>1, SameExecutions DEF Busy
<1> QED
  BY <1>1, <1>2, <1>3, <1>4, <1>5, <1>6, <1>7, <1>8, <1>9, <1>10 DEF Next, WorkerStep

LEMMA PaidBoundsAttempts == IInv /\ Charged => AttemptsCharged
<1> SUFFICES ASSUME IInv, Charged, NEW j \in Jobs
             PROVE  job[j].attempts <= MaxAttempts + faults[j].crashed + faults[j].late
  BY DEF AttemptsCharged
<1>1. Cardinality(Reopening(j)) + (IF Offered(j) THEN 1 ELSE 0)
        <= faults[j].crashed + faults[j].late + Spare(job[j].attempts)
  BY DEF Charged, AttemptsPaid
<1>2. /\ job[j].attempts \in Nat /\ faults[j].crashed \in Nat /\ faults[j].late \in Nat
      /\ Cardinality(Reopening(j)) \in Nat
  BY ReopeningFinite DEF IInv, TypeOK, Rows, FaultCounts
<1>3. Spare(job[j].attempts) \in Int
  BY <1>2, SpareType
<1>4. 0 <= faults[j].crashed + faults[j].late + Spare(job[j].attempts)
  BY <1>1, <1>2, <1>3
<1> QED
  BY <1>2, <1>4, ParameterAssumption DEF Spare

\* A reclaim is not compared with max_attempts, yet the attempts of a row exceed it by no more
\* than the crashes and late heartbeats of processes that were running that very row.
THEOREM AttemptsAreCharged == Spec => []AttemptsCharged
<1>1. Init => Charged
  BY InitCharged
<1>2. IInv /\ Charged /\ [Next]_vars => Charged'
  BY NextCharged
<1>3. Spec => []Charged
  BY <1>1, <1>2, Invariant, PTL DEF Spec
<1> QED
  BY <1>3, Invariant, PaidBoundsAttempts, PTL

-------------------------------------------------------------------------------
(* Twins.  Rows and intentions of one key are counted together: an insert turns an
   intention into a row, and an intention needs a moment without a row. *)

Waiting(k) == {j \in Jobs : job[j].key = k /\ job[j].status = "QUEUED"}

\* Handlers are about to enqueue only what some handler enqueues.
Followers == \A w \in Workers : \A k \in worker[w].todo : \E f \in Keys : k \in FollowOn[f]

TwinsFew(k) == Cardinality(Waiting(k)) + Cardinality(Enqueuing(k)) <= Cardinality(Enqueuers(k))

LEMMA TwinsByKey == TwinsBounded <=> \A k \in Keys \ Plain : TwinsFew(k)
BY DEF TwinsBounded, TwinsFew, Waiting

LEMMA EnqueuersFinite ==
  \A k : /\ IsFiniteSet(Enqueuers(k)) /\ Cardinality(Enqueuers(k)) \in Nat
        /\ \A S \in SUBSET Enqueuers(k) :
             /\ IsFiniteSet(S) /\ Cardinality(S) \in Nat
             /\ Cardinality(S) <= Cardinality(Enqueuers(k))
<1> SUFFICES ASSUME NEW k
             PROVE  /\ IsFiniteSet(Enqueuers(k)) /\ Cardinality(Enqueuers(k)) \in Nat
                    /\ \A S \in SUBSET Enqueuers(k) :
                         /\ IsFiniteSet(S) /\ Cardinality(S) \in Nat
                         /\ Cardinality(S) <= Cardinality(Enqueuers(k))
  OBVIOUS
<1>1. IsFiniteSet(Requesters \cup Workers)
  BY PopulationAssumption, FS_Union
<1>2. Enqueuers(k) \in SUBSET (Requesters \cup Workers)
  BY DEF Enqueuers
<1>3. IsFiniteSet(Enqueuers(k))
  BY <1>1, <1>2, FS_Subset
<1> QED
  BY <1>3, FS_Subset, FS_CardinalityType

LEMMA WaitingFinite ==
  \A k : /\ IsFiniteSet(Waiting(k)) /\ Cardinality(Waiting(k)) \in Nat
        /\ \A S \in SUBSET Waiting(k) : Cardinality(S) <= Cardinality(Waiting(k))
<1>1. \A k : Waiting(k) \in SUBSET Jobs
  BY DEF Waiting
<1>2. \A k : IsFiniteSet(Waiting(k))
  BY <1>1, FS_Subset, PopulationAssumption
<1> QED
  BY <1>2, FS_Subset, FS_CardinalityType

LEMMA WaitingFiniteNext ==
  \A k : /\ IsFiniteSet(Waiting(k)') /\ Cardinality(Waiting(k)') \in Nat
<1>1. \A k : Waiting(k)' \in SUBSET Jobs
  BY DEF Waiting
<1> QED
  BY <1>1, FS_Subset, FS_CardinalityType, PopulationAssumption

LEMMA EnqueuingAreEnqueuers ==
  ASSUME Followers
  PROVE  \A k : Enqueuing(k) \in SUBSET Enqueuers(k)
BY DEF Followers, Enqueuing, Enqueuers

LEMMA EnqueuingAreEnqueuersNext ==
  ASSUME Followers'
  PROVE  \A k : Enqueuing(k)' \in SUBSET Enqueuers(k)
BY DEF Followers, Enqueuing, Enqueuers

\* Nothing new waits for k and nobody new is about to enqueue it.
LEMMA NoMoreTwins ==
  ASSUME Followers, Followers', NEW k, TwinsFew(k),
         Waiting(k)' \subseteq Waiting(k), Enqueuing(k)' \subseteq Enqueuing(k)
  PROVE  TwinsFew(k)'
<1>1. Enqueuing(k) \in SUBSET Enqueuers(k) /\ Enqueuing(k)' \in SUBSET Enqueuers(k)
  BY EnqueuingAreEnqueuers, EnqueuingAreEnqueuersNext
<1>2. Cardinality(Waiting(k)') <= Cardinality(Waiting(k))
  BY WaitingFinite
<1>3. IsFiniteSet(Enqueuing(k))
  BY <1>1, EnqueuersFinite
<1>4. Cardinality(Enqueuing(k)') <= Cardinality(Enqueuing(k))
  BY <1>3, FS_Subset
<1>5. /\ Cardinality(Waiting(k)) \in Nat /\ Cardinality(Waiting(k)') \in Nat
      /\ Cardinality(Enqueuing(k)) \in Nat /\ Cardinality(Enqueuing(k)') \in Nat
      /\ Cardinality(Enqueuers(k)) \in Nat
  BY <1>1, WaitingFinite, WaitingFiniteNext, EnqueuersFinite
<1>6. Enqueuers(k)' = Enqueuers(k)
  BY DEF Enqueuers
<1> QED
  BY <1>2, <1>4, <1>5, <1>6 DEF TwinsFew

\* The duplicate check found no row of k.
LEMMA TwinsAfterCheck ==
  ASSUME Followers', NEW k, Waiting(k)' = {}
  PROVE  TwinsFew(k)'
<1>1. Enqueuing(k)' \in SUBSET Enqueuers(k)
  BY EnqueuingAreEnqueuersNext
<1>2. Cardinality(Waiting(k)') = 0
  BY FS_EmptySet
<1>3. /\ Cardinality(Enqueuing(k)') \in Nat /\ Cardinality(Enqueuers(k)) \in Nat
      /\ Cardinality(Enqueuing(k)') <= Cardinality(Enqueuers(k))
  BY <1>1, EnqueuersFinite
<1>4. Enqueuers(k)' = Enqueuers(k)
  BY DEF Enqueuers
<1> QED
  BY <1>2, <1>3, <1>4 DEF TwinsFew

\* An enqueuer of k turns its intention into a row.
LEMMA TwinsAfterInsert ==
  ASSUME Followers, Followers', NEW k, TwinsFew(k), NEW i, NEW e \in Enqueuing(k),
         Waiting(k)' \subseteq Waiting(k) \cup {i}, Enqueuing(k)' \subseteq Enqueuing(k) \ {e}
  PROVE  TwinsFew(k)'
<1>1. Enqueuing(k) \in SUBSET Enqueuers(k) /\ Enqueuing(k)' \in SUBSET Enqueuers(k)
  BY EnqueuingAreEnqueuers, EnqueuingAreEnqueuersNext
<1>2. IsFiniteSet(Enqueuing(k)) /\ Cardinality(Enqueuing(k)) \in Nat
  BY <1>1, EnqueuersFinite
<1>3. /\ IsFiniteSet(Enqueuing(k) \ {e})
      /\ Cardinality(Enqueuing(k) \ {e}) = Cardinality(Enqueuing(k)) - 1
  BY <1>2, FS_RemoveElement
<1>4. Cardinality(Enqueuing(k)') <= Cardinality(Enqueuing(k)) - 1
  BY <1>3, FS_Subset
<1>5. /\ IsFiniteSet(Waiting(k) \cup {i})
      /\ Cardinality(Waiting(k) \cup {i}) <= Cardinality(Waiting(k)) + 1
  <2>1. Cardinality(Waiting(k) \cup {i}) = IF i \in Waiting(k) THEN Cardinality(Waiting(k))
                                           ELSE Cardinality(Waiting(k)) + 1
    BY WaitingFinite, FS_AddElement
  <2>2. Cardinality(Waiting(k)) \in Nat
    BY WaitingFinite
  <2>3. IsFiniteSet(Waiting(k) \cup {i})
    BY WaitingFinite, FS_AddElement
  <2> QED
    BY <2>1, <2>2, <2>3
<1>6. Cardinality(Waiting(k)') <= Cardinality(Waiting(k) \cup {i})
  BY <1>5, FS_Subset
<1>7. /\ Cardinality(Waiting(k)) \in Nat /\ Cardinality(Waiting(k)') \in Nat
      /\ Cardinality(Waiting(k) \cup {i}) \in Nat
      /\ Cardinality(Enqueuing(k)') \in Nat /\ Cardinality(Enqueuers(k)) \in Nat
  BY <1>1, <1>5, WaitingFinite, WaitingFiniteNext, EnqueuersFinite, FS_CardinalityType
<1>8. Enqueuers(k)' = Enqueuers(k)
  BY DEF Enqueuers
<1> QED
  BY <1>2, <1>4, <1>5, <1>6, <1>7, <1>8 DEF TwinsFew

Twins == Followers /\ TwinsBounded

\* A step that changes no key and no status but away from QUEUED, and empties requests only.
LEMMA NoInsertTwins ==
  ASSUME Twins,
         \A j \in Jobs : job'[j].status = "QUEUED" =>
                           job[j].status = "QUEUED" /\ job'[j].key = job[j].key,
         \A r \in Requesters : request'[r] = request[r],
         \A w \in Workers : worker'[w].todo \subseteq worker[w].todo
  PROVE  Twins'
<1>1. Followers /\ Followers'
  BY DEF Twins, Followers
<1>2. ASSUME NEW k \in Keys \ Plain PROVE TwinsFew(k)'
  <2>1. Waiting(k)' \subseteq Waiting(k) /\ Enqueuing(k)' \subseteq Enqueuing(k)
    BY DEF Waiting, Enqueuing
  <2>2. TwinsFew(k)
    BY TwinsByKey DEF Twins
  <2> QED
    BY <1>1, <2>1, <2>2, NoMoreTwins
<1>3. TwinsBounded'
  BY <1>2 DEF TwinsBounded, TwinsFew, Waiting
<1> QED
  BY <1>1, <1>3 DEF Twins

LEMMA InitTwins == Init => Twins
<1> SUFFICES ASSUME Init PROVE Twins
  OBVIOUS
<1>1. Followers
  BY DEF Followers, Init, IdleProcess
<1>2. ASSUME NEW k \in Keys \ Plain PROVE TwinsFew(k)
  <2>1. Waiting(k) = {}
    BY DEF Init, Waiting, AbsentRow
  <2>2. Enqueuing(k) = {}
    BY NoneAssumption DEF Init, Enqueuing, IdleProcess
  <2> QED
    BY <2>1, <2>2, FS_EmptySet, EnqueuersFinite DEF TwinsFew
<1> QED
  BY <1>1, <1>2, TwinsByKey DEF Twins

LEMMA RequestTwins == ASSUME IInv, Twins, RequesterStep PROVE Twins'
<1>0. job \in [Jobs -> Rows] /\ request \in [Requesters -> Keys \cup {None}] /\ Followers
  BY DEF IInv, TypeOK, Twins
<1>1. ASSUME NEW r \in Requesters, NEW q \in Keys, RequestChecks(r, q) PROVE Twins'
  <2>1. /\ request[r] = None /\ (q \in Plain \/ ~HasActiveRow(q))
        /\ request' = [request EXCEPT ![r] = q] /\ UNCHANGED <<job, worker>>
    BY <1>1 DEF RequestChecks
  <2>2. Followers'
    BY <1>0, <2>1 DEF Followers
  <2>3. ASSUME NEW k \in Keys \ Plain PROVE TwinsFew(k)'
    <3>1. CASE k = q
      <4>1. Waiting(k)' = {}
        BY <2>1, <3>1 DEF Waiting, HasActiveRow
      <4> QED
        BY <2>2, <4>1, TwinsAfterCheck
    <3>2. CASE k # q
      <4>1. Waiting(k)' \subseteq Waiting(k) /\ Enqueuing(k)' \subseteq Enqueuing(k)
        BY <1>0, <2>1, <3>2 DEF Waiting, Enqueuing
      <4>2. TwinsFew(k)
        BY TwinsByKey DEF Twins
      <4> QED
        BY <1>0, <2>2, <4>1, <4>2, NoMoreTwins
    <3> QED
      BY <3>1, <3>2
  <2> QED
    BY <2>2, <2>3 DEF Twins, TwinsBounded, TwinsFew, Waiting
<1>2. ASSUME NEW r \in Requesters, RequestInserts(r) PROVE Twins'
  <2>1. PICK i \in Absent : job' = [job EXCEPT ![i] = NewRow(request[r])]
    BY <1>2 DEF RequestInserts
  <2>2. /\ request' = [request EXCEPT ![r] = None] /\ UNCHANGED worker
        /\ request[r] # None
    BY <1>2 DEF RequestInserts
  <2>3. i \in Jobs /\ job'[i].key = request[r] /\ \A j \in Jobs : j # i => job'[j] = job[j]
    BY <1>0, <2>1 DEF Absent, NewRow, AbsentRow
  <2>4. Followers'
    BY <1>0, <2>2 DEF Followers
  <2>5. r \notin Workers
    BY PopulationAssumption
  <2>6. ASSUME NEW k \in Keys \ Plain PROVE TwinsFew(k)'
    <3>0. TwinsFew(k)
      BY TwinsByKey DEF Twins
    <3>1. CASE k = request[r]
      <4>1. r \in Enqueuing(k)
        BY <3>1 DEF Enqueuing
      <4>2. Waiting(k)' \subseteq Waiting(k) \cup {i}
        BY <2>3 DEF Waiting
      <4>3. Enqueuing(k)' \subseteq Enqueuing(k) \ {r}
        BY <1>0, <2>2, <2>5, <3>1 DEF Enqueuing
      <4> QED
        BY <1>0, <2>4, <3>0, <4>1, <4>2, <4>3, TwinsAfterInsert
    <3>2. CASE k # request[r]
      <4>1. Waiting(k)' \subseteq Waiting(k)
        BY <2>3, <3>2 DEF Waiting
      <4>2. Enqueuing(k)' \subseteq Enqueuing(k)
        BY <1>0, <2>2, <3>2, NoneAssumption DEF Enqueuing
      <4> QED
        BY <1>0, <2>4, <3>0, <4>1, <4>2, NoMoreTwins
    <3> QED
      BY <3>1, <3>2
  <2> QED
    BY <2>4, <2>6 DEF Twins, TwinsBounded, TwinsFew, Waiting
<1> QED
  BY <1>1, <1>2 DEF RequesterStep

LEMMA HandlerEnqueuesTwins ==
  ASSUME IInv, RowsKept, Twins, NEW w \in Workers, HandlerEnqueues(w)
  PROVE  Twins'
<1> DEFINE q == job[worker[w].job].key
           T == {f \in Keys : f \in FollowOn[q] /\ (f \in Plain \/ ~HasActiveRow(f))}
<1>1. /\ worker[w].pc = "working" /\ worker \in [Workers -> Processes]
      /\ worker' = [worker EXCEPT ![w].pc = "enqueued", ![w].todo = T]
      /\ UNCHANGED <<job, request>>
  BY DEF HandlerEnqueues, IInv, TypeOK
<1>2. q \in Keys
  BY <1>1 DEF RowsKept, Busy, IInv, LeaseHeld
<1>3. \A f \in T : f \in FollowOn[q] /\ (f \in Plain \/ ~HasActiveRow(f))
  OBVIOUS
<1> HIDE DEF T, q
<1>4. worker'[w].todo = T /\ \A v \in Workers : v # w => worker'[v] = worker[v]
  BY <1>1 DEF Processes
<1>5. Followers /\ Followers'
  BY <1>2, <1>3, <1>4 DEF Twins, Followers
<1>6. ASSUME NEW k \in Keys \ Plain PROVE TwinsFew(k)'
  <2>1. CASE k \in T
    <3>1. Waiting(k)' = {}
      BY <1>1, <1>3, <2>1 DEF Waiting, HasActiveRow
    <3> QED
      BY <1>5, <3>1, TwinsAfterCheck
  <2>2. CASE k \notin T
    <3>1. Waiting(k)' \subseteq Waiting(k) /\ Enqueuing(k)' \subseteq Enqueuing(k)
      BY <1>1, <1>4, <2>2 DEF Waiting, Enqueuing
    <3>2. TwinsFew(k)
      BY TwinsByKey DEF Twins
    <3> QED
      BY <1>5, <3>1, <3>2, NoMoreTwins
  <2> QED
    BY <2>1, <2>2
<1> QED
  BY <1>5, <1>6 DEF Twins, TwinsBounded, TwinsFew, Waiting

LEMMA CommitEndTwins ==
  ASSUME IInv, RowsKept, Twins, NEW w \in Workers, Busy(w), NEW row \in Rows,
         NEW tail \in BOOLEAN, CommitEnd(w, row, tail), row.status # "QUEUED"
  PROVE  Twins'
<1> DEFINE j == worker[w].job
           K == worker[w].todo
<1>1. PICK id \in [K -> Absent] :
        /\ \A a, b \in K : id[a] = id[b] => a = b
        /\ \A k \in K : job'[id[k]] = NewRow(k)
        /\ \A i \in Jobs : i # j /\ (\A k \in K : id[k] # i) => job'[i] = job[i]
        /\ job'[j] = row
  BY CommitEndRows
<1>2. /\ worker' = [worker EXCEPT ![w] = IdleProcess] /\ UNCHANGED request
      /\ worker \in [Workers -> Processes]
  BY DEF CommitEnd, IInv, TypeOK
<1>3. worker'[w].todo = {} /\ \A v \in Workers : v # w => worker'[v] = worker[v]
  BY <1>2 DEF IdleProcess
<1>4. Followers /\ Followers'
  BY <1>3 DEF Twins, Followers
<1>5. w \notin Requesters
  BY PopulationAssumption
<1>6. \A k \in K : job'[id[k]].key = k
  BY <1>1 DEF NewRow, AbsentRow
<1>7. ASSUME NEW k \in Keys \ Plain PROVE TwinsFew(k)'
  <2>0. TwinsFew(k)
    BY TwinsByKey DEF Twins
  <2>1. ASSUME NEW i \in Waiting(k)' PROVE i \in Waiting(k) \/ (k \in K /\ i = id[k])
    <3>1. i \in Jobs /\ job'[i].key = k /\ job'[i].status = "QUEUED"
      BY <2>1 DEF Waiting
    <3>2. i # j
      BY <1>1, <3>1
    <3>3. CASE \E f \in K : id[f] = i
      BY <1>6, <3>1, <3>3
    <3>4. CASE \A f \in K : id[f] # i
      BY <1>1, <3>1, <3>2, <3>4 DEF Waiting
    <3> QED
      BY <3>3, <3>4
  <2>2. CASE k \in K
    <3>1. w \in Enqueuing(k)
      BY <2>2 DEF Enqueuing
    <3>2. Enqueuing(k)' \subseteq Enqueuing(k) \ {w}
      BY <1>2, <1>3, <1>5 DEF Enqueuing
    <3>3. Waiting(k)' \subseteq Waiting(k) \cup {id[k]}
      BY <2>1
    <3> QED
      BY <1>4, <2>0, <3>1, <3>2, <3>3, TwinsAfterInsert
  <2>3. CASE k \notin K
    <3>1. Enqueuing(k)' \subseteq Enqueuing(k)
      BY <1>2, <1>3 DEF Enqueuing
    <3>2. Waiting(k)' \subseteq Waiting(k)
      BY <2>1, <2>3
    <3> QED
      BY <1>4, <2>0, <3>1, <3>2, NoMoreTwins
  <2> QED
    BY <2>2, <2>3
<1> QED
  BY <1>4, <1>7 DEF Twins, TwinsBounded, TwinsFew, Waiting

LEMMA WorkerTwins ==
  ASSUME IInv, RowsKept, Twins, NEW w \in Workers,
         (\E j \in Jobs : Claim(w, j)) \/ Succeed(w) \/ Fail(w) \/ Beat(w) \/ Restart(w)
           \/ FaultStep(w)
  PROVE  Twins'
<1>0. /\ job \in [Jobs -> Rows] /\ worker \in [Workers -> Processes]
      /\ request \in [Requesters -> Keys \cup {None}]
  BY DEF IInv, TypeOK
<1>1. ASSUME NEW j \in Jobs, Claim(w, j) PROVE Twins'
  <2>1. \A i \in Jobs : i # j => job'[i] = job[i]
    BY <1>0, <1>1 DEF Claim
  <2>2. job'[j].status = "RUNNING"
    BY <1>0, <1>1 DEF Claim, Rows
  <2>3. /\ \A v \in Workers : worker'[v].todo \subseteq worker[v].todo
        /\ UNCHANGED request
    BY <1>0, <1>1 DEF Claim
  <2> QED
    BY <2>1, <2>2, <2>3, NoInsertTwins
<1>2. CASE Succeed(w)
  <2> DEFINE row == [job[worker[w].job] EXCEPT !.status = "SUCCEEDED", !.age = Lease]
  <2>1. Busy(w) /\ worker[w].job \in Jobs
    BY <1>2 DEF Succeed, Busy, IInv, LeaseHeld
  <2>2. row \in Rows
    BY <1>0, <2>1, RowType
  <2>3. row.status = "SUCCEEDED"
    BY <1>0, <2>1 DEF Rows
  <2> QED
    BY <1>2, <2>1, <2>2, <2>3, CommitEndTwins DEF Succeed
<1>3. CASE Fail(w)
  <2> DEFINE row == job[worker[w].job]
             dead == [row EXCEPT !.status = "DEAD", !.age = Lease, !.due = 0]
             failed == [row EXCEPT !.status = "FAILED", !.age = Lease, !.due = RetryDelay]
  <2>1. Busy(w) /\ worker[w].job \in Jobs
    BY <1>3 DEF Fail, Busy, IInv, LeaseHeld
  <2>2. 0 \in 0 .. RetryDelay /\ RetryDelay \in 0 .. RetryDelay
    BY TimingAssumption
  <2>3. dead \in Rows /\ failed \in Rows
    BY <1>0, <2>1, <2>2, RowType
  <2>4. dead.status = "DEAD" /\ failed.status = "FAILED"
    BY <1>0, <2>1 DEF Rows
  <2>5. CASE CommitEnd(w, dead, FALSE)
    BY <2>1, <2>3, <2>4, <2>5, CommitEndTwins
  <2>6. CASE CommitEnd(w, failed, TRUE)
    BY <2>1, <2>3, <2>4, <2>6, CommitEndTwins
  <2> QED
    BY <1>3, <2>5, <2>6 DEF Fail
<1>4. CASE Beat(w)
  <2>1. \A j \in Jobs : job'[j].status = job[j].status /\ job'[j].key = job[j].key
    BY <1>0, <1>4 DEF Beat, Rows
  <2>2. \A v \in Workers : worker'[v].todo = worker[v].todo
    BY <1>0, <1>4 DEF Beat, Processes
  <2>3. UNCHANGED request
    BY <1>4 DEF Beat
  <2> QED
    BY <2>1, <2>2, <2>3, NoInsertTwins
<1>5. CASE Restart(w) \/ FaultStep(w)
  <2>1. \A v \in Workers : worker'[v].todo \subseteq worker[v].todo
    BY <1>0, <1>5 DEF Restart, FaultStep, Crash, BeatIsLate, IdleProcess, Processes
  <2>2. UNCHANGED <<job, request>>
    BY <1>5 DEF Restart, FaultStep, Crash, BeatIsLate
  <2> QED
    BY <2>1, <2>2, NoInsertTwins
<1> QED
  BY <1>1, <1>2, <1>3, <1>4, <1>5

LEMMA NextTwins == IInv /\ RowsKept /\ Twins /\ [Next]_vars => Twins'
<1> SUFFICES ASSUME IInv, RowsKept, Twins, [Next]_vars PROVE Twins'
  OBVIOUS
<1>1. CASE RequesterStep
  BY <1>1, RequestTwins
<1>2. ASSUME NEW w \in Workers, HandlerEnqueues(w) PROVE Twins'
  BY <1>2, HandlerEnqueuesTwins
<1>3. ASSUME NEW w \in Workers,
             (\E j \in Jobs : Claim(w, j)) \/ Succeed(w) \/ Fail(w) \/ Beat(w) \/ Restart(w)
               \/ FaultStep(w)
      PROVE  Twins'
  BY <1>3, WorkerTwins
<1>4. CASE Tick
  <2>1. job \in [Jobs -> Rows] /\ worker \in [Workers -> Processes]
    BY DEF IInv, TypeOK
  <2>2. \A j \in Jobs : job'[j].status = job[j].status /\ job'[j].key = job[j].key
    BY <1>4, <2>1 DEF Tick, Rows
  <2>3. \A v \in Workers : worker'[v].todo = worker[v].todo
    BY <1>4, <2>1 DEF Tick, Processes
  <2>4. UNCHANGED request
    BY <1>4 DEF Tick
  <2> QED
    BY <2>2, <2>3, <2>4, NoInsertTwins
<1>5. CASE UNCHANGED vars
  BY <1>5, NoInsertTwins DEF vars
<1> QED
  BY <1>1, <1>2, <1>3, <1>4, <1>5 DEF Next, WorkerStep

\* The duplicate check is a query without a lock, and still at most as many rows wait with one
\* key, or are about to be inserted, as there are enqueuers of that key.
THEOREM TwinsAreBounded == Spec => []TwinsBounded
<1>1. Init => Charged /\ Twins
  BY InitCharged, InitTwins
<1>2. IInv /\ (Charged /\ Twins) /\ [Next]_vars => (Charged /\ Twins)'
  BY NextCharged, NextTwins DEF Charged
<1>3. Charged /\ Twins => TwinsBounded
  BY DEF Twins
<1>4. Spec => [](Charged /\ Twins)
  BY <1>1, <1>2, Invariant, PTL DEF Spec
<1> QED
  BY <1>3, <1>4, PTL
===============================================================================
