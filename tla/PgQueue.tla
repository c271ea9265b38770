------------------------------- MODULE PgQueue -------------------------------
(***************************************************************************)
(* The PostgreSQL job queue (src/src/n8n/queue.rs) and the worker slots    *)
(* that use it (server/worker.rs).  A job is a row of r8r_queue; every     *)
(* operation is one statement, atomic in the database, and there is no     *)
(* requeuer: an expired lease makes the row eligible again.                *)
(* Time is discrete, as in RedisQueue.                                     *)
(***************************************************************************)
EXTENDS Integers

CONSTANTS
  Jobs,            \* the serial ids
  Workers,         \* worker slots
  NoJob,           \* an empty hand
  LeaseTicks,      \* QUEUE_WORKER_LOCK_DURATION, in ticks
  HeartbeatTicks,  \* ticks between heartbeats
  Punctual,        \* TRUE: no live worker stalls (see Tick)
  MaxCrashes       \* bound on crashes and failed calls

ASSUME JobsAssumption == Jobs \subseteq Nat
ASSUME NoJobAssumption == NoJob \notin Jobs
ASSUME LeaseAssumption == LeaseTicks \in Nat \ {0} /\ HeartbeatTicks \in Nat \ {0}
\* The code heartbeats every third of the lease.
ASSUME HeartbeatAssumption == HeartbeatTicks < LeaseTicks
ASSUME PunctualAssumption == Punctual \in BOOLEAN
ASSUME BoundsAssumption == MaxCrashes \in Nat

VARIABLES
  rows,       \* ids of the rows in the table
  lease,      \* leased_until: ticks left, 0 passed, NoLease NULL
  pushed,     \* ids drawn so far (history)
  completed,  \* ids some slot ran to the end (history)
  wpc, wjob,  \* each slot: where it is, and the row it took
  beat,       \* each slot: ticks since its last heartbeat
  crashes

vars == <<rows, lease, pushed, completed, wpc, wjob, beat, crashes>>

NoLease == -1

TypeOK ==
  /\ rows \subseteq pushed
  /\ pushed \subseteq Jobs
  /\ completed \subseteq pushed
  /\ lease \in [Jobs -> NoLease..LeaseTicks]
  /\ wpc \in [Workers -> {"idle", "running", "finished"}]
  /\ wjob \in [Workers -> pushed \cup {NoJob}]
  /\ beat \in [Workers -> 0..HeartbeatTicks]
  /\ crashes \in 0..MaxCrashes

Init ==
  /\ rows = {}
  /\ lease = [j \in Jobs |-> NoLease]
  /\ pushed = {}
  /\ completed = {}
  /\ wpc = [w \in Workers |-> "idle"]
  /\ wjob = [w \in Workers |-> NoJob]
  /\ beat = [w \in Workers |-> 0]
  /\ crashes = 0

\* INSERT: the serial is drawn before the row is visible, so the rows of
\* concurrent pushes appear in any order.
Push(j) ==
  /\ j \notin pushed
  /\ pushed' = pushed \cup {j}
  /\ rows' = rows \cup {j}
  /\ UNCHANGED <<lease, completed, wpc, wjob, beat, crashes>>

\* Mutant: acknowledged rows are handed out again.
EligibleDone == {j \in pushed : lease[j] \in {NoLease, 0}}

\* Mutant: an expired lease does not free the row.
EligibleNew == {j \in rows : lease[j] = NoLease}

\* leased_until IS NULL OR leased_until < now()
Eligible == {j \in rows : lease[j] \in {NoLease, 0}}

\* Mutant: SELECT without the UPDATE: no lease is taken.
PopUnleased(w) ==
  /\ wpc[w] = "idle"
  /\ \E j \in Eligible :
       /\ \A k \in Eligible : j <= k
       /\ wjob' = [wjob EXCEPT ![w] = j]
  /\ wpc' = [wpc EXCEPT ![w] = "running"]
  /\ beat' = [beat EXCEPT ![w] = 0]
  /\ UNCHANGED <<rows, lease, pushed, completed, crashes>>

\* UPDATE ... WHERE id = (SELECT ... ORDER BY id FOR UPDATE SKIP LOCKED
\* LIMIT 1): the statement that skips a row another one holds locked takes
\* effect after that other one.
Pop(w) ==
  /\ wpc[w] = "idle"
  /\ \E j \in Eligible :
       /\ \A k \in Eligible : j <= k
       /\ lease' = [lease EXCEPT ![j] = LeaseTicks]
       /\ wjob' = [wjob EXCEPT ![w] = j]
  /\ wpc' = [wpc EXCEPT ![w] = "running"]
  /\ beat' = [beat EXCEPT ![w] = 0]
  /\ UNCHANGED <<rows, pushed, completed, crashes>>

\* By the id alone: whoever holds the lease now, it is extended.
Heartbeat(w) ==
  /\ wpc[w] = "running"
  /\ beat[w] > 0
  /\ lease' = [lease EXCEPT ![wjob[w]] = IF wjob[w] \in rows THEN LeaseTicks ELSE @]
  /\ beat' = [beat EXCEPT ![w] = 0]
  /\ UNCHANGED <<rows, pushed, completed, wpc, wjob, crashes>>

FinishRun(w) ==
  /\ wpc[w] = "running"
  /\ wpc' = [wpc EXCEPT ![w] = "finished"]
  /\ completed' = completed \cup {wjob[w]}
  /\ UNCHANGED <<rows, lease, pushed, wjob, beat, crashes>>

\* DELETE by the id alone.
Ack(w) ==
  /\ wpc[w] = "finished"
  /\ rows' = rows \ {wjob[w]}
  /\ lease' = [lease EXCEPT ![wjob[w]] = NoLease]
  /\ wpc' = [wpc EXCEPT ![w] = "idle"]
  /\ wjob' = [wjob EXCEPT ![w] = NoJob]
  /\ beat' = [beat EXCEPT ![w] = 0]
  /\ UNCHANGED <<pushed, completed, crashes>>

\* The worker process dies, or the ack fails: the slot forgets the job.
Abandon(w) ==
  /\ wpc[w] # "idle"
  /\ crashes < MaxCrashes
  /\ crashes' = crashes + 1
  /\ wpc' = [wpc EXCEPT ![w] = "idle"]
  /\ wjob' = [wjob EXCEPT ![w] = NoJob]
  /\ beat' = [beat EXCEPT ![w] = 0]
  /\ UNCHANGED <<rows, lease, pushed, completed>>

OnTime(w) ==
  \/ wpc[w] = "idle"
  \/ wpc[w] = "running" /\ beat[w] < HeartbeatTicks

\* When Punctual, a live slot heartbeats on schedule and acknowledges within
\* a tick, so a tick waits for it; otherwise slots may stall for any time.
Tick ==
  /\ Punctual => \A w \in Workers : OnTime(w)
  /\ lease' = [j \in Jobs |-> IF lease[j] > 0 THEN lease[j] - 1 ELSE lease[j]]
  /\ beat' = [w \in Workers |->
                IF wpc[w] = "running" /\ beat[w] < HeartbeatTicks
                THEN beat[w] + 1 ELSE beat[w]]
  /\ UNCHANGED <<rows, pushed, completed, wpc, wjob, crashes>>

Next ==
  \/ \E j \in Jobs : Push(j)
  \/ \E w \in Workers :
       Pop(w) \/ Heartbeat(w) \/ FinishRun(w) \/ Ack(w) \/ Abandon(w)
  \/ Tick

Spec == Init /\ [][Next]_vars

Fairness ==
  /\ \A w \in Workers : WF_vars(Pop(w)) /\ WF_vars(Heartbeat(w))
                        /\ WF_vars(FinishRun(w)) /\ WF_vars(Ack(w))
  /\ WF_vars(Tick)

FairSpec == Spec /\ Fairness

-----------------------------------------------------------------------------
\* A row goes only after a slot ran its job to the end, even when the slot
\* that deletes it lost its lease to another (queue.rs 240-243).
RemovedOnlyAfterRun == pushed \ rows \subseteq completed

\* While every live slot heartbeats on schedule, no two slots hold the same
\* job: a job is handed out again only after its worker died
\* (queue.rs 3-4, 215-219).
OneRunner ==
  \A v, w \in Workers : wjob[v] = wjob[w] /\ wjob[v] # NoJob => v = w

\* Every pushed job is eventually run and its row removed, as long as
\* crashes come to an end: an expired lease is found again by pop alone.
EventuallyRemoved == \A j \in Jobs : (j \in pushed) ~> (j \notin rows)

\* The queue implements JobQueue: a job is pending while its row exists.
JobState == [j \in Jobs |-> IF j \in rows THEN "pending"
                            ELSE IF j \in pushed THEN "done" ELSE "absent"]

Abstract == INSTANCE JobQueue WITH state <- JobState, running <- wjob

\* Every step of the PostgreSQL queue is one that delivery at least once
\* allows.
ImplementsJobQueue == Abstract!Spec
=============================================================================
