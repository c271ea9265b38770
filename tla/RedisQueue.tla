----------------------------- MODULE RedisQueue -----------------------------
(***************************************************************************)
(* The Redis job queue (src/src/n8n/queue.rs) with the two loops that      *)
(* drive it: a worker slot (server/worker.rs), which pops, heartbeats,     *)
(* runs and acknowledges one job at a time, and the requeuer loop every    *)
(* main and worker process runs (N8n::spawn_requeuer).                     *)
(*                                                                         *)
(* One action is one Redis command or one MULTI block, so every            *)
(* interleaving of the commands of several processes is explored.  Time is *)
(* discrete: a lease is the number of ticks it still has.                  *)
(***************************************************************************)
EXTENDS Integers, Sequences

CONSTANTS
  Jobs,            \* job ids (fresh UUIDs)
  Workers,         \* worker slots
  Requeuers,       \* processes running the requeuer loop
  NoJob,           \* an empty hand
  LeaseTicks,      \* QUEUE_WORKER_LOCK_DURATION, in ticks
  HeartbeatTicks,  \* a third of it
  Punctual,        \* TRUE: no live worker stalls (see Tick)
  MaxCrashes,      \* bound on crashes and failed calls
  MaxWait          \* bound on the length of the wait list

ASSUME NoJobAssumption == NoJob \notin Jobs
ASSUME LeaseAssumption == LeaseTicks \in Nat \ {0} /\ HeartbeatTicks \in Nat \ {0}
ASSUME PunctualAssumption == Punctual \in BOOLEAN
ASSUME BoundsAssumption == MaxCrashes \in Nat /\ MaxWait \in Nat

VARIABLES
  wait,       \* list `wait`; its head is the RIGHT end, popped next
  active,     \* list `active`, as the number of occurrences of each id
  leases,     \* sorted set `leases`: ticks left, 0 expired, NoLease no member
  payload,    \* ids whose key `job:{id}` exists
  pushed,     \* ids drawn so far (history)
  completed,  \* ids some slot ran to the end (history)
  wpc, wjob,  \* each slot: where it is, and the id in its hand
  beat,       \* each slot: ticks since its last heartbeat
  rpc,        \* each requeuer: where it is
  listed,     \* each requeuer: what LRANGE returned and is not yet leased
  expired,    \* each requeuer: what ZRANGEBYSCORE returned and is not handled
  rjob,       \* each requeuer: the id whose lease it removed, or NoJob
  crashes

queue == <<wait, active, leases, payload>>
worker == <<wpc, wjob, beat>>
requeuer == <<rpc, listed, expired, rjob>>
history == <<pushed, completed>>
vars == <<queue, worker, requeuer, history, crashes>>

NoLease == -1

WorkerPc == {"idle", "moved", "leased", "gone", "running", "finished"}
RequeuerPc == {"idle", "listed", "expiring"}

TypeOK ==
  /\ wait \in Seq(Jobs)
  /\ active \in [Jobs -> Nat]
  /\ leases \in [Jobs -> NoLease..LeaseTicks]
  /\ payload \subseteq Jobs
  /\ pushed \subseteq Jobs
  /\ completed \subseteq Jobs
  /\ wpc \in [Workers -> WorkerPc]
  /\ wjob \in [Workers -> Jobs \cup {NoJob}]
  /\ beat \in [Workers -> 0..HeartbeatTicks]
  /\ rpc \in [Requeuers -> RequeuerPc]
  /\ listed \in [Requeuers -> [Jobs -> Nat]]
  /\ expired \in [Requeuers -> SUBSET Jobs]
  /\ rjob \in [Requeuers -> Jobs \cup {NoJob}]
  /\ crashes \in 0..MaxCrashes

Nothing == [j \in Jobs |-> 0]

Init ==
  /\ wait = <<>>
  /\ active = Nothing
  /\ leases = [j \in Jobs |-> NoLease]
  /\ payload = {}
  /\ pushed = {}
  /\ completed = {}
  /\ wpc = [w \in Workers |-> "idle"]
  /\ wjob = [w \in Workers |-> NoJob]
  /\ beat = [w \in Workers |-> 0]
  /\ rpc = [r \in Requeuers |-> "idle"]
  /\ listed = [r \in Requeuers |-> Nothing]
  /\ expired = [r \in Requeuers |-> {}]
  /\ rjob = [r \in Requeuers |-> NoJob]
  /\ crashes = 0

\* LREM key 1 id: one occurrence less, if there is one.
Lrem(list, j) == [list EXCEPT ![j] = IF @ > 0 THEN @ - 1 ELSE 0]

Waiting(j) == \E i \in DOMAIN wait : wait[i] = j

-----------------------------------------------------------------------------
(* The producer: SET job:{id} and LPUSH wait in one transaction.           *)

Push(j) ==
  /\ j \notin pushed
  /\ pushed' = pushed \cup {j}
  /\ payload' = payload \cup {j}
  /\ wait' = Append(wait, j)
  /\ UNCHANGED <<active, leases, completed, worker, requeuer, crashes>>

-----------------------------------------------------------------------------
(* A worker slot.  pop is three commands: BLMOVE, ZADD, GET.               *)

\* Mutant: BRPOP, which leaves no trace in `active`.
BrpopOnly(w) ==
  /\ wpc[w] = "idle"
  /\ wait # <<>>
  /\ wjob' = [wjob EXCEPT ![w] = Head(wait)]
  /\ wait' = Tail(wait)
  /\ wpc' = [wpc EXCEPT ![w] = "moved"]
  /\ UNCHANGED <<active, leases, payload, history, beat, requeuer, crashes>>

Blmove(w) ==
  /\ wpc[w] = "idle"
  /\ wait # <<>>
  /\ wjob' = [wjob EXCEPT ![w] = Head(wait)]
  /\ wait' = Tail(wait)
  /\ active' = [active EXCEPT ![Head(wait)] = @ + 1]
  /\ wpc' = [wpc EXCEPT ![w] = "moved"]
  /\ UNCHANGED <<leases, payload, history, beat, requeuer, crashes>>

TakeLease(w) ==
  /\ wpc[w] = "moved"
  /\ leases' = [leases EXCEPT ![wjob[w]] = LeaseTicks]
  /\ wpc' = [wpc EXCEPT ![w] = "leased"]
  /\ UNCHANGED <<wait, active, payload, history, wjob, beat, requeuer, crashes>>

\* Mutant: the entry is run although its data is gone.
RunRegardless(w) ==
  /\ wpc[w] = "leased"
  /\ wpc' = [wpc EXCEPT ![w] = "running"]
  /\ beat' = [beat EXCEPT ![w] = 0]
  /\ UNCHANGED <<queue, history, wjob, requeuer, crashes>>

\* GET job:{id}: run the job, or drop the entry if its data is gone.
GetPayload(w) ==
  /\ wpc[w] = "leased"
  /\ wpc' = [wpc EXCEPT ![w] = IF wjob[w] \in payload THEN "running" ELSE "gone"]
  /\ beat' = [beat EXCEPT ![w] = 0]
  /\ UNCHANGED <<queue, history, wjob, requeuer, crashes>>

\* ZADD XX: extends the lease only if it still exists.
Heartbeat(w) ==
  /\ wpc[w] = "running"
  /\ beat[w] > 0
  /\ leases' = [leases EXCEPT ![wjob[w]] = IF @ = NoLease THEN @ ELSE LeaseTicks]
  /\ beat' = [beat EXCEPT ![w] = 0]
  /\ UNCHANGED <<wait, active, payload, history, wpc, wjob, requeuer, crashes>>

\* run_job returned, with or without an error; the heartbeat task is aborted.
FinishRun(w) ==
  /\ wpc[w] = "running"
  /\ wpc' = [wpc EXCEPT ![w] = "finished"]
  /\ beat' = [beat EXCEPT ![w] = 0]
  /\ completed' = completed \cup {wjob[w]}
  /\ UNCHANGED <<queue, pushed, wjob, requeuer, crashes>>

\* LREM, ZREM and DEL in one transaction, by the id alone: the slot need not
\* hold the lease any more.
Ack(w) ==
  /\ wpc[w] \in {"gone", "finished"}
  /\ active' = Lrem(active, wjob[w])
  /\ leases' = [leases EXCEPT ![wjob[w]] = NoLease]
  /\ payload' = payload \ {wjob[w]}
  /\ wpc' = [wpc EXCEPT ![w] = "idle"]
  /\ wjob' = [wjob EXCEPT ![w] = NoJob]
  /\ UNCHANGED <<wait, history, beat, requeuer, crashes>>

\* The worker process dies or shuts down past its grace period, or one of
\* pop's or ack's calls fails: the slot forgets the job.
Abandon(w) ==
  /\ wpc[w] # "idle"
  /\ crashes < MaxCrashes
  /\ crashes' = crashes + 1
  /\ wpc' = [wpc EXCEPT ![w] = "idle"]
  /\ wjob' = [wjob EXCEPT ![w] = NoJob]
  /\ beat' = [beat EXCEPT ![w] = 0]
  /\ UNCHANGED <<queue, history, requeuer>>

-----------------------------------------------------------------------------
(* requeue_expired, one command at a time.                                 *)

ListActive(r) ==
  /\ rpc[r] = "idle"
  /\ listed' = [listed EXCEPT ![r] = active]
  /\ rpc' = [rpc EXCEPT ![r] = "listed"]
  /\ UNCHANGED <<queue, worker, history, expired, rjob, crashes>>

\* Mutant: an entry without a lease is left without one.
SkipListed(r, j) ==
  /\ rpc[r] = "listed"
  /\ listed[r][j] > 0
  /\ listed' = [listed EXCEPT ![r][j] = @ - 1]
  /\ UNCHANGED <<queue, worker, history, rpc, expired, rjob, crashes>>

\* ZADD NX for one id of the list, which may have moved on since.
LeaseListed(r, j) ==
  /\ rpc[r] = "listed"
  /\ listed[r][j] > 0
  /\ listed' = [listed EXCEPT ![r][j] = @ - 1]
  /\ leases' = [leases EXCEPT ![j] = IF @ = NoLease THEN LeaseTicks ELSE @]
  /\ UNCHANGED <<wait, active, payload, worker, history, rpc, expired, rjob, crashes>>

\* ZRANGEBYSCORE leases -inf now.
FindExpired(r) ==
  /\ rpc[r] = "listed"
  /\ listed[r] = Nothing
  /\ expired' = [expired EXCEPT ![r] = {j \in Jobs : leases[j] = 0}]
  /\ rpc' = [rpc EXCEPT ![r] = "expiring"]
  /\ UNCHANGED <<queue, worker, history, listed, rjob, crashes>>

\* ZREM, whatever score the member has by now: only the process that
\* removed it goes on to requeue the job.
RemoveLease(r, j) ==
  /\ rpc[r] = "expiring"
  /\ rjob[r] = NoJob
  /\ j \in expired[r]
  /\ expired' = [expired EXCEPT ![r] = @ \ {j}]
  /\ rjob' = [rjob EXCEPT ![r] = IF leases[j] # NoLease THEN j ELSE NoJob]
  /\ leases' = [leases EXCEPT ![j] = NoLease]
  /\ UNCHANGED <<wait, active, payload, worker, history, rpc, listed, crashes>>

\* LREM active and RPUSH wait in one transaction.  MaxWait bounds the list.
MoveBack(r) ==
  /\ rjob[r] # NoJob
  /\ Len(wait) < MaxWait
  /\ active' = Lrem(active, rjob[r])
  /\ wait' = <<rjob[r]>> \o wait
  /\ rjob' = [rjob EXCEPT ![r] = NoJob]
  /\ UNCHANGED <<leases, payload, worker, history, rpc, listed, expired, crashes>>

PassDone(r) ==
  /\ rpc[r] = "expiring"
  /\ rjob[r] = NoJob
  /\ expired[r] = {}
  /\ rpc' = [rpc EXCEPT ![r] = "idle"]
  /\ UNCHANGED <<queue, worker, history, listed, expired, rjob, crashes>>

\* The process dies in the middle of a pass, or a call fails.
AbandonPass(r) ==
  /\ rpc[r] # "idle"
  /\ crashes < MaxCrashes
  /\ crashes' = crashes + 1
  /\ rpc' = [rpc EXCEPT ![r] = "idle"]
  /\ listed' = [listed EXCEPT ![r] = Nothing]
  /\ expired' = [expired EXCEPT ![r] = {}]
  /\ rjob' = [rjob EXCEPT ![r] = NoJob]
  /\ UNCHANGED <<queue, worker, history>>

-----------------------------------------------------------------------------
(* Time.  When Punctual, a live slot does its Redis calls within a tick    *)
(* and heartbeats on schedule, so a tick waits for it; otherwise slots may *)
(* stall for any time, as a starved or partitioned process does.           *)

OnTime(w) ==
  \/ wpc[w] = "idle"
  \/ wpc[w] = "running" /\ beat[w] < HeartbeatTicks

Tick ==
  /\ Punctual => \A w \in Workers : OnTime(w)
  /\ leases' = [j \in Jobs |-> IF leases[j] > 0 THEN leases[j] - 1 ELSE leases[j]]
  /\ beat' = [w \in Workers |->
                IF wpc[w] = "running" /\ beat[w] < HeartbeatTicks
                THEN beat[w] + 1 ELSE beat[w]]
  /\ UNCHANGED <<wait, active, payload, wpc, wjob, requeuer, history, crashes>>

-----------------------------------------------------------------------------
Pop(w) == Blmove(w) \/ TakeLease(w) \/ GetPayload(w)

SlotNext(w) == Pop(w) \/ Heartbeat(w) \/ FinishRun(w) \/ Ack(w) \/ Abandon(w)

RequeueStep(r) ==
  \/ ListActive(r)
  \/ \E j \in Jobs : LeaseListed(r, j) \/ RemoveLease(r, j)
  \/ FindExpired(r)
  \/ MoveBack(r)
  \/ PassDone(r)

Next ==
  \/ \E j \in Jobs : Push(j)
  \/ \E w \in Workers : SlotNext(w)
  \/ \E r \in Requeuers : RequeueStep(r) \/ AbandonPass(r)
  \/ Tick

Spec == Init /\ [][Next]_vars

\* tokio keeps polling every loop, and the clock runs.
Fairness ==
  /\ \A w \in Workers : WF_vars(Pop(w)) /\ WF_vars(FinishRun(w)) /\ WF_vars(Ack(w))
  /\ \A r \in Requeuers : WF_vars(RequeueStep(r))
  /\ \A w \in Workers : WF_vars(Heartbeat(w))
  /\ WF_vars(Tick)

FairSpec == Spec /\ Fairness

-----------------------------------------------------------------------------
(* Properties.                                                             *)

\* No job is lost: while the data of a pushed job exists, its id is in the
\* wait list, where a slot will pop it, or in the active list, where a
\* requeuer will find it - whichever of pop, ack and requeue_expired were
\* cut short or interleaved (queue.rs 104-163).
NotLost == \A j \in payload : Waiting(j) \/ active[j] > 0

\* The data of a job goes only after a slot ran it to the end: the ack pop
\* sends for an entry without data (queue.rs 118-122), or one a slot sends
\* for a job it lost meanwhile, never deletes a job nobody finished.
RemovedOnlyAfterRun == pushed \ payload \subseteq completed

Holders(j) == {w \in Workers : wpc[w] = "running" /\ wjob[w] = j}

\* Two live slots never run the same job at once.  queue.rs 3-4: "a job
\* whose worker dies is handed out again once its lease expires" - and not
\* while its worker is alive and its lease kept alive by heartbeats.
OneRunner == \A v, w \in Workers : \A j \in Jobs : {v, w} \subseteq Holders(j) => v = w

\* Every pushed job is eventually run and its data removed, as long as
\* crashes come to an end.
EventuallyRemoved == \A j \in Jobs : (j \in pushed) ~> (j \notin payload)

-----------------------------------------------------------------------------
(* The queue implements JobQueue: a job is pending while its data exists.  *)

JobState == [j \in Jobs |-> IF j \in payload THEN "pending"
                            ELSE IF j \in pushed THEN "done" ELSE "absent"]

SlotRuns == [w \in Workers |-> IF wpc[w] \in {"running", "finished"}
                               THEN wjob[w] ELSE NoJob]

Abstract == INSTANCE JobQueue WITH state <- JobState, running <- SlotRuns

\* Whatever the interleaving, every step of the Redis queue is a step the
\* promise of delivery at least once allows: a job is never run before its
\* push nor started after its acknowledgement, and it is removed only by a
\* slot that ran it.
ImplementsJobQueue == Abstract!Spec
=============================================================================
