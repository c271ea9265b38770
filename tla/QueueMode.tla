------------------------------ MODULE QueueMode ------------------------------
(***************************************************************************)
(* The life of executions in queue mode (EXECUTIONS_MODE=queue): a main or *)
(* webhook process records an execution, pushes a job and follows the row  *)
(* (enqueue and resume in src/src/n8n/server/runner.rs); a worker takes    *)
(* the job, runs it, saves the result and acknowledges it (run_job,        *)
(* start_inner, server/worker.rs).  The queue between them is JobQueue:    *)
(* what RedisQueue and PgQueue were shown to implement.                    *)
(*                                                                         *)
(* The row and the job are two stores with no transaction over both, so a  *)
(* process can die between any two of its steps.                           *)
(***************************************************************************)
EXTENDS ExecutionRows, FiniteSets

CONSTANTS
  Jobs, Workers, NoJob,
  Callers,          \* requests and timers, in main and webhook processes
  NoExec,
  Deletable,        \* executions a user may delete (bounds those requests)
  MaxFaults         \* bound on callers lost before they pushed, workers lost,
                    \* and a worker's calls the database refuses

ASSUME NoAssumption == NoJob \notin Jobs /\ NoExec \notin Execs
ASSUME DeletableAssumption == Deletable \subseteq Execs
ASSUME BoundsAssumption == MaxFaults \in Nat

VARIABLES
  state, running,       \* of JobQueue
  content,              \* each job: the execution, and the pause it resumes
  cpc, cexec, cpause,   \* each caller: where it is, what it starts or resumes
  wpc, wresult,         \* each worker: where it is, how its run ended
  lost,         \* executions that lost a caller or a write (history)
  redelivered,  \* executions whose job was given to a second worker (history)
  faults

Queue == INSTANCE JobQueue

caller == <<cpc, cexec, cpause>>
worker == <<wpc, wresult>>
history == <<lost, redelivered>>
vars == <<row, state, running, content, caller, worker, history, faults>>

CallerPc == {"idle", "read", "requeue", "push", "follow", "stop", "canceled"}
WorkerPc == {"idle", "taken", "run", "ended", "saved"}
Outcome == {"success", "error", "waiting"}
Content == [exec : Execs \cup {NoExec}, pause : 0..MaxWaits]
NoContent == [exec |-> NoExec, pause |-> 0]

TypeOK ==
  /\ row \in [Execs -> RowType]
  /\ Queue!TypeOK
  /\ content \in [Jobs -> Content]
  /\ cpc \in [Callers -> CallerPc]
  /\ cexec \in [Callers -> Execs \cup {NoExec}]
  /\ cpause \in [Callers -> 0..MaxWaits]
  /\ wpc \in [Workers -> WorkerPc]
  /\ wresult \in [Workers -> Outcome]
  /\ lost \subseteq Execs
  /\ redelivered \subseteq Execs
  /\ faults \in 0..MaxFaults

Init ==
  /\ row = [e \in Execs |-> NoRow]
  /\ Queue!Init
  /\ content = [j \in Jobs |-> NoContent]
  /\ cpc = [c \in Callers |-> "idle"]
  /\ cexec = [c \in Callers |-> NoExec]
  /\ cpause = [c \in Callers |-> 0]
  /\ wpc = [w \in Workers |-> "idle"]
  /\ wresult = [w \in Workers |-> "error"]
  /\ lost = {}
  /\ redelivered = {}
  /\ faults = 0

-----------------------------------------------------------------------------
(* The caller: enqueue and resume                                          *)

CallerStep(c, from, to) == cpc[c] = from /\ cpc' = [cpc EXCEPT ![c] = to]

CallerEnds(c) ==
  /\ cpc' = [cpc EXCEPT ![c] = "idle"]
  /\ cexec' = [cexec EXCEPT ![c] = NoExec]
  /\ cpause' = [cpause EXCEPT ![c] = 0]

\* Bounds the pushes: every caller on its way to one finds a job id, and no
\* row is inserted or resumed without one.
IdsLeft ==
  Cardinality({c \in Callers : cpc[c] \in {"requeue", "push"}})
    < Cardinality({j \in Jobs : state[j] = "absent"})

\* A new execution: its row is inserted as new.
Accept(c, e) ==
  /\ CallerStep(c, "idle", "push")
  /\ IdsLeft
  /\ row[e] = NoRow
  /\ Insert(e, "new")
  /\ cexec' = [cexec EXCEPT ![c] = e]
  /\ UNCHANGED <<state, running, content, cpause, worker, history, faults>>

\* resume, by the timer of some main or a request: reads the waiting row.
ResumeRead(c, e) ==
  /\ CallerStep(c, "idle", "read")
  /\ Is(e, {"waiting"})
  /\ cexec' = [cexec EXCEPT ![c] = e]
  /\ cpause' = [cpause EXCEPT ![c] = row[e].pause]
  /\ UNCHANGED <<row, state, running, content, worker, history, faults>>

\* Mutant: nobody looks at what transition_execution returned.
ResumeBlindly(c) ==
  /\ CallerStep(c, "read", "requeue")
  /\ Transition(cexec[c], "waiting", "running")
  /\ UNCHANGED <<state, running, content, cexec, cpause, worker, history, faults>>

ResumeCas(c) ==
  /\ cpc[c] = "read"
  /\ Is(cexec[c], {"waiting"}) => IdsLeft
  /\ Transition(cexec[c], "waiting", "running")
  /\ \/ /\ Is(cexec[c], {"waiting"})
        /\ cpc' = [cpc EXCEPT ![c] = "requeue"]
        /\ UNCHANGED <<cexec, cpause>>
     \/ ~Is(cexec[c], {"waiting"}) /\ CallerEnds(c)
  /\ UNCHANGED <<state, running, content, worker, history, faults>>

\* enqueue of a resumed execution: running becomes new, if it still is.
Requeue(c) ==
  /\ CallerStep(c, "requeue", "push")
  /\ Transition(cexec[c], "running", "new")
  /\ UNCHANGED <<state, running, content, cexec, cpause, worker, history, faults>>

PushJob(c) ==
  /\ CallerStep(c, "push", "follow")
  /\ \E j \in Jobs :
       /\ Queue!Push(j)
       /\ content' = [content EXCEPT ![j] = [exec |-> cexec[c], pause |-> cpause[c]]]
  /\ UNCHANGED <<row, cexec, cpause, worker, history, faults>>

\* Polls the row until it is neither new nor running, or gone.
Follow(c) ==
  /\ cpc[c] = "follow"
  /\ ~Is(cexec[c], {"new", "running"})
  /\ CallerEnds(c)
  /\ UNCHANGED <<row, state, running, content, worker, history, faults>>

\* The calling process dies, or the database or the queue refuses a call
\* (the error is returned, and nothing is undone).
CallerLost(c) ==
  /\ cpc[c] \in {"requeue", "push"}
  /\ faults < MaxFaults
  /\ faults' = faults + 1
  /\ lost' = lost \cup {cexec[c]}
  /\ CallerEnds(c)
  /\ UNCHANGED <<row, state, running, content, worker, redelivered>>

-----------------------------------------------------------------------------
(* The worker: run_worker, run_job and the tail of start_inner             *)

Holds(w, j) == running[w] = j

JobOf(w) == content[running[w]]

WorkerStep(w, from, to) == wpc[w] = from /\ wpc' = [wpc EXCEPT ![w] = to]

\* A pending job may be handed out while another worker holds it: its lease
\* expired, or another requeuer removed it.
TakeJob(w) ==
  /\ WorkerStep(w, "idle", "taken")
  /\ \E j \in Jobs :
       /\ Queue!Take(w, j)
       /\ redelivered' = IF \E v \in Workers : Holds(v, j)
                         THEN redelivered \cup {content[j].exec} ELSE redelivered
  /\ UNCHANGED <<row, content, caller, wresult, lost, faults>>

\* Mutant: a job whose row is not new any more is not begun.
BeginOnlyNew(w) ==
  /\ WorkerStep(w, "taken", "run")
  /\ Is(JobOf(w).exec, {"new"})
  /\ Transition(JobOf(w).exec, "new", "running")
  /\ UNCHANGED <<state, running, content, caller, wresult, history, faults>>

\* new becomes running, if it still is: the answer is not looked at.
Begin(w) ==
  /\ WorkerStep(w, "taken", "run")
  /\ Transition(JobOf(w).exec, "new", "running")
  /\ UNCHANGED <<state, running, content, caller, wresult, history, faults>>

\* The job says where to start from, whatever the row holds by now.
RunEnds(w, s) ==
  /\ WorkerStep(w, "run", "ended")
  /\ s = "waiting" => JobOf(w).pause < MaxWaits
  /\ wresult' = [wresult EXCEPT ![w] = s]
  /\ UNCHANGED <<row, state, running, content, caller, history, faults>>

\* Saves the result or, by the save policy, deletes the row.
Save(w) ==
  LET job == JobOf(w) IN
  /\ WorkerStep(w, "ended", "saved")
  /\ \/ SaveResult(job.exec, wresult[w],
                   IF wresult[w] = "waiting" THEN job.pause + 1 ELSE job.pause)
     \/ wresult[w] # "waiting" /\ DeleteRow(job.exec)
  /\ UNCHANGED <<state, running, content, caller, wresult, history, faults>>

\* Mutant: the job is acknowledged before its result is saved.
AckUnsaved(w) ==
  /\ WorkerStep(w, "ended", "idle")
  /\ Queue!Complete(w)
  /\ wresult' = [wresult EXCEPT ![w] = "error"]
  /\ UNCHANGED <<row, content, caller, history, faults>>

Ack(w) ==
  /\ WorkerStep(w, "saved", "idle")
  /\ Queue!Complete(w)
  /\ wresult' = [wresult EXCEPT ![w] = "error"]
  /\ UNCHANGED <<row, content, caller, history, faults>>

\* The database refuses new -> running, or the result: the error is logged,
\* and the job is acknowledged all the same.
DbError(w) ==
  /\ WorkerStep(w, "taken", "saved") \/ WorkerStep(w, "ended", "saved")
  /\ faults < MaxFaults
  /\ faults' = faults + 1
  /\ lost' = lost \cup {JobOf(w).exec}
  /\ UNCHANGED <<row, state, running, content, caller, wresult, redelivered>>

\* The worker dies, or its acknowledgement fails.
WorkerLost(w) ==
  /\ Queue!Lose(w)
  /\ faults < MaxFaults
  /\ faults' = faults + 1
  /\ redelivered' = redelivered \cup {JobOf(w).exec}
  /\ wpc' = [wpc EXCEPT ![w] = "idle"]
  /\ wresult' = [wresult EXCEPT ![w] = "error"]
  /\ UNCHANGED <<row, content, caller, lost>>

-----------------------------------------------------------------------------
(* rest.rs: stop_execution finds no run in this process, so it only acts   *)
(* on a waiting row; delete_execution deletes a row in any state.          *)

StopRead(c, e) ==
  /\ CallerStep(c, "idle", "stop")
  /\ Is(e, {"waiting"})
  /\ cexec' = [cexec EXCEPT ![c] = e]
  /\ cpause' = [cpause EXCEPT ![c] = row[e].pause]
  /\ UNCHANGED <<row, state, running, content, worker, history, faults>>

\* Mutant: the stop goes on though the row was not waiting any more.
StopBlindly(c) ==
  /\ CallerStep(c, "stop", "canceled")
  /\ Transition(cexec[c], "waiting", "canceled")
  /\ UNCHANGED <<state, running, content, cexec, cpause, worker, history, faults>>

StopCas(c) ==
  /\ cpc[c] = "stop"
  /\ Transition(cexec[c], "waiting", "canceled")
  /\ \/ /\ Is(cexec[c], {"waiting"})
        /\ cpc' = [cpc EXCEPT ![c] = "canceled"]
        /\ UNCHANGED <<cexec, cpause>>
     \/ ~Is(cexec[c], {"waiting"}) /\ CallerEnds(c)
  /\ UNCHANGED <<state, running, content, worker, history, faults>>

StopSave(c) ==
  /\ cpc[c] = "canceled"
  /\ SaveResult(cexec[c], "canceled", cpause[c])
  /\ CallerEnds(c)
  /\ UNCHANGED <<state, running, content, worker, history, faults>>

Delete(e) ==
  /\ e \in Deletable
  /\ Is(e, Stored)
  /\ DeleteRow(e)
  /\ UNCHANGED <<state, running, content, caller, worker, history, faults>>

-----------------------------------------------------------------------------
CallerNext(c) == ResumeCas(c) \/ Requeue(c) \/ PushJob(c) \/ Follow(c) \/ StopCas(c) \/ StopSave(c)

WorkerNext(w) == Begin(w) \/ (\E s \in Outcome : RunEnds(w, s)) \/ Save(w) \/ Ack(w)

Next ==
  \/ \E c \in Callers, e \in Execs : Accept(c, e) \/ ResumeRead(c, e) \/ StopRead(c, e)
  \/ \E c \in Callers : CallerNext(c) \/ CallerLost(c)
  \/ \E w \in Workers : TakeJob(w) \/ WorkerNext(w) \/ DbError(w) \/ WorkerLost(w)
  \/ \E e \in Execs : Delete(e)

Spec == Init /\ [][Next]_vars

\* Tasks are polled, runs end, and a queue with a job in it hands it out
\* (EventuallyRemoved of RedisQueue and PgQueue).
Fairness ==
  /\ \A c \in Callers : WF_vars(CallerNext(c))
  /\ \A w \in Workers : WF_vars(WorkerNext(w)) /\ WF_vars(TakeJob(w))

FairSpec == Spec /\ Fairness

-----------------------------------------------------------------------------
(* Properties                                                              *)

\* Who may still write an execution's row: callers on their way to push it,
\* jobs waiting for a worker, and workers that have not saved yet.
Enqueuing(e) == {c \in Callers : cexec[c] = e /\ cpc[c] \in {"requeue", "push"}}
Queued(e) ==
  {j \in Jobs : /\ content[j].exec = e /\ state[j] = "pending"
                /\ \A w \in Workers : ~Holds(w, j)}
Running(e) ==
  {w \in Workers : wpc[w] \in {"taken", "run", "ended"} /\ JobOf(w).exec = e}

Hands(e) ==
  ({"caller"} \X Enqueuing(e)) \cup ({"job"} \X Queued(e)) \cup ({"worker"} \X Running(e))

\* As long as its jobs are delivered once, an execution is in one pair of
\* hands: resumes, timers and stops never start it twice.
OneInCharge == \A e \in Execs \ redelivered : Cardinality(Hands(e)) <= 1

\* A row that is new or running is never forgotten: somebody is on the way
\* to push it, or a job for it is still in the queue - workers may die and
\* leases be stolen at any point of a run - unless the execution lost its
\* caller or a write.
Covered ==
  \A e \in Execs : Is(e, {"new", "running"}) =>
    \/ e \in lost
    \/ Enqueuing(e) # {}
    \/ \E j \in Jobs : content[j].exec = e /\ state[j] = "pending"

\* A stop that took a waiting row saves the data it read before that, which
\* may be the data of another pause by now (rest.rs 285-293).
OldDataSaved(e) ==
  \E c \in Callers : cpc[c] = "canceled" /\ cexec[c] = e /\ DataReplaced(e, cpause[c])

\* As long as its jobs are delivered once, an ended execution stays as it
\* ended, status and run data, until its row is deleted; only a stop still
\* saves the run data it read over those of the execution it cancelled.
FinalIfDeliveredOnce ==
  [][\A e \in Execs \ redelivered : FinalStays(e) \/ OldDataSaved(e)]_vars

\* An accepted execution does not stay new or running for ever, unless it
\* lost its caller or a write.
AtRest(e) == ~Is(e, {"new", "running"})
ComesToRest == \A e \in Execs : ~AtRest(e) ~> AtRest(e) \/ e \in lost
=============================================================================
