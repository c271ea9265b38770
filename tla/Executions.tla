----------------------------- MODULE Executions -----------------------------
(***************************************************************************)
(* The life of executions in one process (EXECUTIONS_MODE=regular):        *)
(* src/src/n8n/server/runner.rs starts, runs and resumes them,             *)
(* server/mod.rs resumes timed waits and recovers from a crash,            *)
(* server/rest.rs stops and deletes them.  Tasks and HTTP requests run     *)
(* concurrently and interleave at every await; the process may die at any  *)
(* point and is started again.                                             *)
(***************************************************************************)
EXTENDS ExecutionRows

CONSTANTS
  Tasks,         \* tasks that start or resume one execution at a time
  Stoppers,      \* stop requests being served
  NoTask, NoExec,
  MaxCrashes,    \* bound on process crashes
  MaxSaveErrors, \* bound on results and recoveries the database refuses
  MaxDrops       \* bound on tasks dropped at an await

ASSUME NoTaskAssumption == NoTask \notin Tasks /\ NoExec \notin Execs
ASSUME BoundsAssumption == {MaxCrashes, MaxSaveErrors, MaxDrops} \subseteq Nat

VARIABLES
  up,          \* the process is running
  runningMap,  \* N8n::running: the task whose options (cancel flag) an id maps to
  cancelled,   \* the cancel flag of each task's options
  tpc, texec,  \* each task: where it is, and its execution
  tpause,      \* each task: the pause it resumes from (0: from the start)
  tresult,     \* each task: the status its run ended with
  spc, sexec,  \* each stop request: where it is, and its execution
  srow,        \* each stop request: the row it read
  lost,        \* executions struck by a dropped task, or a refused save or
               \* recovery (history)
  crashes, saveErrors, drops

tasks == <<tpc, texec, tpause, tresult>>
stops == <<spc, sexec, srow>>
faults == <<crashes, saveErrors, drops>>
vars == <<row, up, runningMap, cancelled, tasks, stops, lost, faults>>

TaskPc == {"idle", "read", "ready", "run", "ended", "saved"}
StopPc == {"idle", "read", "cas", "save"}
Outcome == {"success", "error", "canceled", "waiting"}

TypeOK ==
  /\ row \in [Execs -> RowType]
  /\ up \in BOOLEAN
  /\ runningMap \in [Execs -> Tasks \cup {NoTask}]
  /\ cancelled \in [Tasks -> BOOLEAN]
  /\ tpc \in [Tasks -> TaskPc]
  /\ texec \in [Tasks -> Execs \cup {NoExec}]
  /\ tpause \in [Tasks -> 0..MaxWaits]
  /\ tresult \in [Tasks -> Outcome]
  /\ spc \in [Stoppers -> StopPc]
  /\ sexec \in [Stoppers -> Execs \cup {NoExec}]
  /\ srow \in [Stoppers -> RowType]
  /\ lost \subseteq Execs
  /\ crashes \in 0..MaxCrashes
  /\ saveErrors \in 0..MaxSaveErrors
  /\ drops \in 0..MaxDrops

IdleTasks ==
  /\ tpc' = [t \in Tasks |-> "idle"]
  /\ texec' = [t \in Tasks |-> NoExec]
  /\ tpause' = [t \in Tasks |-> 0]
  /\ tresult' = [t \in Tasks |-> "error"]
  /\ cancelled' = [t \in Tasks |-> FALSE]
  /\ runningMap' = [e \in Execs |-> NoTask]
  /\ spc' = [s \in Stoppers |-> "idle"]
  /\ sexec' = [s \in Stoppers |-> NoExec]
  /\ srow' = [s \in Stoppers |-> NoRow]

Init ==
  /\ row = [e \in Execs |-> NoRow]
  /\ up = TRUE
  /\ runningMap = [e \in Execs |-> NoTask]
  /\ cancelled = [t \in Tasks |-> FALSE]
  /\ tpc = [t \in Tasks |-> "idle"]
  /\ texec = [t \in Tasks |-> NoExec]
  /\ tpause = [t \in Tasks |-> 0]
  /\ tresult = [t \in Tasks |-> "error"]
  /\ spc = [s \in Stoppers |-> "idle"]
  /\ sexec = [s \in Stoppers |-> NoExec]
  /\ srow = [s \in Stoppers |-> NoRow]
  /\ lost = {}
  /\ crashes = 0
  /\ saveErrors = 0
  /\ drops = 0

TaskStep(t, from, to) == up /\ tpc[t] = from /\ tpc' = [tpc EXCEPT ![t] = to]

TaskEnds(t) ==
  /\ texec' = [texec EXCEPT ![t] = NoExec]
  /\ tpause' = [tpause EXCEPT ![t] = 0]
  /\ tresult' = [tresult EXCEPT ![t] = "error"]
  /\ cancelled' = [cancelled EXCEPT ![t] = FALSE]

-----------------------------------------------------------------------------
(* start_inner and resume                                                  *)

\* A new execution: its row is inserted as running.
Start(t, e) ==
  /\ TaskStep(t, "idle", "ready")
  /\ row[e] = NoRow
  /\ Insert(e, "running")
  /\ texec' = [texec EXCEPT ![t] = e]
  /\ UNCHANGED <<up, runningMap, cancelled, tpause, tresult, stops, lost, faults>>

\* resume, called by the timer for a wait that is due or by a request to
\* the resume URL: reads the row, and the wait_state in it.
ResumeRead(t, e) ==
  /\ TaskStep(t, "idle", "read")
  /\ Is(e, {"waiting"})
  /\ texec' = [texec EXCEPT ![t] = e]
  /\ tpause' = [tpause EXCEPT ![t] = row[e].pause]
  /\ UNCHANGED <<row, up, runningMap, cancelled, tresult, stops, lost, faults>>

\* Mutant: nobody looks at what transition_execution returned.
ResumeBlindly(t) ==
  LET e == texec[t] IN
  /\ up /\ tpc[t] = "read"
  /\ Transition(e, "waiting", "running")
  /\ tpc' = [tpc EXCEPT ![t] = "ready"]
  /\ UNCHANGED <<up, runningMap, cancelled, texec, tpause, tresult, stops, lost, faults>>

\* Only one of several resumes finds the row still waiting.
ResumeCas(t) ==
  LET e == texec[t] IN
  /\ up /\ tpc[t] = "read"
  /\ Transition(e, "waiting", "running")
  /\ IF Is(e, {"waiting"})
     THEN /\ tpc' = [tpc EXCEPT ![t] = "ready"]
          /\ UNCHANGED <<texec, tpause, tresult, cancelled>>
     ELSE /\ tpc' = [tpc EXCEPT ![t] = "idle"]
          /\ TaskEnds(t)
  /\ UNCHANGED <<up, runningMap, stops, lost, faults>>

\* The task is dropped while it awaits the answer to its INSERT or CAS,
\* which takes effect: a request whose client went away, or a timer whose
\* schedule is stopped (JoinHandle::abort).
Dropped(t) ==
  /\ TaskStep(t, "ready", "idle")
  /\ drops < MaxDrops
  /\ drops' = drops + 1
  /\ lost' = lost \cup {texec[t]}
  /\ TaskEnds(t)
  /\ UNCHANGED <<row, up, runningMap, stops, crashes, saveErrors>>

\* The options enter the running map and the run is spawned.
Launch(t) ==
  /\ TaskStep(t, "ready", "run")
  /\ runningMap' = [runningMap EXCEPT ![texec[t]] = t]
  /\ UNCHANGED <<row, up, cancelled, texec, tpause, tresult, stops, lost, faults>>

\* The engine returns: done, failed, cancelled (it was asked to be, or a
\* time limit passed), or paused at the next Wait node.
RunEnds(t, s) ==
  /\ TaskStep(t, "run", "ended")
  /\ s = "waiting" => tpause[t] < MaxWaits
  /\ tresult' = [tresult EXCEPT ![t] = s]
  /\ UNCHANGED <<row, up, runningMap, cancelled, texec, tpause, stops, lost, faults>>

\* Mutant: a result that is not to be kept leaves its row behind.
SaveOrForget(t) ==
  /\ TaskStep(t, "ended", "saved")
  /\ \/ SaveResult(texec[t], tresult[t],
                   IF tresult[t] = "waiting" THEN tpause[t] + 1 ELSE tpause[t])
     \/ tresult[t] # "waiting" /\ UNCHANGED row
  /\ UNCHANGED <<up, runningMap, cancelled, texec, tpause, tresult, stops, lost, faults>>

\* The result is saved; by the save policy one that is not waiting may be
\* dropped with its row instead.
Save(t) ==
  /\ TaskStep(t, "ended", "saved")
  /\ \/ SaveResult(texec[t], tresult[t],
                   IF tresult[t] = "waiting" THEN tpause[t] + 1 ELSE tpause[t])
     \/ tresult[t] # "waiting" /\ DeleteRow(texec[t])
  /\ UNCHANGED <<up, runningMap, cancelled, texec, tpause, tresult, stops, lost, faults>>

\* "could not store execution result" is logged, and that is all.
SaveFails(t) ==
  /\ TaskStep(t, "ended", "saved")
  /\ saveErrors < MaxSaveErrors
  /\ saveErrors' = saveErrors + 1
  /\ lost' = lost \cup {texec[t]}
  /\ UNCHANGED <<row, up, runningMap, cancelled, texec, tpause, tresult, stops, crashes, drops>>

\* The id leaves the running map, whoever's options it maps to by now.
Unregister(t) ==
  /\ TaskStep(t, "saved", "idle")
  /\ runningMap' = [runningMap EXCEPT ![texec[t]] = NoTask]
  /\ TaskEnds(t)
  /\ UNCHANGED <<row, up, stops, lost, faults>>

-----------------------------------------------------------------------------
(* rest.rs: stop_execution, delete_execution; the pruning timer            *)

StopRead(s, e) ==
  /\ up /\ spc[s] = "idle"
  /\ Is(e, Stored)
  /\ spc' = [spc EXCEPT ![s] = "read"]
  /\ sexec' = [sexec EXCEPT ![s] = e]
  /\ srow' = [srow EXCEPT ![s] = row[e]]
  /\ UNCHANGED <<row, up, runningMap, cancelled, tasks, lost, faults>>

StopEnds(s) ==
  /\ spc' = [spc EXCEPT ![s] = "idle"]
  /\ sexec' = [sexec EXCEPT ![s] = NoExec]
  /\ srow' = [srow EXCEPT ![s] = NoRow]

\* Cancels the run found in the running map; otherwise goes on only if the
\* row, as it was read, was waiting.
StopLookUp(s) ==
  LET t == runningMap[sexec[s]] IN
  /\ up /\ spc[s] = "read"
  /\ \/ t # NoTask /\ cancelled' = [cancelled EXCEPT ![t] = TRUE] /\ StopEnds(s)
     \/ /\ t = NoTask
        /\ srow[s].status = "waiting"
        /\ spc' = [spc EXCEPT ![s] = "cas"]
        /\ UNCHANGED <<cancelled, sexec, srow>>
     \/ t = NoTask /\ srow[s].status # "waiting" /\ StopEnds(s) /\ UNCHANGED cancelled
  /\ UNCHANGED <<row, up, runningMap, tasks, lost, faults>>

\* Mutant: the stop goes on though the row was not waiting any more.
StopBlindly(s) ==
  /\ up /\ spc[s] = "cas"
  /\ Transition(sexec[s], "waiting", "canceled")
  /\ spc' = [spc EXCEPT ![s] = "save"]
  /\ UNCHANGED <<up, runningMap, cancelled, tasks, sexec, srow, lost, faults>>

StopCas(s) ==
  /\ up /\ spc[s] = "cas"
  /\ Transition(sexec[s], "waiting", "canceled")
  /\ \/ /\ Is(sexec[s], {"waiting"})
        /\ spc' = [spc EXCEPT ![s] = "save"]
        /\ UNCHANGED <<sexec, srow>>
     \/ ~Is(sexec[s], {"waiting"}) /\ StopEnds(s)
  /\ UNCHANGED <<up, runningMap, cancelled, tasks, lost, faults>>

\* Saves the data it read at the start as the cancelled execution's.
StopSave(s) ==
  /\ up /\ spc[s] = "save"
  /\ SaveResult(sexec[s], "canceled", srow[s].pause)
  /\ StopEnds(s)
  /\ UNCHANGED <<up, runningMap, cancelled, tasks, lost, faults>>

\* delete_execution deletes a row in any state, a running one included.
Delete(e) ==
  /\ up
  /\ Is(e, Stored)
  /\ DeleteRow(e)
  /\ UNCHANGED <<up, runningMap, cancelled, tasks, stops, lost, faults>>

Prune(e) ==
  /\ up
  /\ Prunable(e)
  /\ DeleteRow(e)
  /\ UNCHANGED <<up, runningMap, cancelled, tasks, stops, lost, faults>>

-----------------------------------------------------------------------------
(* Crash and restart                                                       *)

\* The process dies, or exits when its grace period for draining is over.
Crash ==
  /\ up
  /\ crashes < MaxCrashes
  /\ crashes' = crashes + 1
  /\ up' = FALSE
  /\ IdleTasks
  /\ UNCHANGED <<row, lost, saveErrors, drops>>

\* start_background marks what the previous process left behind before the
\* server answers requests.
Restart ==
  /\ ~up
  /\ up' = TRUE
  /\ MarkCrashed
  /\ UNCHANGED <<runningMap, cancelled, tasks, stops, lost, faults>>

\* "crash recovery failed" is logged, and the server starts.
RestartUnmarked ==
  /\ ~up
  /\ up' = TRUE
  /\ saveErrors < MaxSaveErrors
  /\ saveErrors' = saveErrors + 1
  /\ lost' = lost \cup {e \in Execs : Is(e, {"running"})}
  /\ UNCHANGED <<row, runningMap, cancelled, tasks, stops, crashes, drops>>

-----------------------------------------------------------------------------
Run(t) == Launch(t) \/ (\E s \in Outcome : RunEnds(t, s)) \/ Save(t) \/ Unregister(t)

Stop(s) == StopLookUp(s) \/ StopCas(s) \/ StopSave(s)

Next ==
  \/ \E t \in Tasks, e \in Execs : Start(t, e) \/ ResumeRead(t, e)
  \/ \E t \in Tasks : ResumeCas(t) \/ Dropped(t) \/ Run(t) \/ SaveFails(t)
  \/ \E s \in Stoppers, e \in Execs : StopRead(s, e)
  \/ \E s \in Stoppers : Stop(s)
  \/ \E e \in Execs : Delete(e) \/ Prune(e)
  \/ Crash \/ Restart \/ RestartUnmarked

Spec == Init /\ [][Next]_vars

\* Runs end (the engine bounds node runs and honours timeouts), tasks are
\* polled, and an operator restarts a dead process.
Fairness ==
  /\ \A t \in Tasks : WF_vars(ResumeCas(t)) /\ WF_vars(Run(t))
  /\ \A s \in Stoppers : WF_vars(Stop(s))
  /\ WF_vars(Restart)

FairSpec == Spec /\ Fairness

-----------------------------------------------------------------------------
(* Properties                                                              *)

InCharge(t, e) == texec[t] = e /\ tpc[t] \in {"ready", "run", "ended"}

\* Start, timer, resume URL, stop and crash recovery race, and yet an
\* execution is never run by two tasks at once (runner.rs 489-514).
OneRun == \A t, u \in Tasks : \A e \in Execs : InCharge(t, e) /\ InCharge(u, e) => t = u

\* No execution is stranded: while the process is up, a row is "running"
\* only if a task is in charge of it, or its task was dropped, or the
\* database refused its result or its recovery. It is never "new".
NoneStranded ==
  \A e \in Execs :
    /\ up /\ Is(e, {"running"}) => e \in lost \/ \E t \in Tasks : InCharge(t, e)
    /\ ~Is(e, {"new"})

\* A stop that took a waiting row saves the data it read before that. When
\* the execution was resumed and paused again in between, this is the data of
\* another pause (rest.rs 285-293).
OldDataSaved(e) ==
  \E s \in Stoppers : spc[s] = "save" /\ sexec[s] = e /\ DataReplaced(e, srow[s].pause)

\* An ended execution stays as it ended, status and run data: no late
\* resume, save or crash recovery changes it, nor does a late stop, but for
\* the run data of the execution it cancelled itself.
FinalIsFinal == [][\A e \in Execs : FinalStays(e) \/ OldDataSaved(e)]_vars

\* Every accepted execution comes to rest: crash or not, it does not stay
\* "running", unless its task was dropped or the database refused a write.
ComesToRest == \A e \in Execs : Is(e, {"running"}) ~> ~Is(e, {"running"}) \/ e \in lost
=============================================================================
