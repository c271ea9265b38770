-------------------------- MODULE ExecutionsProofs --------------------------
(***************************************************************************)
(* Proofs about Executions, for any number of executions, tasks and stop   *)
(* requests, and any number of crashes, pauses and failed saves.           *)
(***************************************************************************)
EXTENDS Executions, TLAPS

-----------------------------------------------------------------------------
(* What the operators of ExecutionRows do to the row they name.            *)

\* A statement changes only the row it names, as its SQL says, into a row.
LEMMA RowEffects ==
  ASSUME row \in [Execs -> RowType], NEW e \in Execs
  PROVE  /\ \A s \in Stored : Insert(e, s) =>
              /\ row' \in [Execs -> RowType]
              /\ row'[e] = [status |-> s, pause |-> 0]
              /\ \A f \in Execs \ {e} : row'[f] = row[f]
         /\ \A from, to \in Stored : Transition(e, from, to) =>
              /\ row' \in [Execs -> RowType]
              /\ row'[e].status = IF row[e].status = from THEN to ELSE row[e].status
              /\ row'[e].pause = row[e].pause
              /\ \A f \in Execs \ {e} : row'[f] = row[f]
         /\ \A s \in Stored, n \in 0..MaxWaits : SaveResult(e, s, n) =>
              /\ row' \in [Execs -> RowType]
              /\ row'[e] = IF row[e].status \in Stored
                           THEN [status |-> s, pause |-> n] ELSE row[e]
              /\ \A f \in Execs \ {e} : row'[f] = row[f]
         /\ DeleteRow(e) =>
              /\ row' \in [Execs -> RowType]
              /\ row'[e].status = IF row[e].status \in Stored
                                  THEN "deleted" ELSE row[e].status
              /\ \A f \in Execs \ {e} : row'[f] = row[f]
<1>1. row[e] \in RowType
  OBVIOUS
<1>2. ASSUME NEW s \in Stored, Insert(e, s)
      PROVE  /\ row' \in [Execs -> RowType]
             /\ row'[e] = [status |-> s, pause |-> 0]
             /\ \A f \in Execs \ {e} : row'[f] = row[f]
  BY <1>2, MaxWaitsAssumption DEF Insert, RowType
<1>3. ASSUME NEW from \in Stored, NEW to \in Stored, Transition(e, from, to)
      PROVE  /\ row' \in [Execs -> RowType]
             /\ row'[e].status = IF row[e].status = from THEN to ELSE row[e].status
             /\ row'[e].pause = row[e].pause
             /\ \A f \in Execs \ {e} : row'[f] = row[f]
  <2>1. [row[e] EXCEPT !.status = IF @ = from THEN to ELSE @] \in RowType
    BY <1>1 DEF RowType
  <2> QED BY <1>1, <1>3, <2>1 DEF Transition, RowType
<1>4. ASSUME NEW s \in Stored, NEW n \in 0..MaxWaits, SaveResult(e, s, n)
      PROVE  /\ row' \in [Execs -> RowType]
             /\ row'[e] = IF row[e].status \in Stored
                          THEN [status |-> s, pause |-> n] ELSE row[e]
             /\ \A f \in Execs \ {e} : row'[f] = row[f]
  <2>1. [status |-> s, pause |-> n] \in RowType
    BY DEF RowType
  <2> QED BY <1>1, <1>4, <2>1 DEF SaveResult
<1>5. ASSUME DeleteRow(e)
      PROVE  /\ row' \in [Execs -> RowType]
             /\ row'[e].status = IF row[e].status \in Stored
                                 THEN "deleted" ELSE row[e].status
             /\ \A f \in Execs \ {e} : row'[f] = row[f]
  <2>1. [row[e] EXCEPT !.status = IF @ \in Stored THEN "deleted" ELSE @] \in RowType
    BY <1>1 DEF RowType
  <2> QED BY <1>1, <1>5, <2>1 DEF DeleteRow, RowType
<1> QED BY <1>2, <1>3, <1>4, <1>5

\* Nothing runs in a process that is down.
DownInv ==
  ~up => /\ \A t \in Tasks : tpc[t] = "idle"
         /\ \A s \in Stoppers : spc[s] = "idle"

\* A task or a stop request that is under way has an execution.
BusyInv ==
  /\ \A t \in Tasks : tpc[t] # "idle" => texec[t] \in Execs
  /\ \A t \in Tasks : tpc[t] = "read" => tpause[t] \in 1..MaxWaits
  /\ \A t \in Tasks :
       tpc[t] = "ended" /\ tresult[t] = "waiting" => tpause[t] + 1 \in 1..MaxWaits
  /\ \A s \in Stoppers : spc[s] # "idle" => sexec[s] \in Execs

\* The row of an execution in charge of a task is running, unless a user
\* deleted it; the row a stop request saves is already cancelled.
RowInv ==
  /\ \A t \in Tasks : \A e \in Execs :
       InCharge(t, e) => row[e].status \in {"running", "deleted"}
  /\ \A s \in Stoppers :
       spc[s] = "save" => row[sexec[s]].status \in {"canceled", "deleted"}

\* Only a saved pause is waiting.
PauseInv == \A e \in Execs : row[e].status = "waiting" => row[e].pause \in 1..MaxWaits

IInv == TypeOK /\ DownInv /\ BusyInv /\ RowInv /\ PauseInv /\ OneRun

LEMMA InitIInv == Init => IInv
  BY NoTaskAssumption, BoundsAssumption, MaxWaitsAssumption
  DEF Init, IInv, TypeOK, DownInv, BusyInv, RowInv, PauseInv, OneRun, InCharge,
      RowType, NoRow, Stored, TaskPc, StopPc, Outcome,
      NoTaskAssumption, BoundsAssumption, MaxWaitsAssumption

-----------------------------------------------------------------------------
LEMMA TypeStep == TypeOK /\ BusyInv /\ [Next]_vars => TypeOK'
<1> SUFFICES ASSUME TypeOK, BusyInv, [Next]_vars PROVE TypeOK'
  OBVIOUS
<1> USE DEF TypeOK, TaskStep, TaskEnds, StopEnds, tasks, stops, faults
<1>a. MaxWaits \in Nat /\ MaxCrashes \in Nat /\ MaxSaveErrors \in Nat /\ MaxDrops \in Nat
  BY MaxWaitsAssumption, BoundsAssumption DEF MaxWaitsAssumption, BoundsAssumption
<1>b. /\ {"idle", "read", "ready", "run", "ended", "saved"} \subseteq TaskPc
      /\ {"idle", "read", "cas", "save"} \subseteq StopPc
      /\ "error" \in Outcome /\ Outcome \subseteq Stored
      /\ {"new", "running", "waiting", "canceled"} \subseteq Stored
  BY DEF TaskPc, StopPc, Outcome, Stored
<1>c. NoRow \in RowType /\ \A r \in RowType : r.pause \in 0..MaxWaits
  BY <1>a DEF NoRow, RowType
<1>1. ASSUME NEW t \in Tasks, NEW e \in Execs, Start(t, e) PROVE TypeOK'
  <2>1. row' \in [Execs -> RowType]
    BY <1>1, <1>b, RowEffects DEF Start
  <2> QED BY <1>1, <1>b, <2>1 DEF Start
<1>2. ASSUME NEW t \in Tasks, NEW e \in Execs, ResumeRead(t, e) PROVE TypeOK'
  <2>1. row[e].pause \in 0..MaxWaits
    BY <1>c
  <2> QED BY <1>2, <1>b, <2>1 DEF ResumeRead
<1>3. ASSUME NEW t \in Tasks, ResumeCas(t) PROVE TypeOK'
  <2>1. texec[t] \in Execs /\ tpause[t] \in 1..MaxWaits
    BY <1>3 DEF ResumeCas, BusyInv
  <2>2. row' \in [Execs -> RowType]
    BY <1>3, <1>b, <2>1, RowEffects DEF ResumeCas
  <2>3. tpc' \in [Tasks -> TaskPc] /\ texec' \in [Tasks -> Execs \cup {NoExec}]
    BY <1>3, <1>b DEF ResumeCas
  <2>4. tpause' \in [Tasks -> 0..MaxWaits]
    <3>1. tpause' = tpause \/ tpause' = [tpause EXCEPT ![t] = 0]
      BY <1>3 DEF ResumeCas
    <3>2. tpause \in [Tasks -> 0..MaxWaits] /\ 0 \in 0..MaxWaits
      BY <1>a
    <3> QED BY ONLY <3>1, <3>2
  <2>5. tresult' \in [Tasks -> Outcome]
    BY <1>3, <1>b DEF ResumeCas
  <2>6. cancelled' \in [Tasks -> BOOLEAN]
    <3>1. cancelled' = cancelled \/ cancelled' = [cancelled EXCEPT ![t] = FALSE]
      BY <1>3 DEF ResumeCas
    <3> QED BY <3>1
  <2> QED BY <1>3, <2>2, <2>3, <2>4, <2>5, <2>6 DEF ResumeCas
<1>4. ASSUME NEW t \in Tasks, Dropped(t) PROVE TypeOK'
  <2>1. drops' \in 0..MaxDrops
    BY <1>4, <1>a DEF Dropped
  <2>2. lost' \subseteq Execs
    BY <1>4 DEF Dropped, BusyInv
  <2>3. /\ tpc' \in [Tasks -> TaskPc] /\ texec' \in [Tasks -> Execs \cup {NoExec}]
        /\ tpause' \in [Tasks -> 0..MaxWaits] /\ tresult' \in [Tasks -> Outcome]
    BY <1>4, <1>a, <1>b DEF Dropped
  <2>4. cancelled' \in [Tasks -> BOOLEAN]
    BY <1>4 DEF Dropped
  <2> QED BY <1>4, <2>1, <2>2, <2>3, <2>4 DEF Dropped
<1>5. ASSUME NEW t \in Tasks, Launch(t) PROVE TypeOK'
  <2>1. texec[t] \in Execs
    BY <1>5 DEF Launch, BusyInv
  <2> QED BY <1>5, <1>b, <2>1 DEF Launch
<1>6. ASSUME NEW t \in Tasks, NEW s \in Outcome, RunEnds(t, s) PROVE TypeOK'
  BY <1>6, <1>b DEF RunEnds
<1>7. ASSUME NEW t \in Tasks, Save(t) PROVE TypeOK'
  <2>1. texec[t] \in Execs
    BY <1>7 DEF Save, BusyInv
  <2>2. (IF tresult[t] = "waiting" THEN tpause[t] + 1 ELSE tpause[t]) \in 0..MaxWaits
    BY <1>7, <1>a DEF Save, BusyInv
  <2>3. row' \in [Execs -> RowType]
    BY <1>7, <1>b, <2>1, <2>2, RowEffects DEF Save
  <2> QED BY <1>7, <1>b, <2>3 DEF Save
<1>8. ASSUME NEW t \in Tasks, SaveFails(t) PROVE TypeOK'
  <2>1. texec[t] \in Execs
    BY <1>8 DEF SaveFails, BusyInv
  <2>2. saveErrors' \in 0..MaxSaveErrors
    BY <1>8, <1>a DEF SaveFails
  <2> QED BY <1>8, <1>b, <2>1, <2>2 DEF SaveFails
<1>9. ASSUME NEW t \in Tasks, Unregister(t) PROVE TypeOK'
  <2>1. texec[t] \in Execs
    BY <1>9 DEF Unregister, BusyInv
  <2>2. /\ runningMap' \in [Execs -> Tasks \cup {NoTask}]
        /\ tpause' \in [Tasks -> 0..MaxWaits] /\ tpc' \in [Tasks -> TaskPc]
    BY <1>9, <1>a, <1>b, <2>1 DEF Unregister
  <2>3. texec' \in [Tasks -> Execs \cup {NoExec}] /\ tresult' \in [Tasks -> Outcome]
    BY <1>9, <1>b DEF Unregister
  <2>4. cancelled' \in [Tasks -> BOOLEAN]
    BY <1>9 DEF Unregister
  <2> QED BY <1>9, <2>2, <2>3, <2>4 DEF Unregister
<1>10. ASSUME NEW s \in Stoppers, NEW e \in Execs, StopRead(s, e) PROVE TypeOK'
  BY <1>10, <1>b DEF StopRead
<1>11. ASSUME NEW s \in Stoppers, StopLookUp(s) PROVE TypeOK'
  <2>1. sexec[s] \in Execs
    BY <1>11 DEF StopLookUp, BusyInv
  <2>2. sexec' \in [Stoppers -> Execs \cup {NoExec}]
    <3>1. sexec' = sexec \/ sexec' = [sexec EXCEPT ![s] = NoExec]
      BY <1>11 DEF StopLookUp
    <3> QED BY <3>1
  <2>5. spc' \in [Stoppers -> StopPc]
    <3>1. spc' = [spc EXCEPT ![s] = "idle"] \/ spc' = [spc EXCEPT ![s] = "cas"]
      BY <1>11 DEF StopLookUp
    <3> QED BY <1>b, <3>1
  <2>3. srow' \in [Stoppers -> RowType]
    BY <1>11, <1>c DEF StopLookUp
  <2>4. cancelled' \in [Tasks -> BOOLEAN]
    BY <1>11, <2>1 DEF StopLookUp
  <2> QED BY <1>11, <2>2, <2>3, <2>4, <2>5 DEF StopLookUp
<1>12. ASSUME NEW s \in Stoppers, StopCas(s) PROVE TypeOK'
  <2>1. sexec[s] \in Execs
    BY <1>12 DEF StopCas, BusyInv
  <2>2. row' \in [Execs -> RowType]
    BY <1>12, <1>b, <2>1, RowEffects DEF StopCas
  <2> QED BY <1>12, <1>b, <1>c, <2>2 DEF StopCas
<1>13. ASSUME NEW s \in Stoppers, StopSave(s) PROVE TypeOK'
  <2>1. sexec[s] \in Execs /\ srow[s].pause \in 0..MaxWaits
    BY <1>13, <1>c DEF StopSave, BusyInv
  <2>2. row' \in [Execs -> RowType]
    BY <1>13, <1>b, <2>1, RowEffects DEF StopSave
  <2> QED BY <1>13, <1>b, <1>c, <2>2 DEF StopSave
<1>14. ASSUME NEW e \in Execs, Delete(e) \/ Prune(e) PROVE TypeOK'
  <2>1. row' \in [Execs -> RowType]
    BY <1>14, RowEffects DEF Delete, Prune
  <2> QED BY <1>14, <2>1 DEF Delete, Prune
<1>15. CASE Crash
  <2>1. crashes' \in 0..MaxCrashes
    BY <1>15, <1>a DEF Crash
  <2>2. /\ runningMap' \in [Execs -> Tasks \cup {NoTask}] /\ up' \in BOOLEAN
        /\ cancelled' \in [Tasks -> BOOLEAN]
    BY <1>15 DEF Crash, IdleTasks
  <2>3. /\ tpc' \in [Tasks -> TaskPc] /\ texec' \in [Tasks -> Execs \cup {NoExec}]
        /\ tpause' \in [Tasks -> 0..MaxWaits] /\ tresult' \in [Tasks -> Outcome]
    BY <1>15, <1>a, <1>b DEF Crash, IdleTasks
  <2>4. /\ spc' \in [Stoppers -> StopPc] /\ sexec' \in [Stoppers -> Execs \cup {NoExec}]
        /\ srow' \in [Stoppers -> RowType]
    BY <1>15, <1>b, <1>c DEF Crash, IdleTasks
  <2> QED BY <1>15, <2>1, <2>2, <2>3, <2>4 DEF Crash
<1>16. CASE Restart
  <2>1. \A e \in Execs : [row[e] EXCEPT !.status = "crashed"] \in RowType
    <3> TAKE e \in Execs
    <3>1. row[e] \in RowType
      OBVIOUS
    <3> QED BY <3>1 DEF RowType, Stored
  <2>2. row' \in [Execs -> RowType]
    BY <1>16, <2>1 DEF Restart, MarkCrashed
  <2> QED BY <1>16, <2>2 DEF Restart
<1>17. CASE RestartUnmarked
  <2>1. saveErrors' \in 0..MaxSaveErrors
    BY <1>17, <1>a DEF RestartUnmarked
  <2> QED BY <1>17, <2>1 DEF RestartUnmarked
<1>18. CASE UNCHANGED vars
  BY <1>18 DEF vars
<1> QED
  BY <1>1, <1>2, <1>3, <1>4, <1>5, <1>6, <1>7, <1>8, <1>9, <1>10, <1>11,
     <1>12, <1>13, <1>14, <1>15, <1>16, <1>17, <1>18
  DEF Next, Run, Stop

-----------------------------------------------------------------------------
LEMMA ControlStep == TypeOK /\ DownInv /\ BusyInv /\ PauseInv /\ [Next]_vars
                     => DownInv' /\ BusyInv'
<1> SUFFICES ASSUME TypeOK, DownInv, BusyInv, PauseInv, [Next]_vars
             PROVE  DownInv' /\ BusyInv'
  OBVIOUS
<1>t. /\ tpc \in [Tasks -> TaskPc] /\ texec \in [Tasks -> Execs \cup {NoExec}]
      /\ tpause \in [Tasks -> 0..MaxWaits] /\ tresult \in [Tasks -> Outcome]
      /\ spc \in [Stoppers -> StopPc] /\ sexec \in [Stoppers -> Execs \cup {NoExec}]
  BY DEF TypeOK
<1>m. MaxWaits \in Nat
  BY MaxWaitsAssumption DEF MaxWaitsAssumption
<1> USE DEF DownInv, BusyInv, TaskStep, TaskEnds, StopEnds, tasks, stops, faults
<1>1. ASSUME NEW t \in Tasks, NEW e \in Execs, Start(t, e) PROVE DownInv' /\ BusyInv'
  BY <1>1, <1>t DEF Start
<1>2. ASSUME NEW t \in Tasks, NEW e \in Execs, ResumeRead(t, e) PROVE DownInv' /\ BusyInv'
  <2>1. row[e].pause \in 1..MaxWaits
    BY <1>2 DEF ResumeRead, Is, PauseInv
  <2> QED BY <1>2, <1>t, <2>1 DEF ResumeRead
<1>3. ASSUME NEW t \in Tasks, ResumeCas(t) PROVE DownInv' /\ BusyInv'
  BY <1>3, <1>t DEF ResumeCas
<1>4. ASSUME NEW t \in Tasks, Dropped(t) PROVE DownInv' /\ BusyInv'
  BY <1>4, <1>t DEF Dropped
<1>5. ASSUME NEW t \in Tasks, Launch(t) PROVE DownInv' /\ BusyInv'
  BY <1>5, <1>t DEF Launch
<1>6. ASSUME NEW t \in Tasks, NEW s \in Outcome, RunEnds(t, s) PROVE DownInv' /\ BusyInv'
  <2>1. s = "waiting" => tpause[t] + 1 \in 1..MaxWaits
    BY <1>6, <1>t, <1>m DEF RunEnds
  <2> QED BY <1>6, <1>t, <2>1 DEF RunEnds
<1>7. ASSUME NEW t \in Tasks, Save(t) \/ SaveFails(t) PROVE DownInv' /\ BusyInv'
  BY <1>7, <1>t DEF Save, SaveFails
<1>8. ASSUME NEW t \in Tasks, Unregister(t) PROVE DownInv' /\ BusyInv'
  BY <1>8, <1>t DEF Unregister
<1>9. ASSUME NEW s \in Stoppers, NEW e \in Execs, StopRead(s, e) PROVE DownInv' /\ BusyInv'
  BY <1>9, <1>t DEF StopRead
<1>10. ASSUME NEW s \in Stoppers, Stop(s) PROVE DownInv' /\ BusyInv'
  BY <1>10, <1>t DEF Stop, StopLookUp, StopCas, StopSave
<1>11. ASSUME NEW e \in Execs, Delete(e) \/ Prune(e) PROVE DownInv' /\ BusyInv'
  BY <1>11, <1>t DEF Delete, Prune
<1>12. CASE Crash
  BY <1>12, <1>t DEF Crash, IdleTasks
<1>13. CASE Restart \/ RestartUnmarked
  BY <1>13, <1>t DEF Restart, RestartUnmarked
<1>14. CASE UNCHANGED vars
  BY <1>14 DEF vars
<1> QED
  BY <1>1, <1>2, <1>3, <1>4, <1>5, <1>6, <1>7, <1>8, <1>9, <1>10, <1>11,
     <1>12, <1>13, <1>14
  DEF Next, Run

-----------------------------------------------------------------------------
\* Most steps take charge of no execution and change no row, or only end it.
ChargeKept == \A t \in Tasks : \A e \in Execs : InCharge(t, e)' => InCharge(t, e)

SavesKept ==
  \A s \in Stoppers : spc'[s] = "save" => spc[s] = "save" /\ sexec'[s] = sexec[s]

RowsKept ==
  \A e \in Execs : /\ row'[e].status \in {row[e].status, "deleted"}
                   /\ row'[e].status = "waiting" => row'[e] = row[e]

LEMMA QuietStep ==
  ASSUME IInv, ChargeKept, SavesKept, RowsKept
  PROVE  RowInv' /\ PauseInv' /\ OneRun'
<1>1. RowInv /\ PauseInv /\ OneRun /\ BusyInv /\ spc \in [Stoppers -> StopPc]
  BY DEF IInv, TypeOK
<1>2. ASSUME NEW t \in Tasks, NEW e \in Execs, InCharge(t, e)'
      PROVE  row'[e].status \in {"running", "deleted"}
  <2>1. InCharge(t, e)
    BY <1>2 DEF ChargeKept
  <2>2. row[e].status \in {"running", "deleted"}
    BY <1>1, <2>1 DEF RowInv
  <2> QED BY <2>2 DEF RowsKept
<1>3. ASSUME NEW s \in Stoppers, spc'[s] = "save"
      PROVE  row'[sexec'[s]].status \in {"canceled", "deleted"}
  BY <1>1, <1>3 DEF SavesKept, RowsKept, RowInv, BusyInv
<1>4. PauseInv'
  BY <1>1 DEF PauseInv, RowsKept
<1>5. OneRun'
  BY <1>1 DEF OneRun, ChargeKept
<1> QED BY <1>2, <1>3, <1>4, <1>5 DEF RowInv

LEMMA RowStep == IInv /\ [Next]_vars => RowInv' /\ PauseInv' /\ OneRun'
<1> SUFFICES ASSUME IInv, [Next]_vars PROVE RowInv' /\ PauseInv' /\ OneRun'
  OBVIOUS
<1>t. /\ row \in [Execs -> RowType]
      /\ tpc \in [Tasks -> TaskPc] /\ texec \in [Tasks -> Execs \cup {NoExec}]
      /\ tpause \in [Tasks -> 0..MaxWaits] /\ tresult \in [Tasks -> Outcome]
      /\ spc \in [Stoppers -> StopPc] /\ sexec \in [Stoppers -> Execs \cup {NoExec}]
      /\ srow \in [Stoppers -> RowType]
  BY DEF IInv, TypeOK
<1>i. DownInv /\ BusyInv /\ RowInv /\ PauseInv /\ OneRun
  BY DEF IInv
<1>b. Outcome \subseteq Stored /\ {"new", "running", "waiting", "canceled"} \subseteq Stored
  BY DEF Outcome, Stored
<1> USE DEF TaskStep, TaskEnds, StopEnds, tasks, stops, faults
\* An execution put in charge of a task is running, and in charge of no other.
<1>g. ASSUME NEW t \in Tasks, NEW e \in Execs,
             \A u \in Tasks : ~InCharge(u, e),
             tpc' = [tpc EXCEPT ![t] = "ready"], texec'[t] = e,
             \A u \in Tasks \ {t} : texec'[u] = texec[u],
             spc' = spc, sexec' = sexec,
             row[e].status \in {"none", "waiting"}, row'[e].status = "running",
             \A f \in Execs \ {e} : row'[f] = row[f]
      PROVE  RowInv' /\ PauseInv' /\ OneRun'
  <2>1. \A u \in Tasks, f \in Execs : InCharge(u, f)' <=> (u = t /\ f = e) \/ (u # t /\ InCharge(u, f))
    BY <1>g, <1>t DEF InCharge
  <2>2. \A u \in Tasks, f \in Execs : u # t /\ InCharge(u, f) => f # e
    BY <1>g
  <2>3. \A u \in Tasks, f \in Execs : InCharge(u, f)' => row'[f].status \in {"running", "deleted"}
    BY <1>g, <1>i, <2>1, <2>2 DEF RowInv
  <2>4. \A s \in Stoppers : spc'[s] = "save" => row'[sexec'[s]].status \in {"canceled", "deleted"}
    BY <1>g, <1>i DEF RowInv, BusyInv
  <2>5. PauseInv'
    BY <1>g, <1>i DEF PauseInv
  <2>6. OneRun'
    BY <1>g, <1>i, <2>1 DEF OneRun
  <2> QED BY <2>3, <2>4, <2>5, <2>6 DEF RowInv
<1>1. ASSUME NEW t \in Tasks, NEW e \in Execs, Start(t, e)
      PROVE  RowInv' /\ PauseInv' /\ OneRun'
  <2>1. row'[e] = [status |-> "running", pause |-> 0] /\ \A f \in Execs \ {e} : row'[f] = row[f]
    BY <1>1, <1>t, <1>b, RowEffects DEF Start
  <2>2. row[e].status = "none"
    BY <1>1 DEF Start, NoRow
  <2>3. \A u \in Tasks : ~InCharge(u, e)
    BY <1>i, <2>2 DEF RowInv
  <2>4. row'[e].status = "running"
    BY <2>1
  <2> QED BY <1>1, <1>g, <1>t, <2>1, <2>2, <2>3, <2>4 DEF Start
<1>2. ASSUME NEW t \in Tasks, NEW e \in Execs, ResumeRead(t, e)
      PROVE  RowInv' /\ PauseInv' /\ OneRun'
  <2>1. ChargeKept
    BY <1>2, <1>t DEF ResumeRead, ChargeKept, InCharge
  <2> QED BY <1>2, <2>1, QuietStep DEF ResumeRead, SavesKept, RowsKept
<1>3. ASSUME NEW t \in Tasks, ResumeCas(t) PROVE RowInv' /\ PauseInv' /\ OneRun'
  <2> DEFINE e == texec[t]
  <2>1. e \in Execs
    BY <1>3, <1>i DEF ResumeCas, BusyInv
  <2>2. /\ row'[e].status = IF row[e].status = "waiting" THEN "running" ELSE row[e].status
        /\ row'[e].pause = row[e].pause
        /\ \A f \in Execs \ {e} : row'[f] = row[f]
    BY <1>3, <1>t, <1>b, <2>1, RowEffects DEF ResumeCas
  <2>3. CASE row[e].status = "waiting"
    <3>1. \A u \in Tasks : ~InCharge(u, e)
      BY <1>i, <2>1, <2>3 DEF RowInv
    <3>2. tpc' = [tpc EXCEPT ![t] = "ready"] /\ texec' = texec /\ spc' = spc /\ sexec' = sexec
      BY <1>3, <2>3 DEF ResumeCas, Is
    <3> QED BY <1>g, <2>1, <2>2, <2>3, <3>1, <3>2
  <2>4. CASE row[e].status # "waiting"
    <3>1. ChargeKept
      BY <1>3, <1>t, <2>4 DEF ResumeCas, ChargeKept, InCharge, Is
    <3>2. row' = row
      BY <1>3, <1>t, <2>1, <2>4 DEF ResumeCas, Transition, RowType
    <3> QED BY <1>3, <3>1, <3>2, QuietStep DEF ResumeCas, SavesKept, RowsKept
  <2> QED BY <2>3, <2>4
<1>4. ASSUME NEW t \in Tasks, Dropped(t) PROVE RowInv' /\ PauseInv' /\ OneRun'
  <2>1. ChargeKept
    BY <1>4, <1>t DEF Dropped, ChargeKept, InCharge
  <2> QED BY <1>4, <2>1, QuietStep DEF Dropped, SavesKept, RowsKept
<1>5. ASSUME NEW t \in Tasks, Launch(t) PROVE RowInv' /\ PauseInv' /\ OneRun'
  <2>1. ChargeKept
    BY <1>5, <1>t DEF Launch, ChargeKept, InCharge
  <2> QED BY <1>5, <2>1, QuietStep DEF Launch, SavesKept, RowsKept
<1>6. ASSUME NEW t \in Tasks, NEW s \in Outcome, RunEnds(t, s)
      PROVE  RowInv' /\ PauseInv' /\ OneRun'
  <2>1. ChargeKept
    BY <1>6, <1>t DEF RunEnds, ChargeKept, InCharge
  <2> QED BY <1>6, <2>1, QuietStep DEF RunEnds, SavesKept, RowsKept
<1>7. ASSUME NEW t \in Tasks, Save(t) PROVE RowInv' /\ PauseInv' /\ OneRun'
  <2> DEFINE e == texec[t]
             n == IF tresult[t] = "waiting" THEN tpause[t] + 1 ELSE tpause[t]
  <2>1. e \in Execs /\ InCharge(t, e) /\ row[e].status \in {"running", "deleted"}
    BY <1>7, <1>i DEF Save, BusyInv, RowInv, InCharge
  <2>2. \A u \in Tasks, f \in Execs : InCharge(u, f)' => InCharge(u, f) /\ u # t /\ f # e
    BY <1>7, <1>t, <1>i, <2>1 DEF Save, InCharge, OneRun
  <2>3. n \in 0..MaxWaits /\ (tresult[t] = "waiting" => n \in 1..MaxWaits)
    BY <1>7, <1>t, <1>i DEF Save, BusyInv
  <2>4. \A f \in Execs \ {e} : row'[f] = row[f]
    BY <1>7, <1>t, <1>b, <2>1, <2>3, RowEffects DEF Save
  <2>5. /\ row[e].status = "deleted" => row'[e].status = "deleted"
        /\ row'[e].status = "waiting" => row'[e].pause \in 1..MaxWaits
    <3>1. CASE SaveResult(e, tresult[t], n)
      <4>1. row'[e] = IF row[e].status \in Stored
                      THEN [status |-> tresult[t], pause |-> n] ELSE row[e]
        BY <1>t, <1>b, <2>1, <2>3, <3>1, RowEffects
      <4>2. "deleted" \notin Stored
        BY DEF Stored
      <4> QED BY <1>b, <2>1, <2>3, <4>1, <4>2
    <3>2. CASE DeleteRow(e)
      <4>1. row'[e].status = "deleted"
        BY <1>t, <1>b, <2>1, <3>2, RowEffects
      <4> QED BY <4>1
    <3> QED BY <1>7, <3>1, <3>2 DEF Save
  <2>6. \A u \in Tasks, f \in Execs : InCharge(u, f)' => row'[f].status \in {"running", "deleted"}
    BY <1>i, <2>2, <2>4 DEF RowInv
  <2>7. \A s \in Stoppers : spc'[s] = "save" => row'[sexec'[s]].status \in {"canceled", "deleted"}
    BY <1>7, <1>i, <2>1, <2>4, <2>5 DEF RowInv, BusyInv, Save
  <2>8. PauseInv'
    BY <1>i, <2>4, <2>5 DEF PauseInv
  <2>9. OneRun'
    BY <1>i, <2>2 DEF OneRun
  <2> QED BY <2>6, <2>7, <2>8, <2>9 DEF RowInv
<1>8. ASSUME NEW t \in Tasks, SaveFails(t) PROVE RowInv' /\ PauseInv' /\ OneRun'
  <2>1. ChargeKept
    BY <1>8, <1>t DEF SaveFails, ChargeKept, InCharge
  <2> QED BY <1>8, <2>1, QuietStep DEF SaveFails, SavesKept, RowsKept
<1>9. ASSUME NEW t \in Tasks, Unregister(t) PROVE RowInv' /\ PauseInv' /\ OneRun'
  <2>1. ChargeKept
    BY <1>9, <1>t DEF Unregister, ChargeKept, InCharge
  <2> QED BY <1>9, <2>1, QuietStep DEF Unregister, SavesKept, RowsKept
<1>10. ASSUME NEW s \in Stoppers, NEW e \in Execs, StopRead(s, e)
       PROVE  RowInv' /\ PauseInv' /\ OneRun'
  <2>1. ChargeKept
    BY <1>10 DEF StopRead, ChargeKept, InCharge
  <2>2. SavesKept
    BY <1>10, <1>t DEF StopRead, SavesKept
  <2> QED BY <1>10, <2>1, <2>2, QuietStep DEF StopRead, RowsKept
<1>11. ASSUME NEW s \in Stoppers, StopLookUp(s) PROVE RowInv' /\ PauseInv' /\ OneRun'
  <2>1. ChargeKept
    BY <1>11 DEF StopLookUp, ChargeKept, InCharge
  <2>2. SavesKept
    BY <1>11, <1>t DEF StopLookUp, SavesKept
  <2> QED BY <1>11, <2>1, <2>2, QuietStep DEF StopLookUp, RowsKept
<1>12. ASSUME NEW s \in Stoppers, StopCas(s) PROVE RowInv' /\ PauseInv' /\ OneRun'
  <2> DEFINE e == sexec[s]
  <2>1. e \in Execs
    BY <1>12, <1>i DEF StopCas, BusyInv
  <2>2. /\ row'[e].status = IF row[e].status = "waiting" THEN "canceled" ELSE row[e].status
        /\ row'[e].pause = row[e].pause
        /\ \A f \in Execs \ {e} : row'[f] = row[f]
    BY <1>12, <1>t, <1>b, <2>1, RowEffects DEF StopCas
  <2>3. \A u \in Tasks, f \in Execs : InCharge(u, f)' <=> InCharge(u, f)
    BY <1>12 DEF StopCas, InCharge
  <2>4. \A u \in Tasks, f \in Execs : InCharge(u, f)' => row'[f].status \in {"running", "deleted"}
    BY <1>i, <2>2, <2>3 DEF RowInv
  <2>5. ASSUME NEW r \in Stoppers, spc'[r] = "save"
        PROVE  row'[sexec'[r]].status \in {"canceled", "deleted"}
    <3>1. CASE row[e].status = "waiting"
      <4>1. sexec' = sexec /\ spc' = [spc EXCEPT ![s] = "save"]
        BY <1>12, <3>1 DEF StopCas, Is
      <4> QED BY <1>t, <1>i, <2>1, <2>2, <2>5, <3>1, <4>1 DEF RowInv, BusyInv
    <3>2. CASE row[e].status # "waiting"
      <4>1. spc[r] = "save" /\ sexec'[r] = sexec[r]
        BY <1>12, <1>t, <2>5, <3>2 DEF StopCas, Is
      <4> QED BY <1>i, <2>2, <3>2, <4>1 DEF RowInv, BusyInv
    <3> QED BY <3>1, <3>2
  <2>6. PauseInv'
    BY <1>i, <2>2 DEF PauseInv
  <2>7. OneRun'
    BY <1>i, <2>3 DEF OneRun
  <2> QED BY <2>4, <2>5, <2>6, <2>7 DEF RowInv
<1>13. ASSUME NEW s \in Stoppers, StopSave(s) PROVE RowInv' /\ PauseInv' /\ OneRun'
  <2> DEFINE e == sexec[s]
  <2>1. e \in Execs /\ row[e].status \in {"canceled", "deleted"} /\ srow[s].pause \in 0..MaxWaits
    BY <1>13, <1>t, <1>i DEF StopSave, BusyInv, RowInv, RowType
  <2>2. /\ row'[e] = IF row[e].status \in Stored
                     THEN [status |-> "canceled", pause |-> srow[s].pause] ELSE row[e]
        /\ \A f \in Execs \ {e} : row'[f] = row[f]
    BY <1>13, <1>t, <1>b, <2>1, RowEffects DEF StopSave
  <2>3. row'[e].status = row[e].status
    BY <2>1, <2>2 DEF Stored
  <2>4. RowsKept
    BY <2>1, <2>2, <2>3 DEF RowsKept
  <2>5. ChargeKept
    BY <1>13 DEF StopSave, ChargeKept, InCharge
  <2>6. SavesKept
    BY <1>13, <1>t DEF StopSave, SavesKept
  <2> QED BY <2>4, <2>5, <2>6, QuietStep
<1>14. ASSUME NEW e \in Execs, Delete(e) \/ Prune(e) PROVE RowInv' /\ PauseInv' /\ OneRun'
  <2>1. RowsKept
    <3>1. DeleteRow(e) /\ row' = [row EXCEPT ![e].status = IF @ \in Stored THEN "deleted" ELSE @]
      BY <1>14 DEF Delete, Prune, DeleteRow
    <3>2. /\ row'[e].status = IF row[e].status \in Stored THEN "deleted" ELSE row[e].status
          /\ \A f \in Execs \ {e} : row'[f] = row[f]
      BY <1>t, <3>1, RowEffects
    <3>3. row[e].status \in Stored
      BY <1>14 DEF Delete, Prune, Prunable, Is, Final, Stored
    <3> QED BY <3>2, <3>3 DEF RowsKept
  <2>2. ChargeKept
    BY <1>14 DEF Delete, Prune, ChargeKept, InCharge
  <2> QED BY <1>14, <2>1, <2>2, QuietStep DEF Delete, Prune, SavesKept
<1>15. CASE Crash
  <2>1. ChargeKept
    BY <1>15 DEF Crash, IdleTasks, ChargeKept, InCharge
  <2>2. SavesKept
    BY <1>15 DEF Crash, IdleTasks, SavesKept
  <2> QED BY <1>15, <2>1, <2>2, QuietStep DEF Crash, RowsKept
<1>16. CASE Restart
  <2>1. \A t \in Tasks : tpc'[t] = "idle"
    BY <1>16, <1>i DEF Restart, DownInv
  <2>2. \A s \in Stoppers : spc'[s] = "idle"
    BY <1>16, <1>i DEF Restart, DownInv
  <2>3. \A t \in Tasks, e \in Execs : ~InCharge(t, e)'
    BY <2>1 DEF InCharge
  <2>4. \A e \in Execs : row'[e].status = "waiting" => row'[e] = row[e]
    BY <1>16, <1>t DEF Restart, MarkCrashed, RowType
  <2>5. PauseInv'
    BY <1>i, <2>4 DEF PauseInv
  <2> QED BY <2>2, <2>3, <2>5 DEF RowInv, OneRun
<1>17. CASE RestartUnmarked \/ UNCHANGED vars
  BY <1>17, QuietStep DEF RestartUnmarked, vars, ChargeKept, SavesKept, RowsKept, InCharge
<1> QED
  BY <1>1, <1>2, <1>3, <1>4, <1>5, <1>6, <1>7, <1>8, <1>9, <1>10, <1>11,
     <1>12, <1>13, <1>14, <1>15, <1>16, <1>17
  DEF Next, Run, Stop

-----------------------------------------------------------------------------
LEMMA NextIInv == IInv /\ [Next]_vars => IInv'
  BY TypeStep, ControlStep, RowStep DEF IInv

LEMMA Invariant == Spec => []IInv
  BY InitIInv, NextIInv, PTL DEF Spec

\* The state stays well-typed through every step of tasks, stop requests,
\* timers, crash and restart (runner.rs 315-514, rest.rs 278-307).
THEOREM TypeCorrect == Spec => []TypeOK
<1>1. IInv => TypeOK
  BY DEF IInv
<1> QED BY <1>1, Invariant, PTL

\* Whatever starts, timers, resume requests, stops and restarts race, no
\* execution is ever run by two tasks at once (runner.rs 489-514).
THEOREM RunByOne == Spec => []OneRun
<1>1. IInv => OneRun
  BY DEF IInv
<1> QED BY <1>1, Invariant, PTL

-----------------------------------------------------------------------------
LEMMA FinalStep ==
  ASSUME IInv, [Next]_vars
  PROVE  \A e \in Execs : FinalStays(e) \/ OldDataSaved(e)
<1> SUFFICES ASSUME NEW e \in Execs, Is(e, Final)
             PROVE  row'[e] = row[e] \/ row'[e].status = "deleted" \/ OldDataSaved(e)
  BY DEF FinalStays
<1>t. row \in [Execs -> RowType] /\ BusyInv /\ RowInv
  BY DEF IInv, TypeOK
<1>f. row[e].status \notin {"none", "new", "running", "waiting", "deleted"}
  BY DEF Is, Final
<1>r. row[e] \in RowType /\ row[e].status \in Stored
  BY <1>t, <1>f DEF RowType
<1> USE DEF TaskStep, tasks, stops, faults
<1>w. ASSUME NEW f \in Execs, NEW to \in Stored, Transition(f, "waiting", to)
      PROVE  row'[e] = row[e]
  <2>1. CASE e # f
    BY <1>w, <1>t, <2>1, RowEffects DEF Stored
  <2>2. CASE e = f
    <3>1. "waiting" \in Stored
      BY DEF Stored
    <3>2. /\ row' \in [Execs -> RowType] /\ row'[e].pause = row[e].pause
          /\ row'[e].status = row[e].status
      BY <1>w, <1>t, <1>f, <2>2, <3>1, RowEffects
    <3>3. row'[e] \in RowType
      BY <3>2
    <3> QED BY <1>r, <3>2, <3>3 DEF RowType
  <2> QED BY <2>1, <2>2
<1>1. ASSUME NEW t \in Tasks, NEW f \in Execs, Start(t, f) PROVE row'[e] = row[e]
  BY <1>1, <1>t, <1>f DEF Start, Insert, NoRow
<1>2. ASSUME NEW t \in Tasks, ResumeCas(t) PROVE row'[e] = row[e]
  <2>1. texec[t] \in Execs /\ "running" \in Stored
    BY <1>2, <1>t DEF ResumeCas, BusyInv, Stored
  <2> QED BY <1>2, <1>w, <2>1 DEF ResumeCas
<1>3. ASSUME NEW t \in Tasks, Save(t) PROVE row'[e] = row[e]
  <2>1. texec[t] \in Execs /\ row[texec[t]].status \in {"running", "deleted"}
    BY <1>3, <1>t DEF Save, BusyInv, RowInv, InCharge
  <2>2. texec[t] # e
    BY <2>1, <1>f
  <2> QED BY <1>3, <1>t, <2>1, <2>2 DEF Save, SaveResult, DeleteRow
<1>4. ASSUME NEW s \in Stoppers, Stop(s) PROVE row'[e] = row[e] \/ OldDataSaved(e)
  <2>1. CASE StopLookUp(s)
    BY <2>1 DEF StopLookUp
  <2>2. CASE StopCas(s)
    <3>1. sexec[s] \in Execs /\ "canceled" \in Stored
      BY <2>2, <1>t DEF StopCas, BusyInv, Stored
    <3> QED BY <2>2, <1>w, <3>1 DEF StopCas
  <2>3. CASE StopSave(s)
    <3>1. sexec[s] \in Execs /\ row[sexec[s]].status \in {"canceled", "deleted"}
      BY <2>3, <1>t DEF StopSave, BusyInv, RowInv
    <3>2. CASE sexec[s] # e
      BY <2>3, <1>t, <3>1, <3>2 DEF StopSave, SaveResult
    <3>3. CASE sexec[s] = e
      <4>1. row[e].status = "canceled"
        BY <3>1, <3>3, <1>f
      <4>2. row'[e] = [status |-> "canceled", pause |-> srow[s].pause]
        BY <2>3, <1>t, <1>r, <3>3 DEF StopSave, SaveResult
      <4>3. row'[e] = [row[e] EXCEPT !.pause = srow[s].pause]
        BY <1>r, <4>1, <4>2 DEF RowType
      <4> QED BY <2>3, <3>3, <4>3 DEF StopSave, OldDataSaved, DataReplaced
    <3> QED BY <3>2, <3>3
  <2> QED BY <1>4, <2>1, <2>2, <2>3 DEF Stop
<1>5. ASSUME NEW f \in Execs, Delete(f) \/ Prune(f)
      PROVE  row'[e] = row[e] \/ row'[e].status = "deleted"
  BY <1>5, <1>t, <1>r, RowEffects DEF Delete, Prune
<1>6. CASE Restart
  BY <1>6, <1>t, <1>f DEF Restart, MarkCrashed, Is
<1>7. ASSUME UNCHANGED row PROVE row'[e] = row[e]
  BY <1>7
<1> QED
  BY <1>1, <1>2, <1>3, <1>4, <1>5, <1>6, <1>7
  DEF Next, Run, ResumeRead, Dropped, Launch, RunEnds, SaveFails, Unregister,
      StopRead, Crash, RestartUnmarked, vars

\* An execution that ended stays as it ended, status and run data, until its
\* row is deleted: no late resume, save or crash recovery overwrites it, and
\* a late stop only the run data of the row it cancelled (store_ext.rs
\* 496-534, 572-578, rest.rs 285-293).
THEOREM EndedStaysEnded == Spec => FinalIsFinal
<1>1. IInv /\ [Next]_vars => [\A e \in Execs : FinalStays(e) \/ OldDataSaved(e)]_vars
  BY FinalStep
<1> QED BY <1>1, Invariant, PTL DEF Spec, FinalIsFinal

-----------------------------------------------------------------------------
\* A running row has a task in charge of it, unless that task was dropped
\* or the database refused its result or its recovery (runner.rs 315-429,
\* mod.rs 229-236).
THEOREM NoneLeftRunning == Spec => []NoneStranded
<1>1. Init => NoneStranded
  <2> SUFFICES ASSUME Init, NEW e \in Execs PROVE row[e].status = "none"
    BY DEF NoneStranded, Is
  <2> QED BY DEF Init, NoRow
<1>2. IInv /\ NoneStranded /\ [Next]_vars => NoneStranded'
  <2> SUFFICES ASSUME IInv, NoneStranded, [Next]_vars
               PROVE  NoneStranded'
    OBVIOUS
  <2>t. /\ row \in [Execs -> RowType] /\ BusyInv /\ RowInv
        /\ tpc \in [Tasks -> TaskPc] /\ texec \in [Tasks -> Execs \cup {NoExec}]
        /\ tresult \in [Tasks -> Outcome]
    BY DEF IInv, TypeOK
  <2> DEFINE Held(e) == e \in lost \/ \E t \in Tasks : InCharge(t, e)
             Fine(e) == (up /\ Is(e, {"running"}) => Held(e)) /\ ~Is(e, {"new"})
  <2>u. \A e \in Execs : Fine(e)
    BY DEF NoneStranded
  <2> SUFFICES ASSUME NEW e \in Execs PROVE Fine(e)'
    BY DEF NoneStranded
  <2> HIDE DEF Fine
  <2> USE DEF TaskStep, TaskEnds, tasks, stops, faults
  <2>k. ASSUME Fine(e), up' => up, lost \subseteq lost', \A t \in Tasks : InCharge(t, e) => InCharge(t, e)',
               row'[e].status \in {row[e].status, "crashed", "canceled", "deleted"}
        PROVE  Fine(e)'
    BY <2>k DEF Fine, Is
  <2>1. ASSUME NEW t \in Tasks, NEW f \in Execs, Start(t, f) PROVE Fine(e)'
    <3>1. CASE e = f
      <4>1. row'[e].status = "running" /\ InCharge(t, e)'
        BY <2>1, <2>t, <3>1 DEF Start, Insert, InCharge
      <4> QED BY <4>1 DEF Fine, Is
    <3>2. CASE e # f
      <4>1. \A u \in Tasks : InCharge(u, e) => InCharge(u, e)'
        BY <2>1, <2>t, <3>2 DEF Start, InCharge
      <4> QED BY <2>1, <2>t, <2>u, <2>k, <3>2, <4>1 DEF Start, Insert
    <3> QED BY <3>1, <3>2
  <2>2. ASSUME NEW t \in Tasks, NEW f \in Execs, ResumeRead(t, f) PROVE Fine(e)'
    <3>1. \A u \in Tasks : InCharge(u, e) => InCharge(u, e)'
      BY <2>2, <2>t DEF ResumeRead, InCharge
    <3> QED BY <2>2, <2>u, <2>k, <3>1 DEF ResumeRead
  <2>3. ASSUME NEW t \in Tasks, ResumeCas(t) PROVE Fine(e)'
    <3>0. texec[t] \in Execs
      BY <2>3, <2>t DEF ResumeCas, BusyInv
    <3>1. CASE texec[t] = e /\ row[e].status = "waiting"
      <4>1. row'[e].status = "running" /\ InCharge(t, e)'
        BY <2>3, <2>t, <3>1 DEF ResumeCas, Transition, InCharge, Is, RowType
      <4> QED BY <4>1 DEF Fine, Is
    <3>2. CASE ~(texec[t] = e /\ row[e].status = "waiting")
      <4>1. \A u \in Tasks : InCharge(u, e) => InCharge(u, e)'
        BY <2>3, <2>t DEF ResumeCas, InCharge
      <4>2. row'[e].status = row[e].status
        BY <2>3, <2>t, <3>0, <3>2 DEF ResumeCas, Transition, RowType
      <4> QED BY <2>3, <2>u, <2>k, <4>1, <4>2 DEF ResumeCas
    <3> QED BY <3>1, <3>2
  <2>4. ASSUME NEW t \in Tasks, Dropped(t) PROVE Fine(e)'
    <3>1. \A u \in Tasks : InCharge(u, e) => InCharge(u, e)' \/ e = texec[t]
      BY <2>4, <2>t DEF Dropped, InCharge
    <3> QED BY <2>4, <2>u, <3>1 DEF Dropped, Fine, Is
  <2>5. ASSUME NEW t \in Tasks, Launch(t) PROVE Fine(e)'
    <3>1. \A u \in Tasks : InCharge(u, e) => InCharge(u, e)'
      BY <2>5, <2>t DEF Launch, InCharge
    <3> QED BY <2>5, <2>u, <2>k, <3>1 DEF Launch
  <2>6. ASSUME NEW t \in Tasks, NEW s \in Outcome, RunEnds(t, s) PROVE Fine(e)'
    <3>1. \A u \in Tasks : InCharge(u, e) => InCharge(u, e)'
      BY <2>6, <2>t DEF RunEnds, InCharge
    <3> QED BY <2>6, <2>u, <2>k, <3>1 DEF RunEnds
  <2>7. ASSUME NEW t \in Tasks, Save(t) PROVE Fine(e)'
    <3>1. texec[t] \in Execs /\ row[texec[t]].status \in {"running", "deleted"}
      BY <2>7, <2>t DEF Save, BusyInv, RowInv, InCharge
    <3>2. CASE texec[t] = e
      <4>1. row'[e].status \notin {"running", "new"}
        BY <2>7, <2>t, <3>1, <3>2
        DEF Save, SaveResult, DeleteRow, RowType, Outcome, Stored
      <4> QED BY <4>1 DEF Fine, Is
    <3>3. CASE texec[t] # e
      <4>1. \A u \in Tasks : InCharge(u, e) => InCharge(u, e)'
        BY <2>7, <2>t, <3>3 DEF Save, InCharge
      <4>2. row'[e] = row[e]
        BY <2>7, <2>t, <3>1, <3>3 DEF Save, SaveResult, DeleteRow
      <4> QED BY <2>7, <2>u, <2>k, <4>1, <4>2 DEF Save
    <3> QED BY <3>2, <3>3
  <2>8. ASSUME NEW t \in Tasks, SaveFails(t) PROVE Fine(e)'
    <3>1. \A u \in Tasks : InCharge(u, e) => InCharge(u, e)' \/ e = texec[t]
      BY <2>8, <2>t DEF SaveFails, InCharge
    <3> QED BY <2>8, <2>u, <3>1 DEF SaveFails, Fine, Is
  <2>9. ASSUME NEW t \in Tasks, Unregister(t) PROVE Fine(e)'
    <3>1. \A u \in Tasks : InCharge(u, e) => InCharge(u, e)'
      BY <2>9, <2>t DEF Unregister, InCharge
    <3> QED BY <2>9, <2>u, <2>k, <3>1 DEF Unregister
  <2>10. ASSUME NEW s \in Stoppers, Stop(s) PROVE Fine(e)'
    <3>1. \A u \in Tasks : InCharge(u, e) => InCharge(u, e)'
      BY <2>10 DEF Stop, StopLookUp, StopCas, StopSave, InCharge
    <3>2. row'[e].status \in {row[e].status, "canceled"}
      <4>1. CASE StopLookUp(s)
        BY <4>1 DEF StopLookUp
      <4>2. CASE StopCas(s)
        BY <4>2, <2>t DEF StopCas, Transition, BusyInv, RowType
      <4>3. CASE StopSave(s)
        BY <4>3, <2>t DEF StopSave, SaveResult, BusyInv
      <4> QED BY <2>10, <4>1, <4>2, <4>3 DEF Stop
    <3> QED BY <2>10, <2>u, <2>k, <3>1, <3>2 DEF Stop, StopLookUp, StopCas, StopSave
  <2>11. ASSUME NEW f \in Execs, Delete(f) \/ Prune(f) PROVE Fine(e)'
    <3>1. \A u \in Tasks : InCharge(u, e) => InCharge(u, e)'
      BY <2>11 DEF Delete, Prune, InCharge
    <3>2. row'[e].status \in {row[e].status, "deleted"}
      BY <2>11, <2>t DEF Delete, Prune, DeleteRow, RowType
    <3> QED BY <2>11, <2>u, <2>k, <3>1, <3>2 DEF Delete, Prune
  <2>12. CASE Crash
    BY <2>12, <2>u DEF Crash, Fine, Is
  <2>13. CASE Restart
    BY <2>13, <2>t, <2>u DEF Restart, MarkCrashed, Fine, Is, RowType
  <2>16. CASE RestartUnmarked
    <3>1. row'[e] = row[e] /\ (row[e].status = "running" => e \in lost')
      BY <2>16 DEF RestartUnmarked, Is
    <3>2. row[e].status # "new"
      BY <2>u DEF Fine, Is
    <3> QED BY <3>1, <3>2 DEF Fine, Is
  <2>14. ASSUME NEW s \in Stoppers, NEW f \in Execs, StopRead(s, f) PROVE Fine(e)'
    <3>1. \A u \in Tasks : InCharge(u, e) => InCharge(u, e)'
      BY <2>14 DEF StopRead, InCharge
    <3> QED BY <2>14, <2>u, <2>k, <3>1 DEF StopRead
  <2>15. CASE UNCHANGED vars
    <3>1. \A u \in Tasks : InCharge(u, e) => InCharge(u, e)'
      BY <2>15 DEF vars, InCharge
    <3> QED BY <2>15, <2>u, <2>k, <3>1 DEF vars
  <2> QED
    BY <2>1, <2>2, <2>3, <2>4, <2>5, <2>6, <2>7, <2>8, <2>9, <2>10, <2>11,
       <2>12, <2>13, <2>14, <2>15, <2>16
    DEF Next, Run
<1> QED BY <1>1, <1>2, Invariant, PTL DEF Spec
=============================================================================
