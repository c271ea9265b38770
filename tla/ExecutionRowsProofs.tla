------------------------- MODULE ExecutionRowsProofs -------------------------
(***************************************************************************)
(* Proofs about the execution rows that the processes of queue mode share: *)
(* who may change a row (QueueMode), for any number of executions, jobs,   *)
(* workers and callers and any number of pauses and faults, and how the    *)
(* writes reach the database (StoreBatch), for any statements, batch size, *)
(* errors and crashes.                                                     *)
(***************************************************************************)
EXTENDS QueueMode, StoreBatch, TLAPS, FiniteSetTheorems

-----------------------------------------------------------------------------
(* What the operators of ExecutionRows do to the row they name.            *)

\* A statement changes only the row it names, as its SQL says, into a row.
LEMMA RowEffects ==
  ASSUME row \in [Execs -> RowType], NEW e \in Execs
  PROVE  /\ \A s \in Stored : Insert(e, s) =>
              /\ row' \in [Execs -> RowType]
              /\ row'[e] = [status |-> s, pause |-> 0]
              /\ \A f \in Execs \ {e} : row'[f] = row[f]
         /\ \A from, to \in Stored : Transition(e, from, to) =>
              /\ row' \in [Execs -> RowType]
              /\ row'[e].status = IF row[e].status = from THEN to ELSE row[e].status
              /\ row'[e].pause = row[e].pause
              /\ \A f \in Execs \ {e} : row'[f] = row[f]
         /\ \A s \in Stored, n \in 0..MaxWaits : SaveResult(e, s, n) =>
              /\ row' \in [Execs -> RowType]
              /\ row'[e] = IF row[e].status \in Stored
                           THEN [status |-> s, pause |-> n] ELSE row[e]
              /\ \A f \in Execs \ {e} : row'[f] = row[f]
         /\ DeleteRow(e) =>
              /\ row' \in [Execs -> RowType]
              /\ row'[e].status = IF row[e].status \in Stored
                                  THEN "deleted" ELSE row[e].status
              /\ \A f \in Execs \ {e} : row'[f] = row[f]
<1>1. row[e] \in RowType
  OBVIOUS
<1>2. ASSUME NEW s \in Stored, Insert(e, s)
      PROVE  /\ row' \in [Execs -> RowType]
             /\ row'[e] = [status |-> s, pause |-> 0]
             /\ \A f \in Execs \ {e} : row'[f] = row[f]
  BY <1>2, MaxWaitsAssumption DEF Insert, RowType
<1>3. ASSUME NEW from \in Stored, NEW to \in Stored, Transition(e, from, to)
      PROVE  /\ row' \in [Execs -> RowType]
             /\ row'[e].status = IF row[e].status = from THEN to ELSE row[e].status
             /\ row'[e].pause = row[e].pause
             /\ \A f \in Execs \ {e} : row'[f] = row[f]
  <2>1. [row[e] EXCEPT !.status = IF @ = from THEN to ELSE @] \in RowType
    BY <1>1 DEF RowType
  <2> QED BY <1>1, <1>3, <2>1 DEF Transition, RowType
<1>4. ASSUME NEW s \in Stored, NEW n \in 0..MaxWaits, SaveResult(e, s, n)
      PROVE  /\ row' \in [Execs -> RowType]
             /\ row'[e] = IF row[e].status \in Stored
                          THEN [status |-> s, pause |-> n] ELSE row[e]
             /\ \A f \in Execs \ {e} : row'[f] = row[f]
  <2>1. [status |-> s, pause |-> n] \in RowType
    BY DEF RowType
  <2> QED BY <1>1, <1>4, <2>1 DEF SaveResult
<1>5. ASSUME DeleteRow(e)
      PROVE  /\ row' \in [Execs -> RowType]
             /\ row'[e].status = IF row[e].status \in Stored
                                 THEN "deleted" ELSE row[e].status
             /\ \A f \in Execs \ {e} : row'[f] = row[f]
  <2>1. [row[e] EXCEPT !.status = IF @ \in Stored THEN "deleted" ELSE @] \in RowType
    BY <1>1 DEF RowType
  <2> QED BY <1>1, <1>5, <2>1 DEF DeleteRow, RowType
<1> QED BY <1>2, <1>3, <1>4, <1>5

-----------------------------------------------------------------------------
(* The inductive invariant.                                                *)

\* A caller that is under way has an execution; a worker that is not idle
\* holds a job that was pushed for one, and ends it in a pause only where
\* one more is allowed.
BusyInv ==
  /\ \A c \in Callers : cpc[c] # "idle" => cexec[c] \in Execs
  /\ \A j \in Jobs : state[j] # "absent" => content[j].exec \in Execs
  /\ \A w \in Workers :
       /\ wpc[w] = "idle" <=> running[w] = NoJob
       /\ running[w] # NoJob => state[running[w]] # "absent"
       /\ wpc[w] = "ended" /\ wresult[w] = "waiting" => JobOf(w).pause < MaxWaits

\* Only redelivered executions have a job that two workers hold.
HoldInv ==
  \A v, w \in Workers :
    running[v] # NoJob /\ running[v] = running[w] /\ v # w => JobOf(w).exec \in redelivered

\* The row of an execution in some hands is new, running or deleted, and the
\* row a stop request saves is already cancelled.
RowInv ==
  /\ \A e \in Execs \ redelivered :
       row[e].status \notin {"new", "running", "deleted"} => Hands(e) = {}
  /\ \A c \in Callers :
       cpc[c] = "canceled" /\ cexec[c] \notin redelivered =>
         row[cexec[c]].status \in {"canceled", "deleted"}

OneHand(e) == \A x, y \in Hands(e) : x = y
HandInv == \A e \in Execs \ redelivered : OneHand(e)

\* What keeps a new or running row from being forgotten: Covered without
\* the jobs some worker has already saved a result of.
CoverInv ==
  \A e \in Execs : row[e].status \in {"new", "running"} =>
    \/ e \in lost
    \/ Enqueuing(e) # {}
    \/ \E j \in Jobs :
         /\ content[j].exec = e /\ state[j] = "pending"
         /\ \A w \in Workers : running[w] = j => wpc[w] # "saved"

\* What the helpers of the callers and the workers read.
Typed ==
  /\ row \in [Execs -> RowType]
  /\ state \in [Jobs -> {"absent", "pending", "done"}]
  /\ running \in [Workers -> Jobs \cup {NoJob}]
  /\ content \in [Jobs -> Content]
  /\ cpc \in [Callers -> CallerPc]
  /\ cexec \in [Callers -> Execs \cup {NoExec}]
  /\ cpause \in [Callers -> 0..MaxWaits]
  /\ wpc \in [Workers -> WorkerPc]
  /\ wresult \in [Workers -> Outcome]

IInv == TypeOK /\ BusyInv /\ HoldInv /\ RowInv /\ HandInv /\ CoverInv

LEMMA InitIInv == Init => IInv
<1> SUFFICES ASSUME Init PROVE IInv
  OBVIOUS
<1> USE NoAssumption, MaxWaitsAssumption, BoundsAssumption
<1>1. TypeOK
  <2>1. NoRow \in RowType /\ NoContent \in Content
    BY DEF NoRow, RowType, NoContent, Content
  <2> QED BY <2>1 DEF Init, TypeOK, Queue!Init, Queue!TypeOK, CallerPc, WorkerPc, Outcome
<1>2. BusyInv /\ HoldInv
  BY DEF Init, BusyInv, HoldInv, Queue!Init
<1>3. \A e \in Execs : Hands(e) = {}
  BY DEF Init, Queue!Init, Hands, Enqueuing, Queued, Running
<1>4. RowInv /\ HandInv /\ CoverInv
  BY <1>3 DEF Init, NoRow, RowInv, HandInv, OneHand, CoverInv
<1> QED BY <1>1, <1>2, <1>4 DEF IInv

LEMMA JobFacts ==
  ASSUME TypeOK, BusyInv, NEW w \in Workers, wpc[w] # "idle"
  PROVE  /\ running[w] \in Jobs /\ running[w] # NoJob
         /\ JobOf(w).exec \in Execs /\ JobOf(w).pause \in 0..MaxWaits
<1>1. running[w] \in Jobs /\ running[w] # NoJob
  BY NoAssumption DEF TypeOK, BusyInv, Queue!TypeOK
<1>2. content[running[w]] \in Content /\ content[running[w]].exec \in Execs
  BY <1>1 DEF TypeOK, BusyInv
<1> QED BY <1>1, <1>2 DEF JobOf, Content

-----------------------------------------------------------------------------
LEMMA TypeStep == ASSUME TypeOK, BusyInv, [Next]_vars PROVE TypeOK'
<1>t. /\ Typed /\ lost \subseteq Execs /\ redelivered \subseteq Execs
      /\ faults \in 0..MaxFaults
  BY DEF TypeOK, Queue!TypeOK, Typed
<1>a. MaxWaits \in Nat /\ MaxFaults \in Nat
  BY MaxWaitsAssumption, BoundsAssumption
<1>b. /\ Outcome \subseteq Stored /\ "error" \in Outcome
      /\ {"new", "running", "waiting", "canceled"} \subseteq Stored
  BY DEF Outcome, Stored
<1>c. \A e \in Execs : row[e].pause \in 0..MaxWaits
  BY <1>t DEF Typed, RowType
<1>d. ASSUME Typed', lost' \subseteq Execs, redelivered' \subseteq Execs,
             faults' \in 0..MaxFaults
      PROVE  TypeOK'
  BY <1>d DEF TypeOK, Queue!TypeOK, Typed
<1> USE DEF Typed, caller, worker, history
<1>1. ASSUME NEW c \in Callers, NEW e \in Execs,
             Accept(c, e) \/ ResumeRead(c, e) \/ StopRead(c, e)
      PROVE  TypeOK'
  <2>1. row' \in [Execs -> RowType]
    BY <1>1, <1>t, <1>b, RowEffects DEF Accept, ResumeRead, StopRead
  <2>2. cpc' \in [Callers -> CallerPc]
    BY <1>1, <1>t DEF Accept, ResumeRead, StopRead, CallerStep, CallerPc
  <2>3. cexec' \in [Callers -> Execs \cup {NoExec}] /\ cpause' \in [Callers -> 0..MaxWaits]
    BY <1>1, <1>t, <1>c DEF Accept, ResumeRead, StopRead
  <2> QED BY <1>1, <1>t, <1>d, <2>1, <2>2, <2>3 DEF Accept, ResumeRead, StopRead
<1>2. ASSUME NEW c \in Callers, CallerNext(c) PROVE TypeOK'
  <2>1. cexec[c] \in Execs
    BY <1>2 DEF CallerNext, ResumeCas, Requeue, PushJob, Follow, StopCas, StopSave,
                CallerStep, BusyInv
  <2>2. row' \in [Execs -> RowType]
    <3>1. cpause[c] \in 0..MaxWaits
      BY <1>t
    <3> QED BY <1>2, <1>t, <1>b, <2>1, <3>1, RowEffects
            DEF CallerNext, ResumeCas, Requeue, PushJob, Follow, StopCas, StopSave
  <2>3. cpc' \in [Callers -> CallerPc]
    <3>1. \E p \in CallerPc : cpc' = [cpc EXCEPT ![c] = p]
      BY <1>2 DEF CallerNext, ResumeCas, Requeue, PushJob, Follow, StopCas, StopSave,
                  CallerStep, CallerEnds, CallerPc
    <3> QED BY <3>1, <1>t
  <2>4. cexec' \in [Callers -> Execs \cup {NoExec}] /\ cpause' \in [Callers -> 0..MaxWaits]
    <3>1. \/ cexec' = cexec /\ cpause' = cpause
          \/ cexec' = [cexec EXCEPT ![c] = NoExec] /\ cpause' = [cpause EXCEPT ![c] = 0]
      BY <1>2 DEF CallerNext, ResumeCas, Requeue, PushJob, Follow, StopCas, StopSave,
                  CallerEnds
    <3> QED BY <3>1, <1>t, <1>a
  <2>5. state' \in [Jobs -> {"absent", "pending", "done"}] /\ content' \in [Jobs -> Content]
    <3>1. [exec |-> cexec[c], pause |-> cpause[c]] \in Content
      BY <1>t DEF Content
    <3> QED BY <1>2, <1>t, <3>1
            DEF CallerNext, ResumeCas, Requeue, PushJob, Follow, StopCas, StopSave, Queue!Push
  <2>6. UNCHANGED <<running, worker, history, faults>>
    BY <1>2 DEF CallerNext, ResumeCas, Requeue, PushJob, Follow, StopCas, StopSave, Queue!Push
  <2> QED BY <1>t, <1>d, <2>2, <2>3, <2>4, <2>5, <2>6
<1>3. ASSUME NEW c \in Callers, CallerLost(c) PROVE TypeOK'
  <2>1. cexec[c] \in Execs
    BY <1>3 DEF CallerLost, BusyInv
  <2>2. /\ cpc' \in [Callers -> CallerPc] /\ cexec' \in [Callers -> Execs \cup {NoExec}]
        /\ cpause' \in [Callers -> 0..MaxWaits]
    BY <1>3, <1>t, <1>a DEF CallerLost, CallerEnds, CallerPc
  <2>3. faults' \in 0..MaxFaults
    BY <1>3, <1>t, <1>a DEF CallerLost
  <2> QED BY <1>3, <1>t, <1>d, <2>1, <2>2, <2>3 DEF CallerLost
<1>4. ASSUME NEW w \in Workers, TakeJob(w) PROVE TypeOK'
  <2>1. PICK j \in Jobs :
          /\ Queue!Take(w, j)
          /\ redelivered' = IF \E v \in Workers : Holds(v, j)
                            THEN redelivered \cup {content[j].exec} ELSE redelivered
    BY <1>4 DEF TakeJob
  <2>2. content[j].exec \in Execs
    BY <2>1 DEF Queue!Take, BusyInv
  <2>3. wpc' \in [Workers -> WorkerPc] /\ running' \in [Workers -> Jobs \cup {NoJob}]
    BY <1>4, <2>1, <1>t DEF TakeJob, Queue!Take, WorkerStep, WorkerPc
  <2> QED BY <1>4, <1>t, <1>d, <2>1, <2>2, <2>3 DEF TakeJob, Queue!Take
<1>5. ASSUME NEW w \in Workers, wpc[w] # "idle",
             WorkerNext(w) \/ DbError(w) \/ WorkerLost(w)
      PROVE  TypeOK'
  <2>1. running[w] \in Jobs /\ JobOf(w).exec \in Execs /\ JobOf(w).pause \in 0..MaxWaits
    BY <1>5, JobFacts
  <2>2. row' \in [Execs -> RowType]
    <3>1. CASE Save(w)
      <4>1. (IF wresult[w] = "waiting" THEN JobOf(w).pause + 1 ELSE JobOf(w).pause)
              \in 0..MaxWaits
        BY <2>1, <1>a, <3>1 DEF Save, WorkerStep, BusyInv
      <4> QED BY <3>1, <4>1, <2>1, <1>t, <1>b, RowEffects DEF Save
    <3>2. CASE ~Save(w)
      BY <3>2, <1>5, <2>1, <1>t, <1>b, RowEffects
         DEF WorkerNext, Begin, RunEnds, Ack, DbError, WorkerLost
    <3> QED BY <3>1, <3>2
  <2>3. wpc' \in [Workers -> WorkerPc]
    <3>1. \E p \in WorkerPc : wpc' = [wpc EXCEPT ![w] = p]
      BY <1>5 DEF WorkerNext, Begin, RunEnds, Save, Ack, DbError, WorkerLost, WorkerStep,
                  WorkerPc
    <3> QED BY <3>1, <1>t
  <2>4. wresult' \in [Workers -> Outcome]
    <3>1. wresult' = wresult \/ \E s \in Outcome : wresult' = [wresult EXCEPT ![w] = s]
      BY <1>5, <1>b DEF WorkerNext, Begin, RunEnds, Save, Ack, DbError, WorkerLost
    <3> QED BY <3>1, <1>t
  <2>5. /\ state' \in [Jobs -> {"absent", "pending", "done"}]
        /\ running' \in [Workers -> Jobs \cup {NoJob}]
    BY <1>5, <1>t, <2>1 DEF WorkerNext, Begin, RunEnds, Save, Ack, DbError, WorkerLost,
                            Queue!Complete, Queue!Lose
  <2>6. lost' \subseteq Execs /\ redelivered' \subseteq Execs /\ faults' \in 0..MaxFaults
    BY <1>5, <1>t, <1>a, <2>1 DEF WorkerNext, Begin, RunEnds, Save, Ack, DbError, WorkerLost
  <2>7. UNCHANGED <<content, caller>>
    BY <1>5 DEF WorkerNext, Begin, RunEnds, Save, Ack, DbError, WorkerLost
  <2> QED BY <1>t, <1>d, <2>2, <2>3, <2>4, <2>5, <2>6, <2>7
<1>6. ASSUME NEW w \in Workers, WorkerNext(w) \/ DbError(w) \/ WorkerLost(w)
      PROVE  wpc[w] # "idle"
  BY <1>6 DEF WorkerNext, Begin, RunEnds, Save, Ack, DbError, WorkerLost, WorkerStep,
              Queue!Lose, BusyInv
<1>7. ASSUME NEW e \in Execs, Delete(e) PROVE TypeOK'
  <2>1. row' \in [Execs -> RowType]
    BY <1>7, <1>t, RowEffects DEF Delete
  <2> QED BY <1>7, <1>t, <1>d, <2>1 DEF Delete
<1>8. CASE UNCHANGED vars
  BY <1>8, <1>t, <1>d DEF vars
<1> QED BY <1>1, <1>2, <1>3, <1>4, <1>5, <1>6, <1>7, <1>8 DEF Next

-----------------------------------------------------------------------------
LEMMA BusyStep == ASSUME TypeOK, BusyInv, HoldInv, [Next]_vars PROVE BusyInv' /\ HoldInv'
<1>t. /\ Typed /\ redelivered \subseteq Execs /\ NoJob \notin Jobs
  BY NoAssumption DEF TypeOK, Queue!TypeOK, Typed
<1> USE DEF Typed, caller, worker, history
<1>1. ASSUME NEW c \in Callers, NEW e \in Execs,
             Accept(c, e) \/ ResumeRead(c, e) \/ StopRead(c, e)
      PROVE  BusyInv' /\ HoldInv'
  BY <1>1, <1>t DEF Accept, ResumeRead, StopRead, CallerStep, BusyInv, HoldInv, JobOf
<1>2. ASSUME NEW c \in Callers, PushJob(c) PROVE BusyInv' /\ HoldInv'
  <2>1. PICK j \in Jobs :
          /\ Queue!Push(j)
          /\ content' = [content EXCEPT ![j] = [exec |-> cexec[c], pause |-> cpause[c]]]
    BY <1>2 DEF PushJob
  <2>2. cexec[c] \in Execs
    BY <1>2 DEF PushJob, CallerStep, BusyInv
  <2>3. \A w \in Workers : running[w] # NoJob => running[w] # j /\ JobOf(w)' = JobOf(w)
    BY <1>2, <1>t, <2>1 DEF PushJob, Queue!Push, BusyInv, JobOf
  <2>4. \A i \in Jobs : state'[i] # "absent" => content'[i].exec \in Execs
    BY <1>t, <2>1, <2>2 DEF Queue!Push, BusyInv
  <2>5. \A w \in Workers : running[w] # NoJob => state'[running[w]] # "absent"
    BY <1>t, <2>1, <2>3 DEF Queue!Push, BusyInv
  <2>6. \A d \in Callers : cpc'[d] # "idle" => cexec'[d] \in Execs
    BY <1>2, <1>t, <2>2 DEF PushJob, CallerStep, BusyInv
  <2>7. running' = running /\ wpc' = wpc /\ wresult' = wresult /\ redelivered' = redelivered
    BY <1>2, <2>1 DEF PushJob, Queue!Push
  <2>8. BusyInv'
    BY <2>3, <2>4, <2>5, <2>6, <2>7 DEF BusyInv
  <2>9. HoldInv'
    BY <2>3, <2>7 DEF HoldInv
  <2> QED BY <2>8, <2>9
<1>3. ASSUME NEW c \in Callers,
             \/ ResumeCas(c) \/ Requeue(c) \/ Follow(c) \/ StopCas(c) \/ StopSave(c)
             \/ CallerLost(c)
      PROVE  BusyInv' /\ HoldInv'
  <2>1. \A d \in Callers : cpc'[d] # "idle" => cexec'[d] \in Execs
    BY <1>3, <1>t DEF ResumeCas, Requeue, Follow, StopCas, StopSave, CallerLost, CallerStep,
                      CallerEnds, BusyInv
  <2>2. UNCHANGED <<state, running, content, worker, redelivered>>
    BY <1>3 DEF ResumeCas, Requeue, Follow, StopCas, StopSave, CallerLost
  <2> QED BY <2>1, <2>2 DEF BusyInv, HoldInv, JobOf
<1>4. ASSUME NEW w \in Workers, TakeJob(w) PROVE BusyInv' /\ HoldInv'
  <2>1. PICK j \in Jobs :
          /\ Queue!Take(w, j)
          /\ redelivered' = IF \E v \in Workers : Holds(v, j)
                            THEN redelivered \cup {content[j].exec} ELSE redelivered
    BY <1>4 DEF TakeJob
  <2>2. /\ wpc' = [wpc EXCEPT ![w] = "taken"] /\ running' = [running EXCEPT ![w] = j]
        /\ UNCHANGED <<state, content, caller, wresult>>
    BY <1>4, <2>1 DEF TakeJob, WorkerStep, Queue!Take
  <2>3. state[j] = "pending" /\ j # NoJob
    BY <1>t, <2>1 DEF Queue!Take
  <2>4. \A v \in Workers : running'[v] = IF v = w THEN j ELSE running[v]
    BY <1>t, <2>2
  <2>5. \A v \in Workers \ {w} : JobOf(v)' = JobOf(v)
    BY <2>2, <2>4 DEF JobOf
  <2>6. BusyInv'
    <3>1. \A v \in Workers : wpc'[v] = IF v = w THEN "taken" ELSE wpc[v]
      BY <1>t, <2>2
    <3> QED BY <2>2, <2>3, <2>4, <2>5, <3>1 DEF BusyInv
  <2>7. ASSUME NEW u \in Workers, NEW v \in Workers, u # v,
               running'[u] # NoJob, running'[u] = running'[v]
        PROVE  JobOf(v)'.exec \in redelivered'
    <3>1. redelivered \subseteq redelivered'
      BY <2>1
    <3>2. CASE u # w /\ v # w
      BY <2>4, <2>5, <2>7, <3>1, <3>2 DEF HoldInv
    <3>3. CASE u = w \/ v = w
      <4>1. \E x \in Workers : Holds(x, j)
        BY <2>4, <2>7, <3>3 DEF Holds
      <4>2. running'[v] = j /\ content'[j] = content[j]
        BY <2>2, <2>4, <2>7, <3>3
      <4> QED BY <2>1, <4>1, <4>2 DEF JobOf
    <3> QED BY <3>2, <3>3
  <2>8. HoldInv'
    BY <2>7 DEF HoldInv
  <2> QED BY <2>6, <2>8
<1>5. ASSUME NEW w \in Workers, Begin(w) \/ Save(w) \/ DbError(w)
      PROVE  BusyInv' /\ HoldInv'
  <2>1. UNCHANGED <<state, running, content, caller, wresult, redelivered>>
    BY <1>5 DEF Begin, Save, DbError
  <2>2. /\ wpc[w] # "idle"
        /\ wpc' = [wpc EXCEPT ![w] = "run"] \/ wpc' = [wpc EXCEPT ![w] = "saved"]
    BY <1>5 DEF Begin, Save, DbError, WorkerStep
  <2> QED BY <1>t, <2>1, <2>2 DEF BusyInv, HoldInv, JobOf
<1>6. ASSUME NEW w \in Workers, NEW s \in Outcome, RunEnds(w, s) PROVE BusyInv' /\ HoldInv'
  BY <1>6, <1>t DEF RunEnds, WorkerStep, BusyInv, HoldInv, JobOf
<1>7. ASSUME NEW w \in Workers, Ack(w) \/ WorkerLost(w) PROVE BusyInv' /\ HoldInv'
  <2>1. /\ running' = [running EXCEPT ![w] = NoJob] /\ wpc' = [wpc EXCEPT ![w] = "idle"]
        /\ wresult' = [wresult EXCEPT ![w] = "error"]
        /\ UNCHANGED <<content, caller>> /\ redelivered \subseteq redelivered'
    BY <1>7 DEF Ack, WorkerLost, WorkerStep, Queue!Complete, Queue!Lose
  <2>2. \A j \in Jobs : state'[j] # "absent" <=> state[j] # "absent"
    <3>1. ASSUME Ack(w) PROVE running[w] \in Jobs /\ state[running[w]] # "absent"
      BY <3>1, <1>t DEF Ack, WorkerStep, BusyInv
    <3> QED BY <1>7, <1>t, <3>1 DEF Ack, WorkerLost, Queue!Complete, Queue!Lose
  <2>3. \A v \in Workers \ {w} : running'[v] = running[v] /\ JobOf(v)' = JobOf(v)
    BY <1>t, <2>1 DEF JobOf
  <2>4. running'[w] = NoJob /\ wpc'[w] = "idle"
    BY <1>t, <2>1
  <2>5. \A v \in Workers \ {w} : wpc'[v] = wpc[v] /\ wresult'[v] = wresult[v]
    BY <1>t, <2>1
  <2>6. BusyInv'
    BY <1>t, <2>1, <2>2, <2>3, <2>4, <2>5 DEF BusyInv
  <2>7. HoldInv'
    BY <2>1, <2>3, <2>4 DEF HoldInv
  <2> QED BY <2>6, <2>7
<1>8. ASSUME NEW e \in Execs, Delete(e) PROVE BusyInv' /\ HoldInv'
  BY <1>8, <1>t DEF Delete, BusyInv, HoldInv, JobOf
<1>9. CASE UNCHANGED vars
  BY <1>9 DEF vars, BusyInv, HoldInv, JobOf
<1> QED BY <1>1, <1>2, <1>3, <1>4, <1>5, <1>6, <1>7, <1>8, <1>9
        DEF Next, CallerNext, WorkerNext

-----------------------------------------------------------------------------
(* Covered.                                                                *)

Fresh(e, j) ==
  /\ content[j].exec = e /\ state[j] = "pending"
  /\ \A w \in Workers : running[w] = j => wpc[w] # "saved"

LEMMA CoverStep == ASSUME TypeOK, BusyInv, CoverInv, [Next]_vars PROVE CoverInv'
<1>t. Typed /\ NoJob \notin Jobs
  BY NoAssumption DEF TypeOK, Queue!TypeOK, Typed
<1> USE DEF Typed, caller, worker, history
<1>b. /\ Outcome \subseteq Stored /\ {"new", "running", "waiting", "canceled"} \subseteq Stored
      /\ \A s \in Outcome \cup {"canceled"} : s \notin {"new", "running"}
  BY DEF Outcome, Stored
<1>i. \A e \in Execs : row[e].status \in {"new", "running"} =>
        e \in lost \/ Enqueuing(e) # {} \/ \E j \in Jobs : Fresh(e, j)
  BY DEF CoverInv, Fresh
<1>g. ASSUME \A e \in Execs : row'[e].status \in {"new", "running"} =>
               e \in lost' \/ Enqueuing(e)' # {} \/ \E j \in Jobs : Fresh(e, j)'
      PROVE  CoverInv'
  BY <1>g DEF CoverInv, Fresh
<1>q. ASSUME \A e \in Execs : row'[e].status \in {"new", "running"} =>
               \/ Enqueuing(e)' # {}
               \/ e \in lost'
               \/ /\ row[e].status \in {"new", "running"}
                  /\ Enqueuing(e) \subseteq Enqueuing(e)'
                  /\ \A j \in Jobs : Fresh(e, j) => Fresh(e, j)',
             lost \subseteq lost'
      PROVE  CoverInv'
  <2> SUFFICES ASSUME NEW e \in Execs, row'[e].status \in {"new", "running"}
               PROVE  e \in lost' \/ Enqueuing(e)' # {} \/ \E j \in Jobs : Fresh(e, j)'
    BY <1>g
  <2> QED BY <1>q, <1>i
<1>1. ASSUME NEW c \in Callers, NEW e \in Execs, Accept(c, e) PROVE CoverInv'
  <2>1. c \in Enqueuing(e)'
    BY <1>1, <1>t DEF Accept, CallerStep, Enqueuing
  <2>2. \A f \in Execs \ {e} : row'[f] = row[f]
    BY <1>1, <1>t, <1>b, RowEffects DEF Accept
  <2>3. \A f \in Execs : Enqueuing(f) \subseteq Enqueuing(f)'
    BY <1>1, <1>t DEF Accept, CallerStep, Enqueuing
  <2>4. \A f \in Execs, j \in Jobs : Fresh(f, j) => Fresh(f, j)'
    BY <1>1 DEF Accept, Fresh
  <2> QED BY <1>1, <1>q, <2>1, <2>2, <2>3, <2>4 DEF Accept
<1>2. ASSUME NEW c \in Callers, NEW e \in Execs, ResumeRead(c, e) \/ StopRead(c, e)
      PROVE  CoverInv'
  <2>1. \A f \in Execs : Enqueuing(f) \subseteq Enqueuing(f)'
    BY <1>2, <1>t DEF ResumeRead, StopRead, CallerStep, Enqueuing
  <2>2. /\ row' = row /\ lost' = lost
        /\ \A f \in Execs, j \in Jobs : Fresh(f, j) => Fresh(f, j)'
    BY <1>2 DEF ResumeRead, StopRead, Fresh
  <2> QED BY <1>q, <2>1, <2>2
<1>3. ASSUME NEW c \in Callers, ResumeCas(c) PROVE CoverInv'
  <2>1. PICK e \in Execs : e = cexec[c]
    BY <1>3 DEF ResumeCas, BusyInv
  <2>2. \A f \in Execs : Enqueuing(f) \subseteq Enqueuing(f)'
    BY <1>3, <1>t DEF ResumeCas, CallerEnds, Enqueuing
  <2>3. row[e].status = "waiting" => c \in Enqueuing(e)'
    BY <1>3, <1>t, <2>1 DEF ResumeCas, Enqueuing, Is
  <2>4. /\ \A f \in Execs \ {e} : row'[f] = row[f]
        /\ row[e].status # "waiting" => row'[e].status = row[e].status
    BY <1>3, <1>t, <1>b, <2>1, RowEffects DEF ResumeCas
  <2>5. lost' = lost /\ \A f \in Execs, j \in Jobs : Fresh(f, j) => Fresh(f, j)'
    BY <1>3 DEF ResumeCas, Fresh
  <2>6. \A f \in Execs : Enqueuing(f)' # {} \/ row'[f].status = row[f].status
    BY <2>3, <2>4
  <2> QED BY <1>q, <2>2, <2>5, <2>6
<1>4. ASSUME NEW c \in Callers, Requeue(c) PROVE CoverInv'
  <2>1. PICK e \in Execs : e = cexec[c]
    BY <1>4 DEF Requeue, CallerStep, BusyInv
  <2>2. \A f \in Execs : Enqueuing(f) \subseteq Enqueuing(f)'
    BY <1>4, <1>t DEF Requeue, CallerStep, Enqueuing
  <2>3. c \in Enqueuing(e)'
    BY <1>4, <1>t, <2>1 DEF Requeue, CallerStep, Enqueuing
  <2>4. \A f \in Execs \ {e} : row'[f] = row[f]
    BY <1>4, <1>t, <1>b, <2>1, RowEffects DEF Requeue
  <2>5. lost' = lost /\ \A f \in Execs, j \in Jobs : Fresh(f, j) => Fresh(f, j)'
    BY <1>4 DEF Requeue, Fresh
  <2>6. \A f \in Execs : Enqueuing(f)' # {} \/ row'[f] = row[f]
    BY <2>3, <2>4
  <2> QED BY <1>q, <2>2, <2>5, <2>6
<1>5. ASSUME NEW c \in Callers, PushJob(c) PROVE CoverInv'
  <2>1. PICK j \in Jobs :
          /\ Queue!Push(j)
          /\ content' = [content EXCEPT ![j] = [exec |-> cexec[c], pause |-> cpause[c]]]
    BY <1>5 DEF PushJob
  <2>e. PICK e \in Execs : e = cexec[c]
    BY <1>5 DEF PushJob, CallerStep, BusyInv
  <2>2. \A w \in Workers : running[w] # j
    BY <1>t, <2>1 DEF Queue!Push, BusyInv
  <2>3. Fresh(e, j)'
    BY <1>5, <1>t, <2>1, <2>2, <2>e DEF PushJob, Queue!Push, Fresh
  <2>4. \A f \in Execs, i \in Jobs : Fresh(f, i) => Fresh(f, i)'
    BY <1>5, <1>t, <2>1 DEF PushJob, Queue!Push, Fresh
  <2>5. \A f \in Execs \ {e} : Enqueuing(f) \subseteq Enqueuing(f)'
    BY <1>5, <1>t, <2>e DEF PushJob, CallerStep, Enqueuing
  <2>6. row' = row /\ lost' = lost
    BY <1>5 DEF PushJob
  <2>7. ASSUME NEW f \in Execs, row'[f].status \in {"new", "running"}
        PROVE  f \in lost' \/ Enqueuing(f)' # {} \/ \E i \in Jobs : Fresh(f, i)'
    <3>1. CASE f = e
      BY <2>3, <3>1
    <3>2. CASE f # e
      BY <1>i, <2>4, <2>5, <2>6, <2>7, <3>2
    <3> QED BY <3>1, <3>2
  <2> QED BY <1>g, <2>7
<1>6. ASSUME NEW c \in Callers, Follow(c) \/ StopCas(c) \/ StopSave(c) PROVE CoverInv'
  <2>1. cexec[c] \in Execs
    BY <1>6 DEF Follow, StopCas, StopSave, BusyInv
  <2>2. \A f \in Execs : Enqueuing(f) \subseteq Enqueuing(f)'
    BY <1>6, <1>t DEF Follow, StopCas, StopSave, CallerEnds, Enqueuing
  <2>3. \A f \in Execs : row'[f].status \in {"new", "running"} => row'[f] = row[f]
    <3>1. cpause[c] \in 0..MaxWaits
      BY <1>t
    <3>2. CASE Follow(c)
      BY <3>2 DEF Follow
    <3>3. CASE StopCas(c)
      <4>1. /\ row'[cexec[c]].status = IF row[cexec[c]].status = "waiting"
                                       THEN "canceled" ELSE row[cexec[c]].status
            /\ \A f \in Execs \ {cexec[c]} : row'[f] = row[f]
            /\ row'[cexec[c]].pause = row[cexec[c]].pause
            /\ row' \in [Execs -> RowType]
        BY <3>3, <1>t, <1>b, <2>1, RowEffects DEF StopCas
      <4>2. row'[cexec[c]].status = row[cexec[c]].status => row'[cexec[c]] = row[cexec[c]]
        BY <4>1, <1>t, <2>1 DEF RowType
      <4> QED BY <4>1, <4>2
    <3>4. CASE StopSave(c)
      <4>1. /\ row'[cexec[c]] = IF row[cexec[c]].status \in Stored
                                THEN [status |-> "canceled", pause |-> cpause[c]]
                                ELSE row[cexec[c]]
            /\ \A f \in Execs \ {cexec[c]} : row'[f] = row[f]
        BY <3>1, <3>4, <1>t, <1>b, <2>1, RowEffects DEF StopSave
      <4> QED BY <4>1, <1>b
    <3> QED BY <1>6, <3>2, <3>3, <3>4
  <2>4. lost' = lost /\ \A f \in Execs, j \in Jobs : Fresh(f, j) => Fresh(f, j)'
    BY <1>6 DEF Follow, StopCas, StopSave, Fresh
  <2> QED BY <1>q, <2>2, <2>3, <2>4
<1>7. ASSUME NEW c \in Callers, CallerLost(c) PROVE CoverInv'
  <2>1. \A f \in Execs \ {cexec[c]} : Enqueuing(f) \subseteq Enqueuing(f)'
    BY <1>7, <1>t DEF CallerLost, CallerEnds, Enqueuing
  <2>2. /\ row' = row /\ lost' = lost \cup {cexec[c]}
        /\ \A f \in Execs, j \in Jobs : Fresh(f, j) => Fresh(f, j)'
    BY <1>7 DEF CallerLost, Fresh
  <2> QED BY <1>q, <2>1, <2>2
<1>8. ASSUME NEW w \in Workers, TakeJob(w) PROVE CoverInv'
  <2>1. PICK j \in Jobs : Queue!Take(w, j)
    BY <1>8 DEF TakeJob
  <2>2. \A f \in Execs, i \in Jobs : Fresh(f, i) => Fresh(f, i)'
    BY <1>8, <1>t, <2>1 DEF TakeJob, WorkerStep, Queue!Take, Fresh
  <2>3. row' = row /\ lost' = lost /\ \A f \in Execs : Enqueuing(f) \subseteq Enqueuing(f)'
    BY <1>8 DEF TakeJob, Enqueuing
  <2> QED BY <1>q, <2>2, <2>3
<1>9. ASSUME NEW w \in Workers, Begin(w) PROVE CoverInv'
  <2>1. JobOf(w).exec \in Execs
    BY <1>9, JobFacts DEF Begin, WorkerStep
  <2>2. \A f \in Execs : row'[f].status \in {"new", "running"} =>
                           row[f].status \in {"new", "running"}
    BY <1>9, <1>t, <1>b, <2>1, RowEffects DEF Begin
  <2>3. /\ lost' = lost /\ \A f \in Execs : Enqueuing(f) \subseteq Enqueuing(f)'
        /\ \A f \in Execs, j \in Jobs : Fresh(f, j) => Fresh(f, j)'
    BY <1>9, <1>t DEF Begin, WorkerStep, Enqueuing, Fresh
  <2> QED BY <1>q, <2>2, <2>3
<1>10. ASSUME NEW w \in Workers, NEW s \in Outcome, RunEnds(w, s) PROVE CoverInv'
  <2>1. /\ row' = row /\ lost' = lost /\ \A f \in Execs : Enqueuing(f) \subseteq Enqueuing(f)'
        /\ \A f \in Execs, j \in Jobs : Fresh(f, j) => Fresh(f, j)'
    BY <1>10, <1>t DEF RunEnds, WorkerStep, Enqueuing, Fresh
  <2> QED BY <1>q, <2>1
<1>11. ASSUME NEW w \in Workers, Save(w) \/ DbError(w) PROVE CoverInv'
  <2> DEFINE e == JobOf(w).exec
             n == IF wresult[w] = "waiting" THEN JobOf(w).pause + 1 ELSE JobOf(w).pause
  <2>1. e \in Execs /\ JobOf(w).pause \in 0..MaxWaits
    BY <1>11, JobFacts DEF Save, DbError, WorkerStep
  <2>2. Save(w) => n \in 0..MaxWaits
    BY <1>11, <2>1, MaxWaitsAssumption DEF Save, WorkerStep, BusyInv
  <2>3. \A f \in Execs \ {e} : row'[f] = row[f]
    BY <1>11, <1>t, <1>b, <2>1, <2>2, RowEffects DEF Save, DbError
  <2>4. row'[e].status \notin {"new", "running"} \/ e \in lost'
    <3>1. CASE DbError(w)
      BY <3>1 DEF DbError
    <3>2. CASE Save(w) /\ SaveResult(e, wresult[w], n)
      <4>1. wresult[w] \in Outcome
        BY <1>t
      <4>2. row'[e] = IF row[e].status \in Stored
                      THEN [status |-> wresult[w], pause |-> n] ELSE row[e]
        <5>1. n \in 0..MaxWaits
          BY <3>2, <2>2
        <5> QED BY <3>2, <4>1, <5>1, <1>t, <1>b, <2>1, RowEffects
      <4> QED BY <4>1, <4>2, <1>b
    <3>3. CASE DeleteRow(e)
      <4>1. row'[e].status = IF row[e].status \in Stored THEN "deleted" ELSE row[e].status
        BY <3>3, <1>t, <2>1, RowEffects
      <4> QED BY <4>1, <1>b
    <3> QED BY <1>11, <3>1, <3>2, <3>3 DEF Save
  <2>5. /\ UNCHANGED <<content, state, running, caller>> /\ lost \subseteq lost'
        /\ wpc' = [wpc EXCEPT ![w] = "saved"]
    BY <1>11 DEF Save, DbError, WorkerStep
  <2>6. ASSUME NEW f \in Execs \ {e}
        PROVE  /\ Enqueuing(f) \subseteq Enqueuing(f)'
               /\ \A j \in Jobs : Fresh(f, j) => Fresh(f, j)'
    <3>1. \A j \in Jobs : Fresh(f, j) => running[w] # j
      BY <2>6 DEF Fresh, JobOf
    <3> QED BY <1>t, <2>5, <3>1 DEF Enqueuing, Fresh
  <2> QED BY <1>q, <2>3, <2>4, <2>5, <2>6
<1>12. ASSUME NEW w \in Workers, Ack(w) \/ WorkerLost(w) PROVE CoverInv'
  <2>1. /\ row' = row /\ lost' = lost /\ content' = content
        /\ running' = [running EXCEPT ![w] = NoJob] /\ wpc' = [wpc EXCEPT ![w] = "idle"]
        /\ \A f \in Execs : Enqueuing(f) \subseteq Enqueuing(f)'
    BY <1>12 DEF Ack, WorkerLost, WorkerStep, Queue!Complete, Queue!Lose, Enqueuing
  <2>2. \A f \in Execs, j \in Jobs : Fresh(f, j) => state'[j] = state[j]
    <3>1. ASSUME Ack(w), NEW f \in Execs, NEW j \in Jobs, Fresh(f, j) PROVE running[w] # j
      BY <3>1 DEF Ack, WorkerStep, Fresh
    <3> QED BY <1>12, <1>t, <3>1 DEF Ack, WorkerLost, Queue!Complete, Queue!Lose
  <2>3. \A f \in Execs, j \in Jobs : Fresh(f, j) => Fresh(f, j)'
    BY <1>t, <2>1, <2>2 DEF Fresh
  <2> QED BY <1>q, <2>1, <2>3
<1>13. ASSUME NEW e \in Execs, Delete(e) PROVE CoverInv'
  <2>1. \A f \in Execs : row'[f].status \in {"new", "running"} =>
                           row[f].status \in {"new", "running"}
    BY <1>13, <1>t, RowEffects DEF Delete
  <2>2. /\ lost' = lost /\ \A f \in Execs : Enqueuing(f) \subseteq Enqueuing(f)'
        /\ \A f \in Execs, j \in Jobs : Fresh(f, j) => Fresh(f, j)'
    BY <1>13 DEF Delete, Enqueuing, Fresh
  <2> QED BY <1>q, <2>1, <2>2
<1>14. CASE UNCHANGED vars
  BY <1>14 DEF vars, CoverInv, Enqueuing
<1> QED BY <1>1, <1>2, <1>3, <1>4, <1>5, <1>6, <1>7, <1>8, <1>9, <1>10, <1>11, <1>12,
           <1>13, <1>14 DEF Next, CallerNext, WorkerNext

-----------------------------------------------------------------------------
(* OneInCharge and FinalIfDeliveredOnce.                                   *)

LEMMA HandsAre ==
  /\ \A e \in Execs, c \in Callers : <<"caller", c>> \in Hands(e) <=> c \in Enqueuing(e)
  /\ \A e \in Execs, j \in Jobs : <<"job", j>> \in Hands(e) <=> j \in Queued(e)
  /\ \A e \in Execs, w \in Workers : <<"worker", w>> \in Hands(e) <=> w \in Running(e)
  /\ \A e \in Execs : \A x \in Hands(e) :
       \/ \E c \in Enqueuing(e) : x = <<"caller", c>>
       \/ \E j \in Queued(e) : x = <<"job", j>>
       \/ \E w \in Running(e) : x = <<"worker", w>>
BY DEF Hands

\* Hands that are kept, or fewer.
LEMMA HandsKept ==
  ASSUME NEW e \in Execs,
         Enqueuing(e)' \subseteq Enqueuing(e), Queued(e)' \subseteq Queued(e),
         Running(e)' \subseteq Running(e)
  PROVE  Hands(e)' \subseteq Hands(e)
BY DEF Hands

\* What a step must do for an execution delivered once so far.
Keeps(e) ==
  row[e].status \in Final \cup {"deleted"} => row'[e].status \in {row[e].status, "deleted"}

Good(e) ==
  /\ Keeps(e)
  /\ \/ e \in redelivered'
     \/ /\ OneHand(e)'
        /\ row'[e].status \notin {"new", "running", "deleted"} => Hands(e)' = {}

LEMMA GoodSteps ==
  ASSUME RowInv, HandInv, NEW e \in Execs \ redelivered
  PROVE  /\ /\ Hands(e)' \subseteq Hands(e)
            /\ \/ row'[e].status \in {row[e].status, "deleted"}
               \/ {row[e].status, row'[e].status} \subseteq {"new", "running"}
            => Good(e)
         /\ /\ row[e].status \in {"none", "waiting"}
            /\ row'[e].status \in {"new", "running"}
            /\ \E x : Hands(e)' \subseteq {x}
            => Good(e)
         /\ /\ Hands(e)' = {} /\ Keeps(e)
            => Good(e)
<1>1. \A x, y \in Hands(e) : x = y
  BY DEF HandInv, OneHand
<1>2. row[e].status \notin {"new", "running", "deleted"} => Hands(e) = {}
  BY DEF RowInv
<1> QED BY <1>1, <1>2 DEF Good, Keeps, OneHand, Final

LEMMA OnlyHand ==
  ASSUME HandInv, NEW e \in Execs \ redelivered, NEW x, x \in Hands(e)
  PROVE  Hands(e) = {x}
BY DEF HandInv, OneHand

LEMMA HandStep ==
  ASSUME IInv, [Next]_vars
  PROVE  \A e \in Execs \ redelivered : Good(e)
<1> SUFFICES ASSUME NEW e \in Execs \ redelivered PROVE Good(e)
  OBVIOUS
<1>t. Typed /\ NoJob \notin Jobs
  BY NoAssumption DEF IInv, TypeOK, Queue!TypeOK, Typed
<1>i. TypeOK /\ BusyInv /\ HoldInv /\ RowInv /\ HandInv
  BY DEF IInv
<1>b. Outcome \subseteq Stored /\ {"new", "running", "waiting", "canceled"} \subseteq Stored
  BY DEF Outcome, Stored
<1>r. row[e].status \notin {"new", "running", "deleted"} => Hands(e) = {}
  BY <1>i DEF RowInv
<1> USE DEF Typed, caller, worker, history
<1>q. ASSUME Enqueuing(e)' \subseteq Enqueuing(e), Queued(e)' \subseteq Queued(e),
             Running(e)' \subseteq Running(e),
             \/ row'[e].status \in {row[e].status, "deleted"}
             \/ {row[e].status, row'[e].status} \subseteq {"new", "running"}
      PROVE  Good(e)
  BY <1>q, <1>i, HandsKept, GoodSteps
<1>s. ASSUME UNCHANGED <<state, running, content, worker>>
      PROVE  Queued(e)' = Queued(e) /\ Running(e)' = Running(e)
  BY <1>s DEF Queued, Running, Holds, JobOf
<1>e. ASSUME UNCHANGED <<cpc, cexec>> PROVE Enqueuing(e)' = Enqueuing(e)
  BY <1>e DEF Enqueuing
<1>1. ASSUME NEW c \in Callers, NEW f \in Execs, Accept(c, f) PROVE Good(e)
  <2>a. /\ row'[f].status = "new" /\ row[f].status = "none"
        /\ \A g \in Execs \ {f} : row'[g] = row[g]
    <3>1. Insert(f, "new") /\ row[f] = NoRow
      BY <1>1 DEF Accept
    <3>2. row'[f] = [status |-> "new", pause |-> 0] /\ \A g \in Execs \ {f} : row'[g] = row[g]
      BY <3>1, <1>t, <1>b, RowEffects
    <3> QED BY <3>1, <3>2 DEF NoRow
  <2>1. Queued(e)' = Queued(e) /\ Running(e)' = Running(e)
    BY <1>1, <1>s DEF Accept
  <2>2. Enqueuing(e)' = IF e = f THEN Enqueuing(e) \cup {c} ELSE Enqueuing(e)
    BY <1>1, <1>t DEF Accept, CallerStep, Enqueuing
  <2>3. CASE e = f
    <3>1. row[e].status = "none" /\ row'[e].status = "new"
      BY <2>a, <2>3
    <3>2. Hands(e) = {}
      BY <3>1, <1>r
    <3>3. Hands(e)' \subseteq {<<"caller", c>>}
      BY <2>1, <2>2, <3>2 DEF Hands
    <3> QED BY <3>1, <3>3, <1>i, GoodSteps
  <2>4. CASE e # f
    <3>1. row'[e] = row[e]
      BY <2>a, <2>4
    <3> QED BY <2>1, <2>2, <2>4, <3>1, <1>q
  <2> QED BY <2>3, <2>4
<1>2. ASSUME NEW c \in Callers, NEW f \in Execs, ResumeRead(c, f) \/ StopRead(c, f)
      PROVE  Good(e)
  <2>1. Enqueuing(e)' \subseteq Enqueuing(e)
    BY <1>2, <1>t DEF ResumeRead, StopRead, CallerStep, Enqueuing
  <2>2. Queued(e)' = Queued(e) /\ Running(e)' = Running(e) /\ row' = row
    BY <1>2, <1>s DEF ResumeRead, StopRead
  <2> QED BY <2>1, <2>2, <1>q
<1>3. ASSUME NEW c \in Callers, ResumeCas(c) PROVE Good(e)
  <2>1. PICK f \in Execs : f = cexec[c]
    BY <1>3, <1>i DEF ResumeCas, BusyInv
  <2>2. Queued(e)' = Queued(e) /\ Running(e)' = Running(e)
    BY <1>3, <1>s DEF ResumeCas
  <2>3. CASE e = f /\ row[e].status = "waiting"
    <3>1. row'[e].status = "running"
      BY <1>3, <1>t, <1>b, <2>1, <2>3, RowEffects DEF ResumeCas
    <3>2. Enqueuing(e)' \subseteq Enqueuing(e) \cup {c}
      BY <1>3, <1>t, <2>1, <2>3 DEF ResumeCas, CallerEnds, Enqueuing, Is
    <3>3. Hands(e) = {}
      BY <2>3, <1>r
    <3>4. Hands(e)' \subseteq {<<"caller", c>>}
      BY <2>2, <3>2, <3>3 DEF Hands
    <3> QED BY <2>3, <3>1, <3>4, <1>i, GoodSteps
  <2>4. CASE e # f \/ row[e].status # "waiting"
    <3>1. row'[e].status = row[e].status
      BY <1>3, <1>t, <1>b, <2>1, <2>4, RowEffects DEF ResumeCas
    <3>2. Enqueuing(e)' \subseteq Enqueuing(e)
      BY <1>3, <1>t, <2>1, <2>4 DEF ResumeCas, CallerEnds, Enqueuing, Is
    <3> QED BY <2>2, <3>1, <3>2, <1>q
  <2> QED BY <2>3, <2>4
<1>4. ASSUME NEW c \in Callers, Requeue(c) PROVE Good(e)
  <2>1. PICK f \in Execs : f = cexec[c]
    BY <1>4, <1>i DEF Requeue, CallerStep, BusyInv
  <2>2. Queued(e)' = Queued(e) /\ Running(e)' = Running(e)
    BY <1>4, <1>s DEF Requeue
  <2>3. Enqueuing(e)' \subseteq Enqueuing(e)
    BY <1>4, <1>t DEF Requeue, CallerStep, Enqueuing
  <2>4. \/ row'[e].status = row[e].status
        \/ row[e].status = "running" /\ row'[e].status = "new"
    BY <1>4, <1>t, <1>b, <2>1, RowEffects DEF Requeue
  <2> QED BY <2>2, <2>3, <2>4, <1>q
<1>5. ASSUME NEW c \in Callers, PushJob(c) PROVE Good(e)
  <2>1. PICK j \in Jobs :
          /\ Queue!Push(j)
          /\ content' = [content EXCEPT ![j] = [exec |-> cexec[c], pause |-> cpause[c]]]
    BY <1>5 DEF PushJob
  <2>2. row' = row /\ running' = running /\ wpc' = wpc
    BY <1>5, <2>1 DEF PushJob, Queue!Push
  <2>3. Running(e)' = Running(e)
    <3>1. ASSUME NEW w \in Workers, wpc[w] # "idle" PROVE JobOf(w)' = JobOf(w)
      <4>1. running[w] # j
        BY <1>t, <1>i, <2>1, <3>1 DEF Queue!Push, BusyInv
      <4> QED BY <1>t, <2>1, <2>2, <4>1 DEF JobOf
    <3> QED BY <2>2, <3>1 DEF Running
  <2>4. Enqueuing(e)' = Enqueuing(e) \ {c}
    BY <1>5, <1>t DEF PushJob, CallerStep, Enqueuing
  <2>5. Queued(e)' \subseteq Queued(e) \cup (IF cexec[c] = e THEN {j} ELSE {})
    BY <1>t, <2>1, <2>2 DEF Queue!Push, Queued, Holds
  <2>6. CASE cexec[c] = e
    <3>1. c \in Enqueuing(e)
      BY <1>5, <2>6 DEF PushJob, CallerStep, Enqueuing
    <3>2. Hands(e) = {<<"caller", c>>}
      <4>1. <<"caller", c>> \in Hands(e)
        BY <3>1 DEF Hands
      <4> QED BY <4>1, <1>i, OnlyHand
    <3>3. Hands(e)' \subseteq {<<"job", j>>}
      BY <2>3, <2>4, <2>5, <3>2 DEF Hands
    <3>4. row[e].status \in {"new", "running", "deleted"}
      BY <3>2, <1>r
    <3> QED BY <2>2, <3>3, <3>4 DEF Good, Keeps, OneHand
  <2>7. CASE cexec[c] # e
    BY <2>2, <2>3, <2>4, <2>5, <2>7, <1>q
  <2> QED BY <2>6, <2>7
<1>6. ASSUME NEW c \in Callers, Follow(c) \/ CallerLost(c) PROVE Good(e)
  <2>1. Enqueuing(e)' \subseteq Enqueuing(e)
    BY <1>6, <1>t DEF Follow, CallerLost, CallerEnds, Enqueuing
  <2>2. Queued(e)' = Queued(e) /\ Running(e)' = Running(e) /\ row' = row
    BY <1>6, <1>s DEF Follow, CallerLost
  <2> QED BY <2>1, <2>2, <1>q
<1>7. ASSUME NEW w \in Workers, TakeJob(w) PROVE Good(e)
  <2>1. PICK j \in Jobs :
          /\ Queue!Take(w, j)
          /\ redelivered' = IF \E v \in Workers : Holds(v, j)
                            THEN redelivered \cup {content[j].exec} ELSE redelivered
    BY <1>7 DEF TakeJob
  <2>2. /\ wpc' = [wpc EXCEPT ![w] = "taken"] /\ running' = [running EXCEPT ![w] = j]
        /\ UNCHANGED <<row, state, content, caller>>
    BY <1>7, <2>1 DEF TakeJob, WorkerStep, Queue!Take
  <2>3. Enqueuing(e)' = Enqueuing(e) /\ Queued(e)' \subseteq Queued(e) \ {j}
    <3>1. \A v \in Workers, i \in Jobs : Holds(v, i) /\ running[w] = NoJob => Holds(v, i)'
      BY <1>t, <2>2 DEF Holds
    <3>2. Holds(w, j)' /\ running[w] = NoJob
      BY <1>t, <2>1, <2>2 DEF Holds, Queue!Take
    <3> QED BY <1>e, <2>2, <3>1, <3>2 DEF Queued
  <2>4. Running(e)' \subseteq Running(e) \cup (IF content[j].exec = e THEN {w} ELSE {})
    BY <1>t, <2>2 DEF Running, JobOf
  <2>5. CASE content[j].exec = e /\ \A v \in Workers : ~Holds(v, j)
    <3>1. j \in Queued(e)
      BY <2>1, <2>5 DEF Queued, Queue!Take
    <3>2. Hands(e) = {<<"job", j>>}
      <4>1. <<"job", j>> \in Hands(e)
        BY <3>1 DEF Hands
      <4> QED BY <4>1, <1>i, OnlyHand
    <3>3. Hands(e)' \subseteq {<<"worker", w>>}
      BY <2>3, <2>4, <3>2 DEF Hands
    <3>4. row[e].status \in {"new", "running", "deleted"}
      BY <3>2, <1>r
    <3> QED BY <2>2, <3>3, <3>4 DEF Good, Keeps, OneHand
  <2>6. CASE content[j].exec = e /\ \E v \in Workers : Holds(v, j)
    BY <2>1, <2>2, <2>6 DEF Good, Keeps
  <2>7. CASE content[j].exec # e
    BY <2>2, <2>3, <2>4, <2>7, <1>q
  <2> QED BY <2>5, <2>6, <2>7
<1>8. ASSUME NEW w \in Workers, Begin(w) PROVE Good(e)
  <2>1. JobOf(w).exec \in Execs
    BY <1>8, <1>i, JobFacts DEF Begin, WorkerStep
  <2>2. \/ row'[e].status = row[e].status
        \/ row[e].status = "new" /\ row'[e].status = "running"
    BY <1>8, <1>t, <1>b, <2>1, RowEffects DEF Begin
  <2>3. Enqueuing(e)' = Enqueuing(e) /\ Queued(e)' = Queued(e)
    BY <1>8, <1>e DEF Begin, Queued, Holds
  <2>4. Running(e)' \subseteq Running(e)
    BY <1>8, <1>t DEF Begin, WorkerStep, Running, JobOf
  <2> QED BY <2>2, <2>3, <2>4, <1>q
<1>9. ASSUME NEW w \in Workers, NEW s \in Outcome, RunEnds(w, s) PROVE Good(e)
  <2>1. Enqueuing(e)' = Enqueuing(e) /\ Queued(e)' = Queued(e) /\ row' = row
    BY <1>9, <1>e DEF RunEnds, Queued, Holds
  <2>2. Running(e)' \subseteq Running(e)
    BY <1>9, <1>t DEF RunEnds, WorkerStep, Running, JobOf
  <2> QED BY <2>1, <2>2, <1>q
<1>10. ASSUME NEW w \in Workers, Save(w) \/ DbError(w) PROVE Good(e)
  <2>1. PICK f \in Execs : f = JobOf(w).exec
    BY <1>10, <1>i, JobFacts DEF Save, DbError, WorkerStep
  <2>2. Enqueuing(e)' = Enqueuing(e) /\ Queued(e)' = Queued(e)
    BY <1>10, <1>e DEF Save, DbError, Queued, Holds
  <2>3. Running(e)' \subseteq Running(e) \ {w}
    BY <1>10, <1>t DEF Save, DbError, WorkerStep, Running, JobOf
  <2>4. CASE DbError(w)
    BY <2>2, <2>3, <2>4, <1>q DEF DbError
  <2>5. CASE Save(w) /\ e # f
    <3>1. row'[e] = row[e]
      <4>1. \A r : [row EXCEPT ![f] = r][e] = row[e]
        BY <2>5, <1>t
      <4>2. \E r : row' = [row EXCEPT ![f] = r]
        BY <2>1, <2>5, <1>t DEF Save, SaveResult, DeleteRow
      <4> QED BY <4>1, <4>2
    <3> QED BY <2>2, <2>3, <3>1, <1>q
  <2>6. CASE Save(w) /\ e = f
    <3>1. w \in Running(e)
      BY <2>1, <2>6 DEF Save, WorkerStep, Running
    <3>2. Hands(e) = {<<"worker", w>>}
      <4>1. <<"worker", w>> \in Hands(e)
        BY <3>1 DEF Hands
      <4> QED BY <4>1, <1>i, OnlyHand
    <3>3. Hands(e)' = {}
      BY <2>2, <2>3, <3>2 DEF Hands
    <3>4. row[e].status \in {"new", "running", "deleted"}
      BY <3>2, <1>r
    <3>5. row[e].status = "deleted" => row'[e].status = "deleted"
      <4>1. "deleted" \notin Stored
        BY DEF Stored
      <4>2. PICK s, n : SaveResult(e, s, n) \/ DeleteRow(e)
        BY <2>1, <2>6 DEF Save
      <4> QED BY <4>1, <4>2, <1>t DEF SaveResult, DeleteRow, RowType
    <3>6. Keeps(e)
      BY <3>4, <3>5 DEF Keeps, Final
    <3> QED BY <3>3, <3>6, <1>i, GoodSteps
  <2> QED BY <1>10, <2>4, <2>5, <2>6
<1>11. ASSUME NEW w \in Workers, Ack(w) PROVE Good(e)
  <2>1. running[w] \in Jobs /\ running[w] # NoJob
    BY <1>11, <1>i, JobFacts DEF Ack, WorkerStep
  <2>2. /\ running' = [running EXCEPT ![w] = NoJob] /\ wpc' = [wpc EXCEPT ![w] = "idle"]
        /\ state' = [state EXCEPT ![running[w]] = "done"]
        /\ UNCHANGED <<row, content, caller>>
    BY <1>11 DEF Ack, WorkerStep, Queue!Complete
  <2>3. Enqueuing(e)' = Enqueuing(e)
    BY <1>e, <2>2
  <2>4. Queued(e)' \subseteq Queued(e)
    BY <1>t, <2>1, <2>2 DEF Queued, Holds
  <2>5. Running(e)' \subseteq Running(e)
    BY <1>t, <2>2 DEF Running, JobOf
  <2> QED BY <2>2, <2>3, <2>4, <2>5, <1>q
<1>12. ASSUME NEW w \in Workers, WorkerLost(w) PROVE Good(e)
  <2>1. /\ running' = [running EXCEPT ![w] = NoJob] /\ wpc' = [wpc EXCEPT ![w] = "idle"]
        /\ redelivered' = redelivered \cup {JobOf(w).exec}
        /\ UNCHANGED <<row, state, content, caller>>
    BY <1>12 DEF WorkerLost, Queue!Lose
  <2>2. Enqueuing(e)' = Enqueuing(e)
    BY <1>e, <2>1
  <2>3. Running(e)' \subseteq Running(e)
    BY <1>t, <2>1 DEF Running, JobOf
  <2>4. CASE JobOf(w).exec = e
    BY <2>1, <2>4 DEF Good, Keeps
  <2>5. CASE JobOf(w).exec # e
    <3>1. Queued(e)' \subseteq Queued(e)
      BY <1>t, <2>1, <2>5 DEF Queued, Holds, JobOf
    <3> QED BY <2>1, <2>2, <2>3, <3>1, <1>q
  <2> QED BY <2>4, <2>5
<1>13. ASSUME NEW c \in Callers, StopCas(c) PROVE Good(e)
  <2>1. PICK f \in Execs : f = cexec[c]
    BY <1>13, <1>i DEF StopCas, BusyInv
  <2>2. Queued(e)' = Queued(e) /\ Running(e)' = Running(e)
    BY <1>13, <1>s DEF StopCas
  <2>3. Enqueuing(e)' \subseteq Enqueuing(e)
    BY <1>13, <1>t DEF StopCas, CallerEnds, Enqueuing
  <2>4. \/ row'[e].status = row[e].status
        \/ row[e].status = "waiting" /\ row'[e].status = "canceled"
    BY <1>13, <1>t, <1>b, <2>1, RowEffects DEF StopCas
  <2>5. CASE row[e].status = "waiting" /\ row'[e].status = "canceled"
    <3>1. Hands(e)' = {}
      BY <1>r, <2>2, <2>3, <2>5, HandsKept
    <3> QED BY <2>5, <3>1, <1>i, GoodSteps DEF Keeps, Final
  <2> QED BY <2>2, <2>3, <2>4, <2>5, <1>q
<1>14. ASSUME NEW c \in Callers, StopSave(c) PROVE Good(e)
  <2>1. PICK f \in Execs : f = cexec[c]
    BY <1>14, <1>i DEF StopSave, BusyInv
  <2>2. Queued(e)' = Queued(e) /\ Running(e)' = Running(e)
    BY <1>14, <1>s DEF StopSave
  <2>3. Enqueuing(e)' \subseteq Enqueuing(e)
    BY <1>14, <1>t DEF StopSave, CallerEnds, Enqueuing
  <2>4. row'[e].status = row[e].status
    <3>1. e = f => row[e].status \in {"canceled", "deleted"}
      BY <1>14, <1>i, <2>1 DEF StopSave, RowInv
    <3>2. cpause[c] \in 0..MaxWaits /\ "deleted" \notin Stored
      BY <1>t DEF Stored
    <3>3. /\ row'[f] = IF row[f].status \in Stored
                       THEN [status |-> "canceled", pause |-> cpause[c]] ELSE row[f]
          /\ \A g \in Execs \ {f} : row'[g] = row[g]
      BY <1>14, <1>t, <1>b, <2>1, <3>2, RowEffects DEF StopSave
    <3> QED BY <3>1, <3>2, <3>3, <1>b
  <2> QED BY <2>2, <2>3, <2>4, <1>q
<1>15. ASSUME NEW f \in Execs, Delete(f) PROVE Good(e)
  <2>1. row'[e].status \in {row[e].status, "deleted"}
    BY <1>15, <1>t, RowEffects DEF Delete
  <2>2. Queued(e)' = Queued(e) /\ Running(e)' = Running(e) /\ Enqueuing(e)' = Enqueuing(e)
    BY <1>15, <1>s, <1>e DEF Delete
  <2> QED BY <2>1, <2>2, <1>q
<1>16. CASE UNCHANGED vars
  <2>1. /\ Queued(e)' = Queued(e) /\ Running(e)' = Running(e)
        /\ Enqueuing(e)' = Enqueuing(e) /\ row' = row
    BY <1>16, <1>s, <1>e DEF vars
  <2> QED BY <2>1, <1>q
<1> QED BY <1>1, <1>2, <1>3, <1>4, <1>5, <1>6, <1>7, <1>8, <1>9, <1>10, <1>11, <1>12,
           <1>13, <1>14, <1>15, <1>16 DEF Next, CallerNext, WorkerNext

\* Who writes the row of an execution that has ended: nobody but a request
\* that deletes it and the stop that cancelled it.
LEMMA FinalStep ==
  ASSUME IInv, [Next]_vars
  PROVE  \A e \in Execs \ redelivered : FinalStays(e) \/ OldDataSaved(e)
<1> SUFFICES ASSUME NEW e \in Execs \ redelivered, Is(e, Final)
             PROVE  row'[e] = row[e] \/ row'[e].status = "deleted" \/ OldDataSaved(e)
  BY DEF FinalStays
<1>t. Typed /\ BusyInv /\ HoldInv /\ TypeOK /\ RowInv
  BY DEF IInv, TypeOK, Queue!TypeOK, Typed
<1>r. row \in [Execs -> RowType]
  BY <1>t DEF Typed
<1>f. row[e].status \in Stored /\ row[e].status \notin {"none", "new", "running", "waiting", "deleted"}
  BY DEF Is, Final, Stored
<1>b. Outcome \subseteq Stored /\ {"new", "running", "waiting", "canceled"} \subseteq Stored
  BY DEF Outcome, Stored
<1>h. Running(e) = {}
  <2>1. Hands(e) = {}
    BY <1>t, <1>f DEF RowInv
  <2>2. \A w \in Workers : <<"worker", w>> \in Hands(e) <=> w \in Running(e)
    BY HandsAre
  <2> QED BY <2>1, <2>2 DEF Running
<1>1. ASSUME NEW f \in Execs, NEW from \in Stored, NEW to \in Stored,
             from \in {"new", "running", "waiting"}, Transition(f, from, to)
      PROVE  row'[e] = row[e]
  <2>1. CASE e # f
    BY <1>1, <1>r, <2>1, RowEffects
  <2>2. CASE e = f
    <3>1. row' \in [Execs -> RowType] /\ row'[e].pause = row[e].pause
      BY <1>1, <1>r, <2>2, RowEffects
    <3>2. row'[e].status = row[e].status
      BY <1>1, <1>r, <1>f, <2>2, RowEffects
    <3>3. row[e] \in RowType /\ row'[e] \in RowType
      BY <1>r, <3>1
    <3> QED BY <3>1, <3>2, <3>3 DEF RowType
  <2> QED BY <2>1, <2>2
<1>2. ASSUME NEW c \in Callers, NEW f \in Execs, Accept(c, f) PROVE row'[e] = row[e]
  <2>1. e # f
    BY <1>2, <1>f DEF Accept, NoRow
  <2> QED BY <1>2, <1>r, <1>b, <2>1, RowEffects DEF Accept
<1>3. ASSUME NEW c \in Callers, ResumeCas(c) \/ Requeue(c) \/ StopCas(c)
      PROVE  row'[e] = row[e]
  <2>1. cexec[c] \in Execs
    BY <1>3, <1>t DEF ResumeCas, Requeue, StopCas, CallerStep, BusyInv
  <2> QED BY <1>1, <1>3, <1>b, <2>1 DEF ResumeCas, Requeue, StopCas
<1>4. ASSUME NEW w \in Workers, Begin(w) PROVE row'[e] = row[e]
  <2>1. JobOf(w).exec \in Execs
    BY <1>4, <1>t, JobFacts DEF Begin, WorkerStep
  <2> QED BY <1>1, <1>4, <1>b, <2>1 DEF Begin
<1>5. ASSUME NEW w \in Workers, Save(w) PROVE row'[e] = row[e]
  <2>1. PICK f \in Execs : f = JobOf(w).exec
    BY <1>5, <1>t, JobFacts DEF Save, WorkerStep
  <2>2. e # f
    BY <1>5, <1>h, <2>1 DEF Save, WorkerStep, Running
  <2>3. \E r : row' = [row EXCEPT ![f] = r]
    BY <1>5, <2>1 DEF Save, SaveResult, DeleteRow
  <2> QED BY <1>r, <2>2, <2>3
<1>6. ASSUME NEW c \in Callers, StopSave(c) PROVE row'[e] = row[e] \/ OldDataSaved(e)
  <2>1. PICK f \in Execs : f = cexec[c]
    BY <1>6, <1>t DEF StopSave, BusyInv
  <2>2. cpause[c] \in 0..MaxWaits
    BY <1>t DEF Typed
  <2>3. /\ row'[f] = IF row[f].status \in Stored
                     THEN [status |-> "canceled", pause |-> cpause[c]] ELSE row[f]
        /\ \A g \in Execs \ {f} : row'[g] = row[g]
    BY <1>6, <1>r, <1>b, <2>1, <2>2, RowEffects DEF StopSave
  <2>4. CASE e # f
    BY <2>3, <2>4
  <2>5. CASE e = f
    <3>1. row[e].status = "canceled"
      BY <1>6, <1>t, <1>f, <2>1, <2>5 DEF StopSave, RowInv
    <3>2. row[e] \in RowType
      BY <1>r
    <3>3. row'[e] = [row[e] EXCEPT !.pause = cpause[c]]
      BY <1>f, <2>3, <2>5, <3>1, <3>2 DEF RowType
    <3> QED BY <1>6, <2>1, <2>5, <3>3 DEF StopSave, OldDataSaved, DataReplaced
  <2> QED BY <2>4, <2>5
<1>7. ASSUME NEW f \in Execs, Delete(f) PROVE row'[e] = row[e] \/ row'[e].status = "deleted"
  BY <1>7, <1>r, <1>f, RowEffects DEF Delete
<1>8. ASSUME UNCHANGED row PROVE row'[e] = row[e]
  BY <1>8
<1> QED BY <1>2, <1>3, <1>4, <1>5, <1>6, <1>7, <1>8
        DEF Next, CallerNext, WorkerNext, vars, ResumeRead, StopRead, PushJob, Follow,
            CallerLost, TakeJob, RunEnds, Ack, DbError, WorkerLost

\* Only StopCas lets a stop request save, and it has cancelled the row.
LEMMA StopStep ==
  ASSUME IInv, [Next]_vars, NEW c \in Callers, cpc'[c] = "canceled"
  PROVE  \/ cpc[c] = "canceled" /\ cexec'[c] = cexec[c]
         \/ cexec'[c] \in Execs /\ row'[cexec'[c]].status = "canceled"
<1>t. Typed
  BY DEF IInv, TypeOK, Queue!TypeOK, Typed
<1>b. {"new", "running", "waiting", "canceled"} \subseteq Stored
  BY DEF Stored
<1> USE DEF Typed, caller, CallerStep, CallerEnds
<1>1. ASSUME NEW d \in Callers, NEW e \in Execs,
             Accept(d, e) \/ ResumeRead(d, e) \/ StopRead(d, e)
      PROVE  cpc[c] = "canceled" /\ cexec'[c] = cexec[c]
  BY <1>1, <1>t DEF Accept, ResumeRead, StopRead
<1>2. ASSUME NEW d \in Callers,
             \/ ResumeCas(d) \/ Requeue(d) \/ PushJob(d) \/ Follow(d) \/ StopSave(d)
             \/ CallerLost(d)
      PROVE  cpc[c] = "canceled" /\ cexec'[c] = cexec[c]
  BY <1>2, <1>t DEF ResumeCas, Requeue, PushJob, Follow, StopSave, CallerLost
<1>3. ASSUME NEW d \in Callers, StopCas(d)
      PROVE  \/ cpc[c] = "canceled" /\ cexec'[c] = cexec[c]
             \/ cexec'[c] \in Execs /\ row'[cexec'[c]].status = "canceled"
  <2>1. PICK e \in Execs : e = cexec[d]
    BY <1>3 DEF StopCas, IInv, BusyInv
  <2>2. CASE c = d
    <3>1. row[e].status = "waiting" /\ cexec'[c] = e
      BY <1>3, <1>t, <2>1, <2>2 DEF StopCas, Is
    <3>2. row'[e].status = "canceled"
      BY <1>3, <1>t, <1>b, <2>1, <3>1, RowEffects DEF StopCas
    <3> QED BY <3>1, <3>2
  <2>3. CASE c # d
    BY <1>3, <1>t, <2>3 DEF StopCas
  <2> QED BY <2>2, <2>3
<1>4. ASSUME UNCHANGED caller PROVE cpc[c] = "canceled" /\ cexec'[c] = cexec[c]
  BY <1>4
<1>5. ASSUME NEW w \in Workers, TakeJob(w) \/ WorkerNext(w) \/ DbError(w) \/ WorkerLost(w)
      PROVE  UNCHANGED caller
  BY <1>5 DEF TakeJob, WorkerNext, Begin, RunEnds, Save, Ack, DbError, WorkerLost
<1>6. ASSUME (\E e \in Execs : Delete(e)) \/ UNCHANGED vars PROVE UNCHANGED caller
  BY <1>6 DEF Delete, vars
<1> QED BY <1>1, <1>2, <1>3, <1>4, <1>5, <1>6 DEF Next, CallerNext

LEMMA RedeliveredGrows == ASSUME [Next]_vars PROVE redelivered \subseteq redelivered'
BY DEF Next, vars, history, CallerNext, WorkerNext, Accept, ResumeRead, StopRead, ResumeCas,
       Requeue, PushJob, Follow, StopCas, StopSave, CallerLost, TakeJob, Begin, RunEnds,
       Save, Ack, DbError, WorkerLost, Delete

LEMMA StepIInv == ASSUME IInv, [Next]_vars PROVE IInv'
<1>1. TypeOK' /\ BusyInv' /\ HoldInv' /\ CoverInv'
  BY TypeStep, BusyStep, CoverStep DEF IInv
<1>2. \A e \in Execs \ redelivered' : e \in Execs \ redelivered /\ Good(e)
  BY HandStep, RedeliveredGrows
<1>3. HandInv'
  BY <1>2 DEF HandInv, Good
<1>4. ASSUME NEW c \in Callers, cpc'[c] = "canceled", cexec'[c] \notin redelivered'
      PROVE  row'[cexec'[c]].status \in {"canceled", "deleted"}
  <2>1. CASE cpc[c] = "canceled" /\ cexec'[c] = cexec[c]
    <3>1. PICK e \in Execs : e = cexec[c] /\ e \notin redelivered
      BY <1>4, <2>1, RedeliveredGrows DEF IInv, BusyInv
    <3>2. row[e].status \in {"canceled", "deleted"}
      BY <2>1, <3>1 DEF IInv, RowInv
    <3>3. row'[e].status \in {"canceled", "deleted"}
      BY <3>1, <3>2, HandStep DEF Good, Keeps, Final
    <3> QED BY <2>1, <3>1, <3>3
  <2> QED BY <1>4, <2>1, StopStep
<1>5. RowInv'
  BY <1>2, <1>4 DEF RowInv, Good
<1> QED BY <1>1, <1>3, <1>5 DEF IInv

LEMMA AtMostOne ==
  ASSUME NEW S, \A x, y \in S : x = y
  PROVE  Cardinality(S) <= 1
<1>1. CASE S = {}
  BY <1>1, FS_EmptySet
<1>2. CASE S # {}
  <2>1. PICK x \in S : S = {x}
    BY <1>2
  <2> QED BY <2>1, FS_Singleton
<1> QED BY <1>1, <1>2

-----------------------------------------------------------------------------
(* The theorems.                                                           *)

\* The inductive invariant holds.
LEMMA Invariance == Spec => []IInv
<1>1. IInv /\ [Next]_vars => IInv'
  BY StepIInv
<1> QED BY <1>1, InitIInv, PTL DEF Spec

\* Rows, jobs, callers and workers hold values of their kinds.
THEOREM TypeCorrect == Spec => []TypeOK
<1>1. IInv => TypeOK
  BY DEF IInv
<1> QED BY <1>1, Invariance, PTL

\* Whoever dies between the row and the job, a new or running row has a
\* caller about to push it or a job in the queue, unless its caller was lost
\* or the database refused a write of it.
THEOREM NoneForgotten == Spec => []Covered
<1>1. IInv => Covered
  BY DEF IInv, CoverInv, Covered, Is
<1> QED BY <1>1, Invariance, PTL

\* Callers, jobs and workers that race for an execution never both have it
\* in hand, as long as its jobs are delivered once.
THEOREM InOnePairOfHands == Spec => []OneInCharge
<1>1. IInv => OneInCharge
  BY AtMostOne DEF IInv, HandInv, OneHand, OneInCharge
<1> QED BY <1>1, Invariance, PTL

\* An execution whose jobs are delivered once stays as it ended, status and
\* run data, but for what the stop that cancelled it saves (rest.rs 285-293).
THEOREM EndedStaysEnded == Spec => FinalIfDeliveredOnce
<1>1. IInv /\ [Next]_vars
      => [\A e \in Execs \ redelivered : FinalStays(e) \/ OldDataSaved(e)]_vars
  BY FinalStep
<1> QED BY <1>1, Invariance, PTL DEF Spec, FinalIfDeliveredOnce

-----------------------------------------------------------------------------
(* The group commit: type correctness.                                     *)

BatchTyped ==
  /\ database \in Databases
  /\ sent \in Seq(Ops) /\ queue \in Seq(Ops) /\ batch \in Seq(Ops)
  /\ written \in Seq(Ops) /\ durable \in Seq(Ops)
  /\ results \in Seq({"ok", "error"}) /\ aborted \in BOOLEAN
  /\ pc \in {"receive", "execute", "answer"}
  /\ answer \in [Ops -> {"none", "ok", "error"}]
  /\ errors \in 0..MaxErrors /\ crashes \in 0..MaxCrashes
  /\ Len(batch) <= MaxBatch /\ Len(results) <= Len(batch)

LEMMA TypedIs == BatchTypeOK <=> BatchTyped
BY DEF BatchTypeOK, BatchTyped

LEMMA TypedIsNext == BatchTypeOK' <=> BatchTyped'
BY DEF BatchTypeOK, BatchTyped

\* A transaction that is over has a result for each of its statements.
ResultInv == pc = "answer" => Len(results) = Len(batch)

LEMMA BatchTypeStep == ASSUME BatchTypeOK, ResultInv, [BatchNext]_batchVars PROVE BatchTypeOK' /\ ResultInv'
<1>t. BatchTyped
  BY TypedIs
<1>d. ASSUME BatchTyped' PROVE BatchTypeOK'
  BY <1>d, TypedIsNext
<1>a. /\ MaxBatch \in Nat /\ MaxBatch > 0 /\ MaxErrors \in Nat /\ MaxCrashes \in Nat
  BY BatchAssumption, BatchBounds
<1>e. /\ <<>> \in Seq(Ops) /\ <<>> \in Seq({"ok", "error"}) /\ Len(<<>>) = 0
  OBVIOUS
<1> USE DEF ResultInv, BatchTyped
<1>1. ASSUME NEW o \in Ops, Send(o) PROVE BatchTypeOK' /\ ResultInv'
  BY <1>d, <1>1, <1>t DEF Send
<1>2. ASSUME Receive PROVE BatchTypeOK' /\ ResultInv'
  <2> DEFINE n == IF Len(queue) < MaxBatch THEN Len(queue) ELSE MaxBatch
  <2>1. n \in Nat /\ n <= Len(queue) /\ n <= MaxBatch
    BY <1>t, <1>a
  <2>2. /\ SubSeq(queue, 1, n) \in Seq(Ops) /\ Len(SubSeq(queue, 1, n)) = n
        /\ SubSeq(queue, n + 1, Len(queue)) \in Seq(Ops)
    <3>1. queue \in Seq(Ops)
      BY <1>t
    <3> HIDE DEF n
    <3> QED BY ONLY <2>1, <3>1
  <2>3. /\ batch' = SubSeq(queue, 1, n) /\ queue' = SubSeq(queue, n + 1, Len(queue))
        /\ results' = <<>> /\ written' = <<>> /\ aborted' = FALSE /\ pc' = "execute"
        /\ UNCHANGED <<database, sent, durable, answer, errors, crashes>>
    BY <1>2 DEF Receive
  <2> HIDE DEF n
  <2>4. batch' \in Seq(Ops) /\ queue' \in Seq(Ops) /\ Len(batch') = n
    BY <2>2, <2>3
  <2>5. Len(batch') <= MaxBatch /\ Len(results') <= Len(batch')
    BY <1>e, <2>1, <2>3, <2>4
  <2> QED BY <1>d, <1>t, <1>e, <2>3, <2>4, <2>5
<1>3. ASSUME Execute PROVE BatchTypeOK' /\ ResultInv'
  <2>1. /\ Len(results) + 1 \in 1..Len(batch) /\ batch[Len(results) + 1] \in Ops
        /\ pc' = "execute" /\ UNCHANGED <<database, sent, queue, batch, durable, answer, crashes>>
    BY <1>3, <1>t DEF Execute
  <2>2. \E r \in {"ok", "error"} : results' = Append(results, r)
    BY <1>3 DEF Execute
  <2>3. results' \in Seq({"ok", "error"}) /\ Len(results') <= Len(batch)
    BY <1>t, <2>1, <2>2
  <2>4. written' \in Seq(Ops)
    <3>1. written' = written \/ \E o \in Ops : written' = Append(written, o)
      BY <1>3, <2>1 DEF Execute
    <3>2. written \in Seq(Ops)
      BY <1>t
    <3> QED BY ONLY <3>1, <3>2
  <2>5. errors' \in 0..MaxErrors
    <3>1. \/ errors' = errors
          \/ errors < MaxErrors /\ errors' = errors + 1
      BY <1>3 DEF Execute
    <3>2. errors \in 0..MaxErrors
      BY <1>t
    <3> QED BY ONLY <3>1, <3>2, <1>a
  <2>6. aborted' \in BOOLEAN
    <3>1. aborted' = aborted \/ aborted' = (database = "postgres")
      BY <1>3 DEF Execute
    <3> QED BY <1>t, <3>1
  <2> QED BY <1>d, <1>t, <2>1, <2>3, <2>4, <2>5, <2>6
<1>4. ASSUME Commit PROVE BatchTypeOK' /\ ResultInv'
  <2>1. durable' \in Seq(Ops)
    BY <1>4, <1>t DEF Commit
  <2> QED BY <1>d, <1>4, <1>t, <1>e, <2>1 DEF Commit
<1>5. ASSUME CommitFails PROVE BatchTypeOK' /\ ResultInv'
  <2>1. durable' \in Seq(Ops)
    <3>1. durable' = durable \/ durable' = durable \o written
      BY <1>5 DEF CommitFails, TransactionFails
    <3>2. durable \in Seq(Ops) /\ written \in Seq(Ops)
      BY <1>t
    <3>3. durable \o written \in Seq(Ops)
      BY <3>2
    <3> QED BY <3>1, <3>2, <3>3
  <2>2. errors' \in 0..MaxErrors
    BY <1>5, <1>t, <1>a DEF CommitFails, TransactionFails
  <2>3. results' = [i \in 1..Len(batch) |-> "error"]
    BY <1>5, <1>t DEF CommitFails
  <2>4. results' \in Seq({"ok", "error"}) /\ Len(results') = Len(batch)
    BY <1>t, <2>3
  <2> QED BY <1>d, <1>5, <1>t, <1>e, <2>1, <2>2, <2>4 DEF CommitFails, TransactionFails
<1>6. ASSUME Answer PROVE BatchTypeOK' /\ ResultInv'
  <2>1. ASSUME NEW o \in Ops, \E i \in DOMAIN batch : batch[i] = o
        PROVE  results[CHOOSE i \in DOMAIN batch : batch[i] = o] \in {"none", "ok", "error"}
    <3>1. PICK i \in 1..Len(batch) : i = CHOOSE k \in DOMAIN batch : batch[k] = o
      BY <1>t, <2>1
    <3>2. i \in 1..Len(results)
      BY <1>6, <3>1 DEF Answer
    <3> QED BY <1>d, <1>t, <3>1, <3>2
  <2>2. answer' \in [Ops -> {"none", "ok", "error"}]
    BY <1>6, <1>t, <2>1 DEF Answer
  <2> QED BY <1>d, <1>6, <1>t, <1>a, <1>e, <2>2 DEF Answer
<1>7. ASSUME Crash PROVE BatchTypeOK' /\ ResultInv'
  <2>1. errors' = errors /\ crashes' \in 0..MaxCrashes
    BY <1>7, <1>t, <1>a DEF Crash
  <2>2. /\ queue' = <<>> /\ batch' = <<>> /\ results' = <<>> /\ written' = <<>>
        /\ aborted' = FALSE /\ pc' = "receive"
        /\ UNCHANGED <<database, sent, durable, answer>>
    BY <1>7 DEF Crash
  <2>3. Len(batch') <= MaxBatch /\ Len(results') <= Len(batch')
    BY <1>a, <1>e, <2>2
  <2> QED BY <1>d, <1>t, <1>e, <2>1, <2>2, <2>3
<1>8. CASE UNCHANGED batchVars
  BY <1>d, <1>t, <1>8 DEF batchVars
<1> QED BY <1>1, <1>2, <1>3, <1>4, <1>5, <1>6, <1>7, <1>8 DEF BatchNext, Writer

LEMMA TypeInit == BatchInit => BatchTypeOK /\ ResultInv
<1>1. BatchInit => BatchTyped
  <2> SUFFICES ASSUME BatchInit PROVE BatchTyped
    OBVIOUS
  <2>1. /\ <<>> \in Seq(Ops) /\ <<>> \in Seq({"ok", "error"}) /\ Len(<<>>) = 0
        /\ 0 <= MaxBatch /\ 0 \in 0..MaxErrors /\ 0 \in 0..MaxCrashes
    BY BatchAssumption, BatchBounds
  <2>2. answer \in [Ops -> {"none", "ok", "error"}] /\ pc \in {"receive", "execute", "answer"}
    BY DEF BatchInit
  <2>3. /\ database \in Databases /\ sent = <<>> /\ queue = <<>> /\ batch = <<>>
        /\ results = <<>> /\ written = <<>> /\ durable = <<>> /\ aborted = FALSE
        /\ errors = 0 /\ crashes = 0
    BY DEF BatchInit
  <2>4. Len(batch) <= MaxBatch /\ Len(results) <= Len(batch)
    BY <2>1, <2>3
  <2>5. errors \in 0..MaxErrors /\ crashes \in 0..MaxCrashes /\ aborted \in BOOLEAN
    BY <2>1, <2>3
  <2>6. /\ sent \in Seq(Ops) /\ queue \in Seq(Ops) /\ batch \in Seq(Ops)
        /\ written \in Seq(Ops) /\ durable \in Seq(Ops)
        /\ results \in Seq({"ok", "error"})
    BY <2>1, <2>3
  <2> QED BY <2>2, <2>3, <2>4, <2>5, <2>6 DEF BatchTyped
<1> QED BY <1>1, TypedIs DEF BatchInit, ResultInv

LEMMA Typing == BatchSpec => [](BatchTypeOK /\ ResultInv)
<1>1. BatchTypeOK /\ ResultInv /\ [BatchNext]_batchVars => (BatchTypeOK /\ ResultInv)'
  BY BatchTypeStep
<1> QED BY <1>1, TypeInit, PTL DEF BatchSpec

\* The channel, the transaction and the answers hold values of their kinds.
THEOREM BatchTypes == BatchSpec => []BatchTypeOK
BY Typing, PTL

-----------------------------------------------------------------------------
(* Statements in the order they were sent.                                 *)

Known(t, s) == \A i \in 1..Len(t) : \E k \in 1..Len(s) : s[k] = t[i]
Asc(t, s) == \A i, j \in 1..Len(t) : i < j => Precedes(t[i], t[j], s)
Bef(t, u, s) == \A i \in 1..Len(t), j \in 1..Len(u) : Precedes(t[i], u[j], s)
Once(s) == \A i, j \in 1..Len(s) : s[i] = s[j] => i = j

LEMMA OrderKept ==
  ASSUME NEW s \in Seq(Ops), NEW t \in Seq(Ops), NEW u \in Seq(Ops), NEW o \in Ops
  PROVE  /\ Known(t, s) => Known(t, Append(s, o))
         /\ Asc(t, s) => Asc(t, Append(s, o))
         /\ Bef(t, u, s) => Bef(t, u, Append(s, o))
<1>1. /\ Append(s, o) \in Seq(Ops) /\ DOMAIN s = 1..Len(s)
      /\ DOMAIN Append(s, o) = 1..Len(s) + 1
      /\ \A k \in 1..Len(s) : Append(s, o)[k] = s[k] /\ k \in 1..Len(s) + 1
      /\ Len(Append(s, o)) = Len(s) + 1
  OBVIOUS
<1>2. \A x, y : Precedes(x, y, s) => Precedes(x, y, Append(s, o))
  BY <1>1 DEF Precedes
<1> QED BY <1>1, <1>2 DEF Known, Asc, Bef

LEMMA SentLast ==
  ASSUME NEW s \in Seq(Ops), NEW t \in Seq(Ops), NEW o \in Ops, Known(t, s)
  PROVE  Bef(t, <<o>>, Append(s, o))
<1>1. /\ Append(s, o) \in Seq(Ops) /\ DOMAIN Append(s, o) = 1..Len(s) + 1
      /\ \A k \in 1..Len(s) : Append(s, o)[k] = s[k] /\ k \in 1..Len(s) + 1 /\ k < Len(s) + 1
      /\ Append(s, o)[Len(s) + 1] = o /\ Len(s) + 1 \in 1..Len(s) + 1
  OBVIOUS
<1>2. Len(<<o>>) = 1 /\ <<o>>[1] = o
  OBVIOUS
<1> QED BY <1>1, <1>2 DEF Known, Bef, Precedes

LEMMA ConcatOrder ==
  ASSUME NEW s, NEW t \in Seq(Ops), NEW u \in Seq(Ops), NEW v \in Seq(Ops)
  PROVE  /\ t \o u \in Seq(Ops)
         /\ Known(t, s) /\ Known(u, s) => Known(t \o u, s)
         /\ Asc(t, s) /\ Asc(u, s) /\ Bef(t, u, s) => Asc(t \o u, s)
         /\ Bef(t, v, s) /\ Bef(u, v, s) => Bef(t \o u, v, s)
         /\ Bef(v, t, s) /\ Bef(v, u, s) => Bef(v, t \o u, s)
<1> DEFINE w == t \o u
<1>1. /\ w \in Seq(Ops) /\ Len(w) = Len(t) + Len(u)
      /\ \A i \in 1..Len(w) : w[i] = IF i <= Len(t) THEN t[i] ELSE u[i - Len(t)]
      /\ Len(t) \in Nat /\ Len(u) \in Nat
  OBVIOUS
<1> HIDE DEF w
<1>2. \A i \in 1..Len(w) : \/ i \in 1..Len(t) /\ w[i] = t[i]
                           \/ i - Len(t) \in 1..Len(u) /\ w[i] = u[i - Len(t)] /\ i > Len(t)
  BY <1>1
<1>3. ASSUME Known(t, s), Known(u, s) PROVE Known(w, s)
  BY <1>2, <1>3 DEF Known
<1>4. ASSUME Asc(t, s), Asc(u, s), Bef(t, u, s) PROVE Asc(w, s)
  <2> SUFFICES ASSUME NEW i \in 1..Len(w), NEW j \in 1..Len(w), i < j
               PROVE  Precedes(w[i], w[j], s)
    BY DEF Asc
  <2>1. CASE i \in 1..Len(t) /\ j \in 1..Len(t)
    <3>1. w[i] = t[i] /\ w[j] = t[j]
      BY <1>1, <2>1
    <3> QED BY <1>4, <2>1, <3>1 DEF Asc
  <2>2. CASE i > Len(t) /\ j > Len(t)
    <3>1. /\ i - Len(t) \in 1..Len(u) /\ j - Len(t) \in 1..Len(u)
          /\ i - Len(t) < j - Len(t) /\ w[i] = u[i - Len(t)] /\ w[j] = u[j - Len(t)]
      BY <1>1, <2>2
    <3> QED BY <1>4, <3>1 DEF Asc
  <2>3. CASE i \in 1..Len(t) /\ j > Len(t)
    <3>1. j - Len(t) \in 1..Len(u) /\ w[i] = t[i] /\ w[j] = u[j - Len(t)]
      BY <1>1, <2>3
    <3> QED BY <1>4, <2>3, <3>1 DEF Bef
  <2> QED BY <1>1, <2>1, <2>2, <2>3
<1>5. ASSUME Bef(t, v, s), Bef(u, v, s) PROVE Bef(w, v, s)
  BY <1>2, <1>5 DEF Bef
<1>6. ASSUME Bef(v, t, s), Bef(v, u, s) PROVE Bef(v, w, s)
  BY <1>2, <1>6 DEF Bef
<1> QED BY <1>1, <1>3, <1>4, <1>5, <1>6 DEF w

LEMMA SubSeqOrder ==
  ASSUME NEW s, NEW t \in Seq(Ops), NEW v \in Seq(Ops), NEW n \in 0..Len(t)
  PROVE  /\ SubSeq(t, 1, n) \in Seq(Ops) /\ SubSeq(t, n + 1, Len(t)) \in Seq(Ops)
         /\ Known(t, s) => Known(SubSeq(t, 1, n), s) /\ Known(SubSeq(t, n + 1, Len(t)), s)
         /\ Asc(t, s) => /\ Asc(SubSeq(t, 1, n), s)
                         /\ Asc(SubSeq(t, n + 1, Len(t)), s)
                         /\ Bef(SubSeq(t, 1, n), SubSeq(t, n + 1, Len(t)), s)
         /\ Bef(v, t, s) => Bef(v, SubSeq(t, 1, n), s) /\ Bef(v, SubSeq(t, n + 1, Len(t)), s)
<1> DEFINE a == SubSeq(t, 1, n)
           b == SubSeq(t, n + 1, Len(t))
<1>1. /\ a \in Seq(Ops) /\ b \in Seq(Ops) /\ Len(t) \in Nat
      /\ Len(a) = n /\ Len(b) = Len(t) - n
      /\ \A i \in 1..n : a[i] = t[i] /\ i \in 1..Len(t)
      /\ \A i \in 1..Len(t) - n : b[i] = t[n + i] /\ n + i \in 1..Len(t)
  <2>1. Len(t) \in Nat /\ n \in Nat /\ n <= Len(t)
    OBVIOUS
  <2>2. a \in Seq(Ops) /\ Len(a) = n /\ \A i \in 1..n : a[i] = t[i]
    BY <2>1
  <2>3. b \in Seq(Ops) /\ Len(b) = Len(t) - n /\ \A i \in 1..Len(t) - n : b[i] = t[n + i]
    BY <2>1
  <2>4. /\ \A i \in 1..n : i \in 1..Len(t)
        /\ \A i \in 1..Len(t) - n : n + i \in 1..Len(t)
    BY <2>1
  <2> QED BY ONLY <2>1, <2>2, <2>3, <2>4
<1> HIDE DEF a, b
<1>2. Known(t, s) => Known(a, s) /\ Known(b, s)
  <2>1. ASSUME Known(t, s) PROVE Known(a, s)
    BY <1>1, <2>1 DEF Known
  <2>2. ASSUME Known(t, s) PROVE Known(b, s)
    BY <1>1, <2>2 DEF Known
  <2> QED BY <2>1, <2>2
<1>3. Asc(t, s) => Asc(a, s)
  BY <1>1 DEF Asc
<1>4. ASSUME Asc(t, s) PROVE Asc(b, s)
  <2> SUFFICES ASSUME NEW i \in 1..Len(b), NEW j \in 1..Len(b), i < j
               PROVE  Precedes(b[i], b[j], s)
    BY DEF Asc
  <2>1. /\ b[i] = t[n + i] /\ b[j] = t[n + j] /\ n + i < n + j
        /\ n + i \in 1..Len(t) /\ n + j \in 1..Len(t)
    BY <1>1
  <2> QED BY <1>4, <2>1 DEF Asc
<1>5. ASSUME Asc(t, s) PROVE Bef(a, b, s)
  <2> SUFFICES ASSUME NEW i \in 1..Len(a), NEW j \in 1..Len(b)
               PROVE  Precedes(a[i], b[j], s)
    BY DEF Bef
  <2>1. /\ a[i] = t[i] /\ b[j] = t[n + j] /\ i < n + j
        /\ i \in 1..Len(t) /\ n + j \in 1..Len(t)
    BY <1>1
  <2> QED BY <1>5, <2>1 DEF Asc
<1>6. Bef(v, t, s) => Bef(v, a, s) /\ Bef(v, b, s)
  BY <1>1 DEF Bef
<1> QED BY <1>1, <1>2, <1>3, <1>4, <1>5, <1>6 DEF a, b

LEMMA AppendOrder ==
  ASSUME NEW s, NEW t \in Seq(Ops), NEW v \in Seq(Ops), NEW o \in Ops
  PROVE  /\ Append(t, o) \in Seq(Ops)
         /\ Known(t, s) /\ Known(<<o>>, s) => Known(Append(t, o), s)
         /\ Asc(t, s) /\ Bef(t, <<o>>, s) => Asc(Append(t, o), s)
         /\ Bef(t, v, s) /\ Bef(<<o>>, v, s) => Bef(Append(t, o), v, s)
         /\ Bef(v, t, s) /\ Bef(v, <<o>>, s) => Bef(v, Append(t, o), s)
<1>1. Append(t, o) = t \o <<o>> /\ <<o>> \in Seq(Ops) /\ Len(<<o>>) = 1
  OBVIOUS
<1>2. Asc(<<o>>, s)
  BY <1>1 DEF Asc
<1> DEFINE u == <<o>>
<1> HIDE DEF u
<1>3. /\ t \o u \in Seq(Ops)
      /\ Known(t, s) /\ Known(u, s) => Known(t \o u, s)
      /\ Asc(t, s) /\ Asc(u, s) /\ Bef(t, u, s) => Asc(t \o u, s)
      /\ Bef(t, v, s) /\ Bef(u, v, s) => Bef(t \o u, v, s)
      /\ Bef(v, t, s) /\ Bef(v, u, s) => Bef(v, t \o u, s)
  <2>1. u \in Seq(Ops)
    BY <1>1 DEF u
  <2> QED BY <2>1, ConcatOrder
<1>4. Append(t, o) = t \o u /\ Asc(u, s)
  BY <1>1, <1>2 DEF u
<1>5. /\ Append(t, o) \in Seq(Ops)
      /\ Known(t, s) /\ Known(u, s) => Known(Append(t, o), s)
      /\ Asc(t, s) /\ Bef(t, u, s) => Asc(Append(t, o), s)
      /\ Bef(t, v, s) /\ Bef(u, v, s) => Bef(Append(t, o), v, s)
      /\ Bef(v, t, s) /\ Bef(v, u, s) => Bef(v, Append(t, o), s)
  BY <1>3, <1>4
<1> QED BY <1>5 DEF u

\* What is left of a batch, and what is left of it after one more statement.
LEMMA RestFacts ==
  ASSUME NEW b \in Seq(Ops), NEW n \in 1..Len(b)
  PROVE  /\ SubSeq(b, n, Len(b)) \in Seq(Ops) /\ SubSeq(b, n + 1, Len(b)) \in Seq(Ops)
         /\ 1 \in 1..Len(SubSeq(b, n, Len(b))) /\ SubSeq(b, n, Len(b))[1] = b[n]
         /\ \A j \in 1..Len(SubSeq(b, n + 1, Len(b))) :
              /\ SubSeq(b, n + 1, Len(b))[j] = b[n + j]
              /\ n + j \in 1..Len(b) /\ n < n + j
              /\ j + 1 \in 1..Len(SubSeq(b, n, Len(b)))
              /\ SubSeq(b, n, Len(b))[j + 1] = b[n + j]
<1>1. /\ n \in Nat /\ Len(b) \in Nat /\ n <= Len(b) /\ n >= 1
  OBVIOUS
<1>2. /\ SubSeq(b, n, Len(b)) \in Seq(Ops) /\ Len(SubSeq(b, n, Len(b))) = Len(b) - n + 1
      /\ \A i \in 1..Len(b) - n + 1 : SubSeq(b, n, Len(b))[i] = b[n + i - 1]
  BY <1>1
<1>3. /\ SubSeq(b, n + 1, Len(b)) \in Seq(Ops) /\ Len(SubSeq(b, n + 1, Len(b))) = Len(b) - n
      /\ \A i \in 1..Len(b) - n : SubSeq(b, n + 1, Len(b))[i] = b[n + i]
  BY <1>1
<1>4. 1 \in 1..Len(b) - n + 1 /\ n + 1 - 1 = n
  BY <1>1
<1>5. ASSUME NEW j \in 1..Len(b) - n
      PROVE  /\ n + j \in 1..Len(b) /\ n < n + j /\ j + 1 \in 1..Len(b) - n + 1
             /\ n + (j + 1) - 1 = n + j
  BY <1>1
<1>6. \A j \in 1..Len(b) - n : SubSeq(b, n, Len(b))[j + 1] = b[n + j]
  BY <1>2, <1>5
<1> QED BY <1>2, <1>3, <1>4, <1>5, <1>6

\* What is durable was sent before what is under way, which was sent before
\* what is queued, each in order.
OrderInv ==
  /\ Once(sent)
  /\ Known(durable, sent) /\ Known(written, sent) /\ Known(batch, sent) /\ Known(queue, sent)
  /\ Asc(durable, sent) /\ Asc(written, sent) /\ Asc(batch, sent) /\ Asc(queue, sent)
  /\ Bef(durable, queue, sent) /\ Bef(durable, written, sent)
  /\ Bef(written, queue, sent) /\ Bef(batch, queue, sent)
  /\ pc = "execute" =>
       /\ Bef(durable, batch, sent)
       /\ Bef(written, SubSeq(batch, Len(results) + 1, Len(batch)), sent)
  /\ pc = "receive" => batch = <<>>
  /\ pc \in {"receive", "answer"} => written = <<>>

LEMMA Empty ==
  ASSUME NEW s, NEW t
  PROVE  Known(<<>>, s) /\ Asc(<<>>, s) /\ Bef(<<>>, t, s) /\ Bef(t, <<>>, s)
<1>1. Len(<<>>) = 0
  OBVIOUS
<1> QED BY <1>1 DEF Known, Asc, Bef

LEMMA OrderStep == ASSUME BatchTypeOK, BatchTypeOK', OrderInv, [BatchNext]_batchVars PROVE OrderInv'
<1>t. BatchTyped /\ BatchTyped'
  BY TypedIs, TypedIsNext
<1> USE DEF BatchTyped, OrderInv
<1>1. ASSUME NEW o \in Ops, Send(o) PROVE OrderInv'
  <2> DEFINE s == Append(sent, o)
  <2>1. /\ sent' = s /\ queue' = Append(queue, o) /\ o \notin ToSet(sent)
        /\ UNCHANGED <<batch, results, written, durable, pc>>
    BY <1>1 DEF Send
  <2>2. Once(s)
    <3>1. \A i \in 1..Len(sent) : sent[i] # o /\ s[i] = sent[i]
      BY <2>1, <1>t DEF ToSet
    <3>2. Len(s) = Len(sent) + 1 /\ s[Len(sent) + 1] = o /\ Len(sent) \in Nat
      <4>1. sent \in Seq(Ops)
        BY <1>t
      <4> HIDE DEF BatchTyped, OrderInv
      <4> QED BY <4>1
    <3>3. \A i \in 1..Len(sent) + 1 : i \in 1..Len(sent) \/ i = Len(sent) + 1
      BY <3>2
    <3> QED BY <3>1, <3>2, <3>3 DEF Once
  <2>3. Known(<<o>>, s)
    <3>1. Len(<<o>>) = 1 /\ <<o>>[1] = o
      OBVIOUS
    <3>2. s[Len(sent) + 1] = o /\ Len(sent) + 1 \in 1..Len(s)
      <4>1. sent \in Seq(Ops)
        BY <1>t
      <4> HIDE DEF BatchTyped, OrderInv
      <4> QED BY <4>1
    <3> QED BY <3>1, <3>2 DEF Known
  <2> HIDE DEF s
  <2>4. /\ Known(durable, s) /\ Known(written, s) /\ Known(batch, s) /\ Known(queue, s)
        /\ Asc(durable, s) /\ Asc(written, s) /\ Asc(batch, s) /\ Asc(queue, s)
        /\ Bef(durable, queue, s) /\ Bef(durable, written, s)
        /\ Bef(written, queue, s) /\ Bef(batch, queue, s)
        /\ pc = "execute" => Bef(durable, batch, s)
    BY <1>t, OrderKept DEF s
  <2>5. pc = "execute" => Bef(written, SubSeq(batch, Len(results) + 1, Len(batch)), s)
    <3>1. SubSeq(batch, Len(results) + 1, Len(batch)) \in Seq(Ops)
      <4>1. /\ batch \in Seq(Ops) /\ results \in Seq({"ok", "error"})
            /\ Len(results) <= Len(batch)
        BY <1>t
      <4> QED BY ONLY <4>1
    <3> QED BY <1>t, <3>1, OrderKept DEF s
  <2>6. /\ Bef(durable, <<o>>, s) /\ Bef(written, <<o>>, s)
        /\ Bef(batch, <<o>>, s) /\ Bef(queue, <<o>>, s)
    BY <1>t, SentLast DEF s
  <2>7. /\ Known(Append(queue, o), s) /\ Asc(Append(queue, o), s)
        /\ Bef(durable, Append(queue, o), s) /\ Bef(written, Append(queue, o), s)
        /\ Bef(batch, Append(queue, o), s)
    BY <1>t, <2>3, <2>4, <2>6, AppendOrder
  <2> QED BY <2>1, <2>2, <2>4, <2>5, <2>7
<1>2. ASSUME Receive PROVE OrderInv'
  <2> DEFINE n == IF Len(queue) < MaxBatch THEN Len(queue) ELSE MaxBatch
  <2>1. n \in 0..Len(queue)
    <3>1. queue \in Seq(Ops) /\ MaxBatch \in Nat
      BY <1>t, BatchAssumption
    <3> QED BY ONLY <3>1
  <2>2. /\ batch' = SubSeq(queue, 1, n) /\ queue' = SubSeq(queue, n + 1, Len(queue))
        /\ results' = <<>> /\ written' = <<>> /\ pc' = "execute"
        /\ UNCHANGED <<sent, durable>>
    BY <1>2 DEF Receive
  <2> HIDE DEF n
  <2>3. /\ Known(batch', sent) /\ Known(queue', sent) /\ Asc(batch', sent) /\ Asc(queue', sent)
        /\ Bef(batch', queue', sent) /\ Bef(durable, batch', sent) /\ Bef(durable, queue', sent)
    BY <1>t, <2>1, <2>2, SubSeqOrder
  <2>4. /\ Known(written', sent) /\ Asc(written', sent) /\ Bef(durable, written', sent)
        /\ Bef(written', queue', sent)
        /\ Bef(written', SubSeq(batch', Len(results') + 1, Len(batch')), sent)
    BY <2>2, Empty
  <2> QED BY <2>2, <2>3, <2>4
<1>3. ASSUME Execute PROVE OrderInv'
  <2> DEFINE n == Len(results) + 1
             rest == SubSeq(batch, n, Len(batch))
  <2>1. /\ n \in 1..Len(batch) /\ Len(results) \in Nat /\ batch[n] \in Ops
        /\ pc = "execute" /\ pc' = "execute"
        /\ UNCHANGED <<sent, queue, batch, durable>>
    BY <1>3, <1>t DEF Execute
  <2>2. Len(results') = n
    <3>1. \E r \in {"ok", "error"} : results' = Append(results, r)
      BY <1>3 DEF Execute
    <3> QED BY <1>t, <3>1
  <2> DEFINE rest2 == SubSeq(batch, n + 1, Len(batch))
  <2>3. /\ rest \in Seq(Ops) /\ rest2 \in Seq(Ops)
        /\ 1 \in 1..Len(rest) /\ rest[1] = batch[n]
        /\ \A j \in 1..Len(rest2) :
             /\ rest2[j] = batch[n + j] /\ n + j \in 1..Len(batch) /\ n < n + j
             /\ j + 1 \in 1..Len(rest) /\ rest[j + 1] = batch[n + j]
    <3>1. n \in 1..Len(batch) /\ batch \in Seq(Ops)
      BY <1>t, <2>1
    <3> HIDE DEF n
    <3> QED BY <3>1, RestFacts
  <2>r. Bef(written, rest, sent)
    BY <2>1
  <2> HIDE DEF rest, rest2
  <2>4. Bef(written, rest2, sent)
    BY <2>3, <2>r DEF Bef
  <2>5. CASE written' = written
    BY <2>1, <2>2, <2>4, <2>5 DEF rest2
  <2>6. CASE written' = Append(written, batch[n])
    <3>1. /\ <<batch[n]>> \in Seq(Ops) /\ Len(<<batch[n]>>) = 1
          /\ \A i \in 1..1 : i = 1 /\ <<batch[n]>>[i] = batch[n]
      BY <2>1
    <3>2. Known(<<batch[n]>>, sent) /\ Bef(<<batch[n]>>, queue, sent)
          /\ Bef(durable, <<batch[n]>>, sent)
      BY <2>1, <3>1 DEF Known, Bef
    <3>3. Bef(written, <<batch[n]>>, sent)
      BY <2>3, <2>r, <3>1 DEF Bef
    <3>4. Bef(<<batch[n]>>, rest2, sent)
      BY <2>1, <2>3, <3>1 DEF Bef, Asc
    <3> HIDE DEF n
    <3>6. /\ Known(written', sent) /\ Asc(written', sent) /\ Bef(written', queue, sent)
          /\ Bef(durable, written', sent)
          /\ Bef(written', rest2, sent)
      BY <1>t, <2>1, <2>3, <2>4, <2>6, <3>2, <3>3, <3>4, AppendOrder
    <3> QED BY <2>1, <2>2, <3>6 DEF rest2, n
  <2> QED BY <1>3, <2>5, <2>6 DEF Execute
<1>4. ASSUME Commit \/ CommitFails PROVE OrderInv'
  <2>1. /\ pc = "execute" /\ pc' = "answer" /\ written' = <<>>
        /\ durable' = durable \/ durable' = durable \o written
        /\ UNCHANGED <<sent, queue, batch>>
    BY <1>4 DEF Commit, CommitFails, TransactionFails
  <2>2. Known(durable', sent) /\ Asc(durable', sent) /\ Bef(durable', queue, sent)
    <3>1. /\ Known(durable \o written, sent) /\ Asc(durable \o written, sent)
          /\ Bef(durable \o written, queue, sent)
      BY <1>t, ConcatOrder
    <3> QED BY <2>1, <3>1
  <2> QED BY <2>1, <2>2, Empty
<1>5. ASSUME Answer PROVE OrderInv'
  <2>1. /\ pc' = "receive" /\ batch' = <<>> /\ written' = <<>>
        /\ UNCHANGED <<sent, queue, durable>>
    BY <1>5 DEF Answer
  <2> QED BY <2>1, Empty
<1>6. ASSUME Crash PROVE OrderInv'
  <2>1. /\ pc' = "receive" /\ batch' = <<>> /\ written' = <<>> /\ queue' = <<>>
        /\ UNCHANGED <<sent, durable>>
    BY <1>6 DEF Crash
  <2> QED BY <2>1, Empty
<1>7. CASE UNCHANGED batchVars
  BY <1>7 DEF batchVars
<1> QED BY <1>1, <1>2, <1>3, <1>4, <1>5, <1>6, <1>7 DEF BatchNext, Writer

LEMMA OrderInit == BatchInit => OrderInv
<1> SUFFICES ASSUME BatchInit PROVE OrderInv
  OBVIOUS
<1>1. /\ sent = <<>> /\ queue = <<>> /\ batch = <<>> /\ written = <<>> /\ durable = <<>>
      /\ pc = "receive" /\ Len(<<>>) = 0
  BY DEF BatchInit
<1>2. Once(sent)
  BY <1>1 DEF Once
<1> QED BY <1>1, <1>2, Empty DEF OrderInv

LEMMA Ordering == BatchSpec => []OrderInv
<1>1. BatchTypeOK /\ BatchTypeOK' /\ OrderInv /\ [BatchNext]_batchVars => OrderInv'
  BY OrderStep
<1> QED BY <1>1, OrderInit, BatchTypes, PTL DEF BatchSpec

\* Whatever statements, transactions and processes fail, writes take effect
\* in the order they were sent, and none twice.
THEOREM WritesInOrder == BatchSpec => []InOrder
<1>1. BatchTypeOK /\ OrderInv => InOrder
  <2> SUFFICES ASSUME BatchTypeOK, OrderInv PROVE InOrder
    OBVIOUS
  <2>1. DOMAIN durable = 1..Len(durable)
    BY TypedIs DEF BatchTyped
  <2> QED BY <2>1 DEF OrderInv, Asc, InOrder
<1> QED BY <1>1, Ordering, BatchTypes, PTL

-----------------------------------------------------------------------------
(* What the callers are told.                                              *)

\* A statement that was answered is not under way any more; the results of
\* those that are tell what has been written.
AnswerInv ==
  /\ database = "sqlite" => ~aborted
  /\ \A o \in Ops : answer[o] # "none" =>
       /\ \A i \in 1..Len(queue) : queue[i] # o
       /\ \A i \in 1..Len(batch) : batch[i] # o
       /\ \E k \in 1..Len(sent) : sent[k] = o
  /\ \A j \in 1..Len(written) : \E i \in 1..Len(results) : batch[i] = written[j]
  /\ database = "sqlite" /\ pc = "execute" =>
       \A i \in 1..Len(results) :
         results[i] = "ok" <=> \E j \in 1..Len(written) : written[j] = batch[i]
  /\ database = "sqlite" /\ pc = "answer" =>
       \A i \in 1..Len(batch) :
         results[i] = "ok" <=> \E j \in 1..Len(durable) : durable[j] = batch[i]

BatchInv == BatchTypeOK /\ ResultInv /\ OrderInv /\ AnswerInv /\ SqliteAnswersTruly

LEMMA Members ==
  ASSUME NEW s \in Seq(Ops), NEW o
  PROVE  o \in ToSet(s) <=> \E i \in 1..Len(s) : s[i] = o
BY DEF ToSet

\* Two statements sent in some order are two.
LEMMA Apart ==
  ASSUME NEW s \in Seq(Ops), Once(s), NEW x, NEW y, Precedes(x, y, s)
  PROVE  x # y
<1>1. PICK k, l \in 1..Len(s) : k < l /\ s[k] = x /\ s[l] = y
  BY DEF Precedes
<1> QED BY <1>1 DEF Once

\* SqliteAnswersTruly, by positions.
Truly ==
  database = "sqlite" =>
    \A o \in Ops :
      /\ answer[o] = "ok" => \E j \in 1..Len(durable) : durable[j] = o
      /\ answer[o] = "error" => \A j \in 1..Len(durable) : durable[j] # o

LEMMA TrulyIs == ASSUME BatchTyped PROVE Truly <=> SqliteAnswersTruly
<1>1. \A o : o \in ToSet(durable) <=> \E j \in 1..Len(durable) : durable[j] = o
  BY Members DEF BatchTyped
<1> QED BY <1>1 DEF Truly, SqliteAnswersTruly

LEMMA TrulyIsNext == ASSUME BatchTyped' PROVE Truly' <=> SqliteAnswersTruly'
<1>1. \A o : o \in ToSet(durable') <=> \E j \in 1..Len(durable') : durable'[j] = o
  BY Members DEF BatchTyped
<1> QED BY <1>1 DEF Truly, SqliteAnswersTruly

LEMMA AppendElems ==
  ASSUME NEW S, NEW t \in Seq(S), NEW o \in S
  PROVE  /\ Len(Append(t, o)) = Len(t) + 1 /\ Len(t) \in Nat
         /\ Append(t, o)[Len(t) + 1] = o /\ Len(t) + 1 \in 1..Len(Append(t, o))
         /\ \A i \in 1..Len(Append(t, o)) :
              (i \in 1..Len(t) /\ Append(t, o)[i] = t[i]) \/ i = Len(t) + 1
         /\ \A i \in 1..Len(t) : i \in 1..Len(Append(t, o)) /\ Append(t, o)[i] = t[i]
<1> DEFINE w == Append(t, o)
<1>1. /\ Len(w) = Len(t) + 1 /\ Len(t) \in Nat /\ w[Len(t) + 1] = o
      /\ \A i \in 1..Len(t) : w[i] = t[i]
  OBVIOUS
<1> HIDE DEF w
<1>2. /\ Len(t) + 1 \in 1..Len(w)
      /\ \A i \in 1..Len(w) : i \in 1..Len(t) \/ i = Len(t) + 1
      /\ \A i \in 1..Len(t) : i \in 1..Len(w)
  BY <1>1
<1>3. \A i \in 1..Len(w) : (i \in 1..Len(t) /\ w[i] = t[i]) \/ i = Len(t) + 1
  BY <1>1, <1>2
<1> QED BY <1>1, <1>2, <1>3 DEF w

LEMMA ConcatElems ==
  ASSUME NEW t \in Seq(Ops), NEW u \in Seq(Ops)
  PROVE  /\ \A j \in 1..Len(t \o u) :
              \/ \E k \in 1..Len(t) : (t \o u)[j] = t[k]
              \/ \E k \in 1..Len(u) : (t \o u)[j] = u[k]
         /\ \A k \in 1..Len(t) : \E j \in 1..Len(t \o u) : (t \o u)[j] = t[k]
         /\ \A k \in 1..Len(u) : \E j \in 1..Len(t \o u) : (t \o u)[j] = u[k]
<1> DEFINE w == t \o u
<1>1. /\ Len(w) = Len(t) + Len(u) /\ Len(t) \in Nat /\ Len(u) \in Nat
      /\ \A i \in 1..Len(w) : w[i] = IF i <= Len(t) THEN t[i] ELSE u[i - Len(t)]
  OBVIOUS
<1> HIDE DEF w
<1>2. ASSUME NEW j \in 1..Len(w)
      PROVE  \/ \E k \in 1..Len(t) : w[j] = t[k]
             \/ \E k \in 1..Len(u) : w[j] = u[k]
  <2>1. \/ j \in 1..Len(t) /\ w[j] = t[j]
        \/ j - Len(t) \in 1..Len(u) /\ w[j] = u[j - Len(t)]
    BY <1>1
  <2> QED BY <2>1
<1>3. ASSUME NEW k \in 1..Len(t) PROVE k \in 1..Len(w) /\ w[k] = t[k]
  <2>1. k \in 1..Len(w) /\ k <= Len(t)
    BY <1>1
  <2> QED BY <1>1, <2>1
<1>4. ASSUME NEW k \in 1..Len(u)
      PROVE  Len(t) + k \in 1..Len(w) /\ w[Len(t) + k] = u[k]
  <2>1. Len(t) + k \in 1..Len(w) /\ ~(Len(t) + k <= Len(t)) /\ Len(t) + k - Len(t) = k
    BY <1>1
  <2> QED BY <1>1, <2>1
<1> QED BY <1>2, <1>3, <1>4 DEF w

LEMMA SubSeqElems ==
  ASSUME NEW t \in Seq(Ops), NEW n \in 0..Len(t)
  PROVE  /\ \A i \in 1..Len(SubSeq(t, 1, n)) : \E k \in 1..Len(t) : SubSeq(t, 1, n)[i] = t[k]
         /\ \A i \in 1..Len(SubSeq(t, n + 1, Len(t))) :
              \E k \in 1..Len(t) : SubSeq(t, n + 1, Len(t))[i] = t[k]
<1> DEFINE a == SubSeq(t, 1, n)
           b == SubSeq(t, n + 1, Len(t))
<1>1. /\ Len(t) \in Nat /\ Len(a) = n /\ Len(b) = Len(t) - n
      /\ \A i \in 1..n : a[i] = t[i] /\ i \in 1..Len(t)
      /\ \A i \in 1..Len(t) - n : b[i] = t[n + i] /\ n + i \in 1..Len(t)
  OBVIOUS
<1> HIDE DEF a, b
<1>2. /\ \A i \in 1..Len(a) : \E k \in 1..Len(t) : a[i] = t[k]
      /\ \A i \in 1..Len(b) : \E k \in 1..Len(t) : b[i] = t[k]
  BY <1>1
<1> QED BY <1>2 DEF a, b

LEMMA AnswerStep ==
  ASSUME BatchInv, BatchTypeOK', [BatchNext]_batchVars
  PROVE  AnswerInv' /\ SqliteAnswersTruly'
<1>t. BatchTyped /\ BatchTyped'
  BY TypedIs, TypedIsNext DEF BatchInv
<1>i. ResultInv /\ OrderInv /\ AnswerInv /\ Truly
  BY <1>t, TrulyIs DEF BatchInv
<1>d. \A k \in 1..Len(batch), i \in 1..Len(batch) : k < i => batch[k] # batch[i]
  BY <1>t, <1>i, Apart DEF BatchTyped, OrderInv, Asc
<1>g. ASSUME AnswerInv', Truly' PROVE AnswerInv' /\ SqliteAnswersTruly'
  BY <1>g, <1>t, TrulyIsNext
<1> SUFFICES AnswerInv' /\ Truly'
  BY <1>g
<1>e. Len(<<>>) = 0 /\ \A i \in 1..Len(<<>>) : FALSE
  OBVIOUS
<1> USE DEF BatchTyped
<1>1. ASSUME NEW o \in Ops, Send(o) PROVE AnswerInv' /\ Truly'
  <2>1. /\ sent' = Append(sent, o) /\ queue' = Append(queue, o) /\ o \notin ToSet(sent)
        /\ UNCHANGED <<database, batch, results, written, aborted, durable, pc, answer>>
    BY <1>1 DEF Send
  <2>2. \A k \in 1..Len(sent) : sent[k] # o
    BY <1>t, <2>1, Members
  <2>3. answer[o] = "none"
    BY <1>i, <2>2 DEF AnswerInv
  <2>4. /\ \A i \in 1..Len(queue') : queue'[i] = o \/ (i \in 1..Len(queue) /\ queue'[i] = queue[i])
        /\ \A k \in 1..Len(sent) : k \in 1..Len(sent') /\ sent'[k] = sent[k]
    <3>1. /\ Len(queue') = Len(queue) + 1 /\ queue'[Len(queue) + 1] = o
          /\ \A i \in 1..Len(queue') :
               (i \in 1..Len(queue) /\ queue'[i] = queue[i]) \/ i = Len(queue) + 1
      <4>1. queue \in Seq(Ops) /\ o \in Ops
        BY <1>t
      <4> QED BY ONLY <2>1, <4>1, AppendElems
    <3>2. \A k \in 1..Len(sent) : k \in 1..Len(sent') /\ sent'[k] = sent[k]
      <4>1. sent \in Seq(Ops) /\ o \in Ops
        BY <1>t
      <4> QED BY ONLY <2>1, <4>1, AppendElems
    <3>3. \A i \in 1..Len(queue') : queue'[i] = o \/ (i \in 1..Len(queue) /\ queue'[i] = queue[i])
      BY <3>1
    <3> QED BY ONLY <3>2, <3>3
  <2>5. ASSUME NEW p \in Ops, answer'[p] # "none"
        PROVE  /\ \A i \in 1..Len(queue') : queue'[i] # p
               /\ \A i \in 1..Len(batch') : batch'[i] # p
               /\ \E k \in 1..Len(sent') : sent'[k] = p
    BY <1>i, <2>1, <2>3, <2>4, <2>5 DEF AnswerInv
  <2>6. Truly'
    BY <1>i, <2>1 DEF Truly
  <2>7. AnswerInv
    BY <1>i
  <2> HIDE DEF BatchTyped
  <2>8. AnswerInv'
    BY ONLY <2>1, <2>5, <2>7 DEF AnswerInv
  <2> QED BY <2>6, <2>8
<1>2. ASSUME Receive PROVE AnswerInv' /\ Truly'
  <2> DEFINE n == IF Len(queue) < MaxBatch THEN Len(queue) ELSE MaxBatch
  <2>1. n \in 0..Len(queue)
    <3>1. queue \in Seq(Ops) /\ MaxBatch \in Nat
      BY <1>t, BatchAssumption
    <3> QED BY ONLY <3>1
  <2>2. /\ batch' = SubSeq(queue, 1, n) /\ queue' = SubSeq(queue, n + 1, Len(queue))
        /\ results' = <<>> /\ written' = <<>> /\ aborted' = FALSE /\ pc' = "execute"
        /\ UNCHANGED <<database, sent, durable, answer>>
    BY <1>2 DEF Receive
  <2> HIDE DEF n
  <2>3. /\ \A i \in 1..Len(batch') : \E k \in 1..Len(queue) : batch'[i] = queue[k]
        /\ \A i \in 1..Len(queue') : \E k \in 1..Len(queue) : queue'[i] = queue[k]
    <3>1. queue \in Seq(Ops)
      BY <1>t
    <3> QED BY ONLY <2>1, <2>2, <3>1, SubSeqElems
  <2>4. ASSUME NEW p \in Ops, answer'[p] # "none"
        PROVE  /\ \A i \in 1..Len(queue') : queue'[i] # p
               /\ \A i \in 1..Len(batch') : batch'[i] # p
               /\ \E k \in 1..Len(sent') : sent'[k] = p
    <3>1. /\ \A i \in 1..Len(queue) : queue[i] # p
          /\ \E k \in 1..Len(sent) : sent[k] = p
      BY <1>i, <2>2, <2>4 DEF AnswerInv
    <3> QED BY ONLY <2>2, <2>3, <3>1
  <2>5. /\ \A i \in 1..Len(results') : FALSE /\ \A j \in 1..Len(written') : FALSE
    BY <1>e, <2>2
  <2>6. database' = "sqlite" => ~aborted'
    BY <2>2
  <2>7. Truly'
    BY <1>i, <2>2 DEF Truly
  <2> QED BY <2>2, <2>4, <2>5, <2>6, <2>7 DEF AnswerInv
<1>3. ASSUME Execute PROVE AnswerInv' /\ Truly'
  <2> DEFINE n == Len(results) + 1
  <2>1. /\ n \in 1..Len(batch) /\ Len(results) \in Nat /\ batch[n] \in Ops
        /\ pc = "execute" /\ pc' = "execute"
        /\ UNCHANGED <<database, sent, queue, batch, durable, answer>>
    BY <1>3, <1>t DEF Execute
  <2>2. database = "sqlite" => ~aborted'
    BY <1>3, <1>i DEF Execute, AnswerInv
  <2>3. \/ results' = Append(results, "ok") /\ written' = Append(written, batch[n])
        \/ results' = Append(results, "error") /\ written' = written
    BY <1>3 DEF Execute
  <2>4. /\ Len(results') = n
        /\ \A i \in 1..n : (i \in 1..Len(results) /\ results'[i] = results[i]) \/ i = n
        /\ \A i \in 1..Len(results) : i \in 1..n /\ i < n /\ i \in 1..Len(batch) /\ i # n
    <3>1. PICK r \in {"ok", "error"} : results' = Append(results, r)
      BY <2>3
    <3>2. /\ Len(results') = n
          /\ \A i \in 1..Len(results') : (i \in 1..Len(results) /\ results'[i] = results[i]) \/ i = n
      <4>1. results \in Seq({"ok", "error"})
        BY <1>t
      <4> QED BY ONLY <3>1, <4>1, AppendElems
    <3>3. \A i \in 1..Len(results) : i \in 1..n /\ i < n /\ i \in 1..Len(batch) /\ i # n
      BY <2>1
    <3> QED BY <3>2, <3>3
  <2>5. \A i \in 1..Len(results) : batch[i] # batch[n]
    BY <1>d, <2>1, <2>4
  <2>6. \A j \in 1..Len(written) : \E i \in 1..Len(results) : batch[i] = written[j]
    BY <1>i DEF AnswerInv
  <2>7. CASE results' = Append(results, "ok") /\ written' = Append(written, batch[n])
    <3>1. /\ \A j \in 1..Len(written') : \/ j \in 1..Len(written) /\ written'[j] = written[j]
                                         \/ j = Len(written) + 1 /\ written'[j] = batch[n]
          /\ \A j \in 1..Len(written) : j \in 1..Len(written') /\ written'[j] = written[j]
          /\ Len(written) + 1 \in 1..Len(written') /\ written'[Len(written) + 1] = batch[n]
          /\ results'[n] = "ok" /\ n \in 1..n
      <4>1. /\ written \in Seq(Ops) /\ results \in Seq({"ok", "error"})
            /\ batch[n] \in Ops /\ n \in 1..n
        BY <1>t, <2>1
      <4>2. results'[n] = "ok"
        BY ONLY <2>7, <4>1, AppendElems
      <4> HIDE DEF n
      <4>3. /\ \A j \in 1..Len(written') : \/ j \in 1..Len(written) /\ written'[j] = written[j]
                                           \/ j = Len(written) + 1
            /\ \A j \in 1..Len(written) : j \in 1..Len(written') /\ written'[j] = written[j]
            /\ Len(written) + 1 \in 1..Len(written') /\ written'[Len(written) + 1] = batch[n]
        BY ONLY <2>7, <4>1, AppendElems
      <4> QED BY ONLY <4>1, <4>2, <4>3
    <3> HIDE DEF n
    <3>2. \A j \in 1..Len(written') : \E i \in 1..Len(results') : batch'[i] = written'[j]
      BY <2>1, <2>4, <2>6, <3>1
    <3>3. ASSUME database = "sqlite", NEW i \in 1..Len(results')
          PROVE  results'[i] = "ok" <=> \E j \in 1..Len(written') : written'[j] = batch'[i]
      <4>1. CASE i = n
        BY <2>1, <3>1, <4>1
      <4>2. CASE i \in 1..Len(results) /\ results'[i] = results[i]
        <5>1. results[i] = "ok" <=> \E j \in 1..Len(written) : written[j] = batch[i]
          BY <1>i, <2>1, <3>3, <4>2 DEF AnswerInv
        <5> QED BY <2>1, <2>5, <3>1, <4>2, <5>1
      <4> QED BY <2>4, <4>1, <4>2
    <3>4. AnswerInv /\ Truly
      BY <1>i
    <3>5. Truly'
      BY ONLY <2>1, <3>4 DEF Truly
    <3> HIDE DEF BatchTyped
    <3>6. AnswerInv'
      BY ONLY <2>1, <2>2, <3>2, <3>3, <3>4 DEF AnswerInv
    <3> QED BY ONLY <3>5, <3>6
  <2>8. CASE results' = Append(results, "error") /\ written' = written
    <3>1. results'[n] = "error"
      BY <1>t, <2>1, <2>8
    <3> HIDE DEF n
    <3>2. \A j \in 1..Len(written) : written[j] # batch[n]
      BY <2>5, <2>6
    <3>3. ASSUME database = "sqlite", NEW i \in 1..Len(results')
          PROVE  results'[i] = "ok" <=> \E j \in 1..Len(written') : written'[j] = batch'[i]
      <4>1. CASE i = n
        BY <2>1, <2>8, <3>1, <3>2, <4>1
      <4>2. CASE i \in 1..Len(results) /\ results'[i] = results[i]
        BY <1>i, <2>1, <2>8, <3>3, <4>2 DEF AnswerInv
      <4> QED BY <2>4, <4>1, <4>2
    <3>4. \A j \in 1..Len(written') : \E i \in 1..Len(results') : batch'[i] = written'[j]
      BY <2>1, <2>4, <2>6, <2>8
    <3>5. AnswerInv /\ Truly
      BY <1>i
    <3>6. Truly'
      BY ONLY <2>1, <3>5 DEF Truly
    <3> HIDE DEF BatchTyped
    <3>7. AnswerInv'
      BY ONLY <2>1, <2>2, <3>3, <3>4, <3>5, SMTT(20) DEF AnswerInv
    <3> QED BY ONLY <3>6, <3>7
  <2> QED BY <2>3, <2>7, <2>8
<1>4. ASSUME Commit \/ CommitFails PROVE AnswerInv' /\ Truly'
  <2>1. /\ pc = "execute" /\ pc' = "answer" /\ written' = <<>>
        /\ UNCHANGED <<database, sent, queue, batch, aborted, answer>>
    BY <1>4 DEF Commit, CommitFails, TransactionFails
  <2>2. database = "sqlite" =>
          \/ Commit /\ durable' = durable \o written /\ results' = results
             /\ Len(results) = Len(batch)
          \/ durable' = durable /\ \A i \in 1..Len(batch) : results'[i] = "error"
    <3>1. CASE Commit
      BY <1>i, <3>1 DEF Commit, AnswerInv
    <3>2. CASE CommitFails
      <4>1. results' = [i \in 1..Len(batch) |-> "error"]
        BY <1>t, <3>2 DEF CommitFails
      <4>2. database = "sqlite" => durable' = durable
        BY <3>2 DEF CommitFails, TransactionFails
      <4> QED BY <4>1, <4>2
    <3> QED BY <1>4, <3>1, <3>2
  <2>3. \A j \in 1..Len(durable), i \in 1..Len(batch) : durable[j] # batch[i]
    BY <1>t, <1>i, <2>1, Apart DEF OrderInv, Bef
  <2>t. durable \in Seq(Ops) /\ written \in Seq(Ops)
    BY <1>t
  <2>4. \A j \in 1..Len(durable \o written) :
          \/ \E k \in 1..Len(durable) : (durable \o written)[j] = durable[k]
          \/ \E k \in 1..Len(written) : (durable \o written)[j] = written[k]
    BY ONLY <2>t, ConcatElems
  <2>5. /\ \A k \in 1..Len(durable) :
             \E j \in 1..Len(durable \o written) : (durable \o written)[j] = durable[k]
        /\ \A k \in 1..Len(written) :
             \E j \in 1..Len(durable \o written) : (durable \o written)[j] = written[k]
    BY ONLY <2>t, ConcatElems
  <2>6. \A j \in 1..Len(written) : \E i \in 1..Len(batch) : batch[i] = written[j]
    <3>1. \A i \in 1..Len(results) : i \in 1..Len(batch)
      BY <1>t
    <3>2. \A j \in 1..Len(written) : \E i \in 1..Len(results) : batch[i] = written[j]
      BY <1>i DEF AnswerInv
    <3> QED BY ONLY <3>1, <3>2
  <2>7. Truly'
    <3> SUFFICES ASSUME database = "sqlite", NEW o \in Ops
                 PROVE  /\ answer[o] = "ok" => \E j \in 1..Len(durable') : durable'[j] = o
                        /\ answer[o] = "error" => \A j \in 1..Len(durable') : durable'[j] # o
      BY <2>1 DEF Truly
    <3>1. /\ answer[o] = "ok" => \E j \in 1..Len(durable) : durable[j] = o
          /\ answer[o] = "error" => \A j \in 1..Len(durable) : durable[j] # o
      BY <1>i DEF Truly
    <3>2. answer[o] = "error" => \A j \in 1..Len(written) : written[j] # o
      BY <1>i, <2>6 DEF AnswerInv
    <3>3. CASE durable' = durable \o written
      <4>1. answer[o] = "ok" => \E j \in 1..Len(durable') : durable'[j] = o
        BY ONLY <2>5, <3>1, <3>3
      <4>2. answer[o] = "error" => \A j \in 1..Len(durable') : durable'[j] # o
        BY ONLY <2>4, <3>1, <3>2, <3>3
      <4> QED BY ONLY <4>1, <4>2
    <3> QED BY <2>2, <3>1, <3>3
  <2>8. ASSUME database = "sqlite", NEW i \in 1..Len(batch)
        PROVE  results'[i] = "ok" <=> \E j \in 1..Len(durable') : durable'[j] = batch[i]
    <3>1. CASE durable' = durable /\ \A k \in 1..Len(batch) : results'[k] = "error"
      BY <2>3, <2>8, <3>1
    <3>2. CASE durable' = durable \o written /\ results' = results /\ Len(results) = Len(batch)
      <4>1. results[i] = "ok" <=> \E j \in 1..Len(written) : written[j] = batch[i]
        BY <1>i, <2>1, <2>8, <3>2 DEF AnswerInv
      <4>2. ASSUME NEW j \in 1..Len(durable'), durable'[j] = batch[i]
            PROVE  \E l \in 1..Len(written) : written[l] = batch[i]
        BY ONLY <2>3, <2>4, <2>8, <3>2, <4>2
      <4>3. ASSUME NEW l \in 1..Len(written), written[l] = batch[i]
            PROVE  \E j \in 1..Len(durable') : durable'[j] = batch[i]
        BY ONLY <2>5, <3>2, <4>3
      <4> QED BY ONLY <3>2, <4>1, <4>2, <4>3
    <3> QED BY <2>2, <2>8, <3>1, <3>2
  <2> QED BY <1>i, <1>e, <2>1, <2>7, <2>8 DEF AnswerInv
<1>5. ASSUME Answer PROVE AnswerInv' /\ Truly'
  <2>1. /\ pc = "answer" /\ pc' = "receive" /\ batch' = <<>> /\ results' = <<>>
        /\ UNCHANGED <<database, sent, queue, written, aborted, durable>>
    BY <1>5 DEF Answer
  <2>2. written = <<>>
    BY <1>i, <2>1 DEF OrderInv
  <2>3. ASSUME NEW o \in Ops
        PROVE  \/ answer'[o] = answer[o]
               \/ \E i \in 1..Len(batch) : batch[i] = o /\ answer'[o] = results[i]
    <3>1. CASE \E i \in DOMAIN batch : batch[i] = o
      <4>1. PICK i \in 1..Len(batch) :
              i = (CHOOSE k \in DOMAIN batch : batch[k] = o) /\ batch[i] = o
        <5>1. DOMAIN batch = 1..Len(batch)
          BY <1>t
        <5> QED BY ONLY <3>1, <5>1
      <4> QED BY <1>5, <3>1, <4>1 DEF Answer
    <3>2. CASE ~(\E i \in DOMAIN batch : batch[i] = o)
      BY <1>5, <3>2 DEF Answer
    <3> QED BY <3>1, <3>2
  <2>4. /\ \A i \in 1..Len(batch) : \E k \in 1..Len(sent) : sent[k] = batch[i]
        /\ \A i \in 1..Len(batch), j \in 1..Len(queue) : batch[i] # queue[j]
    BY <1>t, <1>i, Apart DEF OrderInv, Bef, Known
  <2>5. ASSUME NEW o \in Ops, answer'[o] # "none"
        PROVE  /\ \A i \in 1..Len(queue) : queue[i] # o
               /\ \E k \in 1..Len(sent) : sent[k] = o
    BY <1>i, <2>3, <2>4, <2>5 DEF AnswerInv
  <2>6. Truly'
    <3> SUFFICES ASSUME database = "sqlite", NEW o \in Ops
                 PROVE  /\ answer'[o] = "ok" => \E j \in 1..Len(durable) : durable[j] = o
                        /\ answer'[o] = "error" => \A j \in 1..Len(durable) : durable[j] # o
      BY <2>1 DEF Truly
    <3>1. CASE answer'[o] = answer[o]
      BY <1>i, <3>1 DEF Truly
    <3>2. ASSUME NEW i \in 1..Len(batch), batch[i] = o, answer'[o] = results[i]
          PROVE  /\ answer'[o] = "ok" => \E j \in 1..Len(durable) : durable[j] = o
                 /\ answer'[o] = "error" => \A j \in 1..Len(durable) : durable[j] # o
      <4>1. results[i] = "ok" <=> \E j \in 1..Len(durable) : durable[j] = batch[i]
        BY <1>i, <2>1, <3>2 DEF AnswerInv
      <4> QED BY <3>2, <4>1
    <3> QED BY <2>3, <3>1, <3>2
  <2> QED BY <1>i, <1>e, <2>1, <2>2, <2>5, <2>6 DEF AnswerInv
<1>6. ASSUME Crash PROVE AnswerInv' /\ Truly'
  <2>1. /\ pc' = "receive" /\ batch' = <<>> /\ results' = <<>> /\ written' = <<>>
        /\ queue' = <<>> /\ aborted' = FALSE
        /\ UNCHANGED <<database, sent, durable, answer>>
    BY <1>6 DEF Crash
  <2> QED BY <1>i, <1>e, <2>1 DEF AnswerInv, Truly
<1>7. CASE UNCHANGED batchVars
  BY <1>7, <1>i DEF batchVars, AnswerInv, Truly
<1> QED BY <1>1, <1>2, <1>3, <1>4, <1>5, <1>6, <1>7 DEF BatchNext, Writer

\* On SQLite a caller told that its write succeeded finds it in the
\* database, and one told that it failed does not, whatever fails.
THEOREM AnswersAreTrue == BatchSpec => []SqliteAnswersTruly
<1>1. BatchInit => AnswerInv /\ SqliteAnswersTruly
  <2> SUFFICES ASSUME BatchInit PROVE AnswerInv /\ SqliteAnswersTruly
    OBVIOUS
  <2>1. Len(<<>>) = 0
    OBVIOUS
  <2> QED BY <2>1 DEF BatchInit, AnswerInv, SqliteAnswersTruly
<1>2. BatchTypeOK /\ ResultInv /\ OrderInv /\ BatchTypeOK' /\ AnswerInv /\ SqliteAnswersTruly /\ [BatchNext]_batchVars
        => AnswerInv' /\ SqliteAnswersTruly'
  BY AnswerStep DEF BatchInv
<1> QED BY <1>1, <1>2, Typing, Ordering, PTL DEF BatchSpec
=============================================================================
