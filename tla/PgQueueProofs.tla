---------------------------- MODULE PgQueueProofs ----------------------------
(***************************************************************************)
(* Proofs about PgQueue, for any number of jobs and workers and any lease  *)
(* and heartbeat times with HeartbeatTicks < LeaseTicks.                   *)
(***************************************************************************)
EXTENDS PgQueue, TLAPS

\* A slot has a job in its hand exactly when it is not idle.
HandInv == \A w \in Workers : wpc[w] = "idle" <=> wjob[w] = NoJob

\* A finished slot's job was run to the end, and so was every job whose row
\* is gone.
DoneInv ==
  /\ \A w \in Workers : wpc[w] = "finished" => wjob[w] \in completed
  /\ RemovedOnlyAfterRun

IInv == TypeOK /\ HandInv /\ DoneInv

USE NoJobAssumption, LeaseAssumption, HeartbeatAssumption, BoundsAssumption
    DEF NoJobAssumption, LeaseAssumption, HeartbeatAssumption, BoundsAssumption

\* The inductive invariant holds at the start and is preserved by every
\* step (queue.rs 208-248, worker.rs 57-101).
LEMMA InitIInv == Init => IInv
  BY DEF Init, IInv, TypeOK, HandInv, DoneInv, RemovedOnlyAfterRun, NoLease

LEMMA NextIInv == IInv /\ [Next]_vars => IInv'
<1> SUFFICES ASSUME IInv, [Next]_vars PROVE IInv'
  OBVIOUS
<1> USE DEF IInv, TypeOK, HandInv, DoneInv, RemovedOnlyAfterRun, NoLease
<1>1. ASSUME NEW j \in Jobs, Push(j) PROVE IInv'
  BY <1>1 DEF Push
<1>2. ASSUME NEW w \in Workers, Pop(w) PROVE IInv'
  <2>1. PICK j \in Eligible : /\ lease' = [lease EXCEPT ![j] = LeaseTicks]
                              /\ wjob' = [wjob EXCEPT ![w] = j]
    BY <1>2 DEF Pop
  <2>2. j \in rows /\ j \in pushed /\ j \in Jobs
    BY <2>1 DEF Eligible
  <2>3. TypeOK'
    BY <1>2, <2>1, <2>2 DEF Pop
  <2>4. HandInv' /\ DoneInv'
    BY <1>2, <2>1, <2>2 DEF Pop
  <2> QED BY <2>3, <2>4
<1>3. ASSUME NEW w \in Workers, Heartbeat(w) PROVE IInv'
  <2>1. wjob[w] \in Jobs
    BY <1>3 DEF Heartbeat
  <2>2. lease' \in [Jobs -> NoLease..LeaseTicks]
    <3>1. lease[wjob[w]] \in NoLease..LeaseTicks
      BY <2>1
    <3>2. LeaseTicks \in NoLease..LeaseTicks
      OBVIOUS
    <3> QED BY <1>3, <3>1, <3>2 DEF Heartbeat
  <2>3. TypeOK'
    BY <1>3, <2>2 DEF Heartbeat
  <2> QED BY <1>3, <2>3 DEF Heartbeat
<1>4. ASSUME NEW w \in Workers, FinishRun(w) PROVE IInv'
  BY <1>4 DEF FinishRun
<1>5. ASSUME NEW w \in Workers, Ack(w) PROVE IInv'
  <2>1. wjob[w] \in Jobs /\ wjob[w] \in completed
    BY <1>5 DEF Ack
  <2>2. wjob' \in [Workers -> pushed' \cup {NoJob'}]
    BY <1>5 DEF Ack
  <2>3. TypeOK'
    BY <1>5, <2>1, <2>2 DEF Ack
  <2>4. HandInv' /\ DoneInv'
    BY <1>5, <2>1 DEF Ack
  <2> QED BY <2>3, <2>4
<1>6. ASSUME NEW w \in Workers, Abandon(w) PROVE IInv'
  BY <1>6 DEF Abandon
<1>7. CASE Tick
  BY <1>7 DEF Tick
<1>8. CASE UNCHANGED vars
  BY <1>8 DEF vars
<1> QED BY <1>1, <1>2, <1>3, <1>4, <1>5, <1>6, <1>7, <1>8 DEF Next

\* Type correctness of the PostgreSQL queue.
THEOREM TypeCorrect == Spec => []TypeOK
<1>1. IInv => TypeOK
  BY DEF IInv
<1> QED BY <1>1, InitIInv, NextIInv, PTL DEF Spec

\* A row goes only after a slot ran its job to the end, for any number of
\* slots, crashes and stalls.
THEOREM RowsGoAfterRun == Spec => []RemovedOnlyAfterRun
<1>1. IInv => RemovedOnlyAfterRun
  BY DEF IInv, DoneInv
<1> QED BY <1>1, InitIInv, NextIInv, PTL DEF Spec

-----------------------------------------------------------------------------
(* Exclusive leases, when no live slot stalls.                             *)

\* The row of a held job is still there, and its lease outlives the slot's
\* next heartbeat.
LeaseInv ==
  \A w \in Workers : wjob[w] # NoJob =>
    /\ wjob[w] \in rows
    /\ lease[wjob[w]] + beat[w] >= LeaseTicks

HeldInv == IInv /\ LeaseInv /\ OneRunner

LEMMA NextHeldInv == ASSUME Punctual PROVE HeldInv /\ [Next]_vars => HeldInv'
<1> SUFFICES ASSUME HeldInv, [Next]_vars PROVE LeaseInv' /\ OneRunner'
  BY NextIInv DEF HeldInv
<1> IInv'
  BY NextIInv DEF HeldInv
<1> USE DEF HeldInv, IInv, TypeOK, HandInv, LeaseInv, OneRunner, NoLease
<1>1. ASSUME NEW j \in Jobs, Push(j) PROVE LeaseInv' /\ OneRunner'
  BY <1>1 DEF Push
<1>2. ASSUME NEW w \in Workers, Pop(w) PROVE LeaseInv' /\ OneRunner'
  <2>1. PICK j \in Eligible : /\ lease' = [lease EXCEPT ![j] = LeaseTicks]
                              /\ wjob' = [wjob EXCEPT ![w] = j]
    BY <1>2 DEF Pop
  <2>2. j \in rows /\ j \in Jobs /\ lease[j] <= 0
    BY <2>1 DEF Eligible
  <2>3. \A v \in Workers : wjob[v] # j
    <3> SUFFICES ASSUME NEW v \in Workers, wjob[v] = j PROVE FALSE
      OBVIOUS
    <3>1. j # NoJob
      BY <2>2
    <3>2. lease[j] + beat[v] >= LeaseTicks
      BY <3>1
    <3>3. beat[v] \in 0..HeartbeatTicks /\ lease[j] \in Int
      BY <2>2
    <3> QED BY <2>2, <3>2, <3>3
  <2>4. LeaseInv'
    BY <1>2, <2>1, <2>2, <2>3 DEF Pop
  <2>5. OneRunner'
    BY <1>2, <2>1, <2>3 DEF Pop
  <2> QED BY <2>4, <2>5
<1>3. ASSUME NEW w \in Workers, Heartbeat(w) PROVE LeaseInv' /\ OneRunner'
  BY <1>3 DEF Heartbeat
<1>4. ASSUME NEW w \in Workers, FinishRun(w) PROVE LeaseInv' /\ OneRunner'
  BY <1>4 DEF FinishRun
<1>5. ASSUME NEW w \in Workers, Ack(w) PROVE LeaseInv' /\ OneRunner'
  BY <1>5 DEF Ack
<1>6. ASSUME NEW w \in Workers, Abandon(w) PROVE LeaseInv' /\ OneRunner'
  BY <1>6 DEF Abandon
<1>7. ASSUME Tick PROVE LeaseInv' /\ OneRunner'
  <2>1. OneRunner'
    BY <1>7 DEF Tick
  <2>2. ASSUME NEW w \in Workers, wjob[w] # NoJob
        PROVE  lease'[wjob[w]] + beat'[w] >= LeaseTicks
    <3>1. wpc[w] = "running" /\ beat[w] < HeartbeatTicks
      <4>1. OnTime(w)
        BY <1>7, Punctual DEF Tick
      <4> QED BY <2>2, <4>1 DEF OnTime
    <3>2. wjob[w] \in Jobs /\ lease[wjob[w]] \in Int /\ beat[w] \in Nat
      BY <2>2
    <3>3. beat'[w] = beat[w] + 1
      BY <1>7, <3>1 DEF Tick
    <3>4. lease[wjob[w]] > 0 /\ lease'[wjob[w]] = lease[wjob[w]] - 1
      BY <1>7, <2>2, <3>1, <3>2 DEF Tick
    <3> QED BY <2>2, <3>2, <3>3, <3>4
  <2> QED BY <1>7, <2>1, <2>2 DEF Tick
<1>8. CASE UNCHANGED vars
  BY <1>8 DEF vars
<1> QED BY <1>1, <1>2, <1>3, <1>4, <1>5, <1>6, <1>7, <1>8 DEF Next

\* While live slots heartbeat on schedule, no job is in two hands: the lease
\* of a held job never passes, so pop never finds it (queue.rs 215-219).
THEOREM LeasesAreExclusive == ASSUME Punctual PROVE Spec => []OneRunner
<1>1. Init => HeldInv
  BY InitIInv DEF HeldInv, Init, LeaseInv, OneRunner
<1>2. HeldInv => OneRunner
  BY DEF HeldInv
<1> QED BY <1>1, <1>2, NextHeldInv, PTL DEF Spec

-----------------------------------------------------------------------------
(* Refinement of JobQueue.                                                 *)

LEMMA NextImplements == IInv /\ [Next]_vars => [Abstract!Next]_(Abstract!vars)
<1> SUFFICES ASSUME IInv, [Next]_vars PROVE [Abstract!Next]_(Abstract!vars)
  OBVIOUS
<1> USE DEF IInv, TypeOK, HandInv, Abstract!vars, JobState
<1>1. ASSUME NEW j \in Jobs, Push(j) PROVE Abstract!Push(j)
  BY <1>1 DEF Push, Abstract!Push
<1>2. ASSUME NEW w \in Workers, Pop(w)
      PROVE  \E j \in Jobs : Abstract!Take(w, j)
  BY <1>2 DEF Pop, Eligible, Abstract!Take
<1>3. ASSUME NEW w \in Workers, Heartbeat(w) PROVE UNCHANGED Abstract!vars
  BY <1>3 DEF Heartbeat
<1>4. ASSUME NEW w \in Workers, FinishRun(w) PROVE UNCHANGED Abstract!vars
  BY <1>4 DEF FinishRun
<1>5. ASSUME NEW w \in Workers, Ack(w) PROVE Abstract!Complete(w)
  <2>1. wjob[w] \in pushed /\ wjob[w] \in Jobs /\ wjob[w] # NoJob
    BY <1>5 DEF Ack
  <2> QED BY <1>5, <2>1 DEF Ack, Abstract!Complete
<1>6. ASSUME NEW w \in Workers, Abandon(w) PROVE Abstract!Lose(w)
  BY <1>6 DEF Abandon, Abstract!Lose
<1>7. CASE Tick
  BY <1>7 DEF Tick
<1>8. CASE UNCHANGED vars
  BY <1>8 DEF vars
<1> QED
  BY <1>1, <1>2, <1>3, <1>4, <1>5, <1>6, <1>7, <1>8 DEF Next, Abstract!Next

\* The PostgreSQL queue implements JobQueue.
THEOREM Implements == Spec => ImplementsJobQueue
<1>1. Init => Abstract!Init
  BY DEF Init, Abstract!Init, JobState
<1> QED
  BY <1>1, InitIInv, NextIInv, NextImplements, PTL
  DEF Spec, ImplementsJobQueue, Abstract!Spec
=============================================================================
