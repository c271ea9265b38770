-------------------------- MODULE RedisQueueProofs --------------------------
(***************************************************************************)
(* Proofs about RedisQueue, for any number of jobs, workers and requeuers, *)
(* any lease and heartbeat times, and stalls of any length.                *)
(***************************************************************************)
EXTENDS RedisQueue, TLAPS

-----------------------------------------------------------------------------
(* The wait list: what each command that changes it does to its members.   *)

Occurs(x, s) == \E i \in DOMAIN s : s[i] = x

LEMMA SeqMono == ASSUME NEW S, NEW T, S \subseteq T, NEW s \in Seq(S) PROVE s \in Seq(T)
<1>1. DOMAIN s = 1..Len(s) /\ Len(s) \in Nat /\ s = [i \in 1..Len(s) |-> s[i]]
  OBVIOUS
<1>2. \A i \in 1..Len(s) : s[i] \in T
  OBVIOUS
<1> QED BY <1>1, <1>2

LEMMA OccursAppend ==
  ASSUME NEW S, NEW s \in Seq(S), NEW x \in S, NEW y
  PROVE  Occurs(y, Append(s, x)) <=> Occurs(y, s) \/ y = x
<1>1. /\ Append(s, x) \in Seq(S) /\ Len(Append(s, x)) = Len(s) + 1
      /\ Append(s, x)[Len(s) + 1] = x
      /\ \A i \in 1..Len(s) : Append(s, x)[i] = s[i]
  OBVIOUS
<1> QED BY <1>1 DEF Occurs

LEMMA OccursTail ==
  ASSUME NEW S, NEW s \in Seq(S), s # <<>>, NEW y, Occurs(y, s), y # Head(s)
  PROVE  Occurs(y, Tail(s))
<1>1. PICK i \in 1..Len(s) : s[i] = y
  BY DEF Occurs
<1>2. Tail(s) \in Seq(S) /\ Len(Tail(s)) = Len(s) - 1 /\ i # 1
  BY <1>1
<1>3. Tail(s)[i - 1] = s[i] /\ i - 1 \in 1..Len(Tail(s))
  BY <1>1, <1>2
<1>4. i - 1 \in DOMAIN Tail(s)
  BY <1>2, <1>3
<1> QED BY <1>1, <1>3, <1>4 DEF Occurs

LEMMA OccursFront ==
  ASSUME NEW S, NEW s \in Seq(S), NEW x \in S, NEW y
  PROVE  Occurs(y, s) \/ y = x => Occurs(y, <<x>> \o s)
<1> DEFINE t == <<x>> \o s
<1>1. t \in Seq(S) /\ Len(t) = Len(s) + 1 /\ t[1] = x
  OBVIOUS
<1>2. \A i \in 1..Len(s) : t[i + 1] = s[i] /\ i + 1 \in 1..Len(t)
  BY <1>1
<1>3. DOMAIN t = 1..Len(t) /\ DOMAIN s = 1..Len(s) /\ 1 \in 1..Len(t)
  BY <1>1
<1> HIDE DEF t
<1>4. Occurs(y, s) => Occurs(y, t)
  BY <1>2, <1>3 DEF Occurs
<1>5. y = x => Occurs(y, t)
  BY <1>1, <1>3 DEF Occurs
<1> QED BY <1>4, <1>5 DEF t

-----------------------------------------------------------------------------
(* The inductive invariant.                                                *)

\* A slot has a job in its hand exactly when it is not idle.
HandInv == \A w \in Workers : wpc[w] = "idle" <=> wjob[w] = NoJob

\* Every id that any process can act on was pushed.
PushedInv ==
  /\ payload \subseteq pushed
  /\ wait \in Seq(pushed)
  /\ \A j \in Jobs : active[j] > 0 => j \in pushed
  /\ \A j \in Jobs : leases[j] # NoLease => j \in pushed
  /\ \A w \in Workers : wjob[w] # NoJob => wjob[w] \in pushed
  /\ \A r \in Requeuers : /\ rjob[r] # NoJob => rjob[r] \in pushed
                          /\ expired[r] \subseteq pushed
                          /\ \A j \in Jobs : listed[r][j] > 0 => j \in pushed

\* A slot that found no data, or finished its run, holds a job some slot ran
\* to the end.
DoneInv ==
  /\ \A w \in Workers : wpc[w] = "gone" => wjob[w] \notin payload
  /\ \A w \in Workers : wpc[w] = "finished" => wjob[w] \in completed
  /\ RemovedOnlyAfterRun

IInv == TypeOK /\ HandInv /\ PushedInv /\ DoneInv

USE NoJobAssumption, LeaseAssumption, BoundsAssumption
    DEF NoJobAssumption, LeaseAssumption, BoundsAssumption

LEMMA InitIInv == Init => IInv
  BY DEF Init, IInv, TypeOK, HandInv, PushedInv, DoneInv, RemovedOnlyAfterRun,
         Nothing, NoLease, WorkerPc, RequeuerPc

\* Every command of push, pop, heartbeat, ack and requeue_expired, and every
\* interruption of them, preserves the invariant (queue.rs 92-163).
LEMMA NextIInv == IInv /\ [Next]_vars => IInv'
<1> SUFFICES ASSUME IInv, [Next]_vars PROVE IInv'
  OBVIOUS
<1> USE DEF IInv, TypeOK, HandInv, PushedInv, DoneInv, RemovedOnlyAfterRun,
            NoLease, WorkerPc, RequeuerPc, queue, worker, requeuer, history
<1>1. ASSUME NEW j \in Jobs, Push(j) PROVE IInv'
  <2>1. wait' \in Seq(pushed') /\ wait' \in Seq(Jobs)
    <3>1. wait \in Seq(pushed')
      BY <1>1, SeqMono DEF Push
    <3> QED BY <1>1, <3>1 DEF Push
  <2>2. TypeOK'
    BY <1>1, <2>1 DEF Push
  <2>3. HandInv' /\ PushedInv'
    BY <1>1, <2>1 DEF Push
  <2>4. DoneInv'
    BY <1>1 DEF Push
  <2> QED BY <2>2, <2>3, <2>4
<1>2. ASSUME NEW w \in Workers, Blmove(w) PROVE IInv'
  <2>1. /\ Head(wait) \in pushed /\ Head(wait) \in Jobs
        /\ wait' \in Seq(pushed) /\ wait' \in Seq(Jobs)
    <3>1. wait # <<>> /\ wait' = Tail(wait)
      BY <1>2 DEF Blmove
    <3>2. Head(wait) \in pushed /\ Tail(wait) \in Seq(pushed)
      BY <3>1
    <3>3. Tail(wait) \in Seq(Jobs)
      BY <3>1
    <3>4. Head(wait) \in Jobs
      BY <3>2
    <3> QED BY <3>1, <3>2, <3>3, <3>4
  <2>2. TypeOK'
    <3>1. active' \in [Jobs -> Nat]
      BY <1>2, <2>1 DEF Blmove
    <3>2. wjob' \in [Workers -> Jobs \cup {NoJob}]
      BY <1>2, <2>1 DEF Blmove
    <3> QED BY <1>2, <2>1, <3>1, <3>2 DEF Blmove
  <2>3. HandInv'
    BY <1>2, <2>1 DEF Blmove
  <2>4. \A j \in Jobs : active'[j] > 0 => j \in pushed
    BY <1>2, <2>1 DEF Blmove
  <2>5. PushedInv'
    BY <1>2, <2>1, <2>4 DEF Blmove
  <2>6. DoneInv'
    BY <1>2, <2>1 DEF Blmove
  <2> QED BY <2>2, <2>3, <2>5, <2>6
<1>3. ASSUME NEW w \in Workers, TakeLease(w) PROVE IInv'
  <2>1. wjob[w] \in Jobs /\ wjob[w] \in pushed
    BY <1>3 DEF TakeLease
  <2>2. TypeOK'
    BY <1>3, <2>1 DEF TakeLease
  <2>3. HandInv' /\ PushedInv' /\ DoneInv'
    BY <1>3, <2>1 DEF TakeLease
  <2> QED BY <2>2, <2>3
<1>4. ASSUME NEW w \in Workers, GetPayload(w) PROVE IInv'
  <2>1. TypeOK'
    BY <1>4 DEF GetPayload
  <2>2. HandInv' /\ PushedInv' /\ DoneInv'
    BY <1>4 DEF GetPayload
  <2> QED BY <2>1, <2>2
<1>5. ASSUME NEW w \in Workers, Heartbeat(w) PROVE IInv'
  <2>1. wjob[w] \in Jobs /\ wjob[w] \in pushed
    BY <1>5 DEF Heartbeat
  <2>2. TypeOK'
    BY <1>5, <2>1 DEF Heartbeat
  <2>3. HandInv' /\ PushedInv' /\ DoneInv'
    BY <1>5, <2>1 DEF Heartbeat
  <2> QED BY <2>2, <2>3
<1>6. ASSUME NEW w \in Workers, FinishRun(w) PROVE IInv'
  <2>1. wjob[w] \in Jobs
    BY <1>6 DEF FinishRun
  <2> QED BY <1>6, <2>1 DEF FinishRun
<1>7. ASSUME NEW w \in Workers, Ack(w) PROVE IInv'
  <2>1. /\ wjob[w] \in Jobs /\ wjob[w] \in pushed
        /\ wjob[w] \in completed
    BY <1>7 DEF Ack
  <2>2. TypeOK'
    BY <1>7, <2>1 DEF Ack, Lrem
  <2>3. HandInv' /\ PushedInv'
    BY <1>7, <2>1 DEF Ack, Lrem
  <2>4. DoneInv'
    BY <1>7, <2>1 DEF Ack
  <2> QED BY <2>2, <2>3, <2>4
<1>8. ASSUME NEW w \in Workers, Abandon(w) PROVE IInv'
  <2>1. TypeOK'
    BY <1>8 DEF Abandon
  <2>2. HandInv' /\ PushedInv' /\ DoneInv'
    BY <1>8 DEF Abandon
  <2> QED BY <2>1, <2>2
<1>9. ASSUME NEW r \in Requeuers, ListActive(r) PROVE IInv'
  <2>1. TypeOK'
    BY <1>9 DEF ListActive
  <2>2. HandInv' /\ PushedInv' /\ DoneInv'
    BY <1>9 DEF ListActive
  <2> QED BY <2>1, <2>2
<1>10. ASSUME NEW r \in Requeuers, NEW j \in Jobs, LeaseListed(r, j) PROVE IInv'
  <2>1. listed' \in [Requeuers -> [Jobs -> Nat]]
    BY <1>10 DEF LeaseListed
  <2>2. TypeOK'
    BY <1>10, <2>1 DEF LeaseListed
  <2>3. HandInv' /\ PushedInv' /\ DoneInv'
    BY <1>10 DEF LeaseListed
  <2> QED BY <2>2, <2>3
<1>11. ASSUME NEW r \in Requeuers, FindExpired(r) PROVE IInv'
  <2>1. TypeOK'
    BY <1>11 DEF FindExpired
  <2>2. HandInv' /\ PushedInv' /\ DoneInv'
    BY <1>11 DEF FindExpired
  <2> QED BY <2>1, <2>2
<1>12. ASSUME NEW r \in Requeuers, NEW j \in Jobs, RemoveLease(r, j) PROVE IInv'
  <2>1. TypeOK'
    BY <1>12 DEF RemoveLease
  <2>2. HandInv' /\ PushedInv' /\ DoneInv'
    BY <1>12 DEF RemoveLease
  <2> QED BY <2>1, <2>2
<1>13. ASSUME NEW r \in Requeuers, MoveBack(r) PROVE IInv'
  <2>1. rjob[r] \in Jobs /\ rjob[r] \in pushed
    BY <1>13 DEF MoveBack
  <2>2. wait' \in Seq(pushed) /\ wait' \in Seq(Jobs)
    BY <1>13, <2>1 DEF MoveBack
  <2>3. TypeOK'
    BY <1>13, <2>1, <2>2 DEF MoveBack, Lrem
  <2>4. HandInv' /\ PushedInv' /\ DoneInv'
    BY <1>13, <2>1, <2>2 DEF MoveBack, Lrem
  <2> QED BY <2>3, <2>4
<1>14. ASSUME NEW r \in Requeuers, PassDone(r) PROVE IInv'
  BY <1>14 DEF PassDone
<1>15. ASSUME NEW r \in Requeuers, AbandonPass(r) PROVE IInv'
  <2>1. TypeOK'
    BY <1>15 DEF AbandonPass, Nothing
  <2>2. HandInv' /\ PushedInv' /\ DoneInv'
    BY <1>15 DEF AbandonPass, Nothing
  <2> QED BY <2>1, <2>2
<1>16. CASE Tick
  <2>1. TypeOK'
    BY <1>16 DEF Tick
  <2>2. HandInv' /\ PushedInv' /\ DoneInv'
    BY <1>16 DEF Tick
  <2> QED BY <2>1, <2>2
<1>17. CASE UNCHANGED vars
  BY <1>17 DEF vars
<1> QED
  BY <1>1, <1>2, <1>3, <1>4, <1>5, <1>6, <1>7, <1>8, <1>9, <1>10, <1>11,
     <1>12, <1>13, <1>14, <1>15, <1>16, <1>17
  DEF Next, SlotNext, Pop, RequeueStep

\* Type correctness of the Redis queue.
THEOREM TypeCorrect == Spec => []TypeOK
<1>1. IInv => TypeOK
  BY DEF IInv
<1> QED BY <1>1, InitIInv, NextIInv, PTL DEF Spec

\* The data of a job goes only after a slot ran it to the end.
THEOREM DataGoesAfterRun == Spec => []RemovedOnlyAfterRun
<1>1. IInv => RemovedOnlyAfterRun
  BY DEF IInv, DoneInv
<1> QED BY <1>1, InitIInv, NextIInv, PTL DEF Spec

-----------------------------------------------------------------------------
(* No job is lost.                                                         *)

LEMMA NextNotLost == IInv /\ NotLost /\ [Next]_vars => NotLost'
<1> SUFFICES ASSUME IInv, NotLost, [Next]_vars, NEW k \in payload'
             PROVE  Waiting(k)' \/ active'[k] > 0
  BY DEF NotLost
<1> USE DEF NotLost, queue, worker, requeuer, history
<1>0. /\ wait \in Seq(Jobs) /\ active \in [Jobs -> Nat]
      /\ payload \subseteq Jobs
      /\ \A w \in Workers : wpc[w] # "idle" => wjob[w] \in Jobs
      /\ \A r \in Requeuers : rjob[r] # NoJob => rjob[r] \in Jobs
  BY DEF IInv, TypeOK, HandInv
<1>1. Waiting(k) <=> Occurs(k, wait)
  BY DEF Waiting, Occurs
<1>2. Waiting(k)' <=> Occurs(k, wait')
  BY DEF Waiting, Occurs
<1>3. ASSUME NEW j \in Jobs, Push(j) PROVE Waiting(k)' \/ active'[k] > 0
  <2>1. Occurs(k, wait') <=> Occurs(k, wait) \/ k = j
    BY <1>0, <1>3, OccursAppend DEF Push
  <2> QED BY <1>1, <1>2, <1>3, <2>1 DEF Push
<1>4. ASSUME NEW w \in Workers, Blmove(w) PROVE Waiting(k)' \/ active'[k] > 0
  <2>1. wait # <<>> /\ wait' = Tail(wait) /\ k \in payload /\ k \in Jobs
    BY <1>0, <1>4 DEF Blmove
  <2>2. CASE k = Head(wait)
    BY <1>0, <1>4, <2>1, <2>2 DEF Blmove
  <2>3. CASE k # Head(wait)
    <3>1. Waiting(k) => Waiting(k)'
      BY <1>0, <1>1, <1>2, <2>1, <2>3, OccursTail
    <3>2. active'[k] = active[k]
      BY <1>0, <1>4, <2>1, <2>3 DEF Blmove
    <3> QED BY <2>1, <3>1, <3>2
  <2> QED BY <2>2, <2>3
<1>5. ASSUME NEW w \in Workers, Ack(w) PROVE Waiting(k)' \/ active'[k] > 0
  <2>1. k \in payload /\ k # wjob[w] /\ wait' = wait
    BY <1>5 DEF Ack
  <2>2. active'[k] = active[k]
    BY <1>0, <1>5, <2>1 DEF Ack, Lrem
  <2> QED BY <1>1, <1>2, <2>1, <2>2
<1>6. ASSUME NEW r \in Requeuers, MoveBack(r) PROVE Waiting(k)' \/ active'[k] > 0
  <2>1. k \in payload /\ wait' = <<rjob[r]>> \o wait /\ rjob[r] \in Jobs
    BY <1>0, <1>6 DEF MoveBack
  <2>2. Occurs(k, wait) \/ k = rjob[r] => Occurs(k, wait')
    BY <1>0, <2>1, OccursFront
  <2>3. k # rjob[r] => active'[k] = active[k]
    BY <1>0, <1>6, <2>1 DEF MoveBack, Lrem
  <2> QED BY <1>1, <1>2, <2>1, <2>2, <2>3
<1>7. ASSUME payload' = payload, wait' = wait, active' = active
      PROVE  Waiting(k)' \/ active'[k] > 0
  BY <1>1, <1>2, <1>7
<1>8. ASSUME NEW w \in Workers, SlotNext(w), ~Blmove(w), ~Ack(w)
      PROVE  payload' = payload /\ wait' = wait /\ active' = active
  BY <1>8 DEF SlotNext, Pop, TakeLease, GetPayload, Heartbeat, FinishRun, Abandon
<1>9. ASSUME NEW r \in Requeuers, RequeueStep(r) \/ AbandonPass(r), ~MoveBack(r)
      PROVE  payload' = payload /\ wait' = wait /\ active' = active
  BY <1>9 DEF RequeueStep, ListActive, LeaseListed, RemoveLease, FindExpired,
              PassDone, AbandonPass
<1>10. CASE Tick \/ UNCHANGED vars
  BY <1>7, <1>10 DEF Tick, vars
<1> QED BY <1>3, <1>4, <1>5, <1>6, <1>7, <1>8, <1>9, <1>10 DEF Next

\* However pop, ack and requeue_expired of any number of processes interleave
\* and wherever they are cut short, a job whose data exists is in one of the
\* two lists.
THEOREM JobsAreNotLost == Spec => []NotLost
<1>1. Init => NotLost
  BY DEF Init, NotLost
<1> QED BY <1>1, InitIInv, NextIInv, NextNotLost, PTL DEF Spec

-----------------------------------------------------------------------------
(* Refinement of JobQueue.                                                 *)

LEMMA NextImplements == IInv /\ [Next]_vars => [Abstract!Next]_(Abstract!vars)
<1> SUFFICES ASSUME IInv, [Next]_vars PROVE [Abstract!Next]_(Abstract!vars)
  OBVIOUS
<1> USE DEF IInv, TypeOK, HandInv, Abstract!vars, JobState, SlotRuns, WorkerPc,
            queue, worker, requeuer, history
<1>1. ASSUME NEW j \in Jobs, Push(j) PROVE Abstract!Push(j)
  BY <1>1 DEF Push, Abstract!Push, PushedInv
<1>2. ASSUME NEW w \in Workers, Blmove(w) \/ TakeLease(w) \/ Heartbeat(w)
      PROVE  UNCHANGED Abstract!vars
  BY <1>2 DEF Blmove, TakeLease, Heartbeat
<1>3. ASSUME NEW w \in Workers, GetPayload(w)
      PROVE  [Abstract!Next]_(Abstract!vars)
  <2>1. wjob[w] \in Jobs
    BY <1>3 DEF GetPayload
  <2>2. CASE wjob[w] \in payload
    <3>1. Abstract!Take(w, wjob[w])
      BY <1>3, <2>1, <2>2 DEF GetPayload, Abstract!Take
    <3>2. \E j \in Jobs : Abstract!Take(w, j)
      <4> HIDE DEF JobState, SlotRuns
      <4> QED BY <2>1, <3>1
    <3> QED BY <3>2 DEF Abstract!Next
  <2>3. CASE wjob[w] \notin payload
    BY <1>3, <2>1, <2>3 DEF GetPayload
  <2> QED BY <2>2, <2>3
<1>4. ASSUME NEW w \in Workers, FinishRun(w) PROVE UNCHANGED Abstract!vars
  BY <1>4 DEF FinishRun
<1>5. ASSUME NEW w \in Workers, Ack(w) PROVE [Abstract!Next]_(Abstract!vars)
  <2>1. wjob[w] \in Jobs /\ wjob[w] \in pushed
    BY <1>5 DEF Ack, PushedInv
  <2>2. CASE wpc[w] = "finished"
    <3>1. JobState' = [JobState EXCEPT ![wjob[w]] = "done"]
      <4>1. payload' = payload \ {wjob[w]} /\ pushed' = pushed
        BY <1>5 DEF Ack
      <4> QED BY <2>1, <4>1
    <3>2. SlotRuns[w] = wjob[w] /\ wjob[w] # NoJob
      BY <2>1, <2>2
    <3>3. SlotRuns' = [SlotRuns EXCEPT ![w] = NoJob]
      BY <1>5 DEF Ack
    <3>4. Abstract!Complete(w)
      BY <3>1, <3>2, <3>3 DEF Abstract!Complete
    <3> QED BY <3>4 DEF Abstract!Next
  <2>3. CASE wpc[w] = "gone"
    BY <1>5, <2>1, <2>3 DEF Ack, DoneInv
  <2> QED BY <1>5, <2>2, <2>3 DEF Ack
<1>6. ASSUME NEW w \in Workers, Abandon(w) PROVE [Abstract!Next]_(Abstract!vars)
  <2>1. JobState' = JobState
    BY <1>6 DEF Abandon
  <2>2. SlotRuns' = [SlotRuns EXCEPT ![w] = NoJob]
    BY <1>6 DEF Abandon
  <2>3. CASE SlotRuns[w] # NoJob
    BY <2>1, <2>2, <2>3 DEF Abstract!Next, Abstract!Lose
  <2>4. CASE SlotRuns[w] = NoJob
    BY <2>1, <2>2, <2>4
  <2> QED BY <2>3, <2>4
<1>7. ASSUME NEW r \in Requeuers, RequeueStep(r) \/ AbandonPass(r)
      PROVE  UNCHANGED Abstract!vars
  BY <1>7 DEF RequeueStep, ListActive, LeaseListed, RemoveLease, FindExpired,
              MoveBack, PassDone, AbandonPass
<1>8. CASE Tick \/ UNCHANGED vars
  BY <1>8 DEF Tick, vars
<1> QED
  BY <1>1, <1>2, <1>3, <1>4, <1>5, <1>6, <1>7, <1>8
  DEF Next, SlotNext, Pop, Abstract!Next

\* The Redis queue implements JobQueue, for any number of workers and
\* requeuers.
THEOREM Implements == Spec => ImplementsJobQueue
<1>1. Init => Abstract!Init
  BY DEF Init, Abstract!Init, JobState, SlotRuns
<1> QED
  BY <1>1, InitIInv, NextIInv, NextImplements, PTL
  DEF Spec, ImplementsJobQueue, Abstract!Spec
=============================================================================
