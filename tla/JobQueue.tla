------------------------------ MODULE JobQueue ------------------------------
(***************************************************************************)
(* What the `Queue` trait promises the rest of the program, whatever the   *)
(* backend: delivery at least once.  A pushed job stays pending until a    *)
(* worker that took it has run it to the end and acknowledged it; until    *)
(* then any idle worker may take it, again if need be, and losing a worker *)
(* never loses the job.  RedisQueue and PgQueue are shown to implement     *)
(* this module, and QueueMode is built on it.                              *)
(***************************************************************************)

CONSTANTS
  Jobs,     \* ids a push may draw (the code draws fresh UUIDs or serials)
  Workers,  \* worker slots: one permit of one worker process each
  NoJob     \* what an idle slot holds, not a job

VARIABLES
  state,    \* "absent" before the push, then "pending", then "done"
  running   \* the job each slot runs, or NoJob

vars == <<state, running>>

TypeOK ==
  /\ state \in [Jobs -> {"absent", "pending", "done"}]
  /\ running \in [Workers -> Jobs \cup {NoJob}]

Init ==
  /\ state = [j \in Jobs |-> "absent"]
  /\ running = [w \in Workers |-> NoJob]

Push(j) ==
  /\ state[j] = "absent"
  /\ state' = [state EXCEPT ![j] = "pending"]
  /\ UNCHANGED running

Take(w, j) ==
  /\ running[w] = NoJob
  /\ state[j] = "pending"
  /\ running' = [running EXCEPT ![w] = j]
  /\ UNCHANGED state

\* The slot has run its job and acknowledges it, possibly after another
\* slot that held the same job did.
Complete(w) ==
  /\ running[w] # NoJob
  /\ state' = [state EXCEPT ![running[w]] = "done"]
  /\ running' = [running EXCEPT ![w] = NoJob]

\* The worker died, or could not acknowledge: the job is as it was.
Lose(w) ==
  /\ running[w] # NoJob
  /\ running' = [running EXCEPT ![w] = NoJob]
  /\ UNCHANGED state

Next ==
  \/ \E j \in Jobs : Push(j)
  \/ \E w \in Workers, j \in Jobs : Take(w, j)
  \/ \E w \in Workers : Complete(w) \/ Lose(w)

Spec == Init /\ [][Next]_vars
=============================================================================
