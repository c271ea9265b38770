----------------------------- MODULE Activation -----------------------------
(***************************************************************************)
(* Which workflows a main serves: src/src/n8n/server/activation.rs         *)
(* registers webhooks and starts timers, server/rest.rs activates, updates *)
(* and deletes workflows, and server/mod.rs reloads them at start-up,      *)
(* follows the leadership of the main, and in multi-main setup polls the   *)
(* database for what other mains did.  All of these run at once and meet   *)
(* at the locks of N8n and at the rows of workflow_entity; one action is   *)
(* one lock section or statement.                                          *)
(*                                                                         *)
(* A registration is the version of the workflow it was made from (n8n     *)
(* versionId; 0: none).  Timers stand for the schedules and the sessions   *)
(* of long-lived triggers, which are started and stopped one after the     *)
(* other at the same places.                                               *)
(***************************************************************************)
EXTENDS MainProcesses, Naturals, FiniteSets

CONSTANTS
  Flows,        \* workflows
  Requests,     \* handlers of REST requests
  Conflicts,    \* sets of two workflows whose webhook paths conflict
  NoFlow,
  MaxRequests,  \* bound on requests, on saves elsewhere, and on registrations
                \* and saves that are refused or dropped
  MaxTurns      \* bound on changes of leadership

ASSUME ConflictsAssumption == Conflicts \subseteq SUBSET Flows
ASSUME NamesAssumption == NoFlow \notin Flows /\ Mains \cap Requests = {}
ASSUME BoundsAssumption == {MaxRequests, MaxTurns} \subseteq Nat

VARIABLES
  row,        \* workflow_entity: active and version, 0 once deleted
  hooks,      \* N8n::webhooks of each main: the versions whose routes are there
  cached,     \* N8n::active of each main
  timers,     \* N8n::schedules and N8n::long_lived_triggers of each main
  leader,     \* LeaderGate::is_leader of each main
  changed,    \* the gate has changed since its task looked
  pc, job,    \* each handler and each main's loop: where it is, and what it does
  todo,       \* each main's loop: workflows still to be looked at
  rows,       \* each main's loop: the rows it read
  tpc, tset,  \* each main's leadership task
  asked, turns,
  disturbed   \* workflows two tasks handled at once (history)

loops == <<todo, rows>>
task == <<tpc, tset>>
vars == <<row, hooks, cached, timers, leader, changed, pc, job, loops, task, asked, turns, disturbed>>

Threads == Requests \cup Mains
Versions == 0 .. MaxRequests + 1
Row == [active : BOOLEAN, version : Versions]

Job == [main : Mains \cup {NoMain}, flow : Flows \cup {NoFlow}, version : Versions,
        off : BOOLEAN,      \* unregister only
        active : BOOLEAN,   \* what will be saved
        gone : BOOLEAN,     \* the row will be deleted
        want : {"keep", "on", "off"}]  \* the state an update asks for afterwards

NoJob == [main |-> NoMain, flow |-> NoFlow, version |-> 0, off |-> FALSE, active |-> FALSE,
          gone |-> FALSE, want |-> "keep"]

NoRows == [w \in Flows |-> [active |-> FALSE, version |-> 0]]

Pc == {"idle", "boot", "next", "stale", "check", "unhook", "uncache", "stop", "hook", "cache", "gate",
       "start", "save", "again"}

TypeOK ==
  /\ row \in [Flows -> Row]
  /\ hooks \in [Mains -> [Flows -> SUBSET Versions]]
  /\ cached \in [Mains -> [Flows -> Versions]]
  /\ timers \in [Mains -> SUBSET Flows]
  /\ leader \in [Mains -> BOOLEAN] /\ changed \in [Mains -> BOOLEAN]
  /\ pc \in [Threads -> Pc] /\ job \in [Threads -> Job]
  /\ \A t \in Threads : pc[t] \in {"check", "hook", "cache", "gate", "start"} => job[t].version # 0
  /\ todo \in [Mains -> SUBSET Flows] /\ rows \in [Mains -> [Flows -> Row]]
  /\ tpc \in [Mains -> {"boot", "idle", "start", "stop"}] /\ tset \in [Mains -> SUBSET Flows]
  /\ asked \in 0..MaxRequests /\ turns \in 0..MaxTurns
  /\ disturbed \in [Mains -> SUBSET Flows]

\* Every main starts: its loop is start_background, its task not yet there.
\* Election::start may have won the lock before.
Init ==
  /\ row \in [Flows -> [active : BOOLEAN, version : {1}]]
  /\ \A c \in Conflicts : \E w \in c : ~row[w].active
  /\ hooks = [m \in Mains |-> [w \in Flows |-> {}]]
  /\ cached = [m \in Mains |-> [w \in Flows |-> 0]]
  /\ timers = [m \in Mains |-> {}]
  /\ leader \in [Mains -> BOOLEAN]
  /\ \A m, n \in Mains : leader[m] /\ leader[n] => m = n
  /\ changed = [m \in Mains |-> FALSE]
  /\ pc = [t \in Threads |-> IF t \in Mains THEN "boot" ELSE "idle"]
  /\ job = [t \in Threads |-> NoJob]
  /\ todo = [m \in Mains |-> {}] /\ rows = [m \in Mains |-> NoRows]
  /\ tpc = [m \in Mains |-> "boot"] /\ tset = [m \in Mains |-> {}]
  /\ asked = 0 /\ turns = 0
  /\ disturbed = [m \in Mains |-> {}]

Go(t, from, to) == pc[t] = from /\ pc' = [pc EXCEPT ![t] = to]

\* Where a thread goes on when its registration is over: a handler saves,
\* a loop turns to the next workflow.
After(t) == IF t \in Requests THEN "save" ELSE IF job[t].off THEN "stale" ELSE "next"

-----------------------------------------------------------------------------
(* register and unregister                                                 *)

InConflict(m, w) == \E c \in Conflicts : w \in c /\ \E v \in c \ {w} : hooks[m][v] # {}

\* A handler answers with an error, a loop warns and turns to the next.
GivesUp(t) == pc' = [pc EXCEPT ![t] = IF t \in Requests THEN "idle" ELSE "next"]

\* A conflict refuses the registration. Otherwise the triggers are
\* validated, which awaits.
Check(t) ==
  /\ pc[t] = "check"
  /\ \/ ~InConflict(job[t].main, job[t].flow) /\ Go(t, "check", "unhook") /\ UNCHANGED job
     \/ /\ InConflict(job[t].main, job[t].flow)
        /\ GivesUp(t)
        /\ job' = [job EXCEPT ![t] = NoJob]
  /\ UNCHANGED <<row, hooks, cached, timers, leader, changed, loops, task, asked, turns, disturbed>>

\* The workflow, its credentials or the host of a trigger are not as they
\* should be, the database refuses a statement, or the request is dropped
\* at an await. What was registered before stays.
Refused(t) ==
  /\ pc[t] = "check" \/ (t \in Requests /\ pc[t] \in {"save", "again"})
  /\ asked < MaxRequests
  /\ asked' = asked + 1
  /\ GivesUp(t)
  /\ job' = [job EXCEPT ![t] = NoJob]
  /\ UNCHANGED <<row, hooks, cached, timers, leader, changed, loops, task, turns, disturbed>>

\* From the first change of unregister to the last one of register.
Handles == {"uncache", "stop", "hook", "cache", "gate", "start"}

Handling(t, m, w) == job[t].main = m /\ job[t].flow = w /\ pc[t] \in Handles

\* unregister: all routes of the workflow go first, ...
Unhook(t) ==
  LET m == job[t].main
      w == job[t].flow
  IN
  /\ Go(t, "unhook", "uncache")
  /\ hooks' = [hooks EXCEPT ![m][w] = {}]
  /\ disturbed' = IF \E u \in Threads \ {t} : Handling(u, m, w)
                  THEN [disturbed EXCEPT ![m] = @ \cup {w}] ELSE disturbed
  /\ UNCHANGED <<row, cached, timers, leader, changed, job, loops, task, asked, turns>>

\* ... then the cached workflow, ...
Uncache(t) ==
  /\ Go(t, "uncache", "stop")
  /\ cached' = [cached EXCEPT ![job[t].main][job[t].flow] = 0]
  /\ UNCHANGED <<row, hooks, timers, leader, changed, job, loops, task, asked, turns, disturbed>>

\* ... then its timers.
Stop(t) ==
  /\ Go(t, "stop", IF job[t].off THEN After(t) ELSE "hook")
  /\ timers' = [timers EXCEPT ![job[t].main] = @ \ {job[t].flow}]
  /\ UNCHANGED <<row, hooks, cached, leader, changed, job, loops, task, asked, turns, disturbed>>

\* Routes are added to those that are there.
Hook(t) ==
  /\ Go(t, "hook", "cache")
  /\ hooks' = [hooks EXCEPT ![job[t].main][job[t].flow] = @ \cup {job[t].version}]
  /\ UNCHANGED <<row, cached, timers, leader, changed, job, loops, task, asked, turns, disturbed>>

Cache(t) ==
  /\ Go(t, "cache", "gate")
  /\ cached' = [cached EXCEPT ![job[t].main][job[t].flow] = job[t].version]
  /\ UNCHANGED <<row, hooks, timers, leader, changed, job, loops, task, asked, turns, disturbed>>

ReadGate(t) ==
  /\ Go(t, "gate", IF leader[job[t].main] THEN "start" ELSE After(t))
  /\ UNCHANGED <<row, hooks, cached, timers, leader, changed, job, loops, task, asked, turns, disturbed>>

\* The gate may have closed since it was read.
StartTimers(t) ==
  LET m == job[t].main
      w == job[t].flow
  IN
  /\ Go(t, "start", After(t))
  /\ timers' = [timers EXCEPT ![m] = @ \cup {w}]
  /\ disturbed' = IF leader[m] THEN disturbed ELSE [disturbed EXCEPT ![m] = @ \cup {w}]
  /\ UNCHANGED <<row, hooks, cached, leader, changed, job, loops, task, asked, turns>>

Registering(t) ==
  Check(t) \/ Unhook(t) \/ Uncache(t) \/ Stop(t) \/ Hook(t) \/ Cache(t) \/ ReadGate(t)
  \/ StartTimers(t)

-----------------------------------------------------------------------------
(* The handlers of rest.rs, which work on the row they read first          *)

\* An update that also switches the workflow on or off counts twice.
Weight(j) == IF j.want = "keep" THEN 1 ELSE 2

\* Mutant: the row is not looked for first.
AskUnseen(r, m, w, j, to) ==
  /\ Go(r, "idle", to)
  /\ tpc[m] # "boot"
  /\ asked + Weight(j) <= MaxRequests
  /\ asked' = asked + Weight(j)
  /\ job' = [job EXCEPT ![r] = [j EXCEPT !.main = m, !.flow = w]]
  /\ UNCHANGED <<row, hooks, cached, timers, leader, changed, loops, task, turns, disturbed>>

Ask(r, m, w, j, to) ==
  /\ Go(r, "idle", to)
  /\ tpc[m] # "boot"
  /\ row[w].version # 0
  /\ asked + Weight(j) <= MaxRequests
  /\ asked' = asked + Weight(j)
  /\ job' = [job EXCEPT ![r] = [j EXCEPT !.main = m, !.flow = w]]
  /\ UNCHANGED <<row, hooks, cached, timers, leader, changed, loops, task, turns, disturbed>>

Activate(r, m, w) ==
  Ask(r, m, w, [NoJob EXCEPT !.version = row[w].version, !.active = TRUE], "check")

Deactivate(r, m, w) ==
  Ask(r, m, w, [NoJob EXCEPT !.version = row[w].version, !.off = TRUE], "unhook")

\* A new version: an active workflow is registered before it is saved,
\* unless the update also deactivates it.
Update(r, m, w, want) ==
  Ask(r, m, w, [NoJob EXCEPT !.version = asked + 2, !.active = row[w].active, !.want = want],
      IF row[w].active /\ want # "off" THEN "check" ELSE "save")

Delete(r, m, w) ==
  Ask(r, m, w, [NoJob EXCEPT !.off = TRUE, !.gone = TRUE], "unhook")

\* save_workflow writes the row as it was read, or delete_workflow.
Save(r) ==
  LET j == job[r] IN
  /\ Go(r, "save", IF j.want = "keep" THEN "idle" ELSE "again")
  /\ row' = [row EXCEPT ![j.flow] =
       IF j.gone THEN [active |-> FALSE, version |-> 0]
       ELSE [active |-> j.active, version |-> j.version]]
  /\ job' = [job EXCEPT ![r] =
       IF j.want = "keep" THEN NoJob
       ELSE [NoJob EXCEPT !.main = j.main, !.flow = j.flow, !.want = j.want]]
  /\ UNCHANGED <<hooks, cached, timers, leader, changed, loops, task, asked, turns, disturbed>>

\* An update reads the row again and activates or deactivates the workflow.
Again(r) ==
  LET j == job[r]
      now == row[j.flow]
      turn == [NoJob EXCEPT !.main = j.main, !.flow = j.flow, !.version = now.version]
  IN
  /\ pc[r] = "again"
  /\ \/ /\ j.want = "on" /\ ~now.active /\ now.version # 0
        /\ Go(r, "again", "check")
        /\ job' = [job EXCEPT ![r] = [turn EXCEPT !.active = TRUE]]
     \/ /\ j.want = "off" /\ now.active
        /\ Go(r, "again", "unhook")
        /\ job' = [job EXCEPT ![r] = [turn EXCEPT !.off = TRUE]]
     \/ /\ now.version = 0 \/ (j.want = "on") = now.active
        /\ Go(r, "again", "idle")
        /\ job' = [job EXCEPT ![r] = NoJob]
  /\ UNCHANGED <<row, hooks, cached, timers, leader, changed, loops, task, asked, turns, disturbed>>

\* A main that is not modelled saves a row: activated, deactivated, edited.
SaveElsewhere(w, active, version) ==
  /\ asked < MaxRequests
  /\ asked' = asked + 1
  /\ row[w].version # 0
  /\ version \in {row[w].version, asked + 2}
  /\ row' = [row EXCEPT ![w] = [active |-> active, version |-> version]]
  /\ UNCHANGED <<hooks, cached, timers, leader, changed, pc, job, loops, task, turns, disturbed>>

-----------------------------------------------------------------------------
(* The loop of a main: start_background, then sync_registrations           *)

ReadRows(m) ==
  /\ pc[m] \in {"idle", "boot"}
  /\ pc' = [pc EXCEPT ![m] = "next"]
  /\ rows' = [rows EXCEPT ![m] = row]
  /\ todo' = [todo EXCEPT ![m] = {w \in Flows : row[w].active}]
  /\ UNCHANGED <<row, hooks, cached, timers, leader, changed, job, task, asked, turns, disturbed>>

\* One active row: registered unless the version in the cache is the same.
Look(m, w) ==
  /\ pc[m] = "next" /\ w \in todo[m]
  /\ todo' = [todo EXCEPT ![m] = @ \ {w}]
  /\ IF cached[m][w] = rows[m][w].version
     THEN UNCHANGED <<pc, job>>
     ELSE /\ pc' = [pc EXCEPT ![m] = "check"]
          /\ job' = [job EXCEPT ![m] =
               [NoJob EXCEPT !.main = m, !.flow = w, !.version = rows[m][w].version]]
  /\ UNCHANGED <<row, hooks, cached, timers, leader, changed, rows, task, asked, turns, disturbed>>

\* Mutant: the subscription counts the gate's value as seen.
LookedAtAllSeen(m) ==
  /\ todo[m] = {}
  /\ IF tpc[m] = "boot"
     THEN /\ Go(m, "next", "idle")
          /\ tpc' = [tpc EXCEPT ![m] = "idle"]
          /\ changed' = [changed EXCEPT ![m] = FALSE]
          /\ UNCHANGED todo
     ELSE /\ Go(m, "next", "stale")
          /\ todo' = [todo EXCEPT ![m] = {w \in Flows : cached[m][w] # 0 /\ ~rows[m][w].active}]
          /\ UNCHANGED <<tpc, changed>>
  /\ job' = [job EXCEPT ![m] = NoJob]
  /\ rows' = [rows EXCEPT ![m] = NoRows]
  /\ UNCHANGED <<row, hooks, cached, timers, leader, tset, asked, turns, disturbed>>

\* At start-up the leadership task is spawned next: its receiver is a clone
\* of the gate's, which has seen nothing since Election::start. Later, what
\* is cached by now and was not among the active rows is stale.
LookedAtAll(m) ==
  /\ todo[m] = {}
  /\ IF tpc[m] = "boot"
     THEN /\ Go(m, "next", "idle")
          /\ tpc' = [tpc EXCEPT ![m] = "idle"]
          /\ UNCHANGED todo
     ELSE /\ Go(m, "next", "stale")
          /\ todo' = [todo EXCEPT ![m] = {w \in Flows : cached[m][w] # 0 /\ ~rows[m][w].active}]
          /\ UNCHANGED tpc
  /\ job' = [job EXCEPT ![m] = NoJob]
  /\ rows' = [rows EXCEPT ![m] = NoRows]
  /\ UNCHANGED <<row, hooks, cached, timers, leader, changed, tset, asked, turns, disturbed>>

\* Mutant: nothing is stale.
DropNone(m, w) ==
  /\ pc[m] = "stale" /\ w \in todo[m]
  /\ todo' = [todo EXCEPT ![m] = @ \ {w}]
  /\ UNCHANGED <<row, hooks, cached, timers, leader, changed, pc, job, rows, task, asked, turns, disturbed>>

Drop(m, w) ==
  /\ Go(m, "stale", "unhook") /\ w \in todo[m]
  /\ todo' = [todo EXCEPT ![m] = @ \ {w}]
  /\ job' = [job EXCEPT ![m] = [NoJob EXCEPT !.main = m, !.flow = w, !.off = TRUE]]
  /\ UNCHANGED <<row, hooks, cached, timers, leader, changed, rows, task, asked, turns, disturbed>>

SyncOver(m) ==
  /\ Go(m, "stale", "idle")
  /\ todo[m] = {}
  /\ job' = [job EXCEPT ![m] = NoJob]
  /\ UNCHANGED <<row, hooks, cached, timers, leader, changed, loops, task, asked, turns, disturbed>>

Loop(m) ==
  \/ ReadRows(m) \/ LookedAtAll(m) \/ SyncOver(m)
  \/ \E w \in Flows : Look(m, w) \/ Drop(m, w)

-----------------------------------------------------------------------------
(* Leadership: the gate, set by the election, and the task that follows it *)

Turn(m, lead) ==
  /\ turns < MaxTurns
  /\ turns' = turns + 1
  /\ leader[m] # lead
  /\ lead => \A n \in Mains : ~leader[n]
  /\ leader' = [leader EXCEPT ![m] = lead]
  /\ changed' = [changed EXCEPT ![m] = TRUE]
  /\ UNCHANGED <<row, hooks, cached, timers, pc, job, loops, task, asked, disturbed>>

\* changed() coalesces: the task sees the gate as it is by now.
Wake(m) ==
  /\ tpc[m] = "idle" /\ changed[m]
  /\ changed' = [changed EXCEPT ![m] = FALSE]
  /\ tpc' = [tpc EXCEPT ![m] = IF leader[m] THEN "start" ELSE "stop"]
  /\ tset' = [tset EXCEPT ![m] =
       IF leader[m] THEN {w \in Flows : cached[m][w] # 0} ELSE timers[m]]
  /\ UNCHANGED <<row, hooks, cached, timers, leader, pc, job, loops, asked, turns, disturbed>>

\* Takeover starts the timers of the workflows that were cached when it
\* looked; one may have been unregistered since.
Takeover(m, w) ==
  /\ tpc[m] = "start" /\ w \in tset[m]
  /\ tset' = [tset EXCEPT ![m] = @ \ {w}]
  /\ timers' = [timers EXCEPT ![m] = @ \cup {w}]
  /\ disturbed' = IF cached[m][w] = 0 THEN [disturbed EXCEPT ![m] = @ \cup {w}] ELSE disturbed
  /\ UNCHANGED <<row, hooks, cached, leader, changed, pc, job, loops, tpc, asked, turns>>

Stepdown(m, w) ==
  /\ tpc[m] = "stop" /\ w \in tset[m]
  /\ tset' = [tset EXCEPT ![m] = @ \ {w}]
  /\ timers' = [timers EXCEPT ![m] = @ \ {w}]
  /\ UNCHANGED <<row, hooks, cached, leader, changed, pc, job, loops, tpc, asked, turns, disturbed>>

TaskOver(m) ==
  /\ tpc[m] \in {"start", "stop"} /\ tset[m] = {}
  /\ tpc' = [tpc EXCEPT ![m] = "idle"]
  /\ UNCHANGED <<row, hooks, cached, timers, leader, changed, pc, job, loops, tset, asked, turns, disturbed>>

Task(m) == Wake(m) \/ TaskOver(m) \/ \E w \in Flows : Takeover(m, w) \/ Stepdown(m, w)

-----------------------------------------------------------------------------
Next ==
  \/ \E t \in Threads : Registering(t) \/ Refused(t)
  \/ \E r \in Requests : Save(r) \/ Again(r)
  \/ \E r \in Requests, m \in Mains, w \in Flows :
       Activate(r, m, w) \/ Deactivate(r, m, w) \/ Delete(r, m, w)
       \/ \E want \in {"keep", "on", "off"} : Update(r, m, w, want)
  \/ \E w \in Flows, active \in BOOLEAN, version \in Versions : SaveElsewhere(w, active, version)
  \/ \E m \in Mains : Loop(m) \/ Task(m) \/ \E lead \in BOOLEAN : Turn(m, lead)

Spec == Init /\ [][Next]_vars

\* Handlers, loops and tasks are polled; the loop's interval keeps ticking.
FairSpec ==
  /\ Spec
  /\ \A t \in Threads : WF_vars(Registering(t))
  /\ \A r \in Requests : WF_vars(Save(r) \/ Again(r))
  /\ \A m \in Mains : WF_vars(Loop(m)) /\ WF_vars(Task(m))

-----------------------------------------------------------------------------
(* Properties                                                              *)

\* No registration, no unregistration and no change of leadership is under
\* way in m.
Settled(m) ==
  /\ tpc[m] = "idle" /\ ~changed[m]
  /\ \A t \in Threads : job[t].main = m => pc[t] \notin Handles

\* Schedules and triggers run on the leader alone, for what it has active:
\* activations, updates, the poll of the database, start-up, takeover and
\* stepdown race, and yet once they are over a main has the timers of a
\* workflow exactly if it leads and has it in its cache. Excepted are
\* workflows that two tasks of the main handled at the same moment, which
\* the code does not keep apart.
TimersFollowLeader ==
  \A m \in Mains : Settled(m) =>
    \A w \in Flows \ disturbed[m] : w \in timers[m] <=> leader[m] /\ cached[m][w] # 0

\* What may refuse w for ever: a conflicting workflow that was saved as
\* active too, or one with routes that nothing removes.
Opposed(m, w) ==
  \E c \in Conflicts : w \in c /\ \E v \in c \ {w} : row[v].active \/ v \in disturbed[m]

SavedVersion(w) == IF row[w].active THEN row[w].version ELSE 0

\* sync_registrations 273-276: mains share a database, and once requests and
\* refusals have stopped each main has the active workflows cached as saved,
\* and no other, whichever main they were made through and whatever was
\* registered or dropped in between. It then has the routes of that version
\* of a workflow and no others, unless two tasks of the main registered or
\* unregistered the workflow at the same moment: the poll looks at the cache
\* only, so routes that such a race left or took away stay so.
Converges ==
  \A m \in Mains, w \in Flows :
    <>[](\/ Opposed(m, w)
        \/ /\ cached[m][w] = SavedVersion(w)
           /\ w \in disturbed[m] \/ hooks[m][w] = {SavedVersion(w)} \ {0})
=============================================================================
