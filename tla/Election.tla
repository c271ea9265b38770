------------------------------ MODULE Election ------------------------------
(***************************************************************************)
(* Leader election between main processes (src/src/n8n/election.rs): a     *)
(* Redis key with a TTL, claimed with SET NX EX and renewed by its holder  *)
(* every check interval; only the leader runs schedules and pollers.       *)
(*                                                                         *)
(* Time is discrete.  A call reaches Redis and is answered within MaxDelay *)
(* ticks, or fails: at once when the process is cut off, or by             *)
(* with_timeout when it has hung for an interval.                          *)
(***************************************************************************)
EXTENDS MainProcesses, Integers

CONSTANTS
  Ttl,          \* N8N_MULTI_MAIN_SETUP_KEY_TTL
  Lease,        \* ElectionBackend::lease, 80 percent of it
  Interval,     \* N8N_MULTI_MAIN_SETUP_CHECK_INTERVAL
  MaxDelay,     \* ticks a call may stay under way: 0, or Interval if it may hang
  MaxCuts,      \* bound on a main's losing its connection to Redis
  MaxStops      \* bound on crashes and shutdowns

ASSUME TimesAssumption == {Ttl, Lease, Interval} \subseteq Nat \ {0}
ASSUME DelayAssumption == MaxDelay \in 0..Interval
ASSUME ElectionBounds == {MaxCuts, MaxStops} \subseteq Nat

VARIABLES
  owner, keyLeft,   \* the key: who holds it, and the ticks until it expires
  proc,             \* each main: "down", "starting", "up", "leaving"
  gate,             \* each main: what its LeaderGate says
  held,             \* each main: ticks since last_held
  next,             \* each main: ticks until the next check is due
  call, age,        \* each main: the call under way, and its age in ticks
  cut,              \* mains that cannot reach Redis
  cuts, stops

key == <<owner, keyLeft>>
main == <<proc, gate, held, next, call, age>>
electionVars == <<key, main, cut, cuts, stops>>

ElectionTypeOK ==
  /\ owner \in Mains \cup {NoMain}
  /\ keyLeft \in 0..Ttl
  /\ proc \in [Mains -> {"down", "starting", "up", "leaving"}]
  /\ gate \in [Mains -> BOOLEAN]
  /\ held \in [Mains -> 0..Ttl]
  /\ next \in [Mains -> 0..Interval]
  /\ call \in [Mains -> {"none", "sent", "yes", "no"}]
  /\ age \in [Mains -> 0..MaxDelay]
  /\ cut \subseteq Mains
  /\ cuts \in 0..MaxCuts
  /\ stops \in 0..MaxStops

ElectionInit ==
  /\ owner = NoMain
  /\ keyLeft = 0
  /\ proc = [m \in Mains |-> "down"]
  /\ gate = [m \in Mains |-> FALSE]
  /\ held = [m \in Mains |-> 0]
  /\ next = [m \in Mains |-> 0]
  /\ call = [m \in Mains |-> "none"]
  /\ age = [m \in Mains |-> 0]
  /\ cut = {}
  /\ cuts = 0
  /\ stops = 0

-----------------------------------------------------------------------------
(* A main process                                                          *)

\* Election::start makes the first bid.
Start(m) ==
  /\ proc[m] = "down"
  /\ proc' = [proc EXCEPT ![m] = "starting"]
  /\ call' = [call EXCEPT ![m] = "sent"]
  /\ age' = [age EXCEPT ![m] = 0]
  /\ UNCHANGED <<key, gate, held, next, cut, cuts, stops>>

\* The interval elapsed: check() calls renew or try_acquire.  The next check
\* is due an interval after this one was.
StartCheck(m) ==
  /\ proc[m] = "up" /\ call[m] = "none" /\ next[m] = 0
  /\ call' = [call EXCEPT ![m] = "sent"]
  /\ age' = [age EXCEPT ![m] = 0]
  /\ next' = [next EXCEPT ![m] = Interval]
  /\ UNCHANGED <<key, proc, gate, held, cut, cuts, stops>>

\* Redis runs the call: RENEW_SCRIPT for a leader, SET NX EX for a follower.
Serve(m) ==
  /\ call[m] = "sent"
  /\ m \notin cut
  /\ LET granted == IF gate[m] THEN owner = m ELSE owner = NoMain IN
     /\ call' = [call EXCEPT ![m] = IF granted THEN "yes" ELSE "no"]
     /\ owner' = IF granted THEN m ELSE owner
     /\ keyLeft' = IF granted THEN Ttl ELSE keyLeft
  /\ UNCHANGED <<proc, gate, held, next, age, cut, cuts, stops>>

\* The initial bid creates last_held and the interval, whatever its answer.
CallOver(m) ==
  /\ call' = [call EXCEPT ![m] = "none"]
  /\ age' = [age EXCEPT ![m] = 0]
  /\ proc' = [proc EXCEPT ![m] = "up"]
  /\ next' = [next EXCEPT ![m] = IF proc[m] = "starting" THEN Interval ELSE @]

\* Mutant: a follower that takes the lock after its first bid does not
\* learn that it leads.
AnsweredAtStart(m) ==
  /\ call[m] \in {"yes", "no"}
  /\ m \notin cut
  /\ gate' = [gate EXCEPT ![m] = call[m] = "yes" /\ (@ \/ proc[m] = "starting")]
  /\ held' = [held EXCEPT ![m] = IF call[m] = "yes" \/ proc[m] = "starting" THEN 0 ELSE @]
  /\ CallOver(m)
  /\ UNCHANGED <<key, cut, cuts, stops>>

Answered(m) ==
  /\ call[m] \in {"yes", "no"}
  /\ m \notin cut
  /\ gate' = [gate EXCEPT ![m] = call[m] = "yes"]
  /\ held' = [held EXCEPT ![m] = IF call[m] = "yes" \/ proc[m] = "starting" THEN 0 ELSE @]
  /\ CallOver(m)
  /\ UNCHANGED <<key, cut, cuts, stops>>

\* Mutant: a leader that cannot reach Redis leads on.
FailedLeadsOn(m) ==
  /\ call[m] # "none"
  /\ m \in cut \/ age[m] = Interval
  /\ held' = [held EXCEPT ![m] = IF proc[m] = "starting" THEN 0 ELSE @]
  /\ CallOver(m)
  /\ UNCHANGED <<key, gate, cut, cuts, stops>>

\* The call failed, or hung for an interval: a leader holds on while the
\* lock it last held cannot have expired.
Failed(m) ==
  /\ call[m] # "none"
  /\ m \in cut \/ age[m] = Interval
  /\ gate' = [gate EXCEPT ![m] = @ /\ held[m] < Lease]
  /\ held' = [held EXCEPT ![m] = IF proc[m] = "starting" THEN 0 ELSE @]
  /\ CallOver(m)
  /\ UNCHANGED <<key, cut, cuts, stops>>

Gone(m) ==
  /\ gate' = [gate EXCEPT ![m] = FALSE]
  /\ held' = [held EXCEPT ![m] = 0]
  /\ next' = [next EXCEPT ![m] = 0]
  /\ call' = [call EXCEPT ![m] = "none"]
  /\ age' = [age EXCEPT ![m] = 0]

\* The process dies; the key stays.
Crash(m) ==
  /\ proc[m] # "down"
  /\ stops < MaxStops
  /\ stops' = stops + 1
  /\ proc' = [proc EXCEPT ![m] = "down"]
  /\ Gone(m)
  /\ UNCHANGED <<key, cut, cuts>>

\* release_leadership: the checker is aborted, and a leader runs
\* RELEASE_SCRIPT, if Redis can be reached.
Shutdown(m) ==
  /\ proc[m] = "up"
  /\ stops < MaxStops
  /\ stops' = stops + 1
  /\ proc' = [proc EXCEPT ![m] = "leaving"]
  /\ call' = [call EXCEPT ![m] = "none"]
  /\ age' = [age EXCEPT ![m] = 0]
  /\ IF gate[m] /\ owner = m /\ m \notin cut
     THEN owner' = NoMain /\ keyLeft' = 0
     ELSE UNCHANGED key
  /\ UNCHANGED <<gate, held, next, cut, cuts>>

\* The process has returned from main.
Exit(m) ==
  /\ proc[m] = "leaving"
  /\ proc' = [proc EXCEPT ![m] = "down"]
  /\ Gone(m)
  /\ UNCHANGED <<key, cut, cuts, stops>>

-----------------------------------------------------------------------------
(* The connection to Redis, and time                                       *)

Cut(m) ==
  /\ m \notin cut
  /\ cuts < MaxCuts
  /\ cuts' = cuts + 1
  /\ cut' = cut \cup {m}
  /\ UNCHANGED <<key, main, stops>>

Heal(m) ==
  /\ m \in cut
  /\ cut' = cut \ {m}
  /\ UNCHANGED <<key, main, cuts, stops>>

\* No process stalls: a check starts when it is due, a call ends in time,
\* and a process that released the lock exits.
Due(m) ==
  \/ proc[m] = "up" /\ call[m] = "none" /\ next[m] = 0
  \/ call[m] # "none" /\ age[m] = MaxDelay
  \/ proc[m] = "leaving"

Tick ==
  /\ \A m \in Mains : ~Due(m)
  /\ keyLeft' = IF keyLeft > 0 THEN keyLeft - 1 ELSE 0
  /\ owner' = IF keyLeft > 1 THEN owner ELSE NoMain
  /\ held' = [m \in Mains |-> IF gate[m] /\ held[m] < Ttl THEN held[m] + 1 ELSE held[m]]
  /\ next' = [m \in Mains |-> IF next[m] > 0 THEN next[m] - 1 ELSE 0]
  /\ age' = [m \in Mains |-> IF call[m] # "none" THEN age[m] + 1 ELSE age[m]]
  /\ UNCHANGED <<proc, gate, call, cut, cuts, stops>>

-----------------------------------------------------------------------------
MainNext(m) == Start(m) \/ StartCheck(m) \/ Serve(m) \/ Answered(m) \/ Failed(m) \/ Exit(m)

ElectionNext ==
  \/ \E m \in Mains : MainNext(m) \/ Crash(m) \/ Shutdown(m) \/ Cut(m) \/ Heal(m)
  \/ Tick

ElectionSpec == ElectionInit /\ [][ElectionNext]_electionVars

\* Processes are restarted, run on time and regain Redis, and time passes.
Fairness ==
  /\ \A m \in Mains : WF_electionVars(MainNext(m)) /\ WF_electionVars(Heal(m))
  /\ WF_electionVars(Tick)

FairElection == ElectionSpec /\ Fairness

-----------------------------------------------------------------------------
(* Properties                                                              *)

\* A process leads while its gate is open, until it starts to exit.
Leads(m) == gate[m] /\ proc[m] = "up"

\* A main that leads holds an unexpired lock, as long as each call is answered
\* or fails at once, whichever do (MaxDelay = 0): so no two mains run the
\* schedules at once (election.rs 61-63, 88-91).  A call that hangs for up to
\* an interval is left out: during it a lock may pass on.
LeaderHoldsLock == \A m \in Mains : Leads(m) => owner = m

\* When no main leads - the leader died, was cut off, or stepped down - one
\* eventually does: no answer lost on the way leaves the lock with a main
\* that does not know it holds it for ever.
Led == \E m \in Mains : Leads(m)
EventuallyLed == []<>Led
=============================================================================
