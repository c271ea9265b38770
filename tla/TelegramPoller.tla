--------------------------- MODULE TelegramPoller ---------------------------
(***************************************************************************)
(* The Telegram trigger of the legacy engine, for one workflow and its     *)
(* bot: telegram_poller.rs polls getUpdates and hands each update to a     *)
(* worker of its chat, which runs the workflow (execution_runner.rs);      *)
(* api/workflows.rs switches the workflow on and off and deletes it,       *)
(* triggers.rs and trigger_registry.rs start and abort the poller, and     *)
(* start it again when the process does.  One action is what a task does   *)
(* between two awaits; the tasks and the workers run on several threads.   *)
(*                                                                         *)
(* Telegram itself is external: it keeps updates until a getUpdates with a *)
(* higher offset arrives, and answers with those from the offset on.       *)
(***************************************************************************)
EXTENDS Naturals, Sequences, SequencesExt, FiniteSets

CONSTANTS
  Updates,    \* update ids, 1..n: an upper bound of what is sent
  Doubtful,   \* updates that some configurations of the trigger leave out
  Chats,
  ChatOf,     \* the chat of an update (chat_key)
  Pollers,    \* identities of poller tasks, 1..n, used in this order
  Handlers,   \* handlers of API requests
  MaxAsks,    \* bound on API requests
  MaxFaults   \* bound on failing calls (storage, credentials, Telegram), dropped
              \* requests, restarts and idle timeouts of chat workers, together

ASSUME UpdatesAssumption == IsFiniteSet(Updates) /\ Updates = 1..Cardinality(Updates)
ASSUME DoubtfulAssumption == Doubtful \subseteq Updates
ASSUME ChatAssumption == ChatOf \in [Updates -> Chats]
\* Each request and each restart starts at most one poller, and so may Init.
ASSUME PollersAssumption == 
  IsFiniteSet(Pollers) /\ Pollers = 1..Cardinality(Pollers) /\ Cardinality(Pollers) > MaxAsks + MaxFaults
ASSUME BoundsAssumption == {MaxAsks, MaxFaults} \subseteq Nat

VARIABLES
  row,        \* the workflow in storage: on (active), off or gone
  registry,   \* TriggerRegistry::telegram_polls: the poller, 0 for none
  handler,    \* each request: what it does and what it has done
  sent,       \* Telegram: the last update sent to the bot
  floor,      \* Telegram: updates below it are confirmed
  poller,     \* poll_telegram_updates of each poller
  route,      \* ChatQueues::workers of each poller: a chat's channel, 0 for none
  worker,     \* chat_worker; named for its poller and the update it began with
  dispatched, \* history: updates each poller handed to a worker
  done,       \* history: jobs that were run, could not be persisted or died
  refused,    \* history: updates the filter or the restrictions left out
  dark,       \* history: a failed or dropped call left row and registry apart
  overlapped, \* history: two requests were under way at once
  asks, faults

chats == <<route, worker>>
history == <<dispatched, done, refused>>
budget == <<asks, faults>>
api == <<registry, handler, dark, overlapped>>
vars == <<row, api, sent, floor, poller, chats, history, budget>>

Workers == Pollers \X Updates
Jobs == Pollers \X Updates

NoPoller == [at |-> "none", offset |-> 0, next |-> 1, last |-> 0, aborted |-> FALSE]
Over == [NoPoller EXCEPT !.at = "over"]
NoWorker == [at |-> "none", queue |-> <<>>, closed |-> FALSE]
Gone == [NoWorker EXCEPT !.at = "over"]
Free == [at |-> "idle", op |-> "on"]

Awaits == {"read", "ask", "poll", "reread"}

TypeOK ==
  /\ row \in {"on", "off", "gone"}
  /\ registry \in Pollers \cup {0}
  /\ handler \in [Handlers -> [at : {"idle", "turn", "write", "undo"}, op : {"on", "off", "gone"}]]
  /\ sent \in Updates \cup {0} /\ floor \in 1 .. sent + 1
  /\ \A p \in Pollers :
       /\ poller[p].at \in Awaits \cup {"none", "dispatch", "over"}
       /\ poller[p].offset \in 0 .. sent + 1
       /\ poller[p].last <= sent /\ poller[p].next <= poller[p].last + 1
       /\ poller[p].aborted => poller[p].at \in {"dispatch", "over"}
       /\ \A c \in Chats : route[p][c] # 0 => ChatOf[route[p][c]] = c
  /\ \A k \in Workers :
       /\ worker[k].at \in {"none", "wait", "late", "run", "over"}
       /\ worker[k].queue \in Seq(Updates)
       /\ \A u \in ToSet(worker[k].queue) : ChatOf[u] = ChatOf[k[2]]
  /\ dispatched \cup done \subseteq Jobs /\ refused \subseteq Doubtful
  /\ dark \in BOOLEAN /\ overlapped \in BOOLEAN
  /\ asks <= MaxAsks  /\ faults <= MaxFaults

\* The server has just started: reactivate_all has started the poller of a
\* workflow that is on.
Init ==
  /\ row \in {"on", "off"} /\ registry = IF row = "on" THEN 1 ELSE 0
  /\ handler = [h \in Handlers |-> Free]
  /\ sent = 0 /\ floor = 1
  /\ poller = [p \in Pollers |-> IF p = registry THEN [NoPoller EXCEPT !.at = "ask"] ELSE NoPoller]
  /\ route = [p \in Pollers |-> [c \in Chats |-> 0]]
  /\ worker = [k \in Workers |-> NoWorker]
  /\ dispatched = {} /\ done = {} /\ refused = {}
  /\ dark = FALSE /\ overlapped = FALSE
  /\ asks = 0 /\ faults = 0

\* A call fails, the process ends or a worker has idled for five minutes.
Fault == faults < MaxFaults /\ faults' = faults + 1 /\ UNCHANGED asks

NextPoller == CHOOSE p \in Pollers : poller[p].at = "none" /\ \A q \in 1..p-1 : poller[q].at # "none"

-----------------------------------------------------------------------------
(* Telegram                                                                *)

Send ==
  /\ sent + 1 \in Updates
  /\ sent' = sent + 1
  /\ UNCHANGED <<row, api, floor, poller, chats, history, budget>>

-----------------------------------------------------------------------------
(* Starting and aborting the poller                                        *)

\* activate_telegram_trigger: spawn, then record; the first iteration
\* trusts the caller's workflow. A poller recorded before is not aborted.
Spawned ==
  /\ poller' = [poller EXCEPT ![NextPoller] = [NoPoller EXCEPT !.at = "ask"]]
  /\ registry' = NextPoller

\* Mutant: the task is only asked to stop.
AbortAsked(p) == [poller[p] EXCEPT !.aborted = TRUE]

\* An abort takes effect where the task awaits, not in the dispatch loop.
Abort(p) ==
  IF poller[p].at = "dispatch" THEN [poller[p] EXCEPT !.aborted = TRUE]
  ELSE Over

\* deactivate_workflow_triggers.
Aborted ==
  /\ poller' = IF registry = 0 THEN poller ELSE [poller EXCEPT ![registry] = Abort(registry)]
  /\ registry' = 0

-----------------------------------------------------------------------------
(* set_workflow_active and delete_workflow                                 *)

Hand(h, from, to) == handler[h].at = from /\ handler' = [handler EXCEPT ![h].at = to]

\* The row is read; nothing is done if it is as wanted, or gone. Deleting
\* turns the triggers off only if the row was active.
Request(h, op) ==
  /\ handler[h].at = "idle"
  /\ asks < MaxAsks
  /\ asks' = asks + 1
  /\ row \notin {op, "gone"}
  /\ handler' = [handler EXCEPT ![h] =
       [at |-> IF op = "gone" /\ row = "off" THEN "write" ELSE "turn", op |-> op]]
  /\ overlapped' = (overlapped \/ \E g \in Handlers \ {h} : handler[g].at # "idle")
  /\ UNCHANGED <<row, registry, dark, sent, floor, poller, chats, history, faults>>

\* Refused, or dropped where it awaits the credentials, it has started nothing.
TurnOn(h) ==
  /\ handler[h].op = "on"
  /\ \/ Hand(h, "turn", "write") /\ Spawned /\ UNCHANGED budget
     \/ Hand(h, "turn", "idle") /\ Fault /\ UNCHANGED <<registry, poller>>
  /\ UNCHANGED <<row, dark, overlapped, sent, floor, chats, history>>

TurnOff(h) ==
  /\ handler[h].op # "on"
  /\ Hand(h, "turn", "write")
  /\ Aborted
  /\ UNCHANGED <<row, dark, overlapped, sent, floor, chats, history, budget>>

\* Updating or deleting no row is no error. The request may have been dropped
\* with the write on its way.
WriteRow(h) ==
  /\ Hand(h, "write", "idle")
  /\ row' = IF row = "gone" THEN row ELSE handler[h].op
  /\ UNCHANGED <<registry, dark, overlapped, sent, floor, poller, chats, history, budget>>

\* The database answers with an error.
UpdateFails(h) ==
  /\ handler[h].op # "gone"
  /\ Hand(h, "write", "undo") /\ Fault
  /\ UNCHANGED <<row, registry, dark, overlapped, sent, floor, poller, chats, history>>

\* A failed delete is only logged: the row may stay on, its poller gone.
DeleteFails(h) ==
  /\ handler[h].op = "gone"
  /\ Hand(h, "write", "idle") /\ Fault
  /\ dark' = TRUE
  /\ UNCHANGED <<row, registry, overlapped, sent, floor, poller, chats, history>>

\* The client goes away, and the request is dropped where it awaits the write:
\* nothing is written, and nothing is switched back.
Dropped(h) ==
  /\ Hand(h, "write", "idle") /\ Fault
  /\ dark' = TRUE
  /\ UNCHANGED <<row, registry, overlapped, sent, floor, poller, chats, history>>

\* Mutant: what was started or aborted stays so.
UndoNothing(h) ==
  /\ Hand(h, "undo", "idle")
  /\ UNCHANGED <<row, registry, poller, budget, dark, overlapped, sent, floor, chats, history>>

\* The compensating action. Starting the poller again is best effort: it is
\* refused, or dropped where it awaits the credentials. Aborting does not await.
Undo(h) ==
  /\ Hand(h, "undo", "idle")
  /\ \/ handler[h].op = "on" /\ Aborted /\ UNCHANGED <<dark, budget>>
     \/ handler[h].op = "off" /\ Spawned /\ UNCHANGED <<dark, budget>>
     \/ handler[h].op = "off" /\ Fault /\ dark' = TRUE /\ UNCHANGED <<registry, poller>>
  /\ UNCHANGED <<row, overlapped, sent, floor, chats, history>>

Handle(h) == TurnOn(h) \/ TurnOff(h) \/ WriteRow(h) \/ Undo(h)

WriteFails(h) == UpdateFails(h) \/ DeleteFails(h) \/ Dropped(h)

-----------------------------------------------------------------------------
(* poll_telegram_updates                                                   *)

At(p, from, to) == poller[p].at = from /\ poller' = [poller EXCEPT ![p].at = to]

Ends(p, from) == poller[p].at = from /\ poller' = [poller EXCEPT ![p] = Over]

PollStep == UNCHANGED <<row, api, sent, chats, history>>

\* getUpdates arrives at Telegram, with the offset if there is one.
Confirm(p) == floor' = IF poller[p].offset > floor THEN poller[p].offset ELSE floor

Ask(p) == At(p, "ask", "poll") /\ Confirm(p) /\ PollStep /\ UNCHANGED budget

\* From the second iteration on the row (and the token) are read anew before
\* the next getUpdates. A failure is retried after a pause: reading again.
ReadRow(p) ==
  /\ \/ row = "on" /\ At(p, "read", "poll") /\ Confirm(p)
     \/ row # "on" /\ Ends(p, "read") /\ UNCHANGED floor
  /\ PollStep /\ UNCHANGED budget

\* It answers with what there is, or at the end of the long poll with nothing.
Answer(p) ==
  /\ poller[p].at = "poll"
  /\ IF floor <= sent
     THEN poller' = [poller EXCEPT ![p].at = "reread", ![p].next = floor, ![p].last = sent]
     ELSE At(p, "poll", "read")
  /\ PollStep /\ UNCHANGED <<floor, budget>>

\* Mutant: the offset is past the batch before the credentials are there.
TryAgainPast(p) ==
  /\ poller[p].at \in {"ask", "poll", "reread"}
  /\ poller' = [poller EXCEPT ![p] = [NoPoller EXCEPT !.at = "read", !.offset = poller[p].last + 1]]
  /\ Fault
  /\ PollStep /\ UNCHANGED floor

\* No request, no answer, no credentials: read again after a pause, with
\* the offset as it was, so that this batch is fetched again.
TryAgain(p) ==
  /\ poller[p].at \in {"ask", "poll", "reread"}
  /\ poller' = [poller EXCEPT ![p] = [NoPoller EXCEPT !.at = "read", !.offset = poller[p].offset]]
  /\ Fault
  /\ PollStep /\ UNCHANGED floor

\* The row is read again: deactivated meanwhile, the batch stays unconfirmed;
\* a failure to read it is passed over. Then the credentials are resolved.
Reread(p) ==
  /\ \/ row = "on" /\ At(p, "reread", "dispatch") /\ UNCHANGED budget
     \/ row # "on" /\ Ends(p, "reread") /\ UNCHANGED budget
     \/ row # "on" /\ At(p, "reread", "dispatch") /\ Fault
  /\ PollStep /\ UNCHANGED floor

\* Mutant: every job begins a worker.
DispatchedApart(p, u) ==
  /\ worker' = [worker EXCEPT ![<<p, u>>] = [NoWorker EXCEPT !.at = "wait", !.queue = <<u>>]]
  /\ route' = [route EXCEPT ![p][ChatOf[u]] = u]

\* Mutant: the answer of send is not looked at.
DispatchedBlind(p, u) ==
  LET k == <<p, route[p][ChatOf[u]]>> IN
  IF k \in Workers
  THEN worker' = [worker EXCEPT ![k].queue = Append(@, u)] /\ UNCHANGED route
  ELSE /\ worker' = [worker EXCEPT ![<<p, u>>] = [NoWorker EXCEPT !.at = "wait", !.queue = <<u>>]]
       /\ route' = [route EXCEPT ![p][ChatOf[u]] = u]

\* ChatQueues::dispatch: the chat's worker takes the job unless it has
\* closed its channel (or there is none); then a new worker begins with it.
Dispatched(p, u) ==
  LET k == <<p, route[p][ChatOf[u]]>> IN
  IF k \in Workers /\ ~worker[k].closed /\ worker[k].at # "over"
  THEN worker' = [worker EXCEPT ![k].queue = Append(@, u)] /\ UNCHANGED route
  ELSE /\ worker' = [worker EXCEPT ![<<p, u>>] = [NoWorker EXCEPT !.at = "wait", !.queue = <<u>>]]
       /\ route' = [route EXCEPT ![p][ChatOf[u]] = u]

\* The loop over a batch: the offset moves past each update; one the
\* trigger does not want, as it is configured by now, is left out.
Dispatch(p) ==
  LET u == poller[p].next IN
  /\ poller[p].at = "dispatch" /\ u <= poller[p].last
  /\ poller' = [poller EXCEPT ![p].next = u + 1, ![p].offset = u + 1]
  /\ \/ Dispatched(p, u) /\ dispatched' = dispatched \cup {<<p, u>>} /\ UNCHANGED refused
     \/ u \in Doubtful /\ refused' = refused \cup {u} /\ UNCHANGED <<chats, dispatched>>
  /\ UNCHANGED <<row, api, sent, floor, done, budget>>

BatchOver(p) ==
  /\ poller[p].next > poller[p].last
  /\ poller[p].at = "dispatch"
  /\ poller' = [poller EXCEPT ![p] =
       IF @.aborted THEN Over
       ELSE [NoPoller EXCEPT !.at = "read", !.offset = poller[p].offset]]
  /\ PollStep /\ UNCHANGED <<floor, budget>>

Poll(p) ==
  \/ ReadRow(p) \/ Ask(p) \/ Answer(p) \/ Reread(p) \/ Dispatch(p) \/ BatchOver(p)

-----------------------------------------------------------------------------
(* chat_worker and next_job                                                *)

WorkStep == UNCHANGED <<row, api, sent, floor, poller, route, dispatched, refused>>

\* Whether a job can still come: its poller holds the sender, and this end
\* is open.
Open(k) ==
  /\ ~worker[k].closed
  /\ poller[k[1]].at # "over" /\ route[k[1]][ChatOf[k[2]]] = k[2]

\* The execution's row is written and the run spawned (start_execution).
Take(k) ==
  LET u == Head(worker[k].queue) IN
  /\ worker[k].at = "wait" /\ worker[k].queue # <<>>
  /\ worker' = [worker EXCEPT ![k].at = "run", ![k].queue = Tail(@)]
  /\ done' = done \cup {<<k[1], u>>}
  /\ WorkStep /\ UNCHANGED budget

\* A row that could not be written is logged; its update is not run.
TakeFails(k) ==
  /\ worker[k].at = "wait" /\ worker[k].queue # <<>> /\ Fault
  /\ worker' = [worker EXCEPT ![k].queue = Tail(@)]
  /\ done' = done \cup {<<k[1], Head(worker[k].queue)>>}
  /\ WorkStep

\* The run's handle is awaited: success, error or stopped by a user.
RunEnds(k) ==
  /\ worker[k].at = "run"
  /\ worker' = [worker EXCEPT ![k].at = "wait"]
  /\ WorkStep /\ UNCHANGED <<done, budget>>

\* Five minutes without a job; closing the channel is the next thing it does.
Idle(k) ==
  /\ worker[k].at = "wait" /\ worker[k].queue = <<>> /\ Open(k)
  /\ Fault
  /\ worker' = [worker EXCEPT ![k].at = "late"]
  /\ WorkStep /\ UNCHANGED done

\* Mutant: what came in between goes with the receiver.
CloseUndrained(k) ==
  /\ worker[k].at = "late"
  /\ worker' = [worker EXCEPT ![k] = Gone]
  /\ WorkStep /\ UNCHANGED <<done, budget>>

\* A job sent between the timeout and the closing is still received.
Close(k) ==
  /\ worker[k].at = "late"
  /\ worker' = [worker EXCEPT ![k] =
       IF @.queue = <<>> THEN Gone ELSE [@ EXCEPT !.at = "wait", !.closed = TRUE]]
  /\ WorkStep /\ UNCHANGED <<done, budget>>

\* Nothing left, and nothing can come: recv answers None.
Leave(k) ==
  /\ worker[k].at = "wait" /\ worker[k].queue = <<>> /\ ~Open(k)
  /\ worker' = [worker EXCEPT ![k] = Gone]
  /\ WorkStep /\ UNCHANGED <<done, budget>>

Work(k) == Take(k) \/ Close(k) \/ Leave(k) \/ RunEnds(k)

-----------------------------------------------------------------------------
(* The process dies, with its tasks, channels and registry; started again, *)
(* reactivate_all starts the trigger of an active workflow, or logs that   *)
(* it could not.                                                           *)

InHand == dispatched \ done

Crash ==
  /\ Fault
  /\ done' = dispatched
  /\ handler' = [h \in Handlers |-> Free]
  /\ route' = [p \in Pollers |-> [c \in Chats |-> 0]]
  /\ worker' = [k \in Workers |-> IF worker[k].at = "none" THEN NoWorker ELSE Gone]
  /\ LET dead == [p \in Pollers |-> IF poller[p].at = "none" THEN NoPoller ELSE Over]
     IN \/ /\ row = "on"
           /\ poller' = [dead EXCEPT ![NextPoller] = [NoPoller EXCEPT !.at = "ask"]]
           /\ registry' = NextPoller /\ dark' = FALSE
        \/ row # "on" /\ poller' = dead /\ registry' = 0 /\ dark' = FALSE
        \/ row = "on" /\ poller' = dead /\ registry' = 0 /\ dark' = TRUE
  /\ overlapped' = FALSE
  /\ UNCHANGED <<row, sent, floor, dispatched, refused>>

-----------------------------------------------------------------------------
Next ==
  \/ Send \/ Crash
  \/ \E h \in Handlers : Handle(h) \/ WriteFails(h) \/ \E op \in {"on", "off", "gone"} : Request(h, op)
  \/ \E p \in Pollers : Poll(p) \/ TryAgain(p)
  \/ \E k \in Workers : Work(k) \/ Idle(k) \/ TakeFails(k)

Spec == Init /\ [][Next]_vars

\* Tasks are polled and calls return; nobody has to send an update, make a
\* request, or be idle. Requests and jobs are finitely many, so that it is
\* enough that one of them goes on.
FairSpec ==
  /\ Spec
  /\ WF_vars(\E h \in Handlers : Handle(h))
  /\ \A p \in Pollers : WF_vars(Poll(p))
  /\ WF_vars(\E k \in Workers : Work(k))

-----------------------------------------------------------------------------
(* Properties                                                              *)

\* The workers that will still run it.
Held(p, u) ==
  {k \in Workers : k[1] = p /\ worker[k].at # "over" /\ u \in ToSet(worker[k].queue)}

\* next_job 166-171: "it can never vanish with the receiver". A job handed
\* to a chat is with exactly one worker until it is run, however the idle
\* timeout, the closing of the channel, an abort of the poller and the next
\* dispatch interleave; only a failing row or a crash takes it away.
NoneVanishes ==
  \A p \in Pollers, u \in Updates :
    /\ <<p, u>> \in InHand => Cardinality(Held(p, u)) = 1
    /\ <<p, u>> \notin InHand => Held(p, u) = {}

\* What Telegram may forget has reached a worker or was not wanted: the
\* offset never passes an update whose batch was given up half way
\* (poll_telegram_updates, "silently and permanently losing it").
NoneSkipped ==
  \A u \in 1 .. floor - 1 : u \in refused \/ \E p \in Pollers : <<p, u>> \in dispatched

\* set_workflow_active, 176-179: a request is made up for whose write was
\* answered with an error, so that the registry names a poller just when the
\* row is on (a poller that may have ended by itself since). Exempt, for
\* nothing makes up for them: a request dropped between the switch and its
\* write, a delete that failed, a trigger that could not be started again,
\* and requests under way at once.
RegistryFollowsRow ==
  (\A h \in Handlers : handler[h].at = "idle") /\ ~dark /\ ~overlapped
    => (registry # 0 <=> row = "on")

NoPollerLeft == \A p \in Pollers : poller[p].at \in {"none", "over"}

\* An update sent to the bot is run, refused or seen to have failed, whatever
\* call failed on the way; unless it was in memory when the process died, or
\* no poller is left.
Handled ==
  <>[](NoPollerLeft \/ \A u \in 1..sent :
         u \in refused \/ \E p \in Pollers : <<p, u>> \in done)

\* ChatQueues, 129-131: "each chat's updates run one at a time in arrival
\* order": a chat has one worker, however idling and dispatching interleave.
\* (One that has closed its channel may still be running what came in
\* between, next to its successor.)
OneAtATime ==
  \A j, k \in Workers :
    /\ j # k /\ j[1] = k[1] /\ ChatOf[j[2]] = ChatOf[k[2]]
    /\ {worker[j].at, worker[k].at} \cap {"none", "over"} = {}
    => worker[j].closed \/ worker[k].closed
=============================================================================
