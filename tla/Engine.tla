------------------------------- MODULE Engine -------------------------------
(***************************************************************************)
(* One execution of a workflow: src/src/n8n/engine.rs pops nodes off a     *)
(* stack, runs them, and schedules the children that received items.  A    *)
(* node with several inputs waits until each has data, or until nothing    *)
(* else can run.  Another task may cancel the execution at any point.      *)
(*                                                                         *)
(* Items are abstracted to batches: what one run of a node put on one of   *)
(* its outputs, known by the n8n source data (node, output, run).  Which   *)
(* outputs get items, and whether a node fails, is the node's choice.      *)
(***************************************************************************)
EXTENDS Integers, Sequences, SequencesExt, FiniteSets, FiniteSetsExt

CONSTANTS
  Nodes,
  Workflows,   \* the workflows an execution may be of, see WorkflowType
  None,        \* no batch, no node
  MaxNodeRuns, \* MAX_NODE_RUNS
  MaxPauses    \* bound on resumed pauses

Edge == [from : Nodes, output : Nat, to : Nodes, input : Nat]

WorkflowType ==
  [edges : Seq(Edge),            \* children of a node in the order of its outputs
   start : Nodes, v1 : BOOLEAN,
   rank : [Nodes -> Nat],        \* canvas position
   outputs : [Nodes -> Nat],     \* number of regular outputs
   onError : [Nodes -> {"stop", "regular", "output"}],
   tries : [Nodes -> 1..5],      \* max_tries, 1 without retry_on_fail
   always : SUBSET Nodes,        \* always_output_data
   pinned : SUBSET Nodes,        \* with pin data, of at least one item
   passing : SUBSET Nodes,       \* disabled
   waits : SUBSET Nodes,         \* Wait nodes
   destination : Nodes \cup {None},
   given : BOOLEAN,              \* start_items are given
   timeout : BOOLEAN]

ASSUME WorkflowsAssumption == Workflows \subseteq WorkflowType
ASSUME NoneAssumption == None \notin Nodes /\ None \notin [node : Nodes, output : Nat, run : Nat]
ASSUME BoundsAssumption == {MaxNodeRuns, MaxPauses} \subseteq Nat

VARIABLES
  wf,       \* the workflow
  stack,    \* entries ready to run
  waiting,  \* entries of nodes that miss inputs, oldest first
  runData,  \* the recorded runs of each node
  pc,       \* top, before (hooks), running, deliver, end
  entry,    \* the entry being run
  attempt,  \* run_node's attempt
  todo,     \* edges (their places in wf.edges) still to be served by schedule_children
  ready,    \* entries it has made ready, in canvas order
  runs,     \* nodes popped
  status,
  given,    \* start_items of this call of execute
  late,     \* the timeout is over
  cancel,   \* cancel(): no, flagged, or notified (it has returned)
  heard,    \* notified() of the running node was woken
  ranOn,    \* runs recorded since cancel() returned (history)
  pauses    \* pauses resumed (history)

queues == <<stack, waiting, todo, ready>>
vars == <<wf, queues, runData, pc, entry, attempt, runs, status, given, late, cancel, heard,
          ranOn, pauses>>

Batch == [node : Nodes, output : Nat, run : Nat]
Entry == [node : Nodes, source : Seq(Batch \cup {None})]
Run == [source : Seq(Batch \cup {None}), outs : SUBSET Nat, index : Nat]

TypeOK ==
  /\ wf \in Workflows
  /\ stack \in Seq(Entry) /\ waiting \in Seq(Entry) /\ ready \in Seq(Entry)
  /\ runData \in [Nodes -> Seq(Run)]
  /\ pc \in {"top", "before", "running", "deliver", "end"}
  /\ entry \in Entry
  /\ attempt \in 0..5
  /\ todo \subseteq DOMAIN wf.edges
  /\ runs \in 0..MaxNodeRuns
  /\ status \in {"running", "success", "error", "canceled", "waiting"}
  /\ {given, late, heard} \subseteq BOOLEAN
  /\ cancel \in {"no", "flagged", "notified"}
  /\ ranOn \in Nat
  /\ pauses \in 0..MaxPauses

Edges == Range(wf.edges)

\* connected_inputs: one more than the highest connected input.
ConnectedInputs(n) == Max({0} \cup {e.input + 1 : e \in {f \in Edges : f.to = n}})

\* The regular outputs, and the error output after them.
Outputs(n) ==
  0 .. (IF wf.onError[n] = "output" THEN wf.outputs[n] ELSE wf.outputs[n] - 1)

\* The start node's entry has no source, and its first input has items.
StartEntry == [node |-> wf.start, source |-> <<>>]

FirstInput(e) == e.source = <<>> \/ e.source[1] # None

Init ==
  /\ wf \in Workflows
  /\ stack = <<StartEntry>> /\ waiting = <<>> /\ todo = {} /\ ready = <<>>
  /\ runData = [n \in Nodes |-> <<>>]
  /\ pc = "top" /\ entry = StartEntry /\ attempt = 0 /\ runs = 0
  /\ status = "running" /\ given = wf.given
  /\ late = FALSE /\ cancel = "no" /\ heard = FALSE /\ ranOn = 0 /\ pauses = 0

-----------------------------------------------------------------------------
(* The loop of execute                                                     *)

Ends(s) == status' = s /\ pc' = "end"

\* A cancellation or timeout is seen between two nodes.
SeeCancel ==
  /\ pc = "top"
  /\ cancel # "no" \/ late
  /\ Ends("canceled")
  /\ UNCHANGED <<wf, queues, runData, entry, attempt, runs, given, late, cancel, heard, ranOn, pauses>>

\* Mutant: the flag is not looked at between nodes.
AtTopFlagless == pc = "top" /\ ~late

AtTop == pc = "top" /\ cancel = "no" /\ ~late

NothingLeft ==
  /\ AtTop
  /\ stack = <<>> /\ waiting = <<>>
  /\ Ends("success")
  /\ UNCHANGED <<wf, queues, runData, entry, attempt, runs, given, late, cancel, heard, ranOn, pauses>>

TooManyRuns ==
  /\ AtTop
  /\ stack # <<>> \/ waiting # <<>>
  /\ runs = MaxNodeRuns
  /\ stack' = IF stack = <<>> THEN stack ELSE Tail(stack)
  /\ waiting' = IF stack = <<>> THEN Tail(waiting) ELSE waiting
  /\ Ends("error")
  /\ UNCHANGED <<wf, todo, ready, runData, entry, attempt, runs, given, late, cancel, heard, ranOn, pauses>>

\* push_task, and schedule_children unless the destination is reached (a
\* resumed execution has none).
Record(e, outs, source) ==
  /\ runData' = [runData EXCEPT ![e.node] =
       Append(@, [source |-> source, outs |-> outs, index |-> runs' - 1])]
  /\ ranOn' = IF cancel = "notified" THEN ranOn + 1 ELSE ranOn
  /\ IF e.node = wf.destination /\ pauses = 0
     THEN Ends("success") /\ UNCHANGED todo
     ELSE /\ pc' = "deliver"
          /\ todo' = {i \in DOMAIN wf.edges : wf.edges[i].from = e.node /\ wf.edges[i].output \in outs}
          /\ UNCHANGED status

\* Disabled and pinned nodes, and a start node whose items are given, are
\* not run: their output is at hand.
PassesThrough(n) == n \in wf.pinned \cup wf.passing \/ (runs = 0 /\ given)

\* Pin data, or else the items of the first input.
AtHand(e) == e.node \in wf.pinned \/ FirstInput(e)

PopFrom(fromWaiting) ==
  LET e == IF fromWaiting THEN Head(waiting) ELSE Head(stack) IN
  /\ AtTop
  /\ runs' = runs + 1
  /\ entry' = e
  /\ IF fromWaiting
     THEN waiting' = Tail(waiting) /\ UNCHANGED stack
     ELSE stack' = Tail(stack) /\ UNCHANGED waiting
  /\ IF PassesThrough(e.node)
     THEN Record(e, IF AtHand(e) THEN {0} ELSE {}, e.source)
     ELSE pc' = "before" /\ UNCHANGED <<runData, todo, status, ranOn>>
  /\ UNCHANGED <<wf, ready, attempt, given, late, cancel, heard, pauses>>

\* Mutants: one run more than the bound; waiting entries before the stack;
\* waiting entries never.
PopOneMore ==
  (stack # <<>> \/ waiting # <<>>) /\ runs <= MaxNodeRuns /\ PopFrom(stack = <<>>)
PopWaitingFirst ==
  (stack # <<>> \/ waiting # <<>>) /\ runs < MaxNodeRuns /\ PopFrom(waiting # <<>>)
PopStackOnly ==
  stack # <<>> /\ runs < MaxNodeRuns /\ PopFrom(FALSE)

\* The front of the stack; when it is empty, the oldest waiting entry.
Pop ==
  (stack # <<>> \/ waiting # <<>>) /\ runs < MaxNodeRuns /\ PopFrom(stack = <<>>)

\* The node_before hook is over; from here on notified() exists.
Begin ==
  /\ pc = "before"
  /\ pc' = "running"
  /\ heard' = FALSE
  /\ attempt' = 1
  /\ UNCHANGED <<wf, queues, runData, entry, runs, status, given, late, cancel, ranOn, pauses>>

\* The node returns items on some of its outputs.
Complete(outs) ==
  /\ pc = "running"
  /\ outs \subseteq Outputs(entry.node)
  /\ UNCHANGED runs
  /\ Record(entry, IF entry.node \in wf.always /\ outs = {} THEN {0} ELSE outs, entry.source)
  /\ UNCHANGED <<wf, stack, waiting, ready, entry, attempt, given, late, cancel, heard, pauses>>

Retry ==
  /\ pc = "running"
  /\ attempt < wf.tries[entry.node]
  /\ attempt' = attempt + 1
  /\ UNCHANGED <<wf, queues, runData, pc, entry, runs, status, given, late, cancel, heard, ranOn, pauses>>

\* The last attempt fails, and on_error makes an item of the error.
FailOn ==
  LET n == entry.node IN
  /\ pc = "running"
  /\ attempt = wf.tries[n]
  /\ wf.onError[n] # "stop"
  /\ UNCHANGED runs
  /\ Record(entry, IF wf.onError[n] = "output" THEN {wf.outputs[n]} ELSE {0}, entry.source)
  /\ UNCHANGED <<wf, stack, waiting, ready, entry, attempt, given, late, cancel, heard, pauses>>

\* A fatal error, or the last attempt of a node that stops on errors.
Fail ==
  /\ pc = "running"
  /\ runData' = [runData EXCEPT ![entry.node] =
       Append(@, [source |-> entry.source, outs |-> {}, index |-> runs - 1])]
  /\ Ends("error")
  /\ UNCHANGED <<wf, queues, entry, attempt, runs, given, late, cancel, heard, ranOn, pauses>>

\* A Wait node pauses the execution; stack and waiting are not kept.
Pause ==
  /\ pc = "running"
  /\ entry.node \in wf.waits
  /\ Ends("waiting")
  /\ UNCHANGED <<wf, queues, runData, entry, attempt, runs, given, late, cancel, heard, ranOn, pauses>>

\* select! takes the timeout or the cancellation instead of the node.
Abort ==
  /\ pc = "running"
  /\ heard \/ late
  /\ Ends("canceled")
  /\ UNCHANGED <<wf, queues, runData, entry, attempt, runs, given, late, cancel, heard, ranOn, pauses>>

-----------------------------------------------------------------------------
(* schedule_children, one target at a time                                 *)

\* Sorted by canvas position, a new entry after those of the same position.
InsertByRank(seq, e) ==
  LET before == Cardinality({i \in DOMAIN seq : wf.rank[seq[i].node] <= wf.rank[e.node]})
  IN  InsertAt(seq, before + 1, e)

MakeReady(e) == ready' = IF wf.v1 THEN InsertByRank(ready, e) ELSE Append(ready, e)

\* Waiting entries of n that miss an input.
Missing(n, slot) == {i \in DOMAIN waiting : waiting[i].node = n /\ waiting[i].source[slot] = None}

Full(e) == \A i \in DOMAIN e.source : e.source[i] # None

Filled(e, slot, b) == [e EXCEPT !.source[slot] = b]

\* Mutant: the newest entry that misses the input.
PendingNewest(n, slot) ==
  IF Missing(n, slot) = {} THEN Len(waiting) + 1 ELSE Max(Missing(n, slot))

\* The oldest entry that misses the input, or a new one.
Pending(n, slot) ==
  IF Missing(n, slot) = {} THEN Len(waiting) + 1 ELSE Min(Missing(n, slot))

\* Mutant: a full entry is copied to the ready ones.
CopyWaiting(i) == waiting

TakeWaiting(i) == IF i > Len(waiting) THEN waiting ELSE RemoveAt(waiting, i)

\* Fills an input of a node that has several; a full entry becomes ready.
FillWaiting(n, slot, b) ==
  LET i == Pending(n, slot)
      e == IF i > Len(waiting)
           THEN [node |-> n, source |-> [j \in 1..ConnectedInputs(n) |-> None]]
           ELSE waiting[i]
      filled == Filled(e, slot, b)
  IN IF Full(filled)
     THEN waiting' = TakeWaiting(i) /\ MakeReady(filled)
     ELSE /\ waiting' = IF i > Len(waiting) THEN Append(waiting, filled)
                        ELSE [waiting EXCEPT ![i] = filled]
          /\ UNCHANGED ready

Deliver ==
  LET i == Min(todo)
      t == wf.edges[i]
      b == [node |-> t.from, output |-> t.output, run |-> Len(runData[t.from])]
  IN
  /\ pc = "deliver"
  /\ todo # {}
  /\ todo' = todo \ {i}
  /\ IF ConnectedInputs(t.to) <= 1
     THEN MakeReady([node |-> t.to, source |-> <<b>>]) /\ UNCHANGED waiting
     ELSE FillWaiting(t.to, t.input + 1, b)
  /\ UNCHANGED <<wf, stack, runData, pc, entry, attempt, runs, status, given, late, cancel,
                 heard, ranOn, pauses>>

\* Mutant: both orders append.
ScheduleLast ==
  /\ pc = "deliver"
  /\ todo = {}
  /\ stack' = stack \o ready
  /\ ready' = <<>>
  /\ pc' = "top"
  /\ UNCHANGED <<wf, waiting, runData, todo, entry, attempt, runs, status, given, late, cancel,
                 heard, ranOn, pauses>>

\* v1 puts the ready entries in front of the stack, v0 behind it.
Schedule ==
  /\ pc = "deliver"
  /\ todo = {}
  /\ stack' = IF wf.v1 THEN ready \o stack ELSE stack \o ready
  /\ ready' = <<>>
  /\ pc' = "top"
  /\ UNCHANGED <<wf, waiting, runData, todo, entry, attempt, runs, status, given, late, cancel,
                 heard, ranOn, pauses>>

-----------------------------------------------------------------------------
(* Around it: cancel(), the clock, and resume                              *)

Cancel ==
  /\ status = "running" /\ cancel = "no"
  /\ cancel' = "flagged"
  /\ UNCHANGED <<wf, queues, runData, pc, entry, attempt, runs, status, given, late, heard, ranOn, pauses>>

\* notify_waiters wakes the notified() that exists by now, if any.
Notify ==
  /\ cancel = "flagged"
  /\ cancel' = "notified"
  /\ heard' = (heard \/ pc = "running")
  /\ UNCHANGED <<wf, queues, runData, pc, entry, attempt, runs, status, given, late, ranOn, pauses>>

TimeOut ==
  /\ status = "running" /\ wf.timeout /\ ~late
  /\ late' = TRUE
  /\ UNCHANGED <<wf, queues, runData, pc, entry, attempt, runs, status, given, cancel, heard, ranOn, pauses>>

\* resume calls execute again with the Wait node's items, its source, and
\* the run data of the other nodes.
Resume ==
  /\ status = "waiting"
  /\ pauses < MaxPauses
  /\ pauses' = pauses + 1
  /\ stack' = <<entry>> /\ waiting' = <<>> /\ todo' = {} /\ ready' = <<>>
  /\ runData' = [runData EXCEPT ![entry.node] = <<>>]
  /\ pc' = "top" /\ status' = "running" /\ runs' = 0 /\ given' = TRUE
  /\ late' = FALSE /\ cancel' = "no" /\ heard' = FALSE /\ ranOn' = 0
  /\ UNCHANGED <<wf, entry, attempt>>

Step ==
  \/ SeeCancel \/ NothingLeft \/ TooManyRuns \/ Pop \/ Begin
  \/ \E outs \in SUBSET Outputs(entry.node) : Complete(outs)
  \/ Retry \/ FailOn \/ Fail \/ Pause \/ Abort
  \/ Deliver \/ Schedule

Next == Step \/ Cancel \/ Notify \/ TimeOut \/ Resume

Spec == Init /\ [][Next]_vars

\* The task is polled, and nodes end.
FairSpec == Spec /\ WF_vars(Step) /\ WF_vars(Notify)

-----------------------------------------------------------------------------
(* Properties                                                              *)

EntryHas(e, n, slot, b) ==
  e.node = n /\ slot \in DOMAIN e.source /\ e.source[slot] = b

Holders(seq, n, slot, b) == Cardinality({i \in DOMAIN seq : EntryHas(seq[i], n, slot, b)})

\* In how many places a batch for an input of a node is: in the entries of
\* the queues, in the entry being run, among the edges yet to be served,
\* and in the recorded runs of the node.
Places(e, b) ==
  LET slot == e.input + 1 IN
  Holders(stack, e.to, slot, b) + Holders(waiting, e.to, slot, b) + Holders(ready, e.to, slot, b)
  + (IF pc \in {"before", "running"} /\ EntryHas(entry, e.to, slot, b) THEN 1 ELSE 0)
  + Cardinality({i \in todo : wf.edges[i] = e /\ b.run = Len(runData[e.from])})
  + Cardinality({i \in DOMAIN runData[e.to] :
                   slot \in DOMAIN runData[e.to][i].source /\ runData[e.to][i].source[slot] = b})

BatchesOf(e) ==
  {[node |-> e.from, output |-> e.output, run |-> r] :
     r \in {k \in DOMAIN runData[e.from] : e.output \in runData[e.from][k].outs}}

\* An edge that is drawn twice carries what it carries twice.
Copies(e) == Cardinality({i \in DOMAIN wf.edges : wf.edges[i] = e})

\* Whatever the shape of the workflow, its branches, loops and retries: as
\* long as the execution goes on, what a node put on an output is in one
\* place for each child, and when it ends in success each child has run on
\* it exactly once. (Pausing is excepted: see KeepsAll.)
DeliveredOnce ==
  status \in {"running", "success"} /\ pauses = 0 =>
    \A e \in Edges : e.from # wf.destination =>
      \A b \in BatchesOf(e) :
        /\ Places(e, b) = Copies(e)
        /\ status = "success" /\ wf.destination = None =>
             \E k \in DOMAIN runData[e.to] : b \in Range(runData[e.to][k].source)

\* wait_and_resume.feature 3-4: a long wait persists the full execution
\* state, so that what was scheduled next to the Wait node is not lost.
KeepsAll ==
  status = "success" /\ wf.destination = None =>
    \A e \in Edges :
      \A b \in BatchesOf(e) : \E k \in DOMAIN runData[e.to] : b \in Range(runData[e.to][k].source)

Round(e, b) ==
  Cardinality({k \in 1..b.run : e.output \in runData[e.from][k].outs})

\* Each input of a node has one edge.
OneEdgeEach(n) ==
  \A i, j \in DOMAIN wf.edges :
    /\ wf.edges[i].to = n /\ wf.edges[j].to = n
    /\ wf.edges[i].input = wf.edges[j].input
    => i = j

\* No run of a node missed an input.
RunsAreFull(n) == \A k \in DOMAIN runData[n] : None \notin Range(runData[n][k].source)

\* A node that joins branches joins what belongs together: as long as it was
\* never run with an input missing, its inputs are of the same round. (The
\* first run of the start node has no source.)
JoinsRounds ==
  pauses = 0 =>
    \A n \in Nodes : ConnectedInputs(n) > 1 /\ OneEdgeEach(n) /\ RunsAreFull(n) =>
      \A e, f \in Edges : e.to = n /\ f.to = n =>
        \A k \in DOMAIN runData[n] :
          LET s == runData[n][k].source
          IN  s # <<>> => Round(e, s[e.input + 1]) = Round(f, s[f.input + 1])

Joins == {n \in Nodes : ConnectedInputs(n) > 1}

\* The joins lead to these nodes only, and none of them is a join.
Below(nodes) ==
  /\ \A e \in Edges : e.from \in Joins \cup nodes => e.to \in nodes
  /\ nodes \cap Joins = {}

JoinLeadsToJoin == ~\E nodes \in SUBSET Nodes : Below(nodes)

\* A node runs with an input missing only when nothing is left that could
\* supply it (workflows in which one join does not lead to another).
StarvedForGood ==
  \A e \in Edges : \A k \in DOMAIN runData[e.to], r \in DOMAIN runData[e.from] :
    LET starved == runData[e.to][k]
        supply == runData[e.from][r]
    IN  /\ e.to \in Joins /\ starved.source # <<>> /\ starved.source[e.input + 1] = None
        /\ e.output \in supply.outs /\ supply.index > starved.index
        => pauses > 0 \/ JoinLeadsToJoin

Parent(t) == runData[t.source[1].node][t.source[1].run]

Caused == {t \in UNION {Range(runData[n]) : n \in Nodes} : t.source # <<>>}

NodeOf(t) == CHOOSE n \in Nodes : t \in Range(runData[n])

\* Module comment 4-8: v1 runs a branch to its end before the next one, and
\* children in canvas order; v0 runs level by level.
OrderKept ==
  pauses = 0 /\ Joins = {} =>
    \A t, u \in Caused :
      LET p == Parent(t).index
          q == Parent(u).index
      IN  IF wf.v1
          THEN /\ p < q /\ q < t.index => u.index < t.index
               /\ p = q /\ wf.rank[NodeOf(t)] < wf.rank[NodeOf(u)] => t.index < u.index
          ELSE p < q => t.index < u.index

\* A cancellation that falls between the look at the flag and the creation
\* of notified() is not lost: at most the node that is about to run ends
\* before the execution does.
CancelHeeded == ranOn <= 1

\* Every execution ends, or pauses: loops are stopped by the bound on node
\* runs, and waiting nodes are run when nothing else can.
Ended == status = "running" ~> status # "running"
=============================================================================
