---------------------------- MODULE LegacyEngine ----------------------------
(***************************************************************************)
(* Manual runs of one workflow in the legacy engine: src/src/engine.rs     *)
(* starts every node whose upstream nodes have finished, so that branches  *)
(* run at the same time; a Loop node sends its input through its body      *)
(* batch by batch; execution_runner.rs records what each node received and *)
(* sent.  A run may take nodes from the records of the run before          *)
(* (api/workflows.rs), and a user may stop it at any await.  One action is *)
(* what the future of one node does between two awaits.                    *)
(*                                                                         *)
(* An item is known by the trigger item it stems from: a node sends each   *)
(* item it receives to one of its outputs, or fails on it, as it chooses.  *)
(***************************************************************************)
EXTENDS Naturals, Sequences, SequencesExt, FiniteSets, Functions

CONSTANTS
  Nodes,
  None,       \* no node
  Workflows,  \* a function from the names of the workflows to WorkflowType
  MaxItems,   \* bound on the items of the trigger
  MaxRuns     \* bound on runs

Port == {0, 1}
Connection == [from : Nodes, output : Port, to : Nodes, error : BOOLEAN]

WorkflowType ==
  [nodes : SUBSET Nodes,
   connections : Seq(Connection),
   loops : SUBSET Nodes, batch : Nat,  \* core.loop nodes, their batch_size (0 for none)
   disabled : SUBSET Nodes,
   ports : [Nodes -> SUBSET Port],           \* outputs a node may send to
   risky : SUBSET Nodes,                     \* nodes that may fail
   perItem : SUBSET Nodes,                   \* runs_per_item
   continues : SUBSET Nodes]                 \* continue_on_fail

ASSUME WorkflowsAssumption == \A w \in DOMAIN Workflows : Workflows[w] \in WorkflowType
ASSUME NodesAssumption == IsFiniteSet(Nodes) /\ None \notin Nodes
ASSUME BoundsAssumption == {MaxItems, MaxRuns} \subseteq Nat

VARIABLES
  name,      \* the workflow's
  status,    \* of the execution: none, running, success, error, canceled
  at,        \* each node: where its future is
  run,       \* each node: the NodeRun it is about to record
  produced, errors, reused,  \* RunState
  queue, returned,           \* each loop: items to come, items that came back
  totals,    \* each node in a loop: what it sent over the batches
  record,    \* node_runs of the execution
  reusable,  \* records of the run before that this run may use
  edited,    \* nodes changed since that run
  runs,
  sent, got, \* what each connection carried so far (history)
  flawed     \* nodes with a skipped or failed batch (history)

state == <<produced, errors, reused>>
loopState == <<queue, returned, totals>>
given == <<name, reusable, edited, runs>>
history == <<sent, got, flawed>>
vars == <<given, status, at, run, state, loopState, record, history>>

wf == Workflows[name]
Failed == 2    \* in place of a port
Items == 1..MaxItems
Links(w) == DOMAIN w.connections
NoOutput == [p \in Port |-> <<>>]
NoRun == [status |-> "none", input |-> <<>>, outs |-> NoOutput, errs |-> <<>>, reused |-> FALSE]

Outputs == [Port -> Seq(Items)]
NodeRun == [status : {"none", "success", "skipped", "error"}, input : Seq(Items),
            outs : Outputs, errs : Seq(Items), reused : BOOLEAN]

TypeOK ==
  /\ name \in DOMAIN Workflows
  /\ status \in {"none", "running", "success", "error", "canceled"}
  /\ \A n \in Nodes :
       /\ at[n] \in {"idle", "run", "loop", "ran", "failing", "kept", "failed", "done"}
       /\ at[n] = "loop" => n \in wf.loops \ wf.disabled
       /\ {run[n], record[n], reusable[n]} \subseteq NodeRun
       /\ {produced[n], totals[n]} \subseteq Outputs /\ errors[n] \in Seq(Items)
       /\ {queue[n], returned[n]} \subseteq Seq(Items)
       /\ queue[n] # <<>> => at[n] = "loop" \/ status # "running"
  /\ reused \subseteq wf.nodes \ wf.loops /\ edited \subseteq wf.nodes /\ flawed \subseteq wf.nodes
  /\ {sent, got} \subseteq [Links(wf) -> Seq(Items)]
  /\ runs \in 0..MaxRuns

-----------------------------------------------------------------------------
(* back_edges, loop_owners, topological_order                              *)

\* These nodes, and what the links lead to from them on.
Reach(w, starts, links) ==
  LET closed == {S \in SUBSET Nodes :
                   starts \subseteq S /\ \A i \in links : w.connections[i].from \in S => w.connections[i].to \in S}
  IN  {n \in Nodes : \A S \in closed : n \in S}

\* The links that do not enter lp, and the nodes its output 1 leads to.
Past(w, lp, links) == {i \in links : w.connections[i].to # lp}

Loops(w, lp, links) ==
  {w.connections[i].to : i \in {j \in links :
     w.connections[j].from = lp /\ w.connections[j].output = 1 /\ ~w.connections[j].error}}

\* Connections from a loop's body back into the loop node.
BackEdges(w) ==
  {i \in Links(w) :
     LET lp == w.connections[i].to IN
     /\ lp \in w.loops
     /\ w.connections[i].from \in Reach(w, Loops(w, lp, Links(w)) \ {lp}, Past(w, lp, Links(w)))}

Forward(w) == Links(w) \ BackEdges(w)

Body(w, lp) == Reach(w, Loops(w, lp, Forward(w)), Past(w, lp, Forward(w)))

\* The innermost loop whose body a node is in.
LoopOwner(w, n) ==
  LET around == {lp \in w.loops : n \in Body(w, lp)}
  IN  IF around = {} THEN None
      ELSE CHOOSE lp \in around :
             \A other \in around : Cardinality(Body(w, lp)) <= Cardinality(Body(w, other))

\* All connections are between its nodes, it has one start node, and its
\* nodes can be put in order: of those left, one is fed by none of them.
Accepted(w) ==
  /\ \A i \in Links(w) : {w.connections[i].from, w.connections[i].to} \subseteq w.nodes
  /\ Cardinality(w.nodes) > 1 =>
       Cardinality({n \in w.nodes : \A i \in Forward(w) : w.connections[i].to # n}) = 1
  /\ \A left \in SUBSET w.nodes \ {{}} : \E n \in left :
       \A i \in Forward(w) : w.connections[i].to = n => w.connections[i].from \notin left

Layout ==
  [x \in DOMAIN Workflows |->
     LET w == Workflows[x] IN
     [back |-> BackEdges(w),
      owner |-> [n \in Nodes |-> LoopOwner(w, n)],
      upstream |-> [n \in Nodes |-> {m \in Nodes : n \in Reach(w, {m}, Forward(w))}],
      accepted |-> Accepted(w)]]

Owner(n) == Layout[name].owner[n]
Conn(i) == wf.connections[i]

Into(n) == {i \in Links(wf) \ Layout[name].back : Conn(i).to = n}
Returns(lp) == {i \in Layout[name].back : Conn(i).to = lp}
Within(owner) == {n \in wf.nodes : Owner(n) = owner}
Start(n) == Into(n) = {}
HasErrorRoute(n) == \E i \in Links(wf) : Conn(i).from = n /\ Conn(i).error

Fresh ==
  /\ at' = [n \in Nodes |-> "idle"] /\ run' = [n \in Nodes |-> NoRun]
  /\ produced' = [n \in Nodes |-> NoOutput] /\ errors' = [n \in Nodes |-> <<>>] /\ reused' = {}
  /\ queue' = [n \in Nodes |-> <<>>] /\ returned' = [n \in Nodes |-> <<>>]
  /\ totals' = [n \in Nodes |-> NoOutput] /\ record' = [n \in Nodes |-> NoRun]
  /\ sent' = [i \in Links(wf) |-> <<>>] /\ got' = [i \in Links(wf) |-> <<>>] /\ flawed' = {}

\* A workflow is saved and has not been run.
Init ==
  /\ name \in DOMAIN Workflows
  /\ status = "none" /\ edited = {} /\ runs = 0
  /\ at = [n \in Nodes |-> "idle"] /\ run = [n \in Nodes |-> NoRun]
  /\ produced = [n \in Nodes |-> NoOutput] /\ errors = [n \in Nodes |-> <<>>] /\ reused = {}
  /\ queue = [n \in Nodes |-> <<>>] /\ returned = [n \in Nodes |-> <<>>]
  /\ totals = [n \in Nodes |-> NoOutput]
  /\ record = [n \in Nodes |-> NoRun] /\ reusable = [n \in Nodes |-> NoRun]
  /\ sent = [i \in Links(wf) |-> <<>>] /\ got = [i \in Links(wf) |-> <<>>] /\ flawed = {}

-----------------------------------------------------------------------------
(* What flows along the connections                                        *)

Arrived(i) == IF Conn(i).error THEN errors[Conn(i).from] ELSE produced[Conn(i).from][Conn(i).output]

\* The items of all connections into n, in the order of the connections.
InputOf(n) ==
  FlattenSeq([i \in Links(wf) |-> IF i \in Into(n) THEN Arrived(i) ELSE <<>>])

Carry(links) == got' = [i \in Links(wf) |-> IF i \in links THEN got[i] \o Arrived(i) ELSE got[i]]

Gathers(n) == Carry(Into(n))

Sends(n, outs, errs) ==
  sent' = [i \in Links(wf) |->
     IF Conn(i).from # n THEN sent[i]
     ELSE sent[i] \o IF Conn(i).error THEN errs ELSE outs[Conn(i).output]]

-----------------------------------------------------------------------------
(* run_node: from the end of its upstream nodes to its record              *)

\* Upstream nodes in the same list of run_graph.
Deps(n) == ({Conn(i).from : i \in Into(n)} \ {n}) \cap Within(Owner(n))

Ready(n) ==
  /\ status = "running" /\ n \in wf.nodes /\ at[n] = "idle"
  /\ Owner(n) # None => at[Owner(n)] = "loop"
  /\ \A m \in Deps(n) : at[m] = "done"

\* Mutant: what feeds the node may have run again.
MayReuseAlone(n) ==
  reusable[n].status = "success" /\ n \notin wf.loops /\ Owner(n) = None

\* Mutant: a loop's record stands in for running it.
MayReuseLoops(n) ==
  /\ reusable[n].status = "success" /\ Owner(n) = None
  /\ \A i \in Into(n) : Conn(i).from \in reused

MayReuse(n) ==
  /\ reusable[n].status = "success" /\ n \notin wf.loops /\ Owner(n) = None
  /\ \A i \in Into(n) : Conn(i).from \in reused

\* n has a NodeRun to be recorded.
Returned(n, result) ==
  /\ at' = [at EXCEPT ![n] = "ran"]
  /\ run' = [run EXCEPT ![n] = result]

Reuse(n) ==
  /\ Ready(n) /\ MayReuse(n)
  /\ Returned(n, [reusable[n] EXCEPT !.reused = TRUE])
  /\ UNCHANGED <<given, status, state, loopState, record, history>>

\* A disabled node passes its input on.
PassOn(n) ==
  /\ Ready(n) /\ ~MayReuse(n) /\ n \in wf.disabled
  /\ Gathers(n)
  /\ Returned(n, [NoRun EXCEPT !.status = "skipped", !.input = InputOf(n), !.outs[0] = InputOf(n)])
  /\ flawed' = flawed \cup {n}
  /\ UNCHANGED <<given, status, state, loopState, record, sent>>

\* The start node emits items, given by the trigger or made by itself.
Trigger(n, items) ==
  /\ Ready(n) /\ ~MayReuse(n) /\ n \notin wf.disabled
  /\ Start(n)
  /\ Returned(n, [NoRun EXCEPT !.status = "success", !.outs[0] = items])
  /\ UNCHANGED <<given, status, state, loopState, record, history>>

\* The untaken side of a branch.
Skip(n) ==
  /\ Ready(n) /\ ~MayReuse(n) /\ n \notin wf.disabled
  /\ ~Start(n) /\ InputOf(n) = <<>>
  /\ Returned(n, [NoRun EXCEPT !.status = "skipped"])
  /\ flawed' = flawed \cup {n}
  /\ UNCHANGED <<given, status, state, loopState, record, sent, got>>

Begin(n) ==
  /\ Ready(n) /\ ~MayReuse(n) /\ n \notin wf.disabled
  /\ InputOf(n) # <<>> /\ n \notin wf.loops
  /\ Gathers(n)
  /\ at' = [at EXCEPT ![n] = "run"]
  /\ run' = [run EXCEPT ![n] = [NoRun EXCEPT !.input = InputOf(n)]]
  /\ UNCHANGED <<given, status, state, loopState, record, sent, flawed>>

\* The items of the input that chosen gives this output.
Chosen(items, chosen, output) ==
  LET pick[i \in 0..Len(items)] ==
        IF i = 0 THEN <<>>
        ELSE IF chosen[i] = output THEN Append(pick[i - 1], items[i]) ELSE pick[i - 1]
  IN  pick[Len(items)]

\* Where an item may go; a node that is not run per item fails as a whole.
Sendings(n) ==
  LET items == DOMAIN run[n].input
      clean == [items -> wf.ports[n]]
  IN  IF n \notin wf.risky \/ ~(HasErrorRoute(n) \/ n \in wf.continues) THEN clean
      ELSE IF n \in wf.perItem THEN [items -> wf.ports[n] \cup {Failed}]
      ELSE clean \cup {[i \in items |-> Failed]}

\* The node's runs return, each after its retries. An error is an item on
\* the error route, or with continue_on_fail on the first output.
Execute(n, chosen) ==
  LET fails == Failed \in Range(chosen)
      items == IF n \in wf.perItem \/ ~fails THEN run[n].input ELSE <<Head(run[n].input)>>
      dest == [i \in DOMAIN items |->
                 IF chosen[i] = Failed /\ ~HasErrorRoute(n) THEN 0 ELSE chosen[i]]
      errs == Chosen(items, dest, Failed)
  IN
  /\ status = "running" /\ at[n] = "run"
  /\ Returned(n, [run[n] EXCEPT !.status = IF fails THEN "error" ELSE "success",
                               !.outs = [p \in Port |-> Chosen(items, dest, p)], !.errs = errs])
  /\ errors' = IF errs = <<>> THEN errors ELSE [errors EXCEPT ![n] = errs]
  /\ flawed' = IF fails THEN flawed \cup {n} ELSE flawed
  /\ UNCHANGED <<given, status, produced, reused, loopState, record, sent, got>>

\* No route for the error, or parameters that do not resolve: the whole run
\* is to fail.
Break(n) ==
  /\ status = "running" /\ at[n] = "run" /\ n \in wf.risky
  /\ at' = [at EXCEPT ![n] = "failing"]
  /\ run' = [run EXCEPT ![n].status = "error"]
  /\ UNCHANGED <<given, status, state, loopState, record, history>>

-----------------------------------------------------------------------------
(* The record, kept behind a lock while it is written to storage           *)

\* Mutant: the new run takes the place of what the node did before.
MergedLast(earlier, new) == new

\* persist_node_output: successful runs of a node add up.
Merged(earlier, new) ==
  IF earlier.status = "success" /\ new.status = "success"
  THEN [earlier EXCEPT !.input = @ \o new.input, !.errs = @ \o new.errs,
                       !.outs = [p \in Port |-> @[p] \o new.outs[p]]]
  ELSE new

Persist(n) ==
  /\ status = "running" /\ at[n] \in {"ran", "failing"}
  /\ \A m \in Nodes : at[m] \notin {"kept", "failed"}
  /\ at' = [at EXCEPT ![n] = IF at[n] = "ran" THEN "kept" ELSE "failed"]
  /\ record' = [record EXCEPT ![n] = Merged(@, run[n])]
  /\ UNCHANGED <<given, status, run, state, loopState, history>>

\* From here on the nodes downstream see the output; a loop also leaves what
\* its body sent over the batches.
Publish(n) ==
  /\ status = "running" /\ at[n] = "kept"
  /\ at' = [at EXCEPT ![n] = "done"]
  /\ produced' = [m \in Nodes |->
       IF m = n THEN run[n].outs
       ELSE IF Owner(m) = n /\ run[n].status = "success" THEN totals[m] ELSE produced[m]]
  /\ errors' = IF run[n].errs = <<>> THEN errors ELSE [errors EXCEPT ![n] = run[n].errs]
  /\ reused' = IF run[n].reused THEN reused \cup {n} ELSE reused
  /\ Sends(n, run[n].outs, run[n].errs)
  /\ run' = [run EXCEPT ![n] = NoRun]
  /\ UNCHANGED <<given, status, loopState, record, got, flawed>>

-----------------------------------------------------------------------------
(* run_loop                                                                *)

\* The nodes of a list are done: run_graph returns.
Quiet(owner) ==
  \A n \in Within(owner) : at[n] = "done" \/ (at[n] = "idle" /\ \E m \in Deps(n) : at[m] # "done")

\* Mutant: a batch_size of zero is taken as it is.
BatchSizeGiven == wf.batch

BatchSize == IF wf.batch = 0 THEN 1 ELSE wf.batch

\* Mutant: the errors of the batch before are left where they are.
ErrorsKept(lp) == errors

\* A batch begins with nothing produced in the body.
ErrorsCleared(lp) == [n \in Nodes |-> IF Owner(n) = lp THEN <<>> ELSE errors[n]]

StartBatch(lp, items) ==
  LET size == IF Len(items) < BatchSize THEN Len(items) ELSE BatchSize
      batch == [NoOutput EXCEPT ![1] = SubSeq(items, 1, size)]
  IN
  /\ queue' = [queue EXCEPT ![lp] = SubSeq(items, size + 1, Len(items))]
  /\ at' = [n \in Nodes |-> IF n = lp THEN "loop" ELSE IF Owner(n) = lp THEN "idle" ELSE at[n]]
  /\ produced' = [n \in Nodes |->
       IF n = lp THEN batch ELSE IF Owner(n) = lp THEN NoOutput ELSE produced[n]]
  /\ errors' = ErrorsCleared(lp)
  /\ Sends(lp, batch, <<>>)

BeginLoop(lp) ==
  /\ Ready(lp) /\ lp \in wf.loops \ wf.disabled
  /\ InputOf(lp) # <<>>
  /\ Gathers(lp)
  /\ run' = [run EXCEPT ![lp] = [NoRun EXCEPT !.input = InputOf(lp)]]
  /\ returned' = [returned EXCEPT ![lp] = <<>>]
  /\ totals' = [n \in Nodes |-> IF Owner(n) = lp THEN NoOutput ELSE totals[n]]
  /\ StartBatch(lp, InputOf(lp))
  /\ UNCHANGED <<given, status, reused, record, flawed>>

\* The body is through with a batch: the next one, or the end, and "done"
\* gets everything that came back.
Turn(lp) ==
  LET back == returned[lp] \o
        FlattenSeq([i \in Links(wf) |-> IF i \in Returns(lp) THEN Arrived(i) ELSE <<>>])
  IN
  /\ status = "running" /\ at[lp] = "loop" /\ Quiet(lp)
  /\ Carry(Returns(lp))
  /\ returned' = [returned EXCEPT ![lp] = back]
  /\ totals' = [n \in Nodes |->
       IF Owner(n) = lp THEN [p \in Port |-> totals[n][p] \o produced[n][p]] ELSE totals[n]]
  /\ \/ queue[lp] # <<>> /\ StartBatch(lp, queue[lp]) /\ UNCHANGED run
     \/ /\ queue[lp] = <<>>
        /\ Returned(lp, [run[lp] EXCEPT !.status = "success", !.outs[0] = back])
        /\ UNCHANGED <<produced, errors, sent, queue>>
  /\ UNCHANGED <<given, status, reused, record, flawed>>

-----------------------------------------------------------------------------
(* start_execution, stop_execution                                         *)

Ends(s) ==
  /\ status = "running" /\ status' = s
  /\ UNCHANGED <<given, at, run, state, loopState, record, history>>

Succeed == Quiet(None) /\ Ends("success")

\* The first node to fail fails the run: the other futures are dropped.
Fail(n) == at[n] = "failed" /\ Ends("error")

\* A stop drops them at the await they are at.
Stop == Ends("canceled")

\* execute_workflow: nodes that succeeded in the last run may be reused
\* unless they, or a node upstream, have changed (their fingerprints).
NewRun(changed, fresh) ==
  /\ status # "running" /\ runs < MaxRuns
  /\ changed \subseteq wf.nodes /\ (runs = 0 => changed = {})
  /\ runs' = runs + 1
  /\ edited' = changed
  /\ status' = IF Layout[name].accepted THEN "running" ELSE "error"
  /\ reusable' = [n \in Nodes |->
       IF ~fresh /\ record[n].status = "success" /\ Layout[name].upstream[n] \cap changed = {}
       THEN record[n] ELSE NoRun]
  /\ Fresh
  /\ UNCHANGED name

-----------------------------------------------------------------------------
\* A node that is ready starts in one way or another.
Step ==
  \/ \E n \in wf.nodes :
       \/ /\ Ready(n)
          /\ \/ Reuse(n) \/ PassOn(n) \/ Skip(n) \/ Begin(n) \/ BeginLoop(n)
             \/ \E size \in 0..MaxItems : Trigger(n, [i \in 1..size |-> i])
       \/ at[n] = "run" /\ \E chosen \in Sendings(n) : Execute(n, chosen)
       \/ Break(n) \/ Persist(n) \/ Publish(n) \/ Turn(n) \/ Fail(n)
  \/ Succeed

Next ==
  \/ Step \/ Stop
  \/ \E fresh \in BOOLEAN, changed \in {{}} \cup {{n} : n \in wf.nodes} : NewRun(changed, fresh)

Spec == Init /\ [][Next]_vars

\* The run's task is polled, nodes return, storage answers.
FairSpec == Spec /\ WF_vars(Step)

-----------------------------------------------------------------------------
(* Properties                                                              *)

\* The two ends run in step: in the same list, from a loop to its body, or
\* back. (A node in a loop reads what comes from outside once per batch.)
InStep(i) ==
  LET from == Conn(i).from
      to == Conn(i).to
  IN  IF i \in Layout[name].back THEN Owner(from) = to
      ELSE Owner(to) = IF from \in wf.loops /\ Conn(i).output = 1 THEN from ELSE Owner(from)

\* A node starts when everything upstream has finished, in every batch:
\* whatever the branches, their failures and the batches of the loops, each
\* node receives what was sent to it once and in order, nothing from an
\* earlier batch, and when the run succeeds nothing is left over.
CarriedOnce ==
  \A i \in Links(wf) : InStep(i) /\ Conn(i).to \notin reused =>
    /\ IsPrefix(got[i], sent[i])
    /\ status = "success" => got[i] = sent[i]

\* try_reuse, 401-403: what stands in for running a node was made of the
\* very items it would receive now, from nodes that are as they were.
ReusedIsCurrent ==
  \A n \in reused : record[n].input = InputOf(n) /\ edited \cap Layout[name].upstream[n] = {}

\* run_loop 345 and persist_node_output 116: a node in a loop keeps what all
\* its batches sent, as its output and in its record. The record gives up
\* at a batch that is skipped or fails, the output at the batches of a loop
\* around the loop; those are left out.
AllBatchesKept ==
  status = "success" =>
    \A i \in Links(wf) :
      LET n == Conn(i).from
          output == Conn(i).output
      IN  n \notin wf.loops \/ output = 0 =>
            /\ n \notin flawed =>
                 sent[i] = IF Conn(i).error THEN record[n].errs ELSE record[n].outs[output]
            /\ ~Conn(i).error /\ (Owner(n) = None \/ Owner(Owner(n)) = None) =>
                 sent[i] = produced[n][output]

\* Every run ends, whatever loops, fails or is skipped in it.
Ended == status = "running" ~> status # "running"
=============================================================================
