---------------------------- MODULE ExecutionRows ----------------------------
(***************************************************************************)
(* The execution rows of the store (src/src/n8n/store_ext.rs): what the    *)
(* SQL statements on execution_entity do to one row.  Of a row's contents  *)
(* only two things matter to the runner: its status, and which pause its   *)
(* stored run data and wait_state belong to - 0 before the first Wait      *)
(* node, n once the n-th pause has been saved.                             *)
(***************************************************************************)
EXTENDS Integers

CONSTANTS
  Execs,     \* execution ids
  MaxWaits   \* bound on the pauses of one execution

ASSUME MaxWaitsAssumption == MaxWaits \in Nat

VARIABLE row

Stored == {"new", "running", "waiting", "success", "error", "canceled", "crashed"}
Final == {"success", "error", "canceled", "crashed"}

\* "none": not inserted yet; "deleted": the row is gone.
RowType == [status : Stored \cup {"none", "deleted"}, pause : 0..MaxWaits]

NoRow == [status |-> "none", pause |-> 0]

Is(e, statuses) == row[e].status \in statuses

\* insert_execution
Insert(e, s) == row' = [row EXCEPT ![e] = [status |-> s, pause |-> 0]]

\* transition_execution: UPDATE ... WHERE id = ? AND status = ?.  It took
\* effect when the row was in `from`.
Transition(e, from, to) ==
  row' = [row EXCEPT ![e].status = IF @ = from THEN to ELSE @]

\* save_execution_result: UPDATE ... WHERE id = ?, whatever the status.
SaveResult(e, s, n) ==
  row' = [row EXCEPT ![e] = IF @.status \in Stored
                            THEN [status |-> s, pause |-> n] ELSE @]

\* delete_execution
DeleteRow(e) ==
  row' = [row EXCEPT ![e].status = IF @ \in Stored THEN "deleted" ELSE @]

\* Mutant: only the rows left new are marked.
MarkNew ==
  row' = [e \in Execs |-> IF Is(e, {"new"})
                          THEN [row[e] EXCEPT !.status = "crashed"] ELSE row[e]]

\* mark_crashed: every row a previous process left running or new.
MarkCrashed ==
  row' = [e \in Execs |-> IF Is(e, {"running", "new"})
                          THEN [row[e] EXCEPT !.status = "crashed"] ELSE row[e]]

\* prune_executions deletes finished rows only.
Prunable(e) == Is(e, Final)

\* An execution that has ended stays as it ended, status and run data, until
\* its row is deleted.
FinalStays(e) == Is(e, Final) => row'[e] = row[e] \/ row'[e].status = "deleted"

\* Only the run data of its row is replaced, by that of the n-th pause.
DataReplaced(e, n) == row'[e] = [row[e] EXCEPT !.pause = n]
=============================================================================
