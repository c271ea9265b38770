----------------------------- MODULE StoreBatch -----------------------------
(***************************************************************************)
(* Group commit of the execution writes (src/src/n8n/store_batch.rs and    *)
(* Store::batched): callers queue statements and wait; one task runs       *)
(* whatever is queued, up to MAX_BATCH statements, in one transaction and  *)
(* answers them when it has committed.                                     *)
(*                                                                         *)
(* The databases differ when a statement fails: SQLite undoes that one and *)
(* the transaction goes on; PostgreSQL refuses every later statement of    *)
(* the transaction and turns its COMMIT into a ROLLBACK, without an error. *)
(***************************************************************************)
EXTENDS Integers, SequencesExt

CONSTANTS
  Ops,        \* statements
  Databases,  \* of "sqlite" and "postgres", those to consider
  MaxBatch,   \* MAX_BATCH
  MaxErrors,  \* bound on statements and commits that fail
  MaxCrashes  \* bound on process crashes

ASSUME DatabasesAssumption == Databases \subseteq {"sqlite", "postgres"}
ASSUME BatchAssumption == MaxBatch \in Nat \ {0}
ASSUME BatchBounds == {MaxErrors, MaxCrashes} \subseteq Nat

VARIABLES
  database, \* the one in use
  sent,     \* the statements in the order they were sent (history)
  queue,    \* the channel
  batch,    \* the statements of the open transaction
  results,  \* what those that ran returned
  written,  \* those that took effect in it
  aborted,  \* PostgreSQL: a statement of the transaction has failed
  durable,  \* the statements in effect, in the order they took effect
  pc,       \* the writer task: "receive", "execute" or "answer"
  answer,   \* what each caller was told: "none", "ok" or "error"
  errors, crashes

batchVars == <<database, sent, queue, batch, results, written, aborted, durable, pc, answer, errors, crashes>>

BatchTypeOK ==
  /\ database \in Databases
  /\ {sent, queue, batch, written, durable} \subseteq Seq(Ops)
  /\ results \in Seq({"ok", "error"})
  /\ aborted \in BOOLEAN
  /\ pc \in {"receive", "execute", "answer"}
  /\ answer \in [Ops -> {"none", "ok", "error"}]
  /\ errors \in 0..MaxErrors
  /\ crashes \in 0..MaxCrashes
  /\ Len(batch) <= MaxBatch /\ Len(results) <= Len(batch)

BatchInit ==
  /\ database \in Databases
  /\ sent = <<>> /\ queue = <<>> /\ batch = <<>> /\ results = <<>> /\ written = <<>>
  /\ aborted = FALSE
  /\ durable = <<>>
  /\ pc = "receive"
  /\ answer = [o \in Ops |-> "none"]
  /\ errors = 0
  /\ crashes = 0

\* batched
Send(o) ==
  /\ o \notin ToSet(sent)
  /\ sent' = Append(sent, o)
  /\ queue' = Append(queue, o)
  /\ UNCHANGED <<database, batch, results, written, aborted, durable, pc, answer, errors, crashes>>

\* recv, then try_recv until the channel is empty or the batch full; begin.
Receive ==
  LET n == IF Len(queue) < MaxBatch THEN Len(queue) ELSE MaxBatch IN
  /\ pc = "receive"
  /\ queue # <<>>
  /\ batch' = SubSeq(queue, 1, n)
  /\ queue' = SubSeq(queue, n + 1, Len(queue))
  /\ results' = <<>>
  /\ written' = <<>>
  /\ aborted' = FALSE
  /\ pc' = "execute"
  /\ UNCHANGED <<database, sent, durable, answer, errors, crashes>>

\* Mutant: the loop ends at the first statement that fails.
ExecuteUntilError ==
  /\ pc = "execute"
  /\ Len(results) < Len(batch)
  /\ "error" \notin ToSet(results)
  /\ \/ /\ results' = Append(results, "ok")
        /\ written' = Append(written, batch[Len(results) + 1])
        /\ UNCHANGED errors
     \/ /\ errors < MaxErrors
        /\ errors' = errors + 1
        /\ results' = Append(results, "error")
        /\ UNCHANGED written
  /\ UNCHANGED <<database, sent, queue, batch, aborted, durable, pc, answer, crashes>>

\* The next statement of the batch: its error is kept as its result and the
\* loop goes on.
Execute ==
  /\ pc = "execute"
  /\ Len(results) < Len(batch)
  /\ \/ /\ ~aborted
        /\ results' = Append(results, "ok")
        /\ written' = Append(written, batch[Len(results) + 1])
        /\ UNCHANGED <<aborted, errors>>
     \/ /\ ~aborted
        /\ errors < MaxErrors
        /\ errors' = errors + 1
        /\ results' = Append(results, "error")
        /\ aborted' = (database = "postgres")
        /\ UNCHANGED written
     \/ /\ aborted
        /\ results' = Append(results, "error")
        /\ UNCHANGED <<written, aborted, errors>>
  /\ UNCHANGED <<database, sent, queue, batch, durable, pc, answer, crashes>>

\* COMMIT, answered without an error even where it was a rollback.
Commit ==
  /\ pc = "execute"
  /\ Len(results) = Len(batch)
  /\ durable' = IF aborted THEN durable ELSE durable \o written
  /\ written' = <<>>
  /\ pc' = "answer"
  /\ UNCHANGED <<database, sent, queue, batch, results, aborted, answer, errors, crashes>>

\* Mutant: the error of the commit is ignored.
CommitErrorIgnored ==
  /\ pc = "execute"
  /\ Len(results) = Len(batch)
  /\ errors < MaxErrors
  /\ errors' = errors + 1
  /\ written' = <<>>
  /\ pc' = "answer"
  /\ UNCHANGED <<database, sent, queue, batch, results, aborted, durable, answer, crashes>>

\* The transaction cannot begin, or its COMMIT fails - of PostgreSQL's, only
\* the answer may be lost.
TransactionFails ==
  /\ pc = "execute"
  /\ Len(results) \in {0, Len(batch)}
  /\ errors < MaxErrors
  /\ errors' = errors + 1
  /\ durable' \in {durable} \cup
       IF database = "postgres" /\ Len(results) = Len(batch) /\ ~aborted
       THEN {durable \o written} ELSE {}
  /\ written' = <<>>

\* Mutant: a batch that could not be committed is queued again.
CommitRetried ==
  /\ TransactionFails
  /\ queue' = queue \o batch
  /\ batch' = <<>> /\ results' = <<>>
  /\ pc' = "receive"
  /\ UNCHANGED <<database, sent, aborted, answer, crashes>>

\* Every caller of the batch gets the error.
CommitFails ==
  /\ TransactionFails
  /\ results' = [i \in DOMAIN batch |-> "error"]
  /\ pc' = "answer"
  /\ UNCHANGED <<database, sent, queue, batch, aborted, answer, crashes>>

Answer ==
  /\ pc = "answer"
  /\ answer' = [o \in Ops |-> IF \E i \in DOMAIN batch : batch[i] = o
                              THEN results[CHOOSE i \in DOMAIN batch : batch[i] = o]
                              ELSE answer[o]]
  /\ batch' = <<>>
  /\ results' = <<>>
  /\ pc' = "receive"
  /\ UNCHANGED <<database, sent, queue, written, aborted, durable, errors, crashes>>

\* The process dies with its channel and its open transaction.
Crash ==
  /\ crashes < MaxCrashes
  /\ crashes' = crashes + 1
  /\ queue' = <<>> /\ batch' = <<>> /\ results' = <<>> /\ written' = <<>>
  /\ aborted' = FALSE
  /\ pc' = "receive"
  /\ UNCHANGED <<database, sent, durable, answer, errors>>

Writer == Receive \/ Execute \/ Commit \/ CommitFails \/ Answer

BatchNext == (\E o \in Ops : Send(o)) \/ Writer \/ Crash

BatchSpec == BatchInit /\ [][BatchNext]_batchVars

FairBatch == BatchSpec /\ WF_batchVars(Writer)

-----------------------------------------------------------------------------
\* "A write's caller is answered only after its batch has committed"
\* (store_batch.rs 5): a caller told that its write succeeded finds it in
\* the database, and one told that it failed does not, where a failed
\* statement does not abort the transaction.
SqliteAnswersTruly ==
  database = "sqlite" =>
    \A o \in Ops : /\ answer[o] = "ok" => o \in ToSet(durable)
                   /\ answer[o] = "error" => o \notin ToSet(durable)

Precedes(x, y, s) == \E k, l \in DOMAIN s : k < l /\ s[k] = x /\ s[l] = y

\* Writes take effect in the order they were sent, across batches, and none
\* takes effect twice: the end of an execution is never overwritten by a
\* write queued before it.
InOrder ==
  \A i, j \in DOMAIN durable : i < j => Precedes(durable[i], durable[j], sent)

\* Every caller is answered, or its process has died.
Answered ==
  \A o \in Ops : (o \in ToSet(queue)) ~> (answer[o] # "none" \/ crashes > 0)
=============================================================================
