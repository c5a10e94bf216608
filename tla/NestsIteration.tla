--------------------------- MODULE NestsIteration ---------------------------
(***************************************************************************)
(* IterateNestsConcurrently of db_store/nests.go: one goroutine streams    *)
(* the rows, batch by batch, into a bounded channel, and workers take them *)
(* out and call fn.  A call that fails cancels the context all of them     *)
(* select on.                                                              *)
(*                                                                         *)
(* The same for fletchling-db-exporter, which has one consumer of its own: *)
(* its fn cannot fail, it leaves without an error when a signal cancels    *)
(* the context, and an error of the stream ends the process.               *)
(*                                                                         *)
(* Rows are inserted meanwhile; nothing deletes any.  Which of the rows in *)
(* the channel comes out first makes no difference.                        *)
(***************************************************************************)
EXTENDS Naturals, FiniteSets

CONSTANTS
    NestId,     \* the ids rows can have
    Worker,     \* the workers, or the one consumer
    Client,     \* which clients: refresh, export
    BatchSize,  \* LIMIT of a query: 1000 in the code
    ChanCap     \* capacity of workCh: 64 in the code

ASSUME IterationAssumption ==
    /\ NestId \subseteq Nat \ {0}
    /\ Worker # {}    \* IterateNestsConcurrently makes it two if there is to be none
    /\ Client \subseteq {"refresh", "export"}
    /\ BatchSize \in Nat \ {0}
    /\ ChanCap \in Nat \ {0}

VARIABLES
    client,     \* IterateNestsConcurrently for a refresh, or the exporter
    table,      \* the rows
    initially,  \* history: the rows at the beginning
    batch,      \* what is left of the rows of the last query
    full,       \* the last query gave as many rows as the limit, or none was made
    lastId,     \* the last row that was streamed
    workCh,     \* the rows in the channel
    closed,     \* the channel is closed
    main,       \* streaming, waiting for the workers, or returned
    streamErr,  \* StreamNests has returned an error
    worker,     \* per worker: select, fn or exited
    nest,       \* per worker: the row in its hands
    loopFail,   \* set by the first worker that fails
    cancelled,  \* the context is cancelled
    result,     \* running, ok or error
    visited,    \* history: the rows fn was called for
    failed,     \* history: a call of fn failed
    stopped     \* history: the caller cancelled or the database failed

vars == <<client, table, initially, batch, full, lastId, workCh, closed, main,
          streamErr, worker, nest, loopFail, cancelled, result, visited, failed, stopped>>

stream == <<batch, full, lastId, streamErr>>
workers == <<worker, nest, loopFail>>
history == <<visited, failed>>

-----------------------------------------------------------------------------

\* The exporter has one consumer only.
Started == IF client = "export" THEN {CHOOSE w \in Worker : TRUE} ELSE Worker

Init ==
    /\ client \in Client
    /\ table \in SUBSET NestId
    /\ initially = table
    /\ batch = {}
    /\ full = TRUE
    /\ lastId = 0
    /\ workCh = {}
    /\ closed = FALSE
    /\ main = "streaming"
    /\ streamErr = FALSE
    /\ worker = [w \in Worker |-> IF w \in Started THEN "select" ELSE "exited"]
    /\ nest = [w \in Worker |-> 0]
    /\ loopFail = FALSE
    /\ cancelled = FALSE
    /\ result = "running"
    /\ visited = {}
    /\ failed = FALSE
    /\ stopped = FALSE

-----------------------------------------------------------------------------
(* StreamNests, in the goroutine of the caller.                             *)

\* Mutant: a query without ORDER BY gives any of the rows that are left.
IsBatchOfAnyOrder(rows, rest) ==
    /\ rows \subseteq rest
    /\ IF rows = rest THEN Cardinality(rows) <= BatchSize
       ELSE Cardinality(rows) = BatchSize

\* The rows of a query: those after lastId, the first ones if there are many.
IsBatch(rows, rest) ==
    /\ rows \subseteq rest
    /\ \A r \in rows, s \in rest \ rows : r < s
    /\ IF rows = rest THEN Cardinality(rows) <= BatchSize
       ELSE Cardinality(rows) = BatchSize

\* iterateNestsBatch: another query, if the last one was full.
Query ==
    LET rest == {n \in table : n > lastId}
    IN  /\ main = "streaming" /\ batch = {} /\ full /\ ~cancelled
        /\ \E rows \in SUBSET rest :
              /\ IsBatch(rows, rest)
              /\ batch' = rows
              /\ full' = (Cardinality(rows) = BatchSize)
        /\ UNCHANGED <<client, table, initially, lastId, workCh, closed, main, streamErr,
                       workers, cancelled, result, history, stopped>>

\* The next row is sent while there is room.
Send(n) ==
    /\ main = "streaming"
    /\ n \in batch /\ \A m \in batch : n <= m
    /\ Cardinality(workCh) < ChanCap
    /\ batch' = batch \ {n}
    /\ lastId' = n
    /\ workCh' = workCh \union {n}
    /\ UNCHANGED <<client, table, initially, full, closed, main, streamErr, workers,
                   cancelled, result, history, stopped>>

\* What follows when StreamNests returns: the exporter ends at once if there is
\* an error, everything else waits for the workers.
StreamReturns(err) ==
    LET dies == err /\ client = "export"
    IN  /\ streamErr' = err
        /\ closed' = TRUE
        /\ main' = IF dies THEN "returned" ELSE "waiting"
        /\ result' = IF dies THEN "error" ELSE result
        /\ worker' = IF dies THEN [w \in Worker |-> "exited"] ELSE worker

\* Mutant: the channel is not closed.
StreamNestsLeavesOpen ==
    /\ main = "streaming" /\ batch = {} /\ ~full
    /\ main' = "waiting"
    /\ UNCHANGED <<client, table, initially, batch, full, lastId, workCh, closed,
                   streamErr, workers, cancelled, result, history, stopped>>

\* StreamNests returns after the batch that was not full.
StreamNestsDone ==
    /\ main = "streaming" /\ batch = {} /\ ~full
    /\ StreamReturns(FALSE)
    /\ UNCHANGED <<client, table, initially, batch, full, lastId, workCh, nest, loopFail,
                   cancelled, history, stopped>>

\* StreamNests sees that the context is cancelled: at a send, in the query, or by the
\* error that rows.Err() has after the last row.
StreamNestsCancelled ==
    /\ main = "streaming" /\ cancelled
    /\ StreamReturns(TRUE)
    /\ UNCHANGED <<client, table, initially, batch, full, lastId, workCh, nest, loopFail,
                   cancelled, history, stopped>>

\* The database fails: the query, a row, or after the last one rows.Err() or the
\* closing of the rows.
StreamNestsFails ==
    /\ main = "streaming"
    /\ StreamReturns(TRUE)
    /\ stopped' = TRUE
    /\ UNCHANGED <<client, table, initially, batch, full, lastId, workCh, nest, loopFail,
                   cancelled, history>>

-----------------------------------------------------------------------------
(* The workers.                                                             *)

\* Mutant: a worker leaves a cancelled context without an error.
WorkerLeavesSilently(w) ==
    /\ worker[w] = "select" /\ cancelled
    /\ worker' = [worker EXCEPT ![w] = "exited"]
    /\ UNCHANGED <<client, table, initially, stream, workCh, closed, main, nest, loopFail,
                   cancelled, result, history, stopped>>

\* <-ctx.Done().  The consumer of the exporter just returns.
WorkerCancelled(w) ==
    /\ worker[w] = "select" /\ cancelled
    /\ worker' = [worker EXCEPT ![w] = "exited"]
    /\ loopFail' = (loopFail \/ client = "refresh")
    /\ UNCHANGED <<client, table, initially, stream, workCh, closed, main, nest,
                   cancelled, result, history, stopped>>

\* <-workCh, and the call of fn.
Receive(w, n) ==
    /\ worker[w] = "select"
    /\ n \in workCh
    /\ workCh' = workCh \ {n}
    /\ worker' = [worker EXCEPT ![w] = "fn"]
    /\ nest' = [nest EXCEPT ![w] = n]
    /\ visited' = visited \union {n}
    /\ UNCHANGED <<client, table, initially, stream, closed, main, loopFail, cancelled,
                   result, failed, stopped>>

\* The channel is closed and empty.
WorkerDone(w) ==
    /\ worker[w] = "select"
    /\ closed /\ workCh = {}
    /\ worker' = [worker EXCEPT ![w] = "exited"]
    /\ UNCHANGED <<client, table, initially, stream, workCh, closed, main, nest, loopFail,
                   cancelled, result, history, stopped>>

FnSucceeds(w) ==
    /\ worker[w] = "fn"
    /\ worker' = [worker EXCEPT ![w] = "select"]
    /\ UNCHANGED <<client, table, initially, stream, workCh, closed, main, nest, loopFail,
                   cancelled, result, history, stopped>>

\* fn fails: the worker cancels the context and exits.
FnFails(w) ==
    /\ worker[w] = "fn" /\ client = "refresh"
    /\ worker' = [worker EXCEPT ![w] = "exited"]
    /\ loopFail' = TRUE
    /\ cancelled' = TRUE
    /\ failed' = TRUE
    /\ UNCHANGED <<client, table, initially, stream, workCh, closed, main, nest, result,
                   visited, stopped>>

-----------------------------------------------------------------------------

\* wg.Wait(), and the return: the error of the stream goes before a worker's.
Return ==
    /\ main = "waiting"
    /\ \A w \in Worker : worker[w] = "exited"
    /\ main' = "returned"
    /\ result' = IF streamErr \/ loopFail THEN "error" ELSE "ok"
    /\ cancelled' = TRUE
    /\ UNCHANGED <<client, table, initially, stream, workCh, closed, workers, history,
                   stopped>>

\* A signal, or the client of the request goes away.
Cancel ==
    /\ main # "returned" /\ ~cancelled
    /\ cancelled' = TRUE
    /\ stopped' = TRUE
    /\ UNCHANGED <<client, table, initially, stream, workCh, closed, main, workers, result,
                   history>>

\* An importer inserts a row.
Insert(n) ==
    /\ n \notin table
    /\ table' = table \union {n}
    /\ UNCHANGED <<client, initially, stream, workCh, closed, main, workers, cancelled,
                   result, history, stopped>>

StreamNests ==
    Query \/ (\E n \in NestId : Send(n)) \/ StreamNestsDone \/ StreamNestsCancelled

Loop(w) ==
    \/ WorkerCancelled(w) \/ WorkerDone(w) \/ FnSucceeds(w)
    \/ \E n \in NestId : Receive(w, n)

Next ==
    \/ StreamNests
    \/ StreamNestsFails
    \/ \E w \in Worker : Loop(w) \/ FnFails(w)
    \/ Return
    \/ Cancel
    \/ \E n \in NestId : Insert(n)

Spec == Init /\ [][Next]_vars

\* Goroutines run, the database answers, and fn returns.
FairSpec ==
    /\ Spec
    /\ WF_vars(StreamNests)
    /\ \A w \in Worker : WF_vars(Loop(w))
    /\ WF_vars(Return)

-----------------------------------------------------------------------------
(* Correctness.                                                             *)

\* Whichever way it ends, in the middle of a batch or between two, the rows that
\* were there and have been streamed are a prefix by id, and each has been handed to
\* fn or is still in the channel: an iteration that is cut off has left out no row
\* before one it has treated, and it has not streamed one again.
NoRowIsPassedOver ==
    /\ {n \in initially : n <= lastId} \subseteq visited \union workCh
    /\ \A n \in visited \union workCh : n <= lastId
    /\ visited \intersect workCh = {}

\* It returns: neither the stream nor a worker waits for the other for ever,
\* whoever fails or is cancelled, while rows come and the channel is full.
IterationReturns == <>(main = "returned")

\* It implements Iteration.  The exporter's success after a signal is excused.
Abstract == INSTANCE Iteration WITH
    active <- {nest[w] : w \in {v \in Worker : worker[v] = "fn"}},
    excused <- client = "export" /\ stopped

IteratesEveryRowOnce == Abstract!Spec

=============================================================================
