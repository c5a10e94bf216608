------------------------ MODULE NestsIterationProofs ------------------------
(***************************************************************************)
(* NestsIteration implements Iteration, for any set of rows, any number of *)
(* workers, any size of a batch and any capacity of the channel.           *)
(***************************************************************************)
EXTENDS NestsIteration, TLAPS

Active == {nest[w] : w \in {v \in Worker : worker[v] = "fn"}}

\* Every row that was streamed is in the channel or was visited, and no row is both.
RowsAreSomewhere ==
    /\ initially \subseteq table /\ table \subseteq NestId
    /\ lastId \in Nat
    /\ batch \subseteq {n \in table : n > lastId}
    /\ workCh \subseteq table \ visited
    /\ visited \subseteq table
    /\ \A n \in workCh \union visited : n <= lastId
    /\ \A n \in initially : n <= lastId => n \in workCh \union visited

\* The rows still to be streamed that are not in the batch come after it, and
\* there are none once a query has found fewer rows than its limit.
BatchIsNext ==
    \A n \in initially \ batch :
        n > lastId => full /\ \A m \in batch : m < n

\* A row is in the hands of one worker only.
HandsAreDistinct ==
    /\ nest \in [Worker -> NestId \union {0}]
    /\ worker \in [Worker -> {"select", "fn", "exited"}]
    /\ Active \subseteq visited
    /\ \A v, w \in Worker :
          v # w /\ worker[v] = "fn" /\ worker[w] = "fn" => nest[v] # nest[w]

\* Where the caller is.
CallerIsThere ==
    /\ client \in {"refresh", "export"}
    /\ main \in {"streaming", "waiting", "returned"}
    /\ result \in {"running", "ok", "error"}
    /\ main = "returned" <=> result # "running"
    /\ main = "returned" => \A w \in Worker : worker[w] = "exited"
    /\ main = "streaming" <=> ~closed
    /\ closed /\ ~streamErr => batch = {} /\ ~full

\* What makes the iteration fail is a call of fn or the caller.
FailuresHaveReasons ==
    /\ \A b \in {full, closed, streamErr, loopFail, cancelled, failed, stopped} : b \in BOOLEAN
    /\ cancelled => stopped \/ failed \/ main = "returned"
    /\ streamErr => stopped \/ failed
    /\ loopFail => stopped \/ failed
    /\ failed => loopFail
    /\ loopFail => client = "refresh"

\* A worker that has exited has said so, or has left nothing behind.
ExitsHaveReasons ==
    \A w \in Started :
        worker[w] = "exited" /\ main # "returned" =>
            \/ loopFail
            \/ client = "export" /\ stopped
            \/ closed /\ workCh = {}

IterationInv ==
    /\ RowsAreSomewhere
    /\ BatchIsNext
    /\ HandsAreDistinct
    /\ CallerIsThere
    /\ FailuresHaveReasons
    /\ ExitsHaveReasons

-----------------------------------------------------------------------------

LEMMA InitIterationInv == Init => IterationInv
<1> SUFFICES ASSUME Init PROVE IterationInv
  OBVIOUS
<1>1. Active = {}
  BY DEF Init, Active, Started
<1>2. RowsAreSomewhere /\ BatchIsNext
  BY IterationAssumption DEF Init, RowsAreSomewhere, BatchIsNext
<1>3. HandsAreDistinct
  BY <1>1 DEF Init, HandsAreDistinct
<1>4. CallerIsThere /\ FailuresHaveReasons /\ ExitsHaveReasons
  BY IterationAssumption DEF Init, CallerIsThere, FailuresHaveReasons, ExitsHaveReasons, Started
<1> QED
  BY <1>2, <1>3, <1>4 DEF IterationInv

\* A query that finds fewer rows than its limit finds all that are left.
LEMMA QueryIterationInv ==
    ASSUME IterationInv, Query
    PROVE  IterationInv'
<1> DEFINE rest == {n \in table : n > lastId}
<1>1. /\ batch' \subseteq rest
      /\ \A r \in batch', s \in rest \ batch' : r < s
      /\ full' \in BOOLEAN
      /\ ~full' => batch' = rest
      /\ main = "streaming"
  BY DEF Query, IsBatch
<1>2. UNCHANGED <<client, table, initially, lastId, workCh, closed, main, streamErr,
                  workers, cancelled, result, history, stopped>>
  BY DEF Query
<1>3. RowsAreSomewhere'
  BY <1>1, <1>2 DEF IterationInv, RowsAreSomewhere, history
<1>4. BatchIsNext'
  BY <1>1, <1>2 DEF IterationInv, RowsAreSomewhere, BatchIsNext
<1>5. HandsAreDistinct'
  BY <1>2 DEF IterationInv, HandsAreDistinct, Active, workers, history
<1>6. CallerIsThere'
  BY <1>1, <1>2 DEF IterationInv, CallerIsThere, workers
<1>7. FailuresHaveReasons'
  BY <1>1, <1>2 DEF IterationInv, FailuresHaveReasons, workers, history
<1>8. ExitsHaveReasons'
  BY <1>2 DEF IterationInv, ExitsHaveReasons, Started, workers
<1> QED
  BY <1>3, <1>4, <1>5, <1>6, <1>7, <1>8 DEF IterationInv

\* Rows are streamed by increasing id, so none there was is passed over.
LEMMA SendIterationInv ==
    ASSUME IterationInv, NEW n \in NestId, Send(n)
    PROVE  IterationInv'
<1>1. /\ main = "streaming" /\ n \in batch /\ \A m \in batch : n <= m
      /\ batch' = batch \ {n} /\ lastId' = n /\ workCh' = workCh \union {n}
      /\ UNCHANGED <<client, table, initially, full, closed, main, streamErr, workers,
                     cancelled, result, history, stopped>>
  BY DEF Send
<1>2. n \in Nat /\ n > lastId /\ table \subseteq Nat /\ lastId \in Nat
  BY <1>1, IterationAssumption DEF IterationInv, RowsAreSomewhere
<1>3. RowsAreSomewhere'
  <2>1. batch' \subseteq {m \in table : m > n}
    BY <1>1, <1>2 DEF IterationInv, RowsAreSomewhere
  <2>2. n \in table /\ n \notin visited /\ n \notin workCh
    BY <1>1, <1>2 DEF IterationInv, RowsAreSomewhere
  <2>3. \A m \in workCh \union visited : m <= n
    BY <1>2 DEF IterationInv, RowsAreSomewhere
  <2>4. \A m \in initially : m <= n => m \in workCh' \union visited
    BY <1>1, <1>2 DEF IterationInv, RowsAreSomewhere, BatchIsNext
  <2> QED
    BY <1>1, <1>2, <2>1, <2>2, <2>3, <2>4 DEF IterationInv, RowsAreSomewhere, history
<1>4. BatchIsNext'
  BY <1>1, <1>2 DEF IterationInv, BatchIsNext, RowsAreSomewhere
<1>5. HandsAreDistinct'
  BY <1>1 DEF IterationInv, HandsAreDistinct, Active, workers, history
<1>6. CallerIsThere' /\ FailuresHaveReasons'
  BY <1>1 DEF IterationInv, CallerIsThere, FailuresHaveReasons, workers, history
<1>7. ExitsHaveReasons'
  BY <1>1 DEF IterationInv, ExitsHaveReasons, CallerIsThere, Started, workers
<1> QED
  BY <1>3, <1>4, <1>5, <1>6, <1>7 DEF IterationInv

\* StreamNests returns with an error only if there is a reason.
LEMMA StreamReturnsIterationInv ==
    ASSUME IterationInv, NEW err \in BOOLEAN, StreamReturns(err),
           main = "streaming", full' = full, batch' = batch,
           ~err => batch = {} /\ ~full,
           err => stopped' \/ failed,
           stopped => stopped', stopped' \in BOOLEAN,
           UNCHANGED <<client, table, initially, lastId, workCh, nest, loopFail, cancelled,
                       history>>
    PROVE  IterationInv'
<1>1. RowsAreSomewhere' /\ BatchIsNext'
  BY DEF IterationInv, RowsAreSomewhere, BatchIsNext, history
<1>2. /\ \A w \in Worker : worker'[w] \in {worker[w], "exited"}
      /\ worker' \in [Worker -> {"select", "fn", "exited"}]
  BY DEF StreamReturns, IterationInv, HandsAreDistinct
<1>3. HandsAreDistinct'
  BY <1>2 DEF IterationInv, HandsAreDistinct, Active, history
<1>4. CallerIsThere'
  BY DEF StreamReturns, IterationInv, CallerIsThere
<1>5. FailuresHaveReasons'
  BY DEF StreamReturns, IterationInv, FailuresHaveReasons, CallerIsThere, history
<1>6. ExitsHaveReasons'
  BY DEF StreamReturns, IterationInv, ExitsHaveReasons, CallerIsThere, FailuresHaveReasons,
         Started
<1> QED
  BY <1>1, <1>3, <1>4, <1>5, <1>6 DEF IterationInv

LEMMA StreamEndsIterationInv ==
    ASSUME IterationInv, StreamNestsDone \/ StreamNestsCancelled \/ StreamNestsFails
    PROVE  IterationInv'
<1>1. CASE StreamNestsDone
  BY <1>1, StreamReturnsIterationInv DEF StreamNestsDone, history, IterationInv,
     FailuresHaveReasons
<1>2. CASE StreamNestsCancelled
  BY <1>2, StreamReturnsIterationInv DEF StreamNestsCancelled, history, IterationInv,
     FailuresHaveReasons, CallerIsThere
<1>3. CASE StreamNestsFails
  BY <1>3, StreamReturnsIterationInv DEF StreamNestsFails, history
<1> QED
  BY <1>1, <1>2, <1>3

\* A worker that leaves its select.
LEMMA WorkerExitsIterationInv ==
    ASSUME IterationInv, NEW w \in Worker, WorkerCancelled(w) \/ WorkerDone(w)
    PROVE  IterationInv'
<1>1. /\ worker[w] = "select" /\ worker' = [worker EXCEPT ![w] = "exited"]
      /\ loopFail' \in {loopFail, client = "refresh" \/ loopFail}
      /\ UNCHANGED <<client, table, initially, stream, workCh, closed, main, nest,
                     cancelled, result, history, stopped>>
  BY DEF WorkerCancelled, WorkerDone
<1>2. RowsAreSomewhere' /\ BatchIsNext'
  BY <1>1 DEF IterationInv, RowsAreSomewhere, BatchIsNext, stream, history
<1>3. HandsAreDistinct'
  BY <1>1 DEF IterationInv, HandsAreDistinct, Active, history
<1>4. CallerIsThere'
  BY <1>1 DEF IterationInv, CallerIsThere, HandsAreDistinct, stream
<1>5. FailuresHaveReasons'
  <2>1. main # "returned"
    BY <1>1 DEF IterationInv, CallerIsThere
  <2>2. CASE WorkerCancelled(w)
    <3>1. cancelled /\ loopFail' = (loopFail \/ client = "refresh")
      BY <2>2 DEF WorkerCancelled
    <3> QED
      BY <1>1, <2>1, <3>1 DEF IterationInv, FailuresHaveReasons, stream, history
  <2>3. CASE WorkerDone(w)
    BY <1>1, <2>3 DEF WorkerDone, IterationInv, FailuresHaveReasons, stream, history
  <2> QED
    BY <2>2, <2>3
<1>6. ExitsHaveReasons'
  <2>1. CASE WorkerDone(w)
    BY <1>1, <2>1 DEF WorkerDone, IterationInv, ExitsHaveReasons, HandsAreDistinct, Started
  <2>2. CASE WorkerCancelled(w)
    <3>1. main # "returned" /\ (loopFail' \/ (client = "export" /\ stopped))
      BY <1>1, <2>2 DEF WorkerCancelled, IterationInv, CallerIsThere, FailuresHaveReasons
    <3> QED
      BY <1>1, <2>2, <3>1 DEF WorkerCancelled, IterationInv, ExitsHaveReasons, Started
  <2> QED
    BY <2>1, <2>2
<1> QED
  BY <1>2, <1>3, <1>4, <1>5, <1>6 DEF IterationInv

\* What is received was not visited, and nobody else has it.
LEMMA ReceiveIterationInv ==
    ASSUME IterationInv, NEW w \in Worker, NEW n \in NestId, Receive(w, n)
    PROVE  /\ IterationInv'
           /\ n \in table \ visited
           /\ Active' = Active \union {n}
<1>1. /\ worker[w] = "select" /\ n \in workCh /\ workCh' = workCh \ {n}
      /\ worker' = [worker EXCEPT ![w] = "fn"]
      /\ nest' = [nest EXCEPT ![w] = n]
      /\ visited' = visited \union {n}
      /\ UNCHANGED <<client, table, initially, stream, closed, main, loopFail, cancelled,
                     result, failed, stopped>>
  BY DEF Receive
<1>2. n \in table \ visited
  BY <1>1 DEF IterationInv, RowsAreSomewhere
<1>3. RowsAreSomewhere' /\ BatchIsNext'
  BY <1>1 DEF IterationInv, RowsAreSomewhere, BatchIsNext, stream
<1>4. /\ worker' \in [Worker -> {"select", "fn", "exited"}]
      /\ nest' \in [Worker -> NestId \union {0}]
      /\ worker'[w] = "fn" /\ nest'[w] = n
      /\ \A v \in Worker : v # w => worker'[v] = worker[v] /\ nest'[v] = nest[v]
  BY <1>1 DEF IterationInv, HandsAreDistinct
<1>5. Active' = Active \union {n}
  BY <1>1, <1>4 DEF Active
<1>6. \A v \in Worker : v # w /\ worker[v] = "fn" => nest[v] # n
  BY <1>2 DEF IterationInv, HandsAreDistinct, Active
<1>7. HandsAreDistinct'
  BY <1>1, <1>4, <1>5, <1>6 DEF IterationInv, HandsAreDistinct
<1>8. CallerIsThere' /\ FailuresHaveReasons'
  BY <1>1 DEF IterationInv, CallerIsThere, FailuresHaveReasons, stream
<1>9. ExitsHaveReasons'
  BY <1>1, <1>4 DEF IterationInv, ExitsHaveReasons, Started
<1> QED
  BY <1>2, <1>3, <1>5, <1>7, <1>8, <1>9 DEF IterationInv

\* The row of a call that returns is in nobody's hands any more.
LEMMA FnReturnsIterationInv ==
    ASSUME IterationInv, NEW w \in Worker, FnSucceeds(w) \/ FnFails(w)
    PROVE  /\ IterationInv'
           /\ nest[w] \in Active /\ Active' = Active \ {nest[w]}
<1>1. /\ worker[w] = "fn" /\ worker'[w] \in {"select", "exited"}
      /\ worker' \in [Worker -> {"select", "fn", "exited"}]
      /\ \A v \in Worker : v # w => worker'[v] = worker[v]
      /\ UNCHANGED <<client, table, initially, stream, workCh, closed, main, nest, result,
                     visited, stopped>>
  <2>1. worker \in [Worker -> {"select", "fn", "exited"}]
    BY DEF IterationInv, HandsAreDistinct
  <2>2. CASE FnSucceeds(w)
    BY <2>1, <2>2 DEF FnSucceeds, history
  <2>3. CASE FnFails(w)
    BY <2>1, <2>3 DEF FnFails
  <2> QED
    BY <2>2, <2>3
<1>2. nest[w] \in Active /\ Active' = Active \ {nest[w]}
  BY <1>1 DEF IterationInv, HandsAreDistinct, Active
<1>3. RowsAreSomewhere' /\ BatchIsNext'
  BY <1>1 DEF IterationInv, RowsAreSomewhere, BatchIsNext, stream
<1>4. HandsAreDistinct'
  BY <1>1, <1>2 DEF IterationInv, HandsAreDistinct
<1>5. CallerIsThere'
  BY <1>1 DEF IterationInv, CallerIsThere, stream
<1>6. FailuresHaveReasons'
  <2>1. CASE FnSucceeds(w)
    BY <1>1, <2>1 DEF FnSucceeds, IterationInv, FailuresHaveReasons, stream, history
  <2>2. CASE FnFails(w)
    <3>1. client = "refresh" /\ failed' = TRUE /\ loopFail' = TRUE /\ cancelled' = TRUE
      BY <2>2 DEF FnFails
    <3> QED
      BY <1>1, <3>1 DEF IterationInv, FailuresHaveReasons, stream
  <2> QED
    BY <2>1, <2>2
<1>7. ExitsHaveReasons'
  BY <1>1 DEF FnSucceeds, FnFails, IterationInv, ExitsHaveReasons, Started
<1> QED
  BY <1>2, <1>3, <1>4, <1>5, <1>6, <1>7 DEF IterationInv

LEMMA OthersIterationInv ==
    ASSUME IterationInv,
           Return \/ Cancel \/ (\E n \in NestId : Insert(n)) \/ UNCHANGED vars
    PROVE  IterationInv'
<1>1. CASE Return
  BY <1>1 DEF Return, IterationInv, RowsAreSomewhere, BatchIsNext, HandsAreDistinct, Active,
     CallerIsThere, FailuresHaveReasons, ExitsHaveReasons, stream, workers, history
<1>2. CASE Cancel
  BY <1>2 DEF Cancel, IterationInv, RowsAreSomewhere, BatchIsNext, HandsAreDistinct, Active,
     CallerIsThere, FailuresHaveReasons, ExitsHaveReasons, Started, stream, workers, history
<1>3. CASE \E n \in NestId : Insert(n)
  BY <1>3 DEF Insert, IterationInv, RowsAreSomewhere, BatchIsNext, HandsAreDistinct, Active,
     CallerIsThere, FailuresHaveReasons, ExitsHaveReasons, Started, stream, workers, history
<1>4. CASE UNCHANGED vars
  BY <1>4 DEF vars, IterationInv, RowsAreSomewhere, BatchIsNext, HandsAreDistinct, Active,
     CallerIsThere, FailuresHaveReasons, ExitsHaveReasons, Started, stream, workers, history
<1> QED
  BY <1>1, <1>2, <1>3, <1>4

LEMMA NextIterationInv == IterationInv /\ [Next]_vars => IterationInv'
BY QueryIterationInv, SendIterationInv, StreamEndsIterationInv, WorkerExitsIterationInv,
   ReceiveIterationInv, FnReturnsIterationInv, OthersIterationInv
   DEF Next, StreamNests, Loop

LEMMA Invariance == Spec => []IterationInv
BY InitIterationInv, NextIterationInv, PTL DEF Spec

-----------------------------------------------------------------------------
(* What was streamed, and the refinement.                                   *)

\* However and whenever the iteration ends, no row there was has been passed over
\* by the batches, and none is streamed twice.
THEOREM NoRowIsEverPassedOver == Spec => []NoRowIsPassedOver
<1>1. IterationInv => NoRowIsPassedOver
  BY DEF IterationInv, RowsAreSomewhere, NoRowIsPassedOver
<1> QED
  BY <1>1, Invariance, PTL


LEMMA InitImplements == Init => Abstract!Init
<1> SUFFICES ASSUME Init PROVE Abstract!Init
  OBVIOUS
<1>1. Active = {}
  BY DEF Init, Active, Started
<1> QED
  BY <1>1 DEF Init, Active, Abstract!Init

\* Steps of the stream and of idle workers do not show.
LEMMA HiddenStepsImplement ==
    ASSUME IterationInv,
           \/ Query \/ (\E n \in NestId : Send(n)) \/ StreamNestsDone
           \/ \E w \in Worker : WorkerCancelled(w) \/ WorkerDone(w)
           \/ UNCHANGED vars
    PROVE  UNCHANGED Abstract!vars
<1>1. /\ UNCHANGED <<client, table, initially, result, visited, failed, stopped, nest>>
      /\ worker' \in [Worker -> {"select", "fn", "exited"}]
      /\ \A w \in Worker : worker'[w] = "fn" <=> worker[w] = "fn"
  <2>1. worker \in [Worker -> {"select", "fn", "exited"}]
    BY DEF IterationInv, HandsAreDistinct
  <2>2. CASE Query \/ (\E n \in NestId : Send(n)) \/ UNCHANGED vars
    BY <2>1, <2>2 DEF Query, Send, vars, workers, history
  <2>3. CASE StreamNestsDone
    BY <2>1, <2>3 DEF StreamNestsDone, StreamReturns, history
  <2>4. CASE \E w \in Worker : WorkerCancelled(w) \/ WorkerDone(w)
    BY <2>1, <2>4 DEF WorkerCancelled, WorkerDone, history
  <2> QED
    BY <2>2, <2>3, <2>4
<1>2. Active' = Active
  BY <1>1 DEF Active
<1> QED
  BY <1>1, <1>2 DEF Abstract!vars, Active

\* The error of a stream that is cancelled, or fails, is the caller's in the end;
\* the exporter's ends it there and then.
LEMMA StreamErrorsImplement ==
    ASSUME IterationInv, StreamNestsCancelled \/ StreamNestsFails
    PROVE  Abstract!Next \/ UNCHANGED Abstract!vars
<1>1. /\ main = "streaming" /\ StreamReturns(TRUE)
      /\ UNCHANGED <<client, table, initially, nest, visited, failed>>
      /\ (stopped' = TRUE) \/ (stopped' = stopped /\ cancelled)
  BY DEF StreamNestsCancelled, StreamNestsFails, history
<1>2. result = "running" /\ client \in {"refresh", "export"}
  BY <1>1 DEF IterationInv, CallerIsThere
<1>3. stopped \in BOOLEAN /\ stopped' \in BOOLEAN /\ failed \in BOOLEAN
  BY <1>1 DEF IterationInv, FailuresHaveReasons
<1>4. (failed \/ stopped') /\ (stopped => stopped')
  BY <1>1 DEF IterationInv, FailuresHaveReasons, CallerIsThere
<1>5. CASE client = "export"
  <2>1. result' = "error" /\ worker' = [w \in Worker |-> "exited"]
    BY <1>1, <1>5 DEF StreamReturns
  <2>2. Active' = {}
    BY <2>1 DEF Active
  <2>3. Abstract!Fail
    BY <1>1, <1>2, <1>3, <1>4, <2>1, <2>2 DEF Abstract!Fail, Active
  <2> QED
    BY <2>3 DEF Abstract!Next
<1>6. CASE client = "refresh"
  <2>1. UNCHANGED <<result, worker>>
    BY <1>1, <1>6 DEF StreamReturns
  <2>2. Active' = Active
    BY <1>1, <2>1 DEF Active
  <2>3. CASE stopped' = TRUE
    BY <1>1, <1>6, <2>1, <2>2, <2>3 DEF Abstract!Next, Abstract!Stop, Active
  <2>4. CASE stopped' = stopped
    BY <1>1, <1>6, <2>1, <2>2, <2>4 DEF Abstract!vars, Active
  <2> QED
    BY <1>1, <2>3, <2>4
<1> QED
  BY <1>2, <1>5, <1>6

LEMMA CallsImplement ==
    ASSUME IterationInv, NEW w \in Worker,
           (\E n \in NestId : Receive(w, n)) \/ FnSucceeds(w) \/ FnFails(w)
    PROVE  Abstract!Next
<1>1. ASSUME NEW n \in NestId, Receive(w, n)
      PROVE  Abstract!Call(n)
  <2>1. n \in table \ visited /\ Active' = Active \union {n}
    BY <1>1, ReceiveIterationInv
  <2>2. result = "running"
    BY <1>1 DEF Receive, IterationInv, CallerIsThere
  <2> QED
    BY <1>1, <2>1, <2>2 DEF Receive, Abstract!Call, Active
<1>2. CASE FnSucceeds(w) \/ FnFails(w)
  <2>1. nest[w] \in Active /\ Active' = Active \ {nest[w]}
    BY <1>2, FnReturnsIterationInv
  <2>2. nest[w] \in NestId
    BY <2>1 DEF IterationInv, HandsAreDistinct, RowsAreSomewhere
  <2>3. CASE FnSucceeds(w)
    <3>1. failed' = (failed \/ FALSE)
      BY <2>3 DEF FnSucceeds, history, IterationInv, FailuresHaveReasons
    <3>2. Abstract!CallReturns(nest[w], FALSE)
      BY <2>1, <2>3, <3>1 DEF FnSucceeds, history, Abstract!CallReturns, Active
    <3> QED
      BY <2>2, <3>2 DEF Abstract!Next
  <2>4. CASE FnFails(w)
    <3>1. failed' = (failed \/ TRUE)
      BY <2>4 DEF FnFails
    <3>2. Abstract!CallReturns(nest[w], TRUE)
      BY <2>1, <2>4, <3>1 DEF FnFails, Abstract!CallReturns, Active
    <3> QED
      BY <2>2, <3>2 DEF Abstract!Next
  <2> QED
    BY <1>2, <2>3, <2>4
<1> QED
  BY <1>1, <1>2 DEF Abstract!Next

\* Success: the last worker has left an empty channel behind a stream that has
\* ended, so every row there was has been in somebody's hands.
LEMMA ReturnImplements ==
    ASSUME IterationInv, Return
    PROVE  Abstract!Succeed \/ Abstract!Fail
<1>1. /\ main = "waiting" /\ \A w \in Worker : worker[w] = "exited"
      /\ result' = IF streamErr \/ loopFail THEN "error" ELSE "ok"
      /\ UNCHANGED <<client, table, initially, worker, nest, visited, failed, stopped>>
  BY DEF Return, workers, history
<1>2. Active = {} /\ Active' = {}
  BY <1>1 DEF Active
<1>3. result = "running" /\ closed
  BY <1>1 DEF IterationInv, CallerIsThere
<1>4. CASE streamErr \/ loopFail
  <2>1. result' = "error" /\ (failed \/ stopped')
    BY <1>1, <1>4 DEF IterationInv, FailuresHaveReasons
  <2> QED
    BY <1>1, <1>2, <1>3, <2>1 DEF Abstract!Fail, Active, IterationInv, FailuresHaveReasons
<1>5. CASE ~streamErr /\ ~loopFail
  <2>1. batch = {} /\ ~full
    BY <1>3, <1>5 DEF IterationInv, CallerIsThere
  <2>2. PICK w \in Started : worker[w] = "exited"
    BY <1>1, IterationAssumption DEF Started
  <2>3. (client = "export" /\ stopped) \/ workCh = {}
    BY <1>1, <1>5, <2>2 DEF IterationInv, ExitsHaveReasons
  <2>4. ASSUME workCh = {}
        PROVE  initially \subseteq visited
    <3>1. \A n \in initially : n \in Nat
      BY IterationAssumption DEF IterationInv, RowsAreSomewhere
    <3> QED
      BY <2>1, <2>4, <3>1 DEF IterationInv, RowsAreSomewhere, BatchIsNext
  <2>5. ~failed
    BY <1>5 DEF IterationInv, FailuresHaveReasons
  <2>6. result' = "ok"
    BY <1>1, <1>5
  <2> QED
    BY <1>1, <1>2, <1>3, <2>3, <2>4, <2>5, <2>6 DEF Abstract!Succeed, Active
<1> QED
  BY <1>4, <1>5 DEF IterationInv, FailuresHaveReasons

LEMMA CallerImplements ==
    ASSUME IterationInv, Cancel \/ \E n \in NestId : Insert(n)
    PROVE  Abstract!Next
<1>1. CASE Cancel
  <2>1. Active' = Active
    BY <1>1 DEF Cancel, workers, Active
  <2>2. client' = client /\ client \in {"refresh", "export"} /\ stopped' = TRUE
    BY <1>1 DEF Cancel, IterationInv, CallerIsThere
  <2>3. Abstract!Stop
    BY <1>1, <2>1, <2>2 DEF Cancel, history, Abstract!Stop, Active
  <2> QED
    BY <2>3 DEF Abstract!Next
<1>2. ASSUME NEW n \in NestId, Insert(n)
      PROVE  Abstract!Insert(n)
  <2>1. Active' = Active
    BY <1>2 DEF Insert, workers, Active
  <2> QED
    BY <1>2, <2>1 DEF Insert, history, Abstract!Insert, Active
<1> QED
  BY <1>1, <1>2 DEF Abstract!Next

LEMMA NextImplements ==
    IterationInv /\ [Next]_vars => [Abstract!Next]_(Abstract!vars)
<1> SUFFICES ASSUME IterationInv, [Next]_vars
             PROVE  Abstract!Next \/ UNCHANGED Abstract!vars
  OBVIOUS
<1>1. CASE Return
  BY <1>1, ReturnImplements DEF Abstract!Next
<1> QED
  BY <1>1, HiddenStepsImplement, StreamErrorsImplement, CallsImplement, CallerImplements
     DEF Next, StreamNests, Loop

\* IterateNestsConcurrently calls fn at most once for a row, and says that all is
\* well only if it was called for every row there was and never failed.
THEOREM Implementation == Spec => IteratesEveryRowOnce
BY InitImplements, NextImplements, Invariance, PTL
   DEF Spec, IteratesEveryRowOnce, Abstract!Spec

=============================================================================
