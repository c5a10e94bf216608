--------------------------- MODULE PoracleSender ---------------------------
(***************************************************************************)
(* The webhook sender of webhook_sender/poracle.go.  Nest processing adds  *)
(* messages to a queue; a ticker starts a Flush in a goroutine of its own, *)
(* which takes all that is queued under the mutex, and lets one goroutine  *)
(* per destination filter it and POST it without the mutex.  The slice it  *)
(* takes and the emptied queue share one backing array.                    *)
(*                                                                         *)
(* A goroutine of a destination reads the slots one after the other.  A    *)
(* slot that AddNestWebhook overwrites meanwhile is read as it was before  *)
(* or as it is after (reading half of each is not modelled).               *)
(***************************************************************************)
EXTENDS Naturals, Sequences, AreaNames

CONSTANTS
    Destination,   \* the configured webhooks
    AreaOf,        \* AreaOf[m]: the area of the nest of a message
    Areas,         \* Areas[d]: the areas configured for d, none for all
    Flusher,       \* ids of the flushes under way: the ticker's, and Final
    Final,         \* the flush of a shutdown
    MaxMessages    \* bound on the messages ever added

Message == 1..MaxMessages

ASSUME SenderAssumption ==
    /\ MaxMessages \in Nat
    /\ AreaOf \in [Message -> AreaString]
    /\ Areas \in [Destination -> SUBSET AreaString]
    /\ Final \in Flusher

VARIABLES
    added,     \* the number of messages ever added: the next one is added + 1
    arrays,    \* the backing arrays ever allocated for the queue
    queue,     \* nestQueue.messages: the first len slots of an array
    flush,     \* per flush: idle, started, or sending
    batch,     \* per flush: the slice it took from the queue
    sending,   \* per flush and destination: reading, posting or done
    got,       \* per flush and destination: the messages read so far, unfiltered
    run,       \* PoracleSender.Run: running, flushing at a shutdown, or returned
    exited,    \* the process has ended
    pending,   \* history: the messages added since the queue was last taken
    taken,     \* history: per flush, what was pending when it took the queue
    raced,     \* history: per flush, a message was added while it was reading
    waiting    \* history: messages of before the shutdown are still queued

vars == <<added, arrays, queue, flush, batch, sending, got, run, exited,
          pending, taken, raced, waiting>>

memory == <<added, arrays, queue, pending>>
flushes == <<flush, batch, sending, got, taken, raced>>

-----------------------------------------------------------------------------

Nil == 0    \* the zero NestWebhookMessage of a slot not written yet

\* Mutant: the array grows by make([]T, len) and append, which leaves a zero
\* message before the new one.
AppendedAfterZero(message) ==
    IF queue.len < Len(arrays[queue.arr])
    THEN /\ arrays' = [arrays EXCEPT ![queue.arr][queue.len + 1] = message]
         /\ queue' = [queue EXCEPT !.len = @ + 1]
    ELSE /\ arrays' = Append(arrays, arrays[queue.arr] \o <<Nil, message>>)
         /\ queue' = [arr |-> Len(arrays) + 1, len |-> queue.len + 2]

\* The queue after append(q.messages, message): in place while the array has
\* room, into an array of twice the capacity otherwise.
Appended(message) ==
    LET array == arrays[queue.arr]
        room  == IF Len(array) = 0 THEN 1 ELSE 2 * Len(array)
    IN  IF queue.len < Len(array)
        THEN /\ arrays' = [arrays EXCEPT ![queue.arr][queue.len + 1] = message]
             /\ queue' = [queue EXCEPT !.len = @ + 1]
        ELSE /\ arrays' = Append(arrays, [i \in 1..room |->
                              IF i <= queue.len THEN array[i]
                              ELSE IF i = queue.len + 1 THEN message ELSE Nil])
             /\ queue' = [arr |-> Len(arrays) + 1, len |-> queue.len + 1]

Queued == SubSeq(arrays[queue.arr], 1, queue.len)
EmptyArray == [arr |-> 1, len |-> 0]

IdleFlush == [f \in Flusher |-> "idle"]
EmptyBatch == [f \in Flusher |-> EmptyArray]
DoneSending == [f \in Flusher |-> [d \in Destination |-> "done"]]
NothingGot == [f \in Flusher |-> [d \in Destination |-> <<>>]]
NothingTaken == [f \in Flusher |-> <<>>]
NotRaced == [f \in Flusher |-> FALSE]

Init ==
    /\ added = 0
    /\ arrays = << <<>> >> /\ queue = EmptyArray
    /\ flush = IdleFlush /\ batch = EmptyBatch
    /\ sending = DoneSending /\ got = NothingGot
    /\ run = "running"
    /\ exited = FALSE
    /\ pending = <<>> /\ taken = NothingTaken /\ raced = NotRaced
    /\ waiting = FALSE

\* Some destination of the flush still has slots to read.
Reading(f) == \E d \in Destination : sending[f][d] = "reading"

\* ProcessStatsCollection queues a message.  Nobody waits for the goroutine
\* that runs it: messages come until the process has ended.
AddNestWebhook ==
    LET message == added + 1
    IN  /\ ~exited
        /\ added < MaxMessages
        /\ added' = message
        /\ Appended(message)
        /\ pending' = Append(pending, message)
        /\ raced' = [f \in Flusher |-> raced[f] \/ Reading(f)]
        /\ UNCHANGED <<flush, batch, sending, got, run, exited, taken, waiting>>

-----------------------------------------------------------------------------
(* Flush.                                                                   *)

\* Mutant: the ticker waits for the last flush to end.
TickWhenIdle(f) ==
    /\ ~exited /\ run = "running"
    /\ f # Final
    /\ \A g \in Flusher : flush[g] = "idle"
    /\ flush' = [flush EXCEPT ![f] = "started"]
    /\ UNCHANGED <<memory, batch, sending, got, run, exited, taken, raced, waiting>>

IdleFlushers == {f \in Flusher \ {Final} : flush[f] = "idle"}

\* The ticker starts another flush, whether or not the last one has ended.
Tick(f) ==
    /\ ~exited /\ run = "running"
    /\ f \in IdleFlushers
    /\ f = CHOOSE g \in IdleFlushers : TRUE    \* the ids mean nothing
    /\ flush' = [flush EXCEPT ![f] = "started"]
    /\ UNCHANGED <<memory, batch, sending, got, run, exited, taken, raced, waiting>>

\* Mutant: the queue is not emptied.
PopNestMessagesFromQueueKeeping(f) ==
    /\ ~exited
    /\ flush[f] = "started"
    /\ batch' = [batch EXCEPT ![f] = queue]
    /\ flush' = [flush EXCEPT ![f] = "sending"]
    /\ sending' = [sending EXCEPT ![f] = [d \in Destination |-> "reading"]]
    /\ got' = [got EXCEPT ![f] = [d \in Destination |-> <<>>]]
    /\ taken' = [taken EXCEPT ![f] = pending]
    /\ pending' = <<>>
    /\ waiting' = FALSE
    /\ raced' = [raced EXCEPT ![f] = FALSE]
    /\ UNCHANGED <<added, arrays, queue, run, exited>>

\* popNestMessagesFromQueue, and the start of the destinations' goroutines.
PopNestMessagesFromQueue(f) ==
    /\ ~exited
    /\ flush[f] = "started"
    /\ batch' = [batch EXCEPT ![f] = queue]
    /\ queue' = [queue EXCEPT !.len = 0]
    /\ flush' = [flush EXCEPT ![f] = "sending"]
    /\ sending' = [sending EXCEPT ![f] = [d \in Destination |-> "reading"]]
    /\ got' = [got EXCEPT ![f] = [d \in Destination |-> <<>>]]
    /\ taken' = [taken EXCEPT ![f] = pending]
    /\ pending' = <<>>
    /\ waiting' = FALSE
    /\ raced' = [raced EXCEPT ![f] = FALSE]
    /\ UNCHANGED <<added, arrays, run, exited>>

\* filterMessages looks at the next slot, or json.Encode does.
ReadMessage(f, d) ==
    LET next == Len(got[f][d]) + 1
    IN  /\ ~exited
        /\ sending[f][d] = "reading"
        /\ next <= batch[f].len
        /\ got' = [got EXCEPT ![f][d] = Append(@, arrays[batch[f].arr][next])]
        /\ UNCHANGED <<memory, flush, batch, sending, run, exited, taken, raced, waiting>>

Only(messages, set) == SelectSeq(messages, LAMBDA m : m \in set)

\* The messages that filterMessages lets through to a destination.
MessagesFor(d) ==
    LET areaNames == {AreaStringToAreaName(area) : area \in Areas[d]}
    IN  {m \in Message :
            \/ areaNames = {}
            \/ AreaNameMatches(AreaStringToAreaName(AreaOf[m]), areaNames)}

\* filterMessages.
Accepted(messages, d) == Only(messages, MessagesFor(d))

\* Mutant: the last message is not sent.
ReadAllButOne(f, d) ==
    /\ ~exited
    /\ sending[f][d] = "reading"
    /\ Len(got[f][d]) + 1 >= batch[f].len
    /\ sending' = [sending EXCEPT ![f][d] =
                      IF Accepted(got[f][d], d) = <<>> THEN "done" ELSE "posting"]
    /\ UNCHANGED <<memory, flush, batch, got, run, exited, taken, raced, waiting>>

\* All slots are read: with nothing to send there is no request.
ReadAll(f, d) ==
    /\ ~exited
    /\ sending[f][d] = "reading"
    /\ Len(got[f][d]) = batch[f].len
    /\ sending' = [sending EXCEPT ![f][d] =
                      IF Accepted(got[f][d], d) = <<>> THEN "done" ELSE "posting"]
    /\ UNCHANGED <<memory, flush, batch, got, run, exited, taken, raced, waiting>>

\* The request succeeds, or fails: nobody looks at the error.
Post(f, d) ==
    /\ ~exited
    /\ sending[f][d] = "posting"
    /\ sending' = [sending EXCEPT ![f][d] = "done"]
    /\ UNCHANGED <<memory, flush, batch, got, run, exited, taken, raced, waiting>>

\* wg.Wait() returns.
FlushDone(f) ==
    /\ ~exited
    /\ flush[f] = "sending"
    /\ \A d \in Destination : sending[f][d] = "done"
    /\ flush' = [flush EXCEPT ![f] = "idle"]
    /\ batch' = [batch EXCEPT ![f] = EmptyArray]
    /\ got' = [got EXCEPT ![f] = [d \in Destination |-> <<>>]]
    /\ taken' = [taken EXCEPT ![f] = <<>>]
    /\ raced' = [raced EXCEPT ![f] = FALSE]
    /\ run' = IF f = Final THEN "returned" ELSE run
    /\ UNCHANGED <<memory, sending, exited, waiting>>

-----------------------------------------------------------------------------
(* Shutdown: Run flushes once more and returns.                             *)

\* Mutant: Run just returns.
ShutdownWithoutFlush ==
    /\ ~exited /\ run = "running"
    /\ run' = "returned"
    /\ waiting' = (pending # <<>>)
    /\ UNCHANGED <<memory, flushes, exited>>

Shutdown ==
    /\ ~exited /\ run = "running"
    /\ run' = "flushing"
    /\ flush' = [flush EXCEPT ![Final] = "started"]
    /\ waiting' = (pending # <<>>)
    /\ UNCHANGED <<memory, batch, sending, got, exited, taken, raced>>

\* main returns when Run has, without waiting for the flushes of the ticker; but
\* when the web server fails the process ends at once.  Its memory is gone.
Exit ==
    /\ ~exited
    /\ exited' = TRUE
    /\ arrays' = << <<>> >> /\ queue' = EmptyArray
    /\ flush' = IdleFlush /\ batch' = EmptyBatch
    /\ sending' = DoneSending /\ got' = NothingGot
    /\ pending' = <<>> /\ taken' = NothingTaken /\ raced' = NotRaced
    /\ waiting' = FALSE
    /\ UNCHANGED <<added, run>>

-----------------------------------------------------------------------------

FlushStep(f) ==
    \/ PopNestMessagesFromQueue(f)
    \/ \E d \in Destination : ReadMessage(f, d) \/ ReadAll(f, d)
    \/ FlushDone(f)

Next ==
    \/ AddNestWebhook
    \/ \E f \in Flusher : Tick(f) \/ FlushStep(f)
    \/ \E f \in Flusher, d \in Destination : Post(f, d)
    \/ Shutdown
    \/ Exit

Spec == Init /\ [][Next]_vars

\* The ticker ticks and goroutines run.  Nothing is assumed of a request: the
\* http.Client has no timeout.
FairSpec ==
    /\ Spec
    /\ WF_vars(\E f \in Flusher : Tick(f))
    /\ \A f \in Flusher : WF_vars(FlushStep(f))

-----------------------------------------------------------------------------
(* Correctness.                                                             *)

\* The type invariant.  That only messages are got is the claim that the zero
\* value of a slot nobody has written is never sent to anyone.
SenderTypeOK ==
    /\ added \in 0..MaxMessages
    /\ arrays \in Seq(Seq(Message \cup {Nil}))
    /\ queue \in [arr: 1..Len(arrays), len: 0..MaxMessages]
    /\ flush \in [Flusher -> {"idle", "started", "sending"}]
    /\ batch \in [Flusher -> [arr: 1..Len(arrays), len: 0..MaxMessages]]
    /\ sending \in [Flusher -> [Destination -> {"reading", "posting", "done"}]]
    /\ got \in [Flusher -> [Destination -> Seq(Message)]]
    /\ run \in {"running", "flushing", "returned"}
    /\ exited \in BOOLEAN
    /\ pending \in Seq(Message)
    /\ taken \in [Flusher -> Seq(Message)]
    /\ raced \in [Flusher -> BOOLEAN]
    /\ waiting \in BOOLEAN

\* However many flushes still read the arrays of the queue, the queue holds
\* exactly the messages added since it was last taken, in their order.
QueueIsPending == Queued = pending

\* What the destination is sent, once everything is read.
Sent(f, d) == Accepted(got[f][d], d)

\* Whether an area is one of those a configuration lists, part by part: a star
\* is any part, and one part alone is the name, whatever the parent.
Lists(areas, area) ==
    \/ areas = {}
    \/ \E listed \in areas :
          LET parent == IF Len(listed) = 2 THEN listed[1] ELSE Any
          IN  /\ listed[Len(listed)] \in {Any, area[Len(area)]}
              /\ parent = Any \/ (Len(area) = 2 /\ parent = area[1])

\* A flush that no AddNestWebhook overlaps sends to each destination exactly
\* the queued messages of the nests in its areas, once and in order.
UnracedFlushIsExact ==
    \A f \in Flusher, d \in Destination :
        flush[f] = "sending" /\ sending[f][d] # "reading" /\ ~raced[f]
            => Sent(f, d) = Only(taken[f], {m \in Message : Lists(Areas[d], AreaOf[m])})

\* When Run has returned, only messages that came after the shutdown began are
\* still queued; what came before was taken, at the latest by the last flush.
ShutdownTakesTheQueue ==
    run = "returned" => ~waiting

\* A queued message is taken by a flush in the end, even when requests of the
\* flushes before it hang for ever, unless the process has ended.
QueueIsTaken == pending # <<>> ~> pending = <<>> \/ exited \/ run # "running"

-----------------------------------------------------------------------------
(* What the comments say and the code does not do.                          *)

\* The comment on Flush: "Flush will send the collected webhooks".
FlushSendsWhatItCollected ==
    \A f \in Flusher, d \in Destination :
        flush[f] = "sending" /\ sending[f][d] # "reading"
            => Sent(f, d) = Accepted(taken[f], d)

=============================================================================
