----------------------------- MODULE AreaProofs -----------------------------
(***************************************************************************)
(* Two parts that know areas by their names: the sender of webhooks and    *)
(* the importer of OSM's elements.  Neither touches the other's state.     *)
(*                                                                         *)
(* What PoracleSender promises of its queue holds for any number of        *)
(* flushes, destinations and messages.  The arrays are shared between the  *)
(* queue and the flushes, so what is proved of the one needs the other.    *)
(*                                                                         *)
(* What OsmImport promises of a run that succeeds holds for any areas and  *)
(* elements and any number of runs, interrupted or not, before it.         *)
(***************************************************************************)
EXTENDS PoracleSender, OsmImport, SequenceTheorems, WellFoundedInduction, TLAPS

-----------------------------------------------------------------------------
(* PoracleSender.                                                           *)

Slot == Message \cup {Nil}

\* The memory has its type, and messages are numbered as they are added.
MemoryTypeOK ==
    /\ added \in 0..MaxMessages
    /\ arrays \in Seq(Seq(Slot))
    /\ queue \in [arr: 1..Len(arrays), len: Nat]
    /\ pending \in Seq(Message)
    /\ Len(pending) <= added

\* A slice is inside of its array, and all its slots are written.
Written(slice) ==
    /\ slice.len <= Len(arrays[slice.arr])
    /\ \A k \in 1..slice.len : arrays[slice.arr][k] \in Message

\* The queue holds what is pending, slot by slot.
QueueHoldsPending ==
    /\ queue.len = Len(pending)
    /\ queue.len <= Len(arrays[queue.arr])
    /\ \A k \in 1..queue.len : arrays[queue.arr][k] = pending[k]

\* A flush has a slice of written slots, and has read only messages.
FlushesTypeOK ==
    /\ flush \in [Flusher -> {"idle", "started", "sending"}]
    /\ batch \in [Flusher -> [arr: 1..Len(arrays), len: 0..MaxMessages]]
    /\ \A f \in Flusher : Written(batch[f])
    /\ sending \in [Flusher -> [Destination -> {"reading", "posting", "done"}]]
    /\ got \in [Flusher -> [Destination -> Seq(Message)]]
    /\ taken \in [Flusher -> Seq(Message)]
    /\ raced \in [Flusher -> BOOLEAN]

\* Messages of before the shutdown wait for the last flush only.
LastFlushComes ==
    /\ run \in {"running", "flushing", "returned"}
    /\ exited \in BOOLEAN
    /\ waiting \in BOOLEAN
    /\ waiting => run = "flushing" /\ flush[Final] = "started"

SenderInv ==
    /\ MemoryTypeOK
    /\ QueueHoldsPending
    /\ FlushesTypeOK
    /\ LastFlushComes

-----------------------------------------------------------------------------
(* The memory.                                                              *)

\* The first slots of an array, read one by one.
LEMMA QueuedIsPending ==
    ASSUME MemoryTypeOK, QueueHoldsPending
    PROVE  Queued = pending
<1> DEFINE array == arrays[queue.arr]
<1>1. array \in Seq(Slot) /\ queue.len \in Nat
  BY DEF MemoryTypeOK
<1>2. Len(SubSeq(array, 1, queue.len)) = queue.len
      /\ \A k \in 1..queue.len : SubSeq(array, 1, queue.len)[k] = array[k]
      /\ SubSeq(array, 1, queue.len) \in Seq(Slot)
  BY <1>1 DEF QueueHoldsPending
<1>3. pending \in Seq(Slot)
  BY DEF MemoryTypeOK, Slot
<1> QED
  BY <1>2, <1>3, SeqEqual DEF Queued, QueueHoldsPending

\* What append does: every array keeps its length, and a slot either keeps what
\* it has or gets the message; the queue's new slot gets it, its others keep.
LEMMA AppendedMemory ==
    ASSUME MemoryTypeOK, QueueHoldsPending,
           NEW message \in Message, Appended(message)
    PROVE  /\ arrays' \in Seq(Seq(Slot))
           /\ Len(arrays) <= Len(arrays')
           /\ \A a \in 1..Len(arrays) :
                 /\ Len(arrays'[a]) = Len(arrays[a])
                 /\ \A k \in 1..Len(arrays[a]) : arrays'[a][k] \in {arrays[a][k], message}
           /\ queue' \in [arr: 1..Len(arrays'), len: Nat]
           /\ queue'.len = queue.len + 1
           /\ queue'.len <= Len(arrays'[queue'.arr])
           /\ arrays'[queue'.arr][queue'.len] = message
           /\ \A k \in 1..queue.len : arrays'[queue'.arr][k] = arrays[queue.arr][k]
<1> DEFINE array == arrays[queue.arr]
           room  == IF Len(array) = 0 THEN 1 ELSE 2 * Len(array)
           grown == [i \in 1..room |-> IF i <= queue.len THEN array[i]
                                       ELSE IF i = queue.len + 1 THEN message ELSE Nil]
<1>1. /\ queue.arr \in 1..Len(arrays) /\ queue.len \in Nat
      /\ queue = [arr |-> queue.arr, len |-> queue.len]
      /\ array \in Seq(Slot) /\ message \in Slot /\ Len(array) \in Nat
      /\ queue.len <= Len(array)
  BY DEF MemoryTypeOK, QueueHoldsPending, Slot
<1>2. CASE queue.len < Len(array)
  <2> DEFINE written == [array EXCEPT ![queue.len + 1] = message]
  <2>1. /\ arrays' = [arrays EXCEPT ![queue.arr] = written]
        /\ queue' = [queue EXCEPT !.len = @ + 1]
    BY <1>2 DEF Appended
  <2>2. /\ written \in Seq(Slot) /\ Len(written) = Len(array)
        /\ written[queue.len + 1] = message
        /\ \A k \in 1..Len(array) : k # queue.len + 1 => written[k] = array[k]
    BY <1>1, <1>2, ExceptSeq
  <2> HIDE DEF written
  <2>3. /\ arrays' \in Seq(Seq(Slot)) /\ Len(arrays') = Len(arrays)
        /\ arrays'[queue.arr] = written
        /\ \A a \in 1..Len(arrays) : a # queue.arr => arrays'[a] = arrays[a]
    BY <1>1, <2>1, <2>2, ExceptSeq DEF MemoryTypeOK
  <2>4. queue' = [arr |-> queue.arr, len |-> queue.len + 1]
    BY <1>1, <2>1
  <2>5. ASSUME NEW a \in 1..Len(arrays)
        PROVE  /\ Len(arrays'[a]) = Len(arrays[a])
               /\ \A k \in 1..Len(arrays[a]) : arrays'[a][k] \in {arrays[a][k], message}
    <3>1. CASE a = queue.arr
      BY <2>2, <2>3, <3>1
    <3> QED
      BY <2>3, <3>1
  <2>6. queue' \in [arr: 1..Len(arrays'), len: Nat] /\ queue'.arr = queue.arr
    BY <1>1, <2>3, <2>4
  <2>7. /\ queue'.len <= Len(arrays'[queue'.arr])
        /\ arrays'[queue'.arr][queue'.len] = message
    BY <1>1, <1>2, <2>2, <2>3, <2>4
  <2>8. \A k \in 1..queue.len : arrays'[queue'.arr][k] = arrays[queue.arr][k]
    <3>1. ASSUME NEW k \in 1..queue.len
          PROVE  k \in 1..Len(array) /\ k # queue.len + 1
      BY <1>1, <1>2
    <3> QED
      BY <2>2, <2>3, <2>6, <3>1
  <2> QED
    BY <2>3, <2>4, <2>5, <2>6, <2>7, <2>8 DEF MemoryTypeOK
<1>3. CASE queue.len = Len(array)
  <2>1. /\ arrays' = Append(arrays, grown)
        /\ queue' = [arr |-> Len(arrays) + 1, len |-> queue.len + 1]
    BY <1>1, <1>3 DEF Appended
  <2>2. room \in Nat /\ queue.len + 1 <= room
    BY <1>1, <1>3
  <2>3. \A i \in 1..room : grown[i] \in Slot
    BY <1>1 DEF Slot
  <2>4. /\ grown \in Seq(Slot) /\ Len(grown) = room
        /\ grown[queue.len + 1] = message
        /\ \A k \in 1..queue.len : grown[k] = array[k]
    <3> HIDE DEF room
    <3> QED
      BY <1>1, <2>2, <2>3, IsASeq
  <2> HIDE DEF grown
  <2>5. /\ arrays' \in Seq(Seq(Slot)) /\ Len(arrays') = Len(arrays) + 1
        /\ arrays'[Len(arrays) + 1] = grown
        /\ \A a \in 1..Len(arrays) : arrays'[a] = arrays[a]
    BY <2>1, <2>4, AppendProperties DEF MemoryTypeOK
  <2> HIDE DEF room
  <2> QED
    BY <1>1, <2>1, <2>2, <2>4, <2>5 DEF MemoryTypeOK
<1> QED
  BY <1>1, <1>2, <1>3

-----------------------------------------------------------------------------
(* The invariant.                                                           *)

\* The memory of a process that has just started.
Fresh ==
    /\ arrays = << <<>> >> /\ queue = EmptyArray
    /\ flush = IdleFlush /\ batch = EmptyBatch
    /\ sending = DoneSending /\ got = NothingGot
    /\ pending = <<>> /\ taken = NothingTaken /\ raced = NotRaced
    /\ waiting = FALSE
    /\ added \in 0..MaxMessages
    /\ exited \in BOOLEAN
    /\ run \in {"running", "flushing", "returned"}

LEMMA FreshSenderInv == Fresh => SenderInv
<1> SUFFICES ASSUME Fresh PROVE SenderInv
  OBVIOUS
<1> USE SenderAssumption DEF IdleFlush, EmptyBatch, DoneSending, NothingGot, NothingTaken,
        NotRaced
<1>1. arrays \in Seq(Seq(Slot)) /\ Len(arrays) = 1 /\ arrays[1] = <<>>
  BY DEF Fresh
<1>2. MemoryTypeOK /\ QueueHoldsPending
  BY <1>1 DEF Fresh, EmptyArray, MemoryTypeOK, QueueHoldsPending
<1>3. FlushesTypeOK
  <2>1. batch \in [Flusher -> [arr: 1..Len(arrays), len: 0..MaxMessages]]
    BY <1>1 DEF Fresh, EmptyArray
  <2>2. \A f \in Flusher : Written(batch[f])
    BY <1>1 DEF Fresh, EmptyArray, Written
  <2>3. got \in [Flusher -> [Destination -> Seq(Message)]] /\ taken \in [Flusher -> Seq(Message)]
    BY DEF Fresh
  <2> QED
    BY <2>1, <2>2, <2>3 DEF Fresh, FlushesTypeOK
<1>4. LastFlushComes
  BY DEF Fresh, LastFlushComes
<1> QED
  BY <1>2, <1>3, <1>4 DEF SenderInv

LEMMA InitSenderInv == Init => SenderInv
<1>1. 0 \in 0..MaxMessages
  BY SenderAssumption
<1>2. Init => Fresh
  BY <1>1 DEF Init, Fresh
<1> QED
  BY <1>2, FreshSenderInv

\* A slice keeps all its slots written, whether or not it shares the array that
\* is appended to.
LEMMA AddNestWebhookSenderInv ==
    ASSUME SenderInv, AddNestWebhook
    PROVE  SenderInv'
<1> DEFINE message == added + 1
<1> USE SenderAssumption
<1>1. message \in Message /\ Appended(message) /\ added' = message
      /\ pending' = Append(pending, message)
  BY DEF SenderInv, MemoryTypeOK, AddNestWebhook, Message
<1> HIDE DEF message
<1>2. /\ arrays' \in Seq(Seq(Slot))
      /\ Len(arrays) <= Len(arrays')
      /\ \A a \in 1..Len(arrays) :
            /\ Len(arrays'[a]) = Len(arrays[a])
            /\ \A k \in 1..Len(arrays[a]) : arrays'[a][k] \in {arrays[a][k], message}
      /\ queue' \in [arr: 1..Len(arrays'), len: Nat]
      /\ queue'.len = queue.len + 1
      /\ queue'.len <= Len(arrays'[queue'.arr])
      /\ arrays'[queue'.arr][queue'.len] = message
      /\ \A k \in 1..queue.len : arrays'[queue'.arr][k] = arrays[queue.arr][k]
  BY <1>1, AppendedMemory DEF SenderInv
<1>3. /\ pending \in Seq(Message) /\ pending' \in Seq(Message)
      /\ Len(pending') = Len(pending) + 1 /\ pending'[Len(pending) + 1] = message
      /\ \A k \in 1..Len(pending) : pending'[k] = pending[k]
  BY <1>1, AppendProperties DEF SenderInv, MemoryTypeOK
<1>4. MemoryTypeOK'
  <2>1. added' \in 0..MaxMessages /\ Len(pending') <= added'
    BY <1>1, <1>3 DEF SenderInv, MemoryTypeOK, Message, message
  <2>2. (Seq(Seq(Slot)))' = Seq(Seq(Slot)) /\ (Seq(Message))' = Seq(Message)
    BY DEF Slot, Message, Nil
  <2> QED
    BY <1>2, <1>3, <2>1, <2>2 DEF MemoryTypeOK
<1>5. QueueHoldsPending'
  <2>1. queue.len = Len(pending) /\ \A k \in 1..queue.len : arrays[queue.arr][k] = pending[k]
    BY DEF SenderInv, QueueHoldsPending
  <2>2. ASSUME NEW k \in 1..queue'.len
        PROVE  arrays'[queue'.arr][k] = pending'[k]
    <3>1. Len(pending) \in Nat
      BY <1>3
    <3>2. CASE k = queue'.len
      BY <1>2, <1>3, <2>1, <3>2
    <3>3. CASE k # queue'.len
      <4>1. k \in 1..queue.len
        BY <1>2, <2>1, <3>1, <3>3
      <4> QED
        BY <1>2, <1>3, <2>1, <4>1
    <3> QED
      BY <3>2, <3>3
  <2> QED
    BY <1>2, <1>3, <2>1, <2>2 DEF QueueHoldsPending
<1>6. FlushesTypeOK'
  <2>1. UNCHANGED <<flush, batch, sending, got, taken>>
        /\ raced' \in [Flusher -> BOOLEAN]
    BY DEF AddNestWebhook, SenderInv, FlushesTypeOK, Reading
  <2>2. ASSUME NEW f \in Flusher
        PROVE  /\ batch[f] \in [arr: 1..Len(arrays'), len: 0..MaxMessages]
               /\ Written(batch[f])'
    <3>1. /\ batch[f].arr \in 1..Len(arrays) /\ batch[f].len \in Nat
          /\ Written(batch[f])
          /\ batch[f] \in [arr: 1..Len(arrays), len: 0..MaxMessages]
      BY DEF SenderInv, FlushesTypeOK
    <3>2. Len(arrays[batch[f].arr]) \in Nat
      BY <3>1 DEF SenderInv, MemoryTypeOK
    <3>3. \A k \in 1..batch[f].len : arrays'[batch[f].arr][k] \in Message
      <4>1. \A k \in 1..batch[f].len :
                k \in 1..Len(arrays[batch[f].arr]) /\ arrays[batch[f].arr][k] \in Message
        BY <3>1, <3>2 DEF Written
      <4> QED
        BY <1>1, <1>2, <3>1, <4>1
    <3>4. Written(batch[f])'
      BY <1>2, <2>1, <3>1, <3>3 DEF Written, Message
    <3>5. Len(arrays) \in Nat /\ Len(arrays') \in Nat
      <4>1. arrays \in Seq(Seq(Slot)) /\ arrays' \in Seq(Seq(Slot))
        BY <1>2 DEF SenderInv, MemoryTypeOK
      <4> QED
        BY ONLY <4>1
    <3>6. batch[f].arr \in 1..Len(arrays')
      BY <1>2, <3>1, <3>5
    <3> QED
      BY ONLY <3>1, <3>4, <3>6
  <2>3. batch' \in [Flusher -> [arr: 1..Len(arrays'), len: 0..MaxMessages]]
    BY <2>1, <2>2 DEF SenderInv, FlushesTypeOK
  <2> QED
    BY <2>1, <2>2, <2>3 DEF SenderInv, FlushesTypeOK, Message
<1>7. LastFlushComes'
  BY DEF SenderInv, LastFlushComes, AddNestWebhook
<1> QED
  BY <1>4, <1>5, <1>6, <1>7 DEF SenderInv

\* What is taken are written slots, and the history is taken with them.
LEMMA PopSenderInv ==
    ASSUME SenderInv, NEW f \in Flusher, PopNestMessagesFromQueue(f)
    PROVE  SenderInv'
<1> USE SenderAssumption
<1>1. /\ queue \in [arr: 1..Len(arrays), len: 0..MaxMessages]
      /\ Written(queue)
      /\ queue' = [arr |-> queue.arr, len |-> 0]
      /\ UNCHANGED <<added, arrays>> /\ pending' = <<>>
  <2>1. queue \in [arr: 1..Len(arrays), len: 0..MaxMessages]
    BY DEF SenderInv, MemoryTypeOK, QueueHoldsPending
  <2>2. Written(queue)
    BY DEF SenderInv, MemoryTypeOK, QueueHoldsPending, Written
  <2> QED
    BY <2>1, <2>2 DEF PopNestMessagesFromQueue
<1>2. MemoryTypeOK' /\ QueueHoldsPending'
  <2>1. Len(arrays[queue.arr]) \in Nat
    BY <1>1 DEF SenderInv, MemoryTypeOK
  <2> QED
    BY <1>1, <2>1 DEF SenderInv, MemoryTypeOK, QueueHoldsPending, Message, Slot
<1>3. FlushesTypeOK'
  <2>1. batch' = [batch EXCEPT ![f] = queue]
    BY DEF PopNestMessagesFromQueue
  <2>2. /\ batch' \in [Flusher -> [arr: 1..Len(arrays), len: 0..MaxMessages]]
        /\ \A g \in Flusher : batch'[g] \in {batch[g], queue}
    BY <1>1, <2>1 DEF SenderInv, FlushesTypeOK
  <2>3. \A g \in Flusher : Written(batch[g])'
    BY <1>1, <2>2 DEF SenderInv, FlushesTypeOK, Written, Message
  <2>4. /\ flush' \in [Flusher -> {"idle", "started", "sending"}]
        /\ sending' \in [Flusher -> [Destination -> {"reading", "posting", "done"}]]
        /\ raced' \in [Flusher -> BOOLEAN]
    BY DEF SenderInv, FlushesTypeOK, PopNestMessagesFromQueue
  <2>5. taken' \in [Flusher -> Seq(Message)]
    BY DEF SenderInv, FlushesTypeOK, MemoryTypeOK, PopNestMessagesFromQueue
  <2>6. got' \in [Flusher -> [Destination -> Seq(Message)]]
    BY DEF SenderInv, FlushesTypeOK, PopNestMessagesFromQueue
  <2> QED
    BY <1>1, <2>2, <2>3, <2>4, <2>5, <2>6 DEF FlushesTypeOK, Message
<1>4. LastFlushComes'
  BY DEF SenderInv, LastFlushComes, PopNestMessagesFromQueue
<1> QED
  BY <1>2, <1>3, <1>4 DEF SenderInv

\* The other steps leave the memory alone.
LEMMA MemoryStays ==
    ASSUME SenderInv, UNCHANGED memory
    PROVE  MemoryTypeOK' /\ QueueHoldsPending'
BY DEF SenderInv, MemoryTypeOK, QueueHoldsPending, memory, Slot, Message

\* Only written slots are read, so only messages are got.
LEMMA ReadMessageSenderInv ==
    ASSUME SenderInv, NEW f \in Flusher, NEW d \in Destination, ReadMessage(f, d)
    PROVE  SenderInv'
<1>1. /\ UNCHANGED <<memory, flush, batch, sending, run, exited, taken, raced, waiting>>
      /\ Len(got[f][d]) + 1 <= batch[f].len
      /\ got' = [got EXCEPT ![f][d] = Append(@, arrays[batch[f].arr][Len(got[f][d]) + 1])]
  BY DEF ReadMessage
<1>2. arrays[batch[f].arr][Len(got[f][d]) + 1] \in Message
  <2>1. Len(got[f][d]) \in Nat /\ batch[f].len \in Nat /\ Written(batch[f])
    BY DEF SenderInv, FlushesTypeOK
  <2> QED
    BY <1>1, <2>1 DEF Written
<1>3. got' \in [Flusher -> [Destination -> Seq(Message)]]
  BY <1>1, <1>2 DEF SenderInv, FlushesTypeOK
<1>4. FlushesTypeOK'
  BY <1>1, <1>3 DEF SenderInv, FlushesTypeOK, Written, memory, Message
<1>5. LastFlushComes'
  BY <1>1 DEF SenderInv, LastFlushComes
<1> QED
  BY <1>1, <1>4, <1>5, MemoryStays DEF SenderInv

LEMMA FlushDoneSenderInv ==
    ASSUME SenderInv, NEW f \in Flusher, FlushDone(f)
    PROVE  SenderInv'
<1> USE SenderAssumption
<1>1. UNCHANGED memory /\ batch' = [batch EXCEPT ![f] = EmptyArray]
  BY DEF FlushDone
<1>2. EmptyArray \in [arr: 1..Len(arrays), len: 0..MaxMessages] /\ Written(EmptyArray)
  <2>1. queue.arr \in 1..Len(arrays) /\ Len(arrays) \in Nat /\ Len(arrays[1]) \in Nat
    BY DEF SenderInv, MemoryTypeOK
  <2> QED
    BY <2>1 DEF EmptyArray, Written
<1>3. /\ batch' \in [Flusher -> [arr: 1..Len(arrays), len: 0..MaxMessages]]
      /\ \A g \in Flusher : batch'[g] \in {batch[g], EmptyArray}
  BY <1>1, <1>2 DEF SenderInv, FlushesTypeOK
<1>4. \A g \in Flusher : Written(batch[g])'
  BY <1>1, <1>2, <1>3 DEF SenderInv, FlushesTypeOK, Written, memory, Message
<1>5. /\ flush' \in [Flusher -> {"idle", "started", "sending"}]
      /\ sending' = sending
      /\ got' \in [Flusher -> [Destination -> Seq(Message)]]
      /\ taken' \in [Flusher -> Seq(Message)]
      /\ raced' \in [Flusher -> BOOLEAN]
  BY DEF SenderInv, FlushesTypeOK, FlushDone
<1>6. FlushesTypeOK'
  BY <1>1, <1>3, <1>4, <1>5 DEF SenderInv, FlushesTypeOK, memory, Message
<1>7. LastFlushComes'
  BY DEF SenderInv, LastFlushComes, FlushesTypeOK, FlushDone
<1> QED
  BY <1>1, <1>6, <1>7, MemoryStays DEF SenderInv

\* The steps that only move a flush or the process on.
LEMMA ProgressSenderInv ==
    ASSUME SenderInv,
           \/ \E f \in Flusher : Tick(f)
           \/ \E f \in Flusher, d \in Destination : ReadAll(f, d) \/ Post(f, d)
           \/ Shutdown
           \/ UNCHANGED vars
    PROVE  SenderInv'
<1> USE SenderAssumption
<1>1. UNCHANGED <<memory, batch, got, taken, raced>>
  BY DEF Tick, ReadAll, Post, Shutdown, vars, memory
<1>2. /\ flush' \in [Flusher -> {"idle", "started", "sending"}]
      /\ sending' \in [Flusher -> [Destination -> {"reading", "posting", "done"}]]
  <2>1. CASE \E f \in Flusher : Tick(f)
    BY <2>1 DEF SenderInv, FlushesTypeOK, Tick
  <2>2. CASE \E f \in Flusher, d \in Destination : ReadAll(f, d)
    BY <2>2 DEF SenderInv, FlushesTypeOK, ReadAll
  <2>3. CASE \E f \in Flusher, d \in Destination : Post(f, d)
    BY <2>3 DEF SenderInv, FlushesTypeOK, Post
  <2>4. CASE Shutdown \/ UNCHANGED vars
    BY <2>4 DEF SenderInv, FlushesTypeOK, Shutdown, vars
  <2> QED
    BY <2>1, <2>2, <2>3, <2>4
<1>3. FlushesTypeOK'
  BY <1>1, <1>2 DEF SenderInv, FlushesTypeOK, Written, memory, Message
<1>4. LastFlushComes'
  <2>1. CASE \E f \in Flusher : Tick(f)
    BY <2>1 DEF SenderInv, LastFlushComes, FlushesTypeOK, Tick
  <2>2. CASE \E f \in Flusher, d \in Destination : ReadAll(f, d) \/ Post(f, d)
    BY <2>2 DEF SenderInv, LastFlushComes, ReadAll, Post
  <2>3. CASE Shutdown
    <3>1. flush'[Final] = "started" /\ run' = "flushing" /\ waiting' \in BOOLEAN
      BY <2>3 DEF SenderInv, FlushesTypeOK, Shutdown
    <3> QED
      BY <2>3, <3>1 DEF SenderInv, LastFlushComes, Shutdown
  <2>4. CASE UNCHANGED vars
    BY <2>4 DEF SenderInv, LastFlushComes, vars
  <2> QED
    BY <2>1, <2>2, <2>3, <2>4
<1> QED
  BY <1>1, <1>3, <1>4, MemoryStays DEF SenderInv

LEMMA ExitSenderInv == SenderInv /\ Exit => SenderInv'
<1>1. SenderInv /\ Exit => Fresh'
  BY DEF Exit, Fresh, EmptyArray, IdleFlush, EmptyBatch, DoneSending, NothingGot,
     NothingTaken, NotRaced, SenderInv, MemoryTypeOK, LastFlushComes
<1>2. (Fresh => SenderInv)'
  BY FreshSenderInv, PTL
<1> QED
  BY <1>1, <1>2

LEMMA NextSenderInv == SenderInv /\ [Next]_vars => SenderInv'
BY AddNestWebhookSenderInv, PopSenderInv, ReadMessageSenderInv, FlushDoneSenderInv,
   ProgressSenderInv, ExitSenderInv DEF Next, FlushStep

LEMMA Invariance == Spec => []SenderInv
BY InitSenderInv, NextSenderInv, PTL DEF Spec

-----------------------------------------------------------------------------
(* What a flush reads, as long as nothing is added meanwhile.               *)

\* A flush has read the first of the messages it took, and all of them before
\* it sends any; the slots it still has to read hold what they held when it
\* took them.
FlushIsExact(f) ==
    /\ ~raced[f] /\ Reading(f) =>
          \A k \in 1..batch[f].len : arrays[batch[f].arr][k] = taken[f][k]
    /\ flush[f] = "sending" =>
          /\ batch[f].len = Len(taken[f])
          /\ \A d \in Destination :
                /\ Len(got[f][d]) <= batch[f].len
                /\ sending[f][d] # "reading" => Len(got[f][d]) = batch[f].len
                /\ ~raced[f] => \A k \in 1..Len(got[f][d]) : got[f][d][k] = taken[f][k]

FlushesAreExact == \A f \in Flusher : FlushIsExact(f)

LEMMA InitFlushesAreExact == Init => FlushesAreExact
BY DEF Init, IdleFlush, DoneSending, Reading, FlushIsExact, FlushesAreExact

\* A flush that takes the queue takes what is pending.
LEMMA PopFlushesAreExact ==
    ASSUME SenderInv, FlushesAreExact, NEW f \in Flusher, PopNestMessagesFromQueue(f)
    PROVE  FlushesAreExact'
<1>1. ASSUME NEW g \in Flusher, g # f
      PROVE  FlushIsExact(g)'
  BY <1>1 DEF SenderInv, FlushesTypeOK, PopNestMessagesFromQueue, FlushesAreExact,
              FlushIsExact, Reading
<1>2. /\ batch'[f] = queue /\ taken'[f] = pending /\ arrays' = arrays /\ raced'[f] = FALSE
      /\ got'[f] = [d \in Destination |-> <<>>]
      /\ sending'[f] = [d \in Destination |-> "reading"]
  BY DEF SenderInv, FlushesTypeOK, PopNestMessagesFromQueue
<1>3. FlushIsExact(f)'
  BY <1>2 DEF SenderInv, QueueHoldsPending, MemoryTypeOK, FlushIsExact
<1> QED
  BY <1>1, <1>3 DEF FlushesAreExact

\* A message that is read is the next one that was taken, unless one was added.
LEMMA ReadMessageFlushesAreExact ==
    ASSUME SenderInv, FlushesAreExact,
           NEW f \in Flusher, NEW d \in Destination, ReadMessage(f, d)
    PROVE  FlushesAreExact'
<1> DEFINE next == Len(got[f][d]) + 1
<1>1. /\ UNCHANGED <<arrays, flush, batch, sending, taken, raced>>
      /\ got' = [got EXCEPT ![f][d] = Append(@, arrays[batch[f].arr][next])]
      /\ sending[f][d] = "reading" /\ next <= batch[f].len
  BY DEF ReadMessage, memory
<1>2. ASSUME NEW g \in Flusher, g # f
      PROVE  FlushIsExact(g)'
  <2>1. got'[g] = got[g]
    BY <1>1, <1>2 DEF SenderInv, FlushesTypeOK
  <2> QED
    BY <1>1, <1>2, <2>1 DEF FlushesAreExact, FlushIsExact, Reading
<1>3. /\ got[f][d] \in Seq(Message) /\ next \in Nat
      /\ \A e \in Destination : e # d => got'[f][e] = got[f][e]
      /\ got'[f][d] = Append(got[f][d], arrays[batch[f].arr][next])
      /\ batch[f].len \in Nat
  BY <1>1 DEF SenderInv, FlushesTypeOK
<1>4. arrays[batch[f].arr][next] \in Message
  BY <1>1, <1>3 DEF SenderInv, FlushesTypeOK, Written
<1>5. /\ Len(got'[f][d]) = next
      /\ \A k \in 1..Len(got[f][d]) : got'[f][d][k] = got[f][d][k]
      /\ got'[f][d][next] = arrays[batch[f].arr][next]
  BY <1>3, <1>4, AppendProperties
<1>6. Reading(f)
  BY <1>1 DEF Reading
<1>7. ASSUME flush[f] = "sending", ~raced[f], NEW k \in 1..next
      PROVE  got'[f][d][k] = taken[f][k]
  <2>1. CASE k = next
    BY <1>1, <1>3, <1>5, <1>6, <1>7, <2>1 DEF FlushesAreExact, FlushIsExact
  <2>2. CASE k # next
    <3>1. k \in 1..Len(got[f][d])
      BY <1>3, <2>2
    <3> QED
      BY <1>5, <1>7, <3>1 DEF FlushesAreExact, FlushIsExact
  <2> QED
    BY <2>1, <2>2
<1>8. FlushIsExact(f)'
  <2> HIDE DEF next
  <2>1. ASSUME flush[f] = "sending", NEW e \in Destination
        PROVE  /\ Len(got'[f][e]) <= batch[f].len
               /\ sending[f][e] # "reading" => Len(got'[f][e]) = batch[f].len
               /\ ~raced[f] => \A k \in 1..Len(got'[f][e]) : got'[f][e][k] = taken[f][k]
    <3>1. CASE e = d
      BY <1>1, <1>5, <1>7, <2>1, <3>1
    <3>2. CASE e # d
      BY <1>3, <2>1, <3>2 DEF FlushesAreExact, FlushIsExact
    <3> QED
      BY <3>1, <3>2
  <2> QED
    BY <1>1, <2>1 DEF FlushesAreExact, FlushIsExact, Reading
<1> QED
  BY <1>2, <1>8 DEF FlushesAreExact

\* The other steps: what is added races with every flush that still reads.
LEMMA NextFlushesAreExact ==
    ASSUME SenderInv, FlushesAreExact, [Next]_vars
    PROVE  FlushesAreExact'
<1>1. CASE AddNestWebhook
  <2>1. /\ UNCHANGED <<flush, batch, sending, got, taken>>
        /\ \A f \in Flusher : raced'[f] = (raced[f] \/ Reading(f))
    BY <1>1 DEF AddNestWebhook
  <2>2. ASSUME NEW f \in Flusher
        PROVE  /\ Reading(f)' <=> Reading(f)
               /\ raced'[f] <=> raced[f] \/ Reading(f)
    BY <2>1 DEF Reading
  <2>3. ASSUME NEW f \in Flusher
        PROVE  FlushIsExact(f)'
    BY <2>1, <2>2 DEF FlushesAreExact, FlushIsExact
  <2> QED
    BY <2>3 DEF FlushesAreExact
<1>2. ASSUME NEW f \in Flusher, Tick(f)
      PROVE  FlushesAreExact'
  <2>1. /\ UNCHANGED <<arrays, batch, sending, got, taken, raced>>
        /\ \A g \in Flusher : flush'[g] = "sending" => flush[g] = "sending"
    BY <1>2 DEF Tick, memory, SenderInv, FlushesTypeOK
  <2> QED
    BY <2>1 DEF FlushesAreExact, FlushIsExact, Reading
<1>3. ASSUME NEW f \in Flusher, NEW d \in Destination, ReadAll(f, d) \/ Post(f, d)
      PROVE  FlushesAreExact'
  <2>1. /\ UNCHANGED <<arrays, flush, batch, got, taken, raced>>
        /\ \A g \in Flusher, e \in Destination :
              \/ sending'[g][e] = sending[g][e]
              \/ /\ sending'[g][e] # "reading"
                 /\ sending[g][e] # "reading" \/ Len(got[g][e]) = batch[g].len
    <3>1. /\ \E next \in {"posting", "done"} : sending' = [sending EXCEPT ![f][d] = next]
          /\ sending[f][d] # "reading" \/ Len(got[f][d]) = batch[f].len
      BY <1>3 DEF ReadAll, Post
    <3> QED
      BY <1>3, <3>1 DEF ReadAll, Post, memory, SenderInv, FlushesTypeOK
  <2>2. ASSUME NEW g \in Flusher
        PROVE  FlushIsExact(g)'
    <3>1. Reading(g)' => Reading(g)
      BY <2>1 DEF Reading
    <3> QED
      BY <2>1, <3>1 DEF FlushesAreExact, FlushIsExact
  <2> QED
    BY <2>2 DEF FlushesAreExact
<1>4. ASSUME NEW f \in Flusher, FlushDone(f)
      PROVE  FlushesAreExact'
  <2>1. /\ UNCHANGED <<arrays, sending>> /\ flush'[f] = "idle" /\ ~Reading(f)
        /\ \A g \in Flusher : g # f =>
              /\ flush'[g] = flush[g] /\ batch'[g] = batch[g] /\ got'[g] = got[g]
              /\ taken'[g] = taken[g] /\ raced'[g] = raced[g]
    BY <1>4 DEF FlushDone, memory, SenderInv, FlushesTypeOK, Reading
  <2>2. ASSUME NEW g \in Flusher
        PROVE  FlushIsExact(g)'
    <3>1. Reading(g)' <=> Reading(g)
      BY <2>1 DEF Reading
    <3>2. CASE g = f
      BY <2>1, <3>1, <3>2 DEF FlushIsExact
    <3>3. CASE g # f
      BY <2>1, <3>1, <3>3 DEF FlushesAreExact, FlushIsExact
    <3> QED
      BY <3>2, <3>3
  <2> QED
    BY <2>2 DEF FlushesAreExact
<1>5. CASE Shutdown
  <2>1. /\ UNCHANGED <<arrays, batch, sending, got, taken, raced>>
        /\ \A g \in Flusher : flush'[g] = "sending" => flush[g] = "sending"
    BY <1>5 DEF Shutdown, memory, SenderInv, FlushesTypeOK
  <2> QED
    BY <2>1 DEF FlushesAreExact, FlushIsExact, Reading
<1>6. CASE Exit
  BY <1>6 DEF Exit, IdleFlush, DoneSending, Reading, FlushIsExact, FlushesAreExact
<1>7. CASE UNCHANGED vars
  BY <1>7 DEF vars, Reading, FlushIsExact, FlushesAreExact
<1> QED
  BY <1>1, <1>2, <1>3, <1>4, <1>5, <1>6, <1>7, PopFlushesAreExact,
     ReadMessageFlushesAreExact DEF Next, FlushStep

LEMMA FlushesStayExact == Spec => []FlushesAreExact
BY InitFlushesAreExact, NextFlushesAreExact, Invariance, PTL DEF Spec

\* AreaNameMatches finds the areas that a configuration lists.
LEMMA MatchingIsListing ==
    ASSUME NEW areas \in SUBSET AreaString, NEW area \in AreaString
    PROVE  AreaNameMatches(AreaStringToAreaName(area),
                           {AreaStringToAreaName(listed) : listed \in areas})
             <=> \E listed \in areas :
                    LET parent == IF Len(listed) = 2 THEN listed[1] ELSE Any
                    IN  /\ listed[Len(listed)] \in {Any, area[Len(area)]}
                        /\ parent = Any \/ (Len(area) = 2 /\ parent = area[1])
<1> DEFINE Parent(a) == IF Len(a) = 2 THEN a[1] ELSE Any
<1>1. ASSUME NEW a \in AreaString
      PROVE  /\ AreaStringToAreaName(a).Parent = Parent(a)
             /\ AreaStringToAreaName(a).Name = a[Len(a)]
  BY DEF AreaString, AreaStringToAreaName, NewAreaName
<1>2. AreaNameMatches(AreaStringToAreaName(area),
                      {AreaStringToAreaName(listed) : listed \in areas})
        <=> \E listed \in areas :
               /\ listed[Len(listed)] \in {Any, area[Len(area)]}
               /\ Parent(listed) \in {Any, Parent(area)}
  BY <1>1 DEF AreaNameMatches
<1>3. ASSUME NEW listed \in areas
      PROVE  Parent(listed) \in {Any, Parent(area)}
               <=> Parent(listed) = Any \/ (Len(area) = 2 /\ Parent(listed) = area[1])
  OBVIOUS
<1> QED
  BY <1>2, <1>3

LEMMA MessagesForAreListed ==
    ASSUME NEW d \in Destination
    PROVE  MessagesFor(d) = {m \in Message : Lists(Areas[d], AreaOf[m])}
<1>1. Areas[d] \in SUBSET AreaString /\ \A m \in Message : AreaOf[m] \in AreaString
  BY SenderAssumption
<1>2. {AreaStringToAreaName(area) : area \in Areas[d]} = {} <=> Areas[d] = {}
  OBVIOUS
<1> QED
  BY <1>1, <1>2, MatchingIsListing DEF MessagesFor, Lists

\* With all slots read, a flush that was not raced has got what it took.
LEMMA UnracedFlushGotAll ==
    ASSUME SenderInv, FlushesAreExact, NEW f \in Flusher, NEW d \in Destination,
           flush[f] = "sending", sending[f][d] # "reading", ~raced[f]
    PROVE  got[f][d] = taken[f]
<1>1. got[f][d] \in Seq(Message) /\ taken[f] \in Seq(Message)
  BY DEF SenderInv, FlushesTypeOK
<1> QED
  BY <1>1, SeqEqual DEF FlushesAreExact, FlushIsExact

-----------------------------------------------------------------------------

\* No destination is ever sent the zero value of a slot nobody has written.
THEOREM OnlyMessagesAreGot == Spec => []SenderTypeOK
<1>1. SenderInv => SenderTypeOK
  BY SenderAssumption DEF SenderInv, MemoryTypeOK, QueueHoldsPending, FlushesTypeOK,
     LastFlushComes, SenderTypeOK, Slot
<1> QED
  BY <1>1, Invariance, PTL

\* AddNestWebhook and popNestMessagesFromQueue lose, double and reorder nothing,
\* whatever flushes still read the arrays.
THEOREM NothingQueuedIsLost == Spec => []QueueIsPending
<1>1. SenderInv => QueueIsPending
  BY QueuedIsPending DEF SenderInv, QueueIsPending
<1> QED
  BY <1>1, Invariance, PTL

\* Run does not return before the last flush has taken what was queued.
THEOREM LastFlushTakesTheQueue == Spec => []ShutdownTakesTheQueue
<1>1. SenderInv => ShutdownTakesTheQueue
  BY DEF SenderInv, LastFlushComes, ShutdownTakesTheQueue
<1> QED
  BY <1>1, Invariance, PTL

\* A flush that no AddNestWebhook overlaps sends to each destination exactly the
\* queued messages of the nests in its areas, once and in their order, whatever
\* the areas of the nests and of the destination are, and whichever flushes
\* still read the same arrays.
THEOREM UnracedFlushSendsItsAreas == Spec => []UnracedFlushIsExact
<1>1. SenderInv /\ FlushesAreExact => UnracedFlushIsExact
  BY UnracedFlushGotAll, MessagesForAreListed DEF UnracedFlushIsExact, Sent, Accepted
<1> QED
  BY <1>1, Invariance, FlushesStayExact, PTL

-----------------------------------------------------------------------------
(* OsmImport.                                                               *)

State == {"none", "unverified", "verified"}
Visiting == {"asking", "asked", "sleeping", "exported", "importing"}

HasRow(e) == rows[e].state # "none"

\* Every nest of the area has a row.
Complete(area) == \A e \in ExportFeatures(area) : Importable(e) => HasRow(e)

\* What is known of an area whose import has begun at some time.
Covered(area) ==
    \/ Complete(area)
    \/ area \in troubled
    \/ pc = "importing" /\ Head(todo) = area

OsmTypeOK ==
    /\ rows \in [Element -> [area : {<<>>} \union {ParentName(area) : area \in Area},
                             state : State]]
    /\ pc \in {"off", "areas"} \union Visiting
    /\ todo \in Seq(Area) /\ selected \in Seq(Area)
    /\ features \subseteq Element

\* The areas still to be visited are the last of those selected.
TodoIsTheRest ==
    /\ Len(todo) <= Len(selected)
    /\ \A j \in 1..Len(todo) : todo[j] = selected[Len(selected) - Len(todo) + j]

\* The area that is visited has a name; all its elements have been exported, and
\* each that matters is upserted or waits for it.
VisitIsSound ==
    /\ pc \in Visiting => todo # <<>> /\ Head(todo).name # ""
    /\ pc = "exported" => features = ExportFeatures(Head(todo))
    /\ pc = "importing" /\ Head(todo) \notin troubled =>
          \A e \in ExportFeatures(Head(todo)) : Importable(e) => HasRow(e) \/ e \in features

\* A row stands for its whole area.
RowsAreCovered ==
    \A e \in Element, area \in Area :
        HasRow(e) /\ rows[e].area = ParentName(area) => Covered(area)

ExistingAreCovered ==
    \A area \in Area : Proper(area) /\ Exists(area) => Covered(area)

\* So do the areas this run has left behind it, visited or skipped.
VisitedAreCovered ==
    \A i \in 1..(Len(selected) - Len(todo)) :
        Proper(selected[i]) => Covered(selected[i])

OsmInv ==
    /\ OsmTypeOK
    /\ TodoIsTheRest
    /\ VisitIsSound
    /\ RowsAreCovered
    /\ ExistingAreCovered
    /\ VisitedAreCovered

-----------------------------------------------------------------------------

\* An area that was visited is told from any other by the name on its rows.
LEMMA NamesDiffer ==
    ASSUME NEW a \in Area, NEW b \in Area, b.name # "", ParentName(a) = ParentName(b)
    PROVE  a = b
<1>1. /\ a = [parent |-> a.parent, name |-> a.name]
      /\ b = [parent |-> b.parent, name |-> b.name]
    BY OsmAssumption
<1>2. ASSUME NEW p, NEW q, NEW r PROVE <<p, q>> # <<r>>
    <2>1. Len(<<p, q>>) = 2 /\ Len(<<r>>) = 1
        OBVIOUS
    <2> QED
        BY <2>1
<1>3. CASE b.parent = ""
    <2>1. ParentName(b) = <<b.name>>
        BY <1>3 DEF ParentName
    <2>2. ~(a.parent # "" /\ a.name # "")
        BY <2>1, <1>2 DEF ParentName
    <2>3. a.name = b.name
        BY <2>1, <2>2 DEF ParentName
    <2> QED
        BY <1>1, <1>3, <2>2, <2>3
<1>4. CASE b.parent # ""
    <2>1. ParentName(b) = <<b.parent, b.name>>
        BY <1>4 DEF ParentName
    <2>2. a.parent # "" /\ a.name # ""
        BY <2>1, <1>2 DEF ParentName
    <2>3. <<a.parent, a.name>> = <<b.parent, b.name>>
        BY <2>1, <2>2 DEF ParentName
    <2> QED
        BY <1>1, <2>3
<1> QED
    BY <1>3, <1>4

\* NewAreaName and NewOverpassExporter spell a proper area alike.
LEMMA ProperNamesAgree ==
    ASSUME NEW a \in Area, Proper(a)
    PROVE  NewAreaName(a.parent, a.name).FullName = ParentName(a)
<1>1. NewAreaName(a.parent, a.name).FullName = FullName(a.parent, a.name)
    BY DEF NewAreaName
<1> QED
    BY <1>1 DEF Proper, ParentName, FullName, Any

\* GetArea returns one of the areas.
LEMMA GetAreaIsArea ==
    ASSUME NEW area \in Area
    PROVE  GetArea(area.name) \in Area
<1> DEFINE name == area.name
           T == {i \in DOMAIN AreaList : AreaList[i].name = name}
           n == Len(AreaList)
           D == {n - i : i \in T}
<1>1. AreaList \in Seq(Area) /\ n \in Nat /\ DOMAIN AreaList = 1..n
    BY OsmAssumption
<1>2. D \subseteq Nat /\ D # {}
    <2>1. PICK k \in DOMAIN AreaList : AreaList[k] = area
        BY DEF Area
    <2> QED
        BY <1>1, <2>1
<1>3. PICK d \in D : \A e \in D : ~(<<e, d>> \in OpToRel(<, Nat))
    <2> HIDE DEF D
    <2> QED
        BY <1>2, NatLessThanWellFounded, WFMin
<1>4. PICK i \in T : d = n - i
    BY <1>3
<1>5. \A j \in DOMAIN AreaList : AreaList[j].name = name => j <= i
    <2> SUFFICES ASSUME NEW j \in DOMAIN AreaList, AreaList[j].name = name PROVE j <= i
        OBVIOUS
    <2>1. n - j \in D /\ n - j \in Nat /\ d \in Nat
        BY <1>1, <1>2, <1>3
    <2>2. ~(n - j < d)
        BY <1>3, <2>1 DEF OpToRel
    <2> QED
        BY <1>1, <1>4, <2>1, <2>2
<1> DEFINE Last(k) == /\ AreaList[k].name = name
                      /\ \A j \in DOMAIN AreaList : AreaList[j].name = name => j <= k
<1>6. i \in DOMAIN AreaList /\ Last(i)
    BY <1>4, <1>5
<1>7. (CHOOSE k \in DOMAIN AreaList : Last(k)) \in DOMAIN AreaList
    BY <1>6
<1>8. GetArea(name) = AreaList[CHOOSE k \in DOMAIN AreaList : Last(k)]
    BY DEF GetArea
<1> QED
    BY <1>1, <1>7, <1>8 DEF Area

-----------------------------------------------------------------------------

\* The first area to be visited is one of them, and what follows are the rest.
LEMMA HeadAndTail ==
    ASSUME OsmTypeOK, todo # <<>>
    PROVE  /\ Head(todo) \in Area /\ Head(todo) = todo[1]
           /\ Tail(todo) \in Seq(Area) /\ Len(Tail(todo)) = Len(todo) - 1
           /\ Len(todo) \in Nat \ {0}
           /\ \A j \in 1..(Len(todo) - 1) : Tail(todo)[j] = todo[j + 1]
    BY DEF OsmTypeOK

\* A step that leaves rows, areas and troubles alone, and has nothing to do with
\* the import of features.
LEMMA QuietKeepsInv ==
    ASSUME OsmInv,
           rows' = rows, todo' = todo, existing' = existing, selected' = selected,
           troubled' = troubled,
           pc # "importing", pc' # "importing",
           pc' \in {"off", "areas"} \union Visiting,
           pc' \in Visiting => todo # <<>> /\ Head(todo).name # "",
           pc' = "exported" => features' = ExportFeatures(Head(todo)),
           features' \subseteq Element
    PROVE  OsmInv'
<1>1. \A area : Covered(area)' <=> Covered(area)
    BY DEF Covered, Complete, HasRow
<1>2. OsmTypeOK'
    BY DEF OsmInv, OsmTypeOK
<1>3. TodoIsTheRest'
    BY DEF OsmInv, TodoIsTheRest
<1>4. VisitIsSound'
    BY DEF OsmInv, VisitIsSound
<1>5. RowsAreCovered'
    BY <1>1 DEF OsmInv, RowsAreCovered, HasRow
<1>6. ExistingAreCovered'
    BY <1>1 DEF OsmInv, ExistingAreCovered, Exists
<1>7. VisitedAreCovered'
    BY <1>1 DEF OsmInv, VisitedAreCovered
<1> QED
    BY <1>2, <1>3, <1>4, <1>5, <1>6, <1>7 DEF OsmInv

\* No exported element is anything but an element.
LEMMA ExportedAreElements ==
    ASSUME NEW area PROVE ExportFeatures(area) \subseteq Element
    BY DEF ExportFeatures

LEMMA AskingKeepsInv ==
    ASSUME OsmInv,
           \/ VisitArea \/ Done \/ SendQuery \/ QueryAnswered \/ QueryTimesOut
           \/ QueryDuplicate \/ QueryFails \/ QueryCancelled \/ Sleep
    PROVE  OsmInv'
<1> USE DEF visit, world, Ends
<1>1. OsmTypeOK /\ VisitIsSound
    BY DEF OsmInv
<1>2. features \subseteq Element
    BY <1>1 DEF OsmTypeOK
<1>3. CASE VisitArea
    BY <1>2, <1>3, QuietKeepsInv DEF VisitArea, Visiting
<1>4. CASE Done
    BY <1>2, <1>4, QuietKeepsInv DEF Done, Visiting
<1>5. CASE SendQuery
    BY <1>1, <1>2, <1>5, QuietKeepsInv DEF SendQuery, Visiting, VisitIsSound
<1>6. CASE QueryAnswered
    BY <1>1, <1>6, QuietKeepsInv, ExportedAreElements
       DEF QueryAnswered, Visiting, VisitIsSound
<1>7. CASE QueryTimesOut
    BY <1>1, <1>2, <1>7, QuietKeepsInv DEF QueryTimesOut, Visiting, VisitIsSound
<1>8. CASE QueryDuplicate
    BY <1>1, <1>2, <1>8, QuietKeepsInv DEF QueryDuplicate, Visiting, VisitIsSound
<1>9. CASE QueryFails
    BY <1>2, <1>9, QuietKeepsInv DEF QueryFails, Visiting
<1>10. CASE QueryCancelled
    BY <1>2, <1>10, QuietKeepsInv DEF QueryCancelled, Visiting
<1>11. CASE Sleep
    BY <1>1, <1>2, <1>11, QuietKeepsInv DEF Sleep, Visiting, VisitIsSound
<1> QED
    BY <1>3, <1>4, <1>5, <1>6, <1>7, <1>8, <1>9, <1>10, <1>11

\* A run begins: what is skipped because of rows is covered by them.
LEMMA StartKeepsInv ==
    ASSUME OsmInv, NEW areas \in Seq(Area), NEW new \in BOOLEAN, NEW skip \in BOOLEAN,
           Start(areas, new, skip)
    PROVE  OsmInv'
<1>1. /\ rows' = rows /\ troubled' = troubled /\ features' = features
      /\ pc = "off" /\ pc' = "areas" /\ todo' = areas /\ selected' = areas
      /\ existing' = IF new THEN GetNestAreas ELSE {}
    BY DEF Start
<1>2. \A area : Covered(area)' <=> Covered(area)
    BY <1>1 DEF Covered, Complete, HasRow
<1>3. OsmTypeOK'
    BY <1>1 DEF OsmInv, OsmTypeOK
<1>4. TodoIsTheRest'
    BY <1>1 DEF TodoIsTheRest
<1>5. VisitIsSound'
    BY <1>1 DEF VisitIsSound, Visiting
<1>6. RowsAreCovered'
    BY <1>1, <1>2 DEF OsmInv, RowsAreCovered, HasRow
<1>7. ExistingAreCovered'
    <2> SUFFICES ASSUME NEW area \in Area, Proper(area), Exists(area)' PROVE Covered(area)
        BY <1>2 DEF ExistingAreCovered
    <2>1. ParentName(area) \in GetNestAreas
        BY <1>1, ProperNamesAgree DEF Exists
    <2>2. PICK e \in Element : HasRow(e) /\ rows[e].area = ParentName(area)
        BY <2>1 DEF GetNestAreas, HasRow
    <2> QED
        BY <2>2 DEF OsmInv, RowsAreCovered
<1>8. VisitedAreCovered'
    BY <1>1 DEF VisitedAreCovered
<1> QED
    BY <1>3, <1>4, <1>5, <1>6, <1>7, <1>8 DEF OsmInv

\* The first of the areas that are left is done with, if it is covered.
LEMMA NextAreaKeepsInv ==
    ASSUME OsmInv, todo # <<>>, todo' = Tail(todo), selected' = selected, existing' = existing, rows' = rows,
           troubled' = troubled, features' = features, pc' = "areas",
           \A area : Covered(area) => Covered(area)',
           \A area : area = Head(todo) /\ Proper(area) => Covered(area)'
    PROVE  OsmInv'
<1>1. OsmTypeOK /\ TodoIsTheRest
    BY DEF OsmInv
<1>2. /\ Head(todo) = todo[1] /\ Tail(todo) \in Seq(Area)
      /\ Len(Tail(todo)) = Len(todo) - 1 /\ Len(todo) \in Nat \ {0}
      /\ \A j \in 1..(Len(todo) - 1) : Tail(todo)[j] = todo[j + 1]
    BY <1>1, HeadAndTail
<1>3. selected \in Seq(Area) /\ Len(selected) \in Nat
    BY <1>1 DEF OsmTypeOK
<1>4. OsmTypeOK'
    BY <1>1, <1>2 DEF OsmTypeOK
<1>5. TodoIsTheRest'
    <2>1. Len(todo') <= Len(selected)
        BY <1>1, <1>2, <1>3 DEF TodoIsTheRest
    <2>2. ASSUME NEW j \in 1..Len(todo')
          PROVE  todo'[j] = selected[Len(selected) - Len(todo') + j]
        <3>1. todo'[j] = todo[j + 1] /\ j + 1 \in 1..Len(todo)
            BY <1>2
        <3>2. todo[j + 1] = selected[Len(selected) - Len(todo) + (j + 1)]
            BY <1>1, <3>1 DEF TodoIsTheRest
        <3>3. Len(selected) - Len(todo) + (j + 1) = Len(selected) - Len(todo') + j
            BY <1>2, <1>3
        <3> QED
            BY <3>1, <3>2, <3>3
    <2> QED
        BY <2>1, <2>2 DEF TodoIsTheRest
<1>6. VisitIsSound'
    BY DEF VisitIsSound, Visiting
<1>7. RowsAreCovered'
    BY DEF OsmInv, RowsAreCovered, HasRow
<1>8. ExistingAreCovered'
    BY DEF OsmInv, ExistingAreCovered, Exists
<1>9. VisitedAreCovered'
    <2> SUFFICES ASSUME NEW i \in 1..(Len(selected) - Len(todo')), Proper(selected[i])
                 PROVE  Covered(selected[i])'
        BY DEF VisitedAreCovered
    <2>1. CASE i <= Len(selected) - Len(todo)
        <3>1. i \in 1..(Len(selected) - Len(todo)) /\ selected[i] \in Area
            BY <2>1, <1>2, <1>3
        <3> QED
            BY <3>1 DEF OsmInv, VisitedAreCovered, Covered, Complete, HasRow
    <2>2. CASE i > Len(selected) - Len(todo)
        <3>1. i = Len(selected) - Len(todo) + 1 /\ 1 \in 1..Len(todo)
            <4>1. Len(todo') = Len(todo) - 1
                BY <1>2
            <4> QED
                BY <2>2, <1>2, <1>3, <4>1
        <3>2. selected[i] = Head(todo)
            BY <3>1, <1>1, <1>2 DEF TodoIsTheRest
        <3> QED
            BY <3>2 DEF Covered, Complete, HasRow
    <2> QED
        BY <2>1, <2>2, <1>2, <1>3
<1> QED
    BY <1>4, <1>5, <1>6, <1>7, <1>8, <1>9 DEF OsmInv

\* An area is skipped if rows of it exist, or if it has no name.
LEMMA SkipAreaKeepsInv ==
    ASSUME OsmInv, SkipArea
    PROVE  OsmInv'
<1>1. /\ rows' = rows /\ troubled' = troubled /\ features' = features
      /\ pc = "areas" /\ pc' = "areas" /\ existing' = existing /\ selected' = selected
      /\ todo # <<>> /\ todo' = Tail(todo)
      /\ Head(todo).name = "" \/ Exists(Head(todo))
    BY DEF SkipArea
<1>2. \A area : Covered(area)' <=> Covered(area)
    BY <1>1 DEF Covered, Complete, HasRow
<1>3. Head(todo) \in Area
    BY <1>1, HeadAndTail DEF OsmInv
<1>4. \A area : area = Head(todo) /\ Proper(area) => Covered(area)
    BY <1>1, <1>3 DEF OsmInv, ExistingAreCovered, Proper
<1> QED
    BY <1>1, <1>2, <1>4, NextAreaKeepsInv

\* ImportFeatures returns: what is not in the database by now was lost.
LEMMA AreaDoneKeepsInv ==
    ASSUME OsmInv, AreaDone
    PROVE  OsmInv'
<1>1. /\ rows' = rows /\ troubled' = troubled /\ features' = features /\ features = {}
      /\ pc = "importing" /\ pc' = "areas" /\ existing' = existing /\ selected' = selected
      /\ todo' = Tail(todo)
    BY DEF AreaDone
<1>2. todo # <<>>
    BY <1>1 DEF OsmInv, VisitIsSound, Visiting
<1>3. Complete(Head(todo)) \/ Head(todo) \in troubled
    BY <1>1 DEF OsmInv, VisitIsSound, Complete
<1>4. ASSUME NEW area, Covered(area) PROVE Covered(area)'
    BY <1>1, <1>3, <1>4 DEF Covered, Complete, HasRow
<1>5. \A area : area = Head(todo) => Covered(area)'
    BY <1>1, <1>3 DEF Covered, Complete, HasRow
<1> QED
    BY <1>1, <1>2, <1>4, <1>5, NextAreaKeepsInv

\* The import of an area begins: its troubles are over.
LEMMA FilterKeepsInv ==
    ASSUME OsmInv, Filter
    PROVE  OsmInv'
<1>1. /\ rows' = rows /\ todo' = todo /\ existing' = existing /\ selected' = selected
      /\ pc = "exported"
    BY DEF Filter, visit
<1>2. /\ features = ExportFeatures(Head(todo)) /\ todo # <<>> /\ Head(todo).name # ""
      /\ features \subseteq Element
    BY <1>1 DEF OsmInv, VisitIsSound, OsmTypeOK, Visiting
<1>3. CASE pc' # "importing"
    <2>1. pc' = "off" /\ features' = {} /\ troubled' = troubled
        BY <1>3 DEF Filter, Ends
    <2> QED
        BY <1>1, <2>1, QuietKeepsInv DEF Visiting
<1>4. CASE pc' = "importing"
    <2>1. features' = {e \in features : Importable(e)} /\ troubled' = troubled \ {Head(todo)}
        BY <1>4 DEF Filter, Ends
    <2>2. \A area : Covered(area) => Covered(area)'
        BY <1>1, <1>4, <2>1 DEF Covered, Complete, HasRow
    <2>3. OsmTypeOK'
        BY <1>1, <1>2, <1>4, <2>1 DEF OsmInv, OsmTypeOK, Visiting
    <2>4. TodoIsTheRest'
        BY <1>1 DEF OsmInv, TodoIsTheRest
    <2>5. VisitIsSound'
        BY <1>1, <1>2, <1>4, <2>1 DEF VisitIsSound
    <2>6. RowsAreCovered'
        BY <1>1, <2>2 DEF OsmInv, RowsAreCovered, HasRow
    <2>7. ExistingAreCovered'
        BY <1>1, <2>2 DEF OsmInv, ExistingAreCovered, Exists
    <2>8. VisitedAreCovered'
        BY <1>1, <2>2 DEF OsmInv, VisitedAreCovered
    <2> QED
        BY <2>3, <2>4, <2>5, <2>6, <2>7, <2>8 DEF OsmInv
<1> QED
    BY <1>3, <1>4

\* A row is written for a feature: no row of another area looks like one of this.
LEMMA ImportFeatureKeepsInv ==
    ASSUME OsmInv, NEW f \in Element, NEW unread \in BOOLEAN, ImportFeature(f, unread)
    PROVE  OsmInv'
<1>1. /\ todo' = todo /\ existing' = existing /\ selected' = selected
      /\ troubled' = troubled /\ pc' = pc /\ pc = "importing"
      /\ rows' = [rows EXCEPT ![f] = Upserted(rows[f], Head(todo), unread)]
      /\ features' = features \ {f}
    BY DEF ImportFeature, visit
<1>2. /\ OsmTypeOK /\ todo # <<>> /\ Head(todo).name # "" /\ Head(todo) \in Area
      /\ rows \in [Element -> [area : {<<>>} \union {ParentName(area) : area \in Area},
                               state : State]]
    BY <1>1, HeadAndTail DEF OsmInv, VisitIsSound, Visiting, OsmTypeOK
<1> DEFINE r == Upserted(rows[f], Head(todo), unread)
<1>3. /\ r.area = ParentName(Head(todo)) /\ r.state \in State \ {"none"}
      /\ r \in [area : {<<>>} \union {ParentName(area) : area \in Area}, state : State]
    BY <1>2 DEF Upserted, State
<1> HIDE DEF r
<1>4. /\ rows'[f] = r
      /\ \A e \in Element : e # f => rows'[e] = rows[e]
    BY <1>1, <1>2 DEF r
<1>5. HasRow(f)' /\ \A e \in Element : HasRow(e) => HasRow(e)'
    BY <1>3, <1>4 DEF HasRow
<1>6. \A area : Covered(area) => Covered(area)'
    BY <1>1, <1>5, ExportedAreElements DEF Covered, Complete
<1>7. OsmTypeOK'
    BY <1>1, <1>2, <1>3 DEF OsmTypeOK, r
<1>8. TodoIsTheRest'
    BY <1>1 DEF OsmInv, TodoIsTheRest
<1>9. VisitIsSound'
    <2>1. \A e \in ExportFeatures(Head(todo)) : HasRow(e) \/ e \in features =>
              HasRow(e)' \/ e \in features'
        BY <1>1, <1>5, ExportedAreElements
    <2> QED
        BY <1>1, <1>2, <2>1 DEF OsmInv, VisitIsSound
<1>10. RowsAreCovered'
    <2> SUFFICES ASSUME NEW e \in Element, NEW area \in Area, HasRow(e)',
                        rows'[e].area = ParentName(area)
                 PROVE  Covered(area)'
        BY DEF RowsAreCovered
    <2>1. CASE e = f
        <3>1. area = Head(todo)
            BY <1>2, <1>3, <1>4, <2>1, NamesDiffer
        <3> QED
            BY <1>1, <3>1 DEF Covered
    <2>2. CASE e # f
        <3>1. HasRow(e) /\ rows[e].area = ParentName(area)
            BY <1>4, <2>2 DEF HasRow
        <3> QED
            BY <1>6, <3>1 DEF OsmInv, RowsAreCovered
    <2> QED
        BY <2>1, <2>2
<1>11. ExistingAreCovered'
    BY <1>1, <1>6 DEF OsmInv, ExistingAreCovered, Exists
<1>12. VisitedAreCovered'
    BY <1>1, <1>6 DEF OsmInv, VisitedAreCovered
<1> QED
    BY <1>7, <1>8, <1>9, <1>10, <1>11, <1>12 DEF OsmInv

\* An upsert is lost: the area is troubled.
LEMMA ImportFeatureFailsKeepsInv ==
    ASSUME OsmInv, NEW f \in Element, ImportFeatureFails(f)
    PROVE  OsmInv'
<1>1. /\ rows' = rows /\ todo' = todo /\ existing' = existing /\ selected' = selected
      /\ pc' = pc /\ pc = "importing"
      /\ troubled' = troubled \union {Head(todo)}
      /\ features' = features \ {f}
    BY DEF ImportFeatureFails, visit
<1>2. \A area : Covered(area) => Covered(area)'
    BY <1>1 DEF Covered, Complete, HasRow
<1>3. OsmTypeOK'
    BY <1>1 DEF OsmInv, OsmTypeOK
<1>4. TodoIsTheRest'
    BY <1>1 DEF OsmInv, TodoIsTheRest
<1>5. VisitIsSound'
    BY <1>1 DEF OsmInv, VisitIsSound
<1>6. RowsAreCovered'
    BY <1>1, <1>2 DEF OsmInv, RowsAreCovered, HasRow
<1>7. ExistingAreCovered'
    BY <1>1, <1>2 DEF OsmInv, ExistingAreCovered, Exists
<1>8. VisitedAreCovered'
    BY <1>1, <1>2 DEF OsmInv, VisitedAreCovered
<1> QED
    BY <1>3, <1>4, <1>5, <1>6, <1>7, <1>8 DEF OsmInv

\* The refresh, whole or half, takes no row away.
LEMMA RefreshKeepsInv ==
    ASSUME OsmInv, Refresh \/ RefreshFails
    PROVE  OsmInv'
<1>1. /\ todo' = todo /\ existing' = existing /\ selected' = selected
      /\ troubled' = troubled /\ pc = "areas" /\ pc' = "off" /\ features' = {}
    BY DEF Refresh, RefreshFails, visit, Ends
<1>2. rows \in [Element -> [area : {<<>>} \union {ParentName(area) : area \in Area},
                            state : State]]
    BY DEF OsmInv, OsmTypeOK
<1>3. \A e \in Element : HasRow(e) => rows[e] = [area |-> rows[e].area, state |-> rows[e].state]
    BY <1>2
<1>4. /\ rows' \in [Element -> [area : {<<>>} \union {ParentName(area) : area \in Area},
                                state : State]]
      /\ \A e \in Element : /\ HasRow(e)' <=> HasRow(e)
                            /\ HasRow(e) => rows'[e].area = rows[e].area
    <2>1. CASE Refresh
        BY <2>1, <1>2 DEF Refresh, HasRow, NoRow, State
    <2>2. CASE RefreshFails
        BY <2>2, <1>2 DEF RefreshFails, HasRow, NoRow, State
    <2> QED
        BY <2>1, <2>2
<1>5. \A area : Covered(area) => Covered(area)'
    BY <1>1, <1>4, ExportedAreElements DEF Covered, Complete
<1>6. OsmTypeOK'
    BY <1>1, <1>4 DEF OsmInv, OsmTypeOK
<1>7. TodoIsTheRest'
    BY <1>1 DEF OsmInv, TodoIsTheRest
<1>8. VisitIsSound'
    BY <1>1 DEF VisitIsSound, Visiting
<1>9. RowsAreCovered'
    BY <1>4, <1>5 DEF OsmInv, RowsAreCovered
<1>10. ExistingAreCovered'
    BY <1>1, <1>5 DEF OsmInv, ExistingAreCovered, Exists
<1>11. VisitedAreCovered'
    BY <1>1, <1>5 DEF OsmInv, VisitedAreCovered
<1> QED
    BY <1>6, <1>7, <1>8, <1>9, <1>10, <1>11 DEF OsmInv

\* The process is killed: an import that was cut off is a trouble.
LEMMA KillKeepsInv ==
    ASSUME OsmInv, Kill
    PROVE  OsmInv'
<1>1. /\ rows' = rows /\ todo' = todo /\ existing' = existing /\ selected' = selected
      /\ pc' = "off" /\ features' = {}
    BY DEF Kill, visit, Ends
<1>2. CASE pc # "importing"
    <2>1. troubled' = troubled
        BY <1>2 DEF Kill
    <2> QED
        BY <1>1, <1>2, <2>1, QuietKeepsInv DEF Visiting
<1>3. CASE pc = "importing"
    <2>1. troubled \subseteq troubled' /\ (features # {} => Head(todo) \in troubled')
        BY <1>3 DEF Kill
    <2>2. Complete(Head(todo)) \/ Head(todo) \in troubled'
        BY <1>3, <2>1 DEF OsmInv, VisitIsSound, Complete
    <2>3. ASSUME NEW area, Covered(area) PROVE Covered(area)'
        BY <1>1, <2>1, <2>2, <2>3 DEF Covered, Complete, HasRow
    <2>4. OsmTypeOK'
        BY <1>1 DEF OsmInv, OsmTypeOK
    <2>5. TodoIsTheRest'
        BY <1>1 DEF OsmInv, TodoIsTheRest
    <2>6. VisitIsSound'
        BY <1>1 DEF VisitIsSound, Visiting
    <2>7. RowsAreCovered'
        BY <1>1, <2>3 DEF OsmInv, RowsAreCovered, HasRow
    <2>8. ExistingAreCovered'
        BY <1>1, <2>3 DEF OsmInv, ExistingAreCovered, Exists
    <2>9. VisitedAreCovered'
        BY <1>1, <2>3 DEF OsmInv, VisitedAreCovered
    <2> QED
        BY <2>4, <2>5, <2>6, <2>7, <2>8, <2>9 DEF OsmInv
<1> QED
    BY <1>2, <1>3

-----------------------------------------------------------------------------

\* The invariant of the importer holds before its first run.
LEMMA OsmInitInv ==
    OsmInit => OsmInv
<1> SUFFICES ASSUME OsmInit PROVE OsmInv
    OBVIOUS
<1>1. /\ rows = [e \in Element |-> NoRow] /\ pc = "off" /\ todo = <<>> /\ selected = <<>>
      /\ existing = {} /\ features = {}
    BY DEF OsmInit
<1>2. \A e \in Element : ~HasRow(e)
    BY <1>1 DEF HasRow, NoRow
<1>3. OsmTypeOK
    BY <1>1 DEF OsmTypeOK, NoRow, State
<1> QED
    BY <1>1, <1>2, <1>3 DEF OsmInv, TodoIsTheRest, VisitIsSound, Visiting, RowsAreCovered,
                            ExistingAreCovered, Exists, VisitedAreCovered

\* Every state reached satisfies it.
LEMMA OsmInvHolds ==
    OsmSpec => []OsmInv
<1>1. OsmInv /\ [OsmNext]_osmVars => OsmInv'
    <2> SUFFICES ASSUME OsmInv, [OsmNext]_osmVars PROVE OsmInv'
        OBVIOUS
    <2>1. ASSUME NEW new \in BOOLEAN, NEW skip \in BOOLEAN, Start(AreaList, new, skip)
          PROVE  OsmInv'
        BY <2>1, StartKeepsInv, OsmAssumption
    <2>2. ASSUME NEW area \in Area, NEW skip \in BOOLEAN,
                 Start(<<GetArea(area.name)>>, FALSE, skip)
          PROVE  OsmInv'
        <3>1. <<GetArea(area.name)>> \in Seq(Area)
            BY GetAreaIsArea
        <3> QED
            BY <2>2, <3>1, StartKeepsInv
    <2>3. CASE Program
        <3>1. CASE Refresh \/ RefreshFails
            BY <3>1, RefreshKeepsInv
        <3>2. CASE Import
            BY <3>2, ImportFeatureKeepsInv, ImportFeatureFailsKeepsInv DEF Import
        <3> QED
            BY <2>3, <3>1, <3>2, AskingKeepsInv, SkipAreaKeepsInv, FilterKeepsInv,
               AreaDoneKeepsInv DEF Program
    <2>4. CASE Overpass
        BY <2>4, AskingKeepsInv DEF Overpass
    <2>5. CASE Kill
        BY <2>5, KillKeepsInv
    <2>6. CASE Signal \/ UNCHANGED osmVars
        <3>1. /\ rows' = rows /\ pc' = pc /\ todo' = todo /\ existing' = existing
              /\ selected' = selected /\ features' = features /\ troubled' = troubled
            BY <2>6 DEF Signal, visit, osmVars
        <3>2. \A area : Covered(area)' <=> Covered(area)
            BY <3>1 DEF Covered, Complete, HasRow
        <3> QED
            BY <3>1, <3>2 DEF OsmInv, OsmTypeOK, TodoIsTheRest, VisitIsSound, RowsAreCovered,
                              ExistingAreCovered, Exists, VisitedAreCovered, HasRow
    <2> QED
        BY <2>1, <2>2, <2>3, <2>4, <2>5, <2>6 DEF OsmNext
<1> QED
    BY <1>1, OsmInitInv, PTL DEF OsmSpec

\* A run of the OSM importer that says it is done has put all nests of each of its
\* areas into the database, or an earlier one has, unless upserts were lost; and it has
\* verified every row: for any areas, elements and number of runs, signals and kills.
THEOREM ImportsAreComplete ==
    OsmSpec => SuccessIsComplete
<1>1. ASSUME OsmInv, OsmNext, pc # "off", pc' = "off", result' = "ok"
      PROVE  /\ \A i \in DOMAIN selected :
                   LET area == selected[i]
                   IN  Proper(area) /\ area \notin troubled =>
                         \A e \in ExportFeatures(area) :
                             Importable(e) => rows[e].state # "none"
             /\ processed > 0 /\ ~flags.skip =>
                   \A e \in Element : rows'[e].state # "unverified"
    <2>1. Refresh \/ Done
        <3>1. CASE Program
            BY <1>1, <3>1 DEF Program, SkipArea, VisitArea, RefreshFails, SendQuery,
               QueryCancelled, Sleep, Filter, Import, ImportFeature, ImportFeatureFails,
               AreaDone, Ends
        <3>2. CASE Overpass
            BY <1>1, <3>2 DEF Overpass, QueryAnswered, QueryTimesOut, QueryDuplicate,
               QueryFails, Ends
        <3> QED
            BY <1>1, <3>1, <3>2 DEF OsmNext, Start, Signal, Kill, Ends
    <2>2. pc = "areas" /\ todo = <<>>
        BY <2>1 DEF Refresh, Done
    <2>3. ASSUME NEW i \in DOMAIN selected, Proper(selected[i]), selected[i] \notin troubled
          PROVE  Complete(selected[i])
        <3>1. selected \in Seq(Area) /\ Len(todo) = 0
            BY <1>1, <2>2 DEF OsmInv, OsmTypeOK
        <3>2. i \in 1..(Len(selected) - Len(todo))
            BY <2>3, <3>1
        <3> QED
            BY <1>1, <2>2, <2>3, <3>2 DEF OsmInv, VisitedAreCovered, Covered
    <2>4. ASSUME processed > 0, ~flags.skip, NEW e \in Element
          PROVE  rows'[e].state # "unverified"
        <3>1. Refresh
            BY <2>1, <2>4 DEF Done
        <3>2. rows[e] \in [area : {<<>>} \union {ParentName(area) : area \in Area},
                           state : State]
            BY <1>1 DEF OsmInv, OsmTypeOK
        <3> QED
            BY <3>1, <3>2 DEF Refresh, NoRow
    <2> QED
        BY <2>3, <2>4 DEF Complete, HasRow
<1>2. OsmInv /\ [OsmNext]_osmVars =>
          [pc # "off" /\ pc' = "off" /\ result' = "ok" =>
              /\ \A i \in DOMAIN selected :
                    LET area == selected[i]
                    IN  Proper(area) /\ area \notin troubled =>
                          \A e \in ExportFeatures(area) :
                              Importable(e) => rows[e].state # "none"
              /\ processed > 0 /\ ~flags.skip =>
                    \A e \in Element : rows'[e].state # "unverified"]_osmVars
    BY <1>1
<1> QED
    BY <1>2, OsmInvHolds, PTL DEF OsmSpec, SuccessIsComplete

=============================================================================
