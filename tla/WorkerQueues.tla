----------------------------- MODULE WorkerQueues -----------------------------
(***************************************************************************)
(* What the threads of the real-time frontend hand to each other through.  *)
(*                                                                         *)
(* gb::frontend::DroppingQueue<T, MaxDepth> (realtime/dropping_queue.hpp): *)
(* a queue between two threads that drops its oldest item when it is full. *)
(* Each operation runs under the queue's mutex, so it is one step; waitPop *)
(* waits on a condition variable that push and close notify while they     *)
(* hold the mutex, so it waits exactly while CanPop is false.              *)
(*                                                                         *)
(* gb::frontend::AudioRingBuffer (realtime/audio_ring_buffer.cpp): the     *)
(* samples between the emulation worker and the audio worker.  A ring is a *)
(* record: data, the cells; read, write and size, readPos_, writePos_ and  *)
(* size_; closed.  Each operation is one step under the ring's mutex; pop  *)
(* gives up after its timeout, so it never blocks.                         *)
(***************************************************************************)
EXTENDS Integers, Sequences

CONSTANT MaxDepth

ASSUME MaxDepthAssumption == MaxDepth \in Nat \ {0}

Opened == [items |-> <<>>, closed |-> FALSE]

(* push                                                                    *)
Full(q) == Len(q.items) >= MaxDepth

(* Mutant: a full queue grows.                                             *)
PushedAnyway(q, item) ==
    IF q.closed THEN q ELSE [q EXCEPT !.items = Append(@, item)]

(* Mutant: a full queue keeps its items and drops the new one.             *)
PushedIfRoom(q, item) ==
    IF q.closed \/ Full(q) THEN q ELSE [q EXCEPT !.items = Append(@, item)]

Pushed(q, item) ==
    IF q.closed THEN q
    ELSE [q EXCEPT !.items = Append(IF Full(q) THEN Tail(@) ELSE @, item)]

(* Mutant: closing the queue wakes nobody.                                 *)
HasItem(q)   == q.items # <<>>

(* waitPop: it fails once the queue is closed and empty.                   *)
CanPop(q)    == q.closed \/ q.items # <<>>
PopFails(q)  == q.items = <<>>
Popped(q)    == [q EXCEPT !.items = Tail(@)]
Oldest(q)    == Head(q.items)

(* tryPopLatest: the newest item, and everything older is dropped.         *)
Latest(q)    == q.items[Len(q.items)]

(* Mutant: the older items stay.                                           *)
NewestTaken(q) == [q EXCEPT !.items = SubSeq(@, 1, Len(@) - 1)]

Emptied(q)   == [q EXCEPT !.items = <<>>]

Closed(q)    == [q EXCEPT !.closed = TRUE]

-----------------------------------------------------------------------------
(* The ring.                                                               *)
CONSTANT Capacity  \* data_.size() (at least 2048)

ASSUME CapacityAssumption == Capacity \in Nat \ {0}

EmptyRing == [data |-> [i \in 0..(Capacity - 1) |-> 0],
              read |-> 0, write |-> 0, size |-> 0, closed |-> FALSE]

(* push: what does not fit behind the present samples is dropped.          *)
Written(ring, samples) ==
    LET room == Capacity - ring.size
    IN  IF ring.closed THEN 0
        ELSE IF Len(samples) > room THEN room ELSE Len(samples)

PushedSamples(ring, samples) ==
    LET n == Written(ring, samples)
        At(k) == (ring.write + k) % Capacity
    IN  [ring EXCEPT
            !.data = [i \in DOMAIN @ |->
                        IF \E k \in 0..(n - 1) : At(k) = i
                        THEN samples[1 + CHOOSE k \in 0..(n - 1) : At(k) = i]
                        ELSE @[i]],
            !.write = At(n),
            !.size = @ + n]

(* pop: at most `most' samples, from the oldest on.                        *)
Count(ring, most) == IF ring.size > most THEN most ELSE ring.size

Samples(ring, n) == [k \in 1..n |-> ring.data[(ring.read + k - 1) % Capacity]]

PoppedSamples(ring, most) ==
    LET n == Count(ring, most)
    IN  [ring EXCEPT !.read = (@ + n) % Capacity, !.size = @ - n]

(* Mutant: the size is kept.                                               *)
ReadMovedToWrite(ring) == [ring EXCEPT !.read = ring.write]

(* clear                                                                   *)
ClearedRing(ring) == [ring EXCEPT !.size = 0, !.read = ring.write]

ClosedRing(ring) == [ring EXCEPT !.closed = TRUE]
=============================================================================
