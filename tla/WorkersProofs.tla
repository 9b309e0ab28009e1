----------------------------- MODULE WorkersProofs -----------------------------
(***************************************************************************)
(* Proofs about Workers, for every depth of the queues, size of the ring   *)
(* and of a chunk: type correctness, the order of the pictures and the     *)
(* order of the samples.                                                   *)
(***************************************************************************)
EXTENDS Workers, SequenceTheorems, TLAPS

(* Pictures on their way, oldest last: the screen, the second queue, the   *)
(* render worker, the first queue, the emulation worker.                   *)
InOrder(s) == \A i, j \in DOMAIN s : i <= j => s[i] <= s[j]
Between(low, s, high) == \A i \in DOMAIN s : low <= s[i] /\ s[i] <= high

PictureInv ==
    /\ shown <= latest /\ latest <= sequence
    /\ InOrder(raw.items) /\ Between(latest, raw.items, sequence)
    /\ InOrder(rgb.items) /\ Between(shown, rgb.items, latest)

(* Samples on their way: the device, the audio worker, the ring, the       *)
(* emulation worker.  The k-th sample of the ring is behind readPos_.      *)
Cell(r, k) == r.data[(r.read + k) % Capacity]
Rising(s)  == \A i, j \in DOMAIN s : i < j => s[i] < s[j]

SoundInv ==
    /\ played <= sound
    /\ Rising(chunk)
    /\ \A i \in DOMAIN chunk : played < chunk[i] /\ chunk[i] <= sound
    /\ audio = "queue" => chunk # <<>>
    /\ \A k \in 0..(ring.size - 1) : played < Cell(ring, k) /\ Cell(ring, k) <= sound
    /\ \A k, l \in 0..(ring.size - 1) : k < l => Cell(ring, k) < Cell(ring, l)
    /\ \A i \in DOMAIN chunk : \A k \in 0..(ring.size - 1) : chunk[i] < Cell(ring, k)

-----------------------------------------------------------------------------
(* The queues.                                                             *)
LEMMA PushedItems ==
    ASSUME NEW q, IsQueue(q), NEW item \in Nat, ~q.closed
    PROVE  \E new \in Seq(Nat) :
             /\ Pushed(q, item) = [items |-> new, closed |-> FALSE]
             /\ Len(new) \in 1..MaxDepth
             /\ new[Len(new)] = item
             /\ \E d \in {0, 1} : \A i \in 1..(Len(new) - 1) :
                  i + d \in DOMAIN q.items /\ new[i] = q.items[i + d]
<1> DEFINE old == IF Full(q) THEN Tail(q.items) ELSE q.items
<1>1. /\ q \in [items : Seq(Nat), closed : BOOLEAN] /\ Len(q.items) <= MaxDepth
      /\ MaxDepth \in Nat \ {0}
  BY MaxDepthAssumption DEF IsQueue
<1>2. /\ old \in Seq(Nat) /\ Len(old) + 1 <= MaxDepth
      /\ \E d \in {0, 1} : \A i \in DOMAIN old :
           i + d \in DOMAIN q.items /\ old[i] = q.items[i + d]
  <2>1. CASE Full(q)
    <3>1. q.items # <<>>
      BY <1>1, <2>1 DEF Full
    <3>2. /\ old \in Seq(Nat) /\ Len(old) = Len(q.items) - 1
          /\ \A i \in 1..Len(old) : old[i] = q.items[i + 1]
      BY <1>1, <2>1, <3>1, HeadTailProperties
    <3>3. \A i \in DOMAIN old : i + 1 \in DOMAIN q.items /\ old[i] = q.items[i + 1]
      BY <1>1, <3>2
    <3> QED
      BY <1>1, <2>1, <3>2, <3>3 DEF Full
  <2>2. CASE ~Full(q)
    BY <1>1, <2>2 DEF Full
  <2> QED
    BY <2>1, <2>2
<1>3. Pushed(q, item) = [items |-> Append(old, item), closed |-> FALSE]
  BY <1>1 DEF Pushed
<1> DEFINE new == Append(old, item)
<1> HIDE DEF old
<1>4. /\ new \in Seq(Nat) /\ Len(new) = Len(old) + 1
      /\ new[Len(new)] = item
      /\ \A i \in DOMAIN old : new[i] = old[i]
        /\ DOMAIN old = 1..Len(old)
  BY <1>2
<1>5. Pushed(q, item) = [items |-> new, closed |-> FALSE]
  BY <1>3
<1> HIDE DEF new
<1>6. Len(new) \in 1..MaxDepth /\ 1..(Len(new) - 1) = DOMAIN old
  BY <1>1, <1>2, <1>4
<1> QED
  BY <1>2, <1>4, <1>5, <1>6

LEMMA PushedQueue ==
    ASSUME NEW q, IsQueue(q), NEW item \in Nat
    PROVE  IsQueue(Pushed(q, item))
<1>1. CASE q.closed
  BY <1>1 DEF Pushed
<1>2. CASE ~q.closed
  <2>1. PICK new \in Seq(Nat) :
             /\ Pushed(q, item) = [items |-> new, closed |-> FALSE]
             /\ Len(new) \in 1..MaxDepth
    BY <1>2, PushedItems
  <2> QED
    BY <2>1, MaxDepthAssumption DEF IsQueue
<1> QED
  BY <1>1, <1>2

(* What is pushed is newer than what is there: the order is kept.          *)
LEMMA PushedOrder ==
    ASSUME NEW q, IsQueue(q), NEW low \in Nat, NEW high \in Nat, NEW item \in Nat,
           InOrder(q.items), Between(low, q.items, high), high <= item, low <= item
    PROVE  /\ InOrder(Pushed(q, item).items)
           /\ Between(low, Pushed(q, item).items, item)
<1>1. q.items \in Seq(Nat)
  BY DEF IsQueue
<1>2. CASE q.closed
  BY <1>1, <1>2 DEF Pushed, Between
<1>3. CASE ~q.closed
  <2>1. PICK new \in Seq(Nat) :
             /\ Pushed(q, item) = [items |-> new, closed |-> FALSE]
             /\ Len(new) \in 1..MaxDepth
             /\ new[Len(new)] = item
             /\ \E d \in {0, 1} : \A i \in 1..(Len(new) - 1) :
                  i + d \in DOMAIN q.items /\ new[i] = q.items[i + d]
    BY <1>3, PushedItems
  <2>2. PICK d \in {0, 1} : \A i \in 1..(Len(new) - 1) :
             i + d \in DOMAIN q.items /\ new[i] = q.items[i + d]
    BY <2>1
  <2>3. \A i \in DOMAIN new : i # Len(new) => i \in 1..(Len(new) - 1)
    BY <2>1, MaxDepthAssumption
  <2>4. Between(low, new, item)
    <3> SUFFICES ASSUME NEW i \in DOMAIN new
                 PROVE  low <= new[i] /\ new[i] <= item
      BY DEF Between
    <3>1. CASE i = Len(new)
      BY <2>1, <3>1
    <3>2. CASE i # Len(new)
      <4>1. i + d \in DOMAIN q.items /\ new[i] = q.items[i + d]
        BY <2>2, <2>3, <3>2
      <4>2. q.items[i + d] \in Nat
        BY <1>1, <4>1
      <4> QED
        BY <4>1, <4>2 DEF Between
    <3> QED
      BY <3>1, <3>2
  <2>5. InOrder(new)
    <3> SUFFICES ASSUME NEW i \in DOMAIN new, NEW j \in DOMAIN new, i <= j
                 PROVE  new[i] <= new[j]
      BY DEF InOrder
    <3>1. CASE j = Len(new)
      BY <2>1, <2>4, <3>1 DEF Between
    <3>2. CASE j # Len(new)
      <4>1. i \in 1..(Len(new) - 1) /\ j \in 1..(Len(new) - 1)
        BY <2>1, <3>2
      <4>2. /\ i + d \in DOMAIN q.items /\ new[i] = q.items[i + d]
            /\ j + d \in DOMAIN q.items /\ new[j] = q.items[j + d]
        BY <2>2, <4>1
      <4>3. i + d <= j + d
        BY <4>1
      <4> QED
        BY <4>2, <4>3 DEF InOrder
    <3> QED
      BY <3>1, <3>2
  <2> QED
    BY <2>1, <2>4, <2>5
<1> QED
  BY <1>2, <1>3

-----------------------------------------------------------------------------
(* The ring.  Positions wrap once at most.                                 *)
LEMMA Wrapped ==
    ASSUME NEW a \in Nat, a < 2 * Capacity
    PROVE  /\ a % Capacity \in 0..(Capacity - 1)
           /\ a % Capacity = IF a < Capacity THEN a ELSE a - Capacity
<1>1. CASE a < Capacity
  BY <1>1, CapacityAssumption
<1>2. CASE a >= Capacity
  BY <1>2, CapacityAssumption
<1> QED
  BY <1>1, <1>2, CapacityAssumption

(* Two places of the ring are different cells.                             *)
LEMMA CellsDiffer ==
    ASSUME NEW p \in 0..(Capacity - 1), NEW k \in 0..(Capacity - 1),
           NEW l \in 0..(Capacity - 1), (p + k) % Capacity = (p + l) % Capacity
    PROVE  k = l
  BY Wrapped, CapacityAssumption

(* Counting on from a place is counting on from the first.                 *)
LEMMA CountOn ==
    ASSUME NEW p \in 0..(Capacity - 1), NEW m \in 0..Capacity, NEW k \in Nat,
           m + k <= Capacity
    PROVE  (((p + m) % Capacity) + k) % Capacity = (p + m + k) % Capacity
<1> DEFINE s == (p + m) % Capacity
<1>1. s \in 0..(Capacity - 1) /\ s = IF p + m < Capacity THEN p + m ELSE p + m - Capacity
  BY Wrapped, CapacityAssumption
<1> HIDE DEF s
<1>2. (s + k) % Capacity = IF s + k < Capacity THEN s + k ELSE s + k - Capacity
  BY <1>1, Wrapped, CapacityAssumption
<1>3. p + m + k < 2 * Capacity
  BY CapacityAssumption
<1>4. (p + m + k) % Capacity = IF p + m + k < Capacity THEN p + m + k
                               ELSE p + m + k - Capacity
  BY <1>3, Wrapped, CapacityAssumption
<1> QED
  BY <1>1, <1>2, <1>4, CapacityAssumption DEF s

LEMMA PoppedRing ==
    ASSUME NEW r, IsRing(r), NEW most \in Nat
    PROVE  /\ IsRing(PoppedSamples(r, most))
           /\ Count(r, most) \in 0..r.size
           /\ PoppedSamples(r, most).size = r.size - Count(r, most)
           /\ Samples(r, Count(r, most)) \in Seq(Nat)
           /\ Len(Samples(r, Count(r, most))) = Count(r, most)
           /\ \A i \in 1..Count(r, most) : Samples(r, Count(r, most))[i] = Cell(r, i - 1)
           /\ \A k \in 0..(r.size - Count(r, most) - 1) :
                Cell(PoppedSamples(r, most), k) = Cell(r, Count(r, most) + k)
<1> DEFINE n == Count(r, most)
           popped == PoppedSamples(r, most)
<1>1. /\ r \in [data : [0..(Capacity - 1) -> Nat],
                read : 0..(Capacity - 1), write : 0..(Capacity - 1),
                size : 0..Capacity, closed : BOOLEAN]
      /\ r.write = (r.read + r.size) % Capacity
  BY DEF IsRing
<1>2. n \in 0..r.size
  BY <1>1 DEF Count
<1>3. popped = [r EXCEPT !.read = (r.read + n) % Capacity, !.size = r.size - n]
  BY <1>1 DEF PoppedSamples
<1> HIDE DEF n, popped
<1>4. popped = [data |-> r.data, read |-> (r.read + n) % Capacity,
                write |-> r.write, size |-> r.size - n, closed |-> r.closed]
  BY <1>1, <1>3
<1>5. (r.read + n) % Capacity \in 0..(Capacity - 1)
  BY <1>1, <1>2, Wrapped, CapacityAssumption
<1>6. (((r.read + n) % Capacity) + (r.size - n)) % Capacity = r.write
  <2>1. r.size - n \in Nat /\ n + (r.size - n) <= Capacity /\ n \in 0..Capacity
    BY <1>1, <1>2, CapacityAssumption
  <2>2. (((r.read + n) % Capacity) + (r.size - n)) % Capacity
          = (r.read + n + (r.size - n)) % Capacity
    BY <1>1, <2>1, CountOn
  <2>3. r.read + n + (r.size - n) = r.read + r.size
    BY <1>1, <1>2
  <2> QED
    BY <1>1, <2>2, <2>3
<1>7. IsRing(popped)
  <2>1. r.size - n \in 0..Capacity
    BY <1>1, <1>2, CapacityAssumption
  <2>2. popped \in [data : [0..(Capacity - 1) -> Nat],
                   read : 0..(Capacity - 1), write : 0..(Capacity - 1),
                   size : 0..Capacity, closed : BOOLEAN]
    BY <1>1, <1>4, <1>5, <2>1
  <2>3. popped.write = (popped.read + popped.size) % Capacity
    BY <1>4, <1>6
  <2> QED
    BY <2>2, <2>3 DEF IsRing
<1>8. ASSUME NEW k \in 0..(r.size - n - 1)
      PROVE  Cell(popped, k) = Cell(r, n + k)
  <2>1. (((r.read + n) % Capacity) + k) % Capacity = (r.read + n + k) % Capacity
    <3>1. k \in Nat /\ n + k <= Capacity /\ n \in 0..Capacity
      BY <1>1, <1>2, CapacityAssumption
    <3> QED
      BY <1>1, <3>1, CountOn
  <2>2. r.read + n + k = r.read + (n + k)
    BY <1>1, <1>2
  <2> QED
    BY <1>4, <2>1, <2>2 DEF Cell
<1>9. Samples(r, n) = [k \in 1..n |-> r.data[(r.read + k - 1) % Capacity]]
  BY DEF Samples
<1>10. ASSUME NEW i \in 1..n
      PROVE  /\ r.data[(r.read + i - 1) % Capacity] = Cell(r, i - 1)
             /\ r.data[(r.read + i - 1) % Capacity] \in Nat
  <2>1. r.read + i - 1 = r.read + (i - 1) /\ r.read + (i - 1) \in Nat
        /\ r.read + (i - 1) < 2 * Capacity
    BY <1>1, <1>2, CapacityAssumption
  <2> QED
    BY <1>1, <2>1, Wrapped DEF Cell
<1>11. Samples(r, n) \in Seq(Nat) /\ Len(Samples(r, n)) = n
  BY <1>2, <1>9, <1>10
<1> QED
  BY <1>2, <1>4, <1>7, <1>8, <1>9, <1>10, <1>11 DEF n, popped

(* What the type of a ring says of its positions.                          *)
LEMMA RingFields ==
    ASSUME NEW r, IsRing(r)
    PROVE  /\ r.read \in 0..(Capacity - 1) /\ r.write \in 0..(Capacity - 1)
           /\ r.size \in 0..Capacity /\ r.data \in [0..(Capacity - 1) -> Nat]
           /\ r.closed \in BOOLEAN
           /\ r.write = (r.read + r.size) % Capacity
           /\ r \in [data : [0..(Capacity - 1) -> Nat],
                     read : 0..(Capacity - 1), write : 0..(Capacity - 1),
                     size : 0..Capacity, closed : BOOLEAN]
  BY DEF IsRing

(* The places that a push of n samples fills.                              *)
LEMMA FreePlaces ==
    ASSUME NEW size \in 0..Capacity, NEW n \in Nat, size + n <= Capacity,
           NEW j \in 0..(n - 1)
    PROVE  /\ j \in Nat /\ size + j <= Capacity
           /\ size + j \in 0..(Capacity - 1)
           /\ \A k \in 0..(size - 1) : k \in 0..(Capacity - 1) /\ size + j # k
  BY CapacityAssumption

LEMMA RingOfFields ==
    ASSUME NEW d \in [0..(Capacity - 1) -> Nat], NEW p \in 0..(Capacity - 1),
           NEW w \in 0..(Capacity - 1), NEW n \in 0..Capacity, NEW c \in BOOLEAN,
           w = (p + n) % Capacity
    PROVE  IsRing([data |-> d, read |-> p, write |-> w, size |-> n, closed |-> c])
  BY DEF IsRing

LEMMA PushedRing ==
    ASSUME NEW r, IsRing(r), NEW s \in Seq(Nat)
    PROVE  /\ IsRing(PushedSamples(r, s))
           /\ Written(r, s) \in 0..Len(s)
           /\ PushedSamples(r, s).size = r.size + Written(r, s)
           /\ \A k \in 0..(r.size - 1) : Cell(PushedSamples(r, s), k) = Cell(r, k)
           /\ \A j \in 1..Written(r, s) :
                Cell(PushedSamples(r, s), r.size + j - 1) = s[j]
<1> DEFINE n == Written(r, s)
           pushed == PushedSamples(r, s)
           At(k) == (r.write + k) % Capacity
           cells == [i \in 0..(Capacity - 1) |->
                       IF \E k \in 0..(n - 1) : At(k) = i
                       THEN s[1 + CHOOSE k \in 0..(n - 1) : At(k) = i]
                       ELSE r.data[i]]
<1>1. /\ r.read \in 0..(Capacity - 1) /\ r.write \in 0..(Capacity - 1)
      /\ r.size \in 0..Capacity /\ Capacity \in Nat /\ Capacity >= 1
  BY RingFields, CapacityAssumption
<1>2. r.write = (r.read + r.size) % Capacity
  BY RingFields
<1>3. r \in [data : [0..(Capacity - 1) -> Nat],
              read : 0..(Capacity - 1), write : 0..(Capacity - 1),
              size : 0..Capacity, closed : BOOLEAN]
  BY RingFields
<1>4. n \in 0..Len(s) /\ r.size + n \in 0..Capacity /\ Len(s) \in Nat /\ n \in Nat
  <2>1. Len(s) \in Nat /\ r.size \in 0..Capacity
    BY <1>1
  <2>2. n = IF r.closed THEN 0
            ELSE IF Len(s) > Capacity - r.size THEN Capacity - r.size ELSE Len(s)
    BY DEF Written
  <2> QED
    BY <2>1, <2>2, CapacityAssumption
<1>5. /\ DOMAIN r.data = 0..(Capacity - 1)
      /\ pushed = [r EXCEPT !.data = cells, !.write = At(n), !.size = r.size + n]
  BY <1>3 DEF PushedSamples
<1> HIDE DEF n, pushed, cells
<1>6. pushed = [data |-> cells, read |-> r.read, write |-> At(n),
                size |-> r.size + n, closed |-> r.closed]
  BY <1>5, <1>3
<1>7. \A k \in Nat : r.size + k <= Capacity => At(k) = (r.read + (r.size + k)) % Capacity
  <2> SUFFICES ASSUME NEW k \in Nat, r.size + k <= Capacity
               PROVE  At(k) = (r.read + (r.size + k)) % Capacity
    OBVIOUS
  <2>1. (((r.read + r.size) % Capacity) + k) % Capacity = (r.read + r.size + k) % Capacity
    BY <1>1, CountOn
  <2>2. r.read + r.size + k = r.read + (r.size + k)
    BY <1>1
  <2> QED
    BY <1>2, <2>1, <2>2
<1> HIDE DEF At
<1>8. \A j \in 0..(n - 1) :
         /\ j \in Nat /\ r.size + j <= Capacity /\ r.size + j \in 0..(Capacity - 1)
         /\ \A k \in 0..(r.size - 1) : k \in 0..(Capacity - 1) /\ r.size + j # k
  <2> SUFFICES ASSUME NEW j \in 0..(n - 1)
               PROVE  /\ j \in Nat /\ r.size + j <= Capacity
                      /\ r.size + j \in 0..(Capacity - 1)
                      /\ \A k \in 0..(r.size - 1) : k \in 0..(Capacity - 1) /\ r.size + j # k
    OBVIOUS
  <2>1. n \in Nat /\ r.size + n <= Capacity /\ r.size \in 0..Capacity
    BY <1>1, <1>4
  <2> QED
    BY <2>1, FreePlaces
<1>9. \A k \in 0..(r.size - 1), j \in 0..(n - 1) : At(j) # (r.read + k) % Capacity
  <2> SUFFICES ASSUME NEW k \in 0..(r.size - 1), NEW j \in 0..(n - 1),
                      At(j) = (r.read + k) % Capacity
               PROVE  FALSE
    OBVIOUS
  <2>1. /\ j \in Nat /\ r.size + j <= Capacity
        /\ r.size + j \in 0..(Capacity - 1) /\ k \in 0..(Capacity - 1) /\ r.size + j # k
    BY <1>8
  <2>2. (r.read + (r.size + j)) % Capacity = (r.read + k) % Capacity
    BY <1>7, <2>1
  <2> QED
    BY <1>1, <2>1, <2>2, CellsDiffer
<1>10. \A i, j \in 0..(n - 1) : At(i) = At(j) => i = j
  <2> SUFFICES ASSUME NEW i \in 0..(n - 1), NEW j \in 0..(n - 1), At(i) = At(j)
               PROVE  i = j
    OBVIOUS
  <2>1. /\ i \in Nat /\ r.size + i <= Capacity /\ r.size + i \in 0..(Capacity - 1)
        /\ j \in Nat /\ r.size + j <= Capacity /\ r.size + j \in 0..(Capacity - 1)
    BY <1>8
  <2>2. (r.read + (r.size + i)) % Capacity = (r.read + (r.size + j)) % Capacity
    BY <1>7, <2>1
  <2>3. r.size + i = r.size + j
    BY <1>1, <2>1, <2>2, CellsDiffer
  <2> QED
    BY <1>1, <2>1, <2>3
<1>11. ASSUME NEW k \in 0..(r.size - 1)
      PROVE  Cell(pushed, k) = Cell(r, k)
  <2>1. (r.read + k) % Capacity \in 0..(Capacity - 1)
    BY <1>1, Wrapped
  <2>2. cells[(r.read + k) % Capacity] = r.data[(r.read + k) % Capacity]
    BY <1>9, <2>1 DEF cells
  <2> QED
    BY <1>6, <2>2 DEF Cell
<1>12. ASSUME NEW j \in 1..n
      PROVE  Cell(pushed, r.size + j - 1) = s[j]
  <2>1. j - 1 \in 0..(n - 1) /\ r.size + j - 1 = r.size + (j - 1)
    BY <1>1, <1>4
  <2>2. /\ j - 1 \in 0..(n - 1) /\ j - 1 \in Nat /\ r.size + (j - 1) <= Capacity
        /\ r.size + (j - 1) \in 0..(Capacity - 1) /\ r.size + j - 1 = r.size + (j - 1)
    BY <1>1, <1>4, <2>1, FreePlaces
  <2>3. /\ At(j - 1) = (r.read + (r.size + (j - 1))) % Capacity
        /\ At(j - 1) \in 0..(Capacity - 1)
    <3>1. At(j - 1) = (r.read + (r.size + (j - 1))) % Capacity
      BY <1>7, <2>2
    <3>2. r.read + (r.size + (j - 1)) \in Nat /\ r.read + (r.size + (j - 1)) < 2 * Capacity
      BY <1>1, <2>2
    <3> QED
      BY <3>1, <3>2, Wrapped
  <2>4. (CHOOSE k \in 0..(n - 1) : At(k) = At(j - 1)) = j - 1
    BY <1>10, <2>2
  <2>5. cells[At(j - 1)] = s[1 + (j - 1)]
    BY <2>2, <2>3, <2>4 DEF cells
  <2> QED
    BY <1>4, <1>6, <2>2, <2>3, <2>5 DEF Cell
<1>13. cells \in [0..(Capacity - 1) -> Nat]
  <2> SUFFICES ASSUME NEW i \in 0..(Capacity - 1)
               PROVE  cells[i] \in Nat
    BY DEF cells
  <2>1. CASE \E k \in 0..(n - 1) : At(k) = i
    <3>1. PICK k \in 0..(n - 1) : k = CHOOSE l \in 0..(n - 1) : At(l) = i
      BY <2>1
    <3>2. cells[i] = s[1 + k] /\ 1 + k \in 1..Len(s)
      BY <1>4, <2>1, <3>1 DEF cells
    <3> QED
      BY <3>2
  <2>2. CASE ~\E k \in 0..(n - 1) : At(k) = i
    BY <1>3, <2>2 DEF cells
  <2> QED
    BY <2>1, <2>2
<1>14. IsRing(pushed)
  <2>1. At(n) = (r.read + (r.size + n)) % Capacity /\ At(n) \in 0..(Capacity - 1)
    <3>1. At(n) = (r.read + (r.size + n)) % Capacity
      BY <1>1, <1>4, <1>7
    <3>2. r.read + (r.size + n) \in Nat /\ r.read + (r.size + n) < 2 * Capacity
      BY <1>1, <1>4
    <3> QED
      BY <3>1, <3>2, Wrapped
  <2>2. r.closed \in BOOLEAN
    BY <1>3
  <2> QED
    BY <1>1, <1>4, <1>6, <1>13, <2>1, <2>2, RingOfFields
<1> QED
  BY <1>4, <1>6, <1>11, <1>12, <1>14 DEF n, pushed

LEMMA EmptiedRings ==
    /\ IsRing(EmptyRing) /\ EmptyRing.size = 0
    /\ \A r : IsRing(r) =>
         /\ IsRing(ClearedRing(r)) /\ ClearedRing(r).size = 0
         /\ IsRing(ClosedRing(r)) /\ ClosedRing(r).size = r.size
         /\ \A k : Cell(ClosedRing(r), k) = Cell(r, k)
<1>1. IsRing(EmptyRing) /\ EmptyRing.size = 0
  <2>1. 0 \in Nat /\ 0 < 2 * Capacity /\ 0 < Capacity /\ 0 \in 0..Capacity
        /\ 0 \in 0..(Capacity - 1) /\ 0 + 0 = 0
    BY CapacityAssumption
  <2>2. (0 + 0) % Capacity = 0
    BY <2>1, Wrapped
  <2> QED
    BY <2>1, <2>2, RingOfFields DEF EmptyRing
<1>2. ASSUME NEW r, IsRing(r)
      PROVE  /\ IsRing(ClearedRing(r)) /\ ClearedRing(r).size = 0
             /\ IsRing(ClosedRing(r)) /\ ClosedRing(r).size = r.size
             /\ \A k : Cell(ClosedRing(r), k) = Cell(r, k)
  <2>1. r.write \in 0..(Capacity - 1)
    BY <1>2, RingFields
  <2>2. r \in [data : [0..(Capacity - 1) -> Nat],
               read : 0..(Capacity - 1), write : 0..(Capacity - 1),
               size : 0..Capacity, closed : BOOLEAN]
    BY <1>2, RingFields
  <2>3. (r.write + 0) % Capacity = r.write
    <3>1. r.write + 0 = r.write /\ r.write \in Nat /\ r.write < Capacity
          /\ r.write < 2 * Capacity /\ Capacity \in Nat
      BY <2>1, CapacityAssumption
    <3> QED
      BY <3>1, Wrapped
  <2>4. 0 \in 0..Capacity
    BY CapacityAssumption
  <2>5. IsRing(ClearedRing(r)) /\ ClearedRing(r).size = 0
    <3>1. ClearedRing(r) \in [data : [0..(Capacity - 1) -> Nat],
                              read : 0..(Capacity - 1), write : 0..(Capacity - 1),
                              size : 0..Capacity, closed : BOOLEAN]
      BY <2>2, <2>4 DEF ClearedRing
    <3>2. /\ ClearedRing(r).size = 0 /\ ClearedRing(r).read = r.write
          /\ ClearedRing(r).write = r.write
      BY <2>2 DEF ClearedRing
    <3> QED
      BY <2>3, <3>1, <3>2 DEF IsRing
  <2>6. /\ ClosedRing(r) \in [data : [0..(Capacity - 1) -> Nat],
                              read : 0..(Capacity - 1), write : 0..(Capacity - 1),
                              size : 0..Capacity, closed : BOOLEAN]
        /\ ClosedRing(r).size = r.size /\ ClosedRing(r).read = r.read
        /\ ClosedRing(r).write = r.write /\ ClosedRing(r).data = r.data
    BY <2>2 DEF ClosedRing
  <2>7. IsRing(ClosedRing(r))
    BY <1>2, <2>6, RingFields DEF IsRing
  <2> QED
    BY <2>5, <2>6, <2>7 DEF Cell
<1> QED
  BY <1>1, <1>2

(* The other operations of the queues.                                     *)
LEMMA TakenQueues ==
    ASSUME NEW q, IsQueue(q)
    PROVE  /\ IsQueue(Emptied(q)) /\ Emptied(q).items = <<>>
           /\ IsQueue(Closed(q)) /\ Closed(q).items = q.items
           /\ q.items # <<>> =>
                /\ IsQueue(Popped(q)) /\ Popped(q).items = Tail(q.items)
                /\ Oldest(q) \in Nat /\ Latest(q) \in Nat
                /\ Oldest(q) = q.items[1] /\ Latest(q) = q.items[Len(q.items)]
                /\ 1 \in DOMAIN q.items /\ Len(q.items) \in DOMAIN q.items
<1>1. q \in [items : Seq(Nat), closed : BOOLEAN] /\ Len(q.items) <= MaxDepth
  BY DEF IsQueue
<1>2. IsQueue(Emptied(q)) /\ Emptied(q).items = <<>>
  <2>1. <<>> \in Seq(Nat) /\ Len(<<>>) <= MaxDepth
    BY MaxDepthAssumption
  <2>2. Emptied(q) \in [items : Seq(Nat), closed : BOOLEAN] /\ Emptied(q).items = <<>>
    BY <1>1, <2>1 DEF Emptied
  <2> QED
    BY <2>1, <2>2 DEF IsQueue
<1>3. IsQueue(Closed(q)) /\ Closed(q).items = q.items
  BY <1>1 DEF IsQueue, Closed
<1>4. ASSUME q.items # <<>>
      PROVE  /\ IsQueue(Popped(q)) /\ Popped(q).items = Tail(q.items)
             /\ Oldest(q) \in Nat /\ Latest(q) \in Nat
             /\ Oldest(q) = q.items[1]
             /\ 1 \in DOMAIN q.items /\ Len(q.items) \in DOMAIN q.items
  <2>1. /\ Tail(q.items) \in Seq(Nat) /\ Len(Tail(q.items)) = Len(q.items) - 1
        /\ Head(q.items) = q.items[1] /\ Len(q.items) \in Nat \ {0}
    BY <1>1, <1>4
  <2>2. /\ Popped(q) \in [items : Seq(Nat), closed : BOOLEAN]
        /\ Popped(q).items = Tail(q.items)
    BY <1>1, <2>1 DEF Popped
  <2>3. IsQueue(Popped(q))
    BY <1>1, <2>1, <2>2, MaxDepthAssumption DEF IsQueue
  <2>4. 1 \in DOMAIN q.items /\ Len(q.items) \in DOMAIN q.items
    BY <1>1, <2>1
  <2> QED
    BY <1>1, <2>1, <2>2, <2>3, <2>4 DEF Oldest, Latest
<1> QED
  BY <1>2, <1>3, <1>4 DEF Latest

LEMMA ShutdownGoesOn ==
    ui \in UiSteps /\ ui # "ended" => Follows(ui) \in UiSteps
<1> SUFFICES ASSUME ui \in UiSteps, ui # "ended"
             PROVE  Follows(ui) \in UiSteps
  OBVIOUS
<1>1. PICK i \in 1..10 : Shutdown[i] = ui
  BY DEF UiSteps
<1>2. i \in 1..9
  BY <1>1 DEF Shutdown
<1> DEFINE j == CHOOSE k \in 1..9 : Shutdown[k] = ui
<1>3. j \in 1..9
  BY <1>1, <1>2
<1> HIDE DEF j
<1>4. 1 + j \in 1..10
  BY <1>3
<1>5. Follows(ui) = Shutdown[1 + j]
  BY DEF Follows, j
<1> QED
  BY <1>4, <1>5 DEF UiSteps

-----------------------------------------------------------------------------
(* The invariants together are inductive: the type of `played' needs that  *)
(* the audio worker never queues an empty chunk.                           *)
Inv == TypeOK /\ PictureInv /\ SoundInv

LEMMA InvInit == Init => Inv
<1> SUFFICES ASSUME Init PROVE Inv
  OBVIOUS
<1>1. IsQueue(Opened) /\ Opened.items = <<>> /\ ~Opened.closed
  BY MaxDepthAssumption DEF IsQueue, Opened
<1>2. raw.items = <<1>>
  <2>1. ~Full(Opened)
    BY <1>1, MaxDepthAssumption DEF Full
  <2>2. Pushed(Opened, 1) = [items |-> Append(<<>>, 1), closed |-> FALSE]
    BY <2>1 DEF Pushed, Opened
  <2> QED
    BY <2>2 DEF Init
<1>3. InOrder(raw.items) /\ Between(0, raw.items, 1)
  BY <1>2 DEF InOrder, Between
<1>4. InOrder(rgb.items) /\ Between(0, rgb.items, 0)
  BY <1>1 DEF Init, InOrder, Between
<1>5. ui \in UiSteps
  <2>1. "run" = Shutdown[1] /\ 1 \in 1..10
    BY DEF Shutdown
  <2> QED
    BY <2>1 DEF Init, UiSteps
<1>6. IsQueue(raw) /\ IsQueue(rgb) /\ IsRing(ring)
  BY <1>1, PushedQueue, EmptiedRings DEF Init
<1>7. TypeOK
  <2>1. mtRunning \in BOOLEAN /\ gate \in BOOLEAN
    BY DEF Init
  <2>2. /\ sequence \in Nat /\ latest \in Nat /\ shown \in Nat
        /\ sound \in Nat /\ played \in Nat /\ gates \in Nat
        /\ chunk \in Seq(Nat) /\ device \in Seq(Nat)
    BY DEF Init
  <2>3. emu = "check" /\ render = "wait" /\ audio = "check"
    BY DEF Init
  <2> QED
    BY <1>5, <1>6, <2>1, <2>2, <2>3 DEF TypeOK
<1>8. PictureInv
  BY <1>3, <1>4 DEF Init, PictureInv
<1>9. SoundInv
  BY EmptiedRings DEF Init, SoundInv, Rising
<1> QED
  BY <1>7, <1>8, <1>9 DEF Inv

LEMMA TypeStep == Inv /\ [Next]_vars => TypeOK'
<1> SUFFICES ASSUME Inv, [Next]_vars PROVE TypeOK'
  OBVIOUS
<1> USE DEF Inv
<1>1. CASE EmuCheck
  BY <1>1 DEF EmuCheck, TypeOK, video, audioVars
<1>2. CASE EmuIdles
  BY <1>2 DEF EmuIdles, TypeOK, video, audioVars
<1>3. CASE EmuFrame
  <2>1. sequence' \in Nat /\ IsQueue(raw')
    BY <1>3, PushedQueue DEF EmuFrame, EnqueueRaw, TypeOK
  <2> QED
    BY <1>3, <2>1 DEF EmuFrame, EnqueueRaw, TypeOK, audioVars
<1>4. CASE EmuSound
  <2>1. [i \in 1..MaxChunk |-> sound + i] \in Seq(Nat) /\ sound' \in Nat
    BY <1>4, WorkersAssumption DEF EmuSound, TypeOK
  <2>2. IsRing(ring')
    BY <1>4, <2>1, PushedRing DEF EmuSound, TypeOK
  <2> QED
    BY <1>4, <2>1, <2>2 DEF EmuSound, TypeOK, video
<1>5. CASE RenderWait
  BY <1>5, TakenQueues DEF RenderWait, PopFails, TypeOK, audioVars
<1>6. CASE RenderNewest
  BY <1>6, TakenQueues DEF RenderNewest, TypeOK, audioVars
<1>7. CASE RenderPush
  BY <1>7, PushedQueue DEF RenderPush, TypeOK, audioVars
<1>8. CASE AudioCheck
  BY <1>8 DEF AudioCheck, AudioStep, TypeOK, video
<1>9. CASE AudioGate
  BY <1>9 DEF AudioGate, AudioStep, TypeOK, video
<1>10. CASE AudioClear
  BY <1>10, EmptiedRings DEF AudioClear, AudioStep, TypeOK, video
<1>11. CASE AudioSilence
  BY <1>11 DEF AudioSilence, AudioStep, TypeOK, video
<1>12. CASE AudioPop
  <2>1. IsRing(ring') /\ chunk' \in Seq(Nat)
    BY <1>12, PoppedRing, WorkersAssumption DEF AudioPop, TypeOK
  <2> QED
    BY <1>12, <2>1 DEF AudioPop, AudioStep, TypeOK, video
<1>13. CASE AudioQueue
  <2>1. chunk # <<>> /\ chunk \in Seq(Nat) /\ device \in Seq(Nat)
    BY <1>13 DEF AudioQueue, AudioStep, SoundInv, TypeOK
  <2>2. chunk[Len(chunk)] \in Nat
    BY <2>1
  <2>3. device' \in Seq(Nat) /\ played' \in Nat /\ chunk' \in Seq(Nat)
    BY <1>13, <2>1, <2>2 DEF AudioQueue
  <2> QED
    BY <1>13, <2>3 DEF AudioQueue, AudioStep, TypeOK, video
<1>14. CASE AudioFinal
  BY <1>14 DEF AudioFinal, AudioStep, TypeOK, video
<1>15. CASE DevicePlays
  <2>1. device' \in Seq(Nat)
    BY <1>15 DEF DevicePlays, TypeOK
  <2> QED
    BY <1>15, <2>1 DEF DevicePlays, TypeOK, video
<1>16. CASE UiShows
  BY <1>16, TakenQueues DEF UiShows, TypeOK, audioVars
<1>17. CASE UiEnqueues
  <2>1. sequence' \in Nat /\ IsQueue(raw')
    BY <1>17, PushedQueue DEF UiEnqueues, EnqueueRaw, TypeOK
  <2> QED
    BY <1>17, <2>1 DEF UiEnqueues, EnqueueRaw, TypeOK, audioVars
<1>18. CASE UiSilences
  BY <1>18, EmptiedRings DEF UiSilences, TypeOK, video
<1>19. CASE UiGate
  BY <1>19 DEF UiGate, TypeOK, video, audioVars
<1>20. CASE UiStops
  <2>1. ui' \in UiSteps
    BY <1>20, ShutdownGoesOn DEF UiStops, TypeOK
  <2>2. IsQueue(raw') /\ IsQueue(rgb') /\ IsRing(ring')
    BY <1>20, TakenQueues, EmptiedRings DEF UiStops, TypeOK
  <2>3. gate' \in BOOLEAN /\ mtRunning' \in BOOLEAN
    BY <1>20 DEF UiStops
  <2> QED
    BY <1>20, <2>1, <2>2, <2>3 DEF UiStops, TypeOK
<1>21. CASE EmuRollsBack
  <2>1. IsRing(ring') /\ sound' \in Nat
    BY <1>21, EmptiedRings, WorkersAssumption DEF EmuRollsBack, TypeOK
  <2> QED
    BY <1>21, <2>1 DEF EmuRollsBack, TypeOK, video
<1>22. CASE EmuUnqueues
  BY <1>22 DEF EmuUnqueues, TypeOK, video
<1>23. CASE EmuQuietFrame
  <2>1. sequence' \in Nat /\ IsQueue(raw')
    BY <1>23, PushedQueue DEF EmuQuietFrame, EnqueueRaw, TypeOK
  <2> QED
    BY <1>23, <2>1 DEF EmuQuietFrame, EnqueueRaw, TypeOK, audioVars
<1>24. CASE UNCHANGED vars
  BY <1>24 DEF vars, video, audioVars, TypeOK
<1> QED
  BY <1>1, <1>2, <1>3, <1>4, <1>5, <1>6, <1>7, <1>8, <1>9, <1>10, <1>11, <1>12, <1>13,
     <1>14, <1>15, <1>16, <1>17, <1>18, <1>19, <1>20, <1>21, <1>22, <1>23, <1>24
  DEF Next, Emu, Render, Audio, Ui

LEMMA PictureStep == Inv /\ [Next]_vars => PictureInv'
<1> SUFFICES ASSUME Inv, [Next]_vars PROVE PictureInv'
  OBVIOUS
<1> USE DEF Inv
<1>1. /\ sequence \in Nat /\ latest \in Nat /\ shown \in Nat
      /\ IsQueue(raw) /\ IsQueue(rgb)
      /\ raw.items \in Seq(Nat) /\ rgb.items \in Seq(Nat)
  BY DEF TypeOK, IsQueue
<1>2. /\ shown <= latest /\ latest <= sequence
      /\ InOrder(raw.items) /\ Between(latest, raw.items, sequence)
      /\ InOrder(rgb.items) /\ Between(shown, rgb.items, latest)
  BY DEF PictureInv
<1>3. ASSUME EnqueueRaw
      PROVE  PictureInv'
  <2>1. sequence + 1 \in Nat /\ sequence <= sequence + 1 /\ latest <= sequence + 1
    BY <1>1, <1>2
  <2>2. InOrder(raw'.items) /\ Between(latest, raw'.items, sequence + 1)
    BY <1>1, <1>2, <1>3, <2>1, PushedOrder DEF EnqueueRaw
  <2> QED
    BY <1>2, <1>3, <2>1, <2>2 DEF EnqueueRaw, PictureInv
<1>4. CASE EmuFrame \/ EmuQuietFrame
  BY <1>3, <1>4 DEF EmuFrame, EmuQuietFrame
<1>5. CASE UiEnqueues
  BY <1>3, <1>5 DEF UiEnqueues
<1>6. CASE RenderWait
  <2>1. CASE raw.items = <<>>
    BY <1>2, <1>6, <2>1 DEF RenderWait, PopFails, PictureInv
  <2>2. CASE raw.items # <<>>
    <3>1. /\ latest' = raw.items[1] /\ raw'.items = Tail(raw.items)
          /\ rgb' = rgb /\ shown' = shown /\ sequence' = sequence
      BY <1>1, <1>6, <2>2, TakenQueues DEF RenderWait, PopFails
    <3>2. /\ Len(Tail(raw.items)) = Len(raw.items) - 1 /\ Len(raw.items) \in Nat \ {0}
          /\ \A i \in DOMAIN Tail(raw.items) :
               /\ i + 1 \in DOMAIN raw.items /\ 1 \in DOMAIN raw.items /\ 1 <= i + 1
               /\ Tail(raw.items)[i] = raw.items[i + 1]
      BY <1>1, <2>2, HeadTailProperties
    <3>3. latest' \in Nat /\ latest <= latest' /\ latest' <= sequence
      <4>1. 1 \in DOMAIN raw.items
        BY <1>1, <2>2
      <4> QED
        BY <1>1, <1>2, <3>1, <4>1 DEF Between
    <3>4. \A i \in DOMAIN Tail(raw.items) :
            latest' <= Tail(raw.items)[i] /\ Tail(raw.items)[i] <= sequence
      BY <1>2, <3>1, <3>2 DEF Between, InOrder
    <3>5. \A i, j \in DOMAIN Tail(raw.items) :
            i <= j => Tail(raw.items)[i] <= Tail(raw.items)[j]
      <4> SUFFICES ASSUME NEW i \in DOMAIN Tail(raw.items),
                          NEW j \in DOMAIN Tail(raw.items), i <= j
                   PROVE  Tail(raw.items)[i] <= Tail(raw.items)[j]
        OBVIOUS
      <4>1. i \in Nat /\ j \in Nat /\ i + 1 <= j + 1
        BY <1>1, <2>2
      <4> QED
        BY <1>2, <3>2, <4>1 DEF InOrder
    <3>6. Between(shown, rgb.items, latest')
      <4> SUFFICES ASSUME NEW i \in DOMAIN rgb.items
                   PROVE  shown <= rgb.items[i] /\ rgb.items[i] <= latest'
        BY DEF Between
      <4>1. rgb.items[i] \in Nat /\ shown <= rgb.items[i] /\ rgb.items[i] <= latest
        BY <1>1, <1>2 DEF Between
      <4> QED
        BY <1>1, <3>3, <4>1
    <3>7. shown <= latest'
      BY <1>1, <1>2, <3>3
    <3> QED
      BY <1>2, <3>1, <3>3, <3>4, <3>5, <3>6, <3>7 DEF PictureInv, Between, InOrder
  <2> QED
    BY <2>1, <2>2
<1>7. CASE RenderNewest
  <2>1. CASE raw.items = <<>>
    BY <1>2, <1>7, <2>1 DEF RenderNewest, PictureInv
  <2>2. CASE raw.items # <<>>
    <3>1. /\ latest' = raw.items[Len(raw.items)] /\ raw'.items = <<>>
          /\ Len(raw.items) \in DOMAIN raw.items
          /\ rgb' = rgb /\ shown' = shown /\ sequence' = sequence
      BY <1>1, <1>7, <2>2, TakenQueues DEF RenderNewest
    <3>2. latest' \in Nat /\ latest <= latest' /\ latest' <= sequence
      BY <1>1, <1>2, <3>1 DEF Between
    <3>3. Between(shown, rgb.items, latest')
      <4> SUFFICES ASSUME NEW i \in DOMAIN rgb.items
                   PROVE  shown <= rgb.items[i] /\ rgb.items[i] <= latest'
        BY DEF Between
      <4>1. rgb.items[i] \in Nat /\ shown <= rgb.items[i] /\ rgb.items[i] <= latest
        BY <1>1, <1>2 DEF Between
      <4> QED
        BY <1>1, <3>2, <4>1
    <3>4. shown <= latest'
      BY <1>1, <1>2, <3>2
    <3> QED
      BY <1>2, <3>1, <3>2, <3>3, <3>4 DEF PictureInv, Between, InOrder
  <2> QED
    BY <2>1, <2>2
<1>8. CASE RenderPush
  <2>1. InOrder(rgb'.items) /\ Between(shown, rgb'.items, latest)
    BY <1>1, <1>2, <1>8, PushedOrder DEF RenderPush
  <2> QED
    BY <1>2, <1>8, <2>1 DEF RenderPush, PictureInv
<1>9. CASE UiShows
  <2>1. /\ shown' = rgb.items[Len(rgb.items)] /\ rgb'.items = <<>>
        /\ Len(rgb.items) \in DOMAIN rgb.items
        /\ raw' = raw /\ latest' = latest /\ sequence' = sequence
    BY <1>1, <1>9, TakenQueues DEF UiShows
  <2>2. shown' <= latest
    BY <1>2, <2>1 DEF Between
  <2> QED
    BY <1>2, <2>1, <2>2 DEF PictureInv, Between, InOrder
<1>10. CASE UiStops
  <2>1. /\ raw'.items = raw.items /\ rgb'.items = rgb.items
        /\ latest' = latest /\ sequence' = sequence /\ shown' = shown
    BY <1>1, <1>10, TakenQueues DEF UiStops
  <2> QED
    BY <1>2, <2>1 DEF PictureInv
<1>11. CASE UNCHANGED <<sequence, video>>
  BY <1>11 DEF video, PictureInv
<1>12. CASE \/ EmuCheck \/ EmuIdles \/ EmuSound \/ EmuRollsBack \/ EmuUnqueues
            \/ Audio \/ DevicePlays \/ UiSilences \/ UiGate \/ UNCHANGED vars
  BY <1>11, <1>12
  DEF EmuCheck, EmuIdles, EmuSound, EmuRollsBack, EmuUnqueues, Audio, AudioStep, AudioCheck, AudioGate, AudioClear,
      AudioSilence, AudioPop, AudioQueue, AudioFinal, DevicePlays, UiSilences, UiGate,
      vars, video
<1> QED
  BY <1>4, <1>5, <1>6, <1>7, <1>8, <1>9, <1>10, <1>12 DEF Next, Emu, Render, Ui

LEMMA SoundStep == Inv /\ [Next]_vars => SoundInv'
<1> SUFFICES ASSUME Inv, [Next]_vars
             PROVE  SoundInv'
  OBVIOUS
<1> USE DEF Inv
<1>1. /\ played \in Nat /\ sound \in Nat /\ IsRing(ring) /\ chunk \in Seq(Nat)
      /\ MaxChunk \in Nat /\ ring.size \in Nat
  BY RingFields, WorkersAssumption DEF TypeOK
<1>2. /\ played <= sound
      /\ Rising(chunk)
      /\ \A i \in DOMAIN chunk : played < chunk[i] /\ chunk[i] <= sound
      /\ audio = "queue" => chunk # <<>>
      /\ \A k \in 0..(ring.size - 1) : played < Cell(ring, k) /\ Cell(ring, k) <= sound
      /\ \A k, l \in 0..(ring.size - 1) : k < l => Cell(ring, k) < Cell(ring, l)
      /\ \A i \in DOMAIN chunk : \A k \in 0..(ring.size - 1) : chunk[i] < Cell(ring, k)
  BY DEF SoundInv
<1>3. \A k \in 0..(ring.size - 1) : Cell(ring, k) \in Nat
  <2> SUFFICES ASSUME NEW k \in 0..(ring.size - 1)
               PROVE  Cell(ring, k) \in Nat
    OBVIOUS
  <2>1. /\ ring.read \in 0..(Capacity - 1) /\ ring.size \in 0..Capacity
        /\ ring.data \in [0..(Capacity - 1) -> Nat] /\ Capacity \in Nat
    BY <1>1, RingFields, CapacityAssumption
  <2>2. ring.read + k \in Nat /\ ring.read + k < 2 * Capacity
    BY <2>1
  <2>3. (ring.read + k) % Capacity \in 0..(Capacity - 1)
    BY <2>2, Wrapped
  <2> QED
    BY <2>1, <2>3 DEF Cell
<1>4. CASE EmuSound
  <2>1. /\ sound' = sound + MaxChunk /\ sound' \in Nat /\ sound <= sound'
        /\ UNCHANGED <<audio, chunk, played>>
    BY <1>1, <1>4 DEF EmuSound
  <2>2. CASE ~gate
    <3>1. ring' = ring
      BY <1>4, <2>2 DEF EmuSound
    <3>2. \A k \in 0..(ring.size - 1) : Cell(ring, k) <= sound'
      BY <1>1, <1>2, <1>3, <2>1
    <3>3. \A i \in DOMAIN chunk : chunk[i] <= sound'
      <4> SUFFICES ASSUME NEW i \in DOMAIN chunk PROVE chunk[i] <= sound'
        OBVIOUS
      <4>1. chunk[i] \in Nat /\ chunk[i] <= sound
        BY <1>1, <1>2
      <4> QED
        BY <1>1, <2>1, <4>1
    <3>4. played <= sound'
      BY <1>1, <1>2, <2>1
    <3> QED
      BY <1>2, <2>1, <3>1, <3>2, <3>3, <3>4 DEF SoundInv
  <2>3. CASE gate
    <3> DEFINE new == [i \in 1..MaxChunk |-> sound + i]
               n == Written(ring, new)
    <3>1. new \in Seq(Nat) /\ Len(new) = MaxChunk /\ ring' = PushedSamples(ring, new)
      BY <1>1, <1>4, <2>3 DEF EmuSound
    <3>2. \A j \in 1..MaxChunk : new[j] = sound + j
      OBVIOUS
    <3> HIDE DEF new
    <3>3. /\ n \in 0..MaxChunk /\ ring'.size = ring.size + n
          /\ \A k \in 0..(ring.size - 1) : Cell(ring', k) = Cell(ring, k)
          /\ \A j \in 1..n : Cell(ring', ring.size + j - 1) = new[j]
      BY <1>1, <3>1, PushedRing
    <3> HIDE DEF n
    <3>4. \A k \in 0..(ring'.size - 1) :
            \/ k \in 0..(ring.size - 1) /\ Cell(ring', k) = Cell(ring, k)
            \/ /\ k >= ring.size /\ k - ring.size + 1 \in 1..MaxChunk
               /\ Cell(ring', k) = sound + (k - ring.size + 1)
      <4> SUFFICES ASSUME NEW k \in 0..(ring'.size - 1), k \notin 0..(ring.size - 1)
                   PROVE  /\ k >= ring.size /\ k - ring.size + 1 \in 1..MaxChunk
                          /\ Cell(ring', k) = sound + (k - ring.size + 1)
        BY <3>3
      <4> DEFINE j == k - ring.size + 1
      <4>1. /\ k >= ring.size /\ j \in 1..n /\ j \in 1..MaxChunk
            /\ ring.size + j - 1 = k
        BY <1>1, <3>3
      <4> QED
        BY <3>2, <3>3, <4>1
    <3>5. \A k \in 0..(ring'.size - 1) :
            played < Cell(ring', k) /\ Cell(ring', k) <= sound'
      <4> SUFFICES ASSUME NEW k \in 0..(ring'.size - 1)
                   PROVE  played < Cell(ring', k) /\ Cell(ring', k) <= sound'
        OBVIOUS
      <4>1. CASE k \in 0..(ring.size - 1) /\ Cell(ring', k) = Cell(ring, k)
        BY <1>1, <1>2, <1>3, <2>1, <4>1
      <4>2. CASE /\ k >= ring.size /\ k - ring.size + 1 \in 1..MaxChunk
                 /\ Cell(ring', k) = sound + (k - ring.size + 1)
        BY <1>1, <1>2, <2>1, <4>2
      <4> QED
        BY <3>4, <4>1, <4>2
    <3>6. \A k, l \in 0..(ring'.size - 1) : k < l => Cell(ring', k) < Cell(ring', l)
      <4> SUFFICES ASSUME NEW k \in 0..(ring'.size - 1), NEW l \in 0..(ring'.size - 1),
                          k < l
                   PROVE  Cell(ring', k) < Cell(ring', l)
        OBVIOUS
      <4>1. CASE l \in 0..(ring.size - 1) /\ Cell(ring', l) = Cell(ring, l)
        <5>1. k \in 0..(ring.size - 1)
          BY <1>1, <4>1
        <5>2. Cell(ring', k) = Cell(ring, k)
          BY <3>3, <5>1
        <5> QED
          BY <1>2, <4>1, <5>1, <5>2
      <4>2. CASE /\ l >= ring.size /\ l - ring.size + 1 \in 1..MaxChunk
                 /\ Cell(ring', l) = sound + (l - ring.size + 1)
        <5>1. CASE k \in 0..(ring.size - 1) /\ Cell(ring', k) = Cell(ring, k)
          <6>1. Cell(ring, k) \in Nat /\ Cell(ring, k) <= sound
            BY <1>2, <1>3, <5>1
          <6> QED
            BY <1>1, <4>2, <5>1, <6>1
        <5>2. CASE Cell(ring', k) = sound + (k - ring.size + 1)
          BY <1>1, <4>2, <5>2
        <5> QED
          BY <3>4, <5>1, <5>2
      <4> QED
        BY <3>4, <4>1, <4>2
    <3>7. \A i \in DOMAIN chunk : \A k \in 0..(ring'.size - 1) : chunk[i] < Cell(ring', k)
      <4> SUFFICES ASSUME NEW i \in DOMAIN chunk, NEW k \in 0..(ring'.size - 1)
                   PROVE  chunk[i] < Cell(ring', k)
        OBVIOUS
      <4>1. chunk[i] \in Nat /\ chunk[i] <= sound
        BY <1>1, <1>2
      <4>2. CASE k \in 0..(ring.size - 1) /\ Cell(ring', k) = Cell(ring, k)
        BY <1>2, <4>2
      <4>3. CASE /\ k >= ring.size /\ k - ring.size + 1 \in 1..MaxChunk
                 /\ Cell(ring', k) = sound + (k - ring.size + 1)
        BY <1>1, <4>1, <4>3
      <4> QED
        BY <3>4, <4>2, <4>3
    <3>8. \A i \in DOMAIN chunk : chunk[i] <= sound'
      <4> SUFFICES ASSUME NEW i \in DOMAIN chunk PROVE chunk[i] <= sound'
        OBVIOUS
      <4>1. chunk[i] \in Nat /\ chunk[i] <= sound
        BY <1>1, <1>2
      <4> QED
        BY <1>1, <2>1, <4>1
    <3>9. played <= sound'
      BY <1>1, <1>2, <2>1
    <3> QED
      BY <1>2, <2>1, <3>5, <3>6, <3>7, <3>8, <3>9 DEF SoundInv
  <2> QED
    BY <2>2, <2>3
<1>5. CASE AudioPop
  <2> DEFINE n == Count(ring, MaxChunk)
  <2>1. /\ chunk' = Samples(ring, n) /\ ring' = PoppedSamples(ring, MaxChunk)
        /\ (audio' = "queue" => n # 0)
        /\ UNCHANGED <<sound, played>>
    BY <1>5 DEF AudioPop, AudioStep
  <2>2. /\ n \in 0..ring.size /\ ring'.size = ring.size - n
        /\ Samples(ring, n) \in Seq(Nat) /\ Len(Samples(ring, n)) = n
        /\ \A i \in 1..n : Samples(ring, n)[i] = Cell(ring, i - 1)
        /\ \A k \in 0..(ring.size - n - 1) : Cell(ring', k) = Cell(ring, n + k)
    BY <1>1, <2>1, PoppedRing
  <2> HIDE DEF n
  <2>3. /\ DOMAIN chunk' = 1..n
        /\ \A i \in 1..n : chunk'[i] = Cell(ring, i - 1) /\ i - 1 \in 0..(ring.size - 1)
    BY <1>1, <2>1, <2>2
  <2>4. \A k \in 0..(ring'.size - 1) :
          Cell(ring', k) = Cell(ring, n + k) /\ n + k \in 0..(ring.size - 1)
    BY <1>1, <2>2
  <2>5. Rising(chunk')
    <3> SUFFICES ASSUME NEW i \in 1..n, NEW j \in 1..n, i < j
                 PROVE  chunk'[i] < chunk'[j]
      BY <2>3 DEF Rising
    <3>1. i - 1 < j - 1
      BY <2>2
    <3> QED
      BY <1>2, <2>3, <3>1
  <2>6. \A i \in DOMAIN chunk' : \A k \in 0..(ring'.size - 1) : chunk'[i] < Cell(ring', k)
    <3> SUFFICES ASSUME NEW i \in 1..n, NEW k \in 0..(ring'.size - 1)
                 PROVE  chunk'[i] < Cell(ring', k)
      BY <2>3
    <3>1. i - 1 < n + k
      BY <1>1, <2>2
    <3> QED
      BY <1>2, <2>3, <2>4, <3>1
  <2>7. \A k, l \in 0..(ring'.size - 1) : k < l => Cell(ring', k) < Cell(ring', l)
    <3> SUFFICES ASSUME NEW k \in 0..(ring'.size - 1), NEW l \in 0..(ring'.size - 1), k < l
                 PROVE  Cell(ring', k) < Cell(ring', l)
      OBVIOUS
    <3>1. n + k < n + l
      BY <1>1, <2>2
    <3> QED
      BY <1>2, <2>4, <3>1
  <2>8. audio' = "queue" => chunk' # <<>>
    <3>1. Len(chunk') = n
      BY <2>1, <2>2
    <3> QED
      BY <2>1, <3>1
  <2>9. \A k \in 0..(ring'.size - 1) : played < Cell(ring', k) /\ Cell(ring', k) <= sound
    BY <1>2, <2>4
  <2>10. \A i \in DOMAIN chunk' : played < chunk'[i] /\ chunk'[i] <= sound
    BY <1>2, <2>3
  <2> QED
    BY <1>2, <2>1, <2>5, <2>6, <2>7, <2>8, <2>9, <2>10 DEF SoundInv
<1>6. CASE AudioQueue
  <2>1. /\ audio = "queue" /\ audio' = "check" /\ ring' = ring /\ sound' = sound
        /\ chunk' = <<>> /\ played' = chunk[Len(chunk)]
    BY <1>6 DEF AudioQueue, AudioStep
  <2>2. Len(chunk) \in DOMAIN chunk
    BY <1>1, <1>2, <2>1
  <2>3. played < played' /\ played' <= sound
    BY <1>2, <2>1, <2>2
  <2>4. \A k \in 0..(ring.size - 1) : played' < Cell(ring, k)
    BY <1>2, <2>1, <2>2
  <2>5. Rising(chunk') /\ DOMAIN chunk' = {}
    BY <2>1 DEF Rising
  <2> QED
    BY <1>1, <1>2, <2>1, <2>3, <2>4, <2>5 DEF SoundInv
<1>7. CASE /\ ring' = ClearedRing(ring) /\ UNCHANGED <<played, chunk>>
           /\ sound' \in Nat /\ sound <= sound'
           /\ (audio' = "queue" => audio = "queue")
  <2>1. ring'.size = 0
    BY <1>1, <1>7, EmptiedRings
  <2>2. 0..(ring'.size - 1) = {}
    BY <2>1
  <2>3. played <= sound'
    BY <1>1, <1>2, <1>7
  <2>4. \A i \in DOMAIN chunk : chunk[i] <= sound'
    <3> SUFFICES ASSUME NEW i \in DOMAIN chunk PROVE chunk[i] <= sound'
      OBVIOUS
    <3>1. chunk[i] \in Nat /\ chunk[i] <= sound
      BY <1>1, <1>2
    <3> QED
      BY <1>1, <1>7, <3>1
  <2> QED
    BY <1>2, <1>7, <2>2, <2>3, <2>4 DEF SoundInv
<1>8. CASE UiStops
  <2>1. UNCHANGED <<sound, played, chunk, audio>>
    BY <1>8 DEF UiStops
  <2>2. ring'.size = ring.size /\ \A k : Cell(ring', k) = Cell(ring, k)
    BY <1>1, <1>8, EmptiedRings DEF UiStops, Cell
  <2> QED
    BY <1>2, <2>1, <2>2 DEF SoundInv
<1>9. CASE UNCHANGED <<ring, sound, played, chunk>> /\ (audio' = "queue" => audio = "queue")
  BY <1>2, <1>9 DEF SoundInv, Cell
<1>10. CASE AudioClear \/ UiSilences \/ EmuRollsBack
  <2>1. sound' \in Nat /\ sound <= sound'
    BY <1>1, <1>10 DEF AudioClear, AudioStep, UiSilences, EmuRollsBack
  <2> QED
    BY <1>7, <1>10, <2>1 DEF AudioClear, AudioStep, UiSilences, EmuRollsBack
<1>11. CASE \/ EmuCheck \/ EmuIdles \/ EmuFrame \/ EmuUnqueues \/ EmuQuietFrame
            \/ Render \/ AudioCheck \/ AudioGate
            \/ AudioSilence \/ AudioFinal \/ DevicePlays \/ UiShows \/ UiEnqueues
            \/ UiGate \/ UNCHANGED vars
  BY <1>9, <1>11
  DEF EmuCheck, EmuIdles, EmuFrame, EmuUnqueues, EmuQuietFrame, Render, RenderWait,
      RenderNewest, RenderPush, AudioStep, AudioCheck, AudioGate, AudioSilence, AudioFinal, DevicePlays, UiShows,
      UiEnqueues, UiGate, vars, audioVars
<1> QED
  BY <1>4, <1>5, <1>6, <1>8, <1>10, <1>11 DEF Next, Emu, Audio, Ui

LEMMA InvariantHolds == Spec => []Inv
<1>1. Inv /\ [Next]_vars => Inv'
  BY TypeStep, PictureStep, SoundStep DEF Inv
<1> QED
  BY <1>1, InvInit, PTL DEF Spec

-----------------------------------------------------------------------------
(* Every variable keeps its type, the queues their depth, and the ring its *)
(* size between its two positions, whatever the sizes.                     *)
THEOREM TypeCorrect == Spec => []TypeOK
<1>1. Inv => TypeOK
  BY DEF Inv
<1> QED
  BY <1>1, InvariantHolds, PTL

(* The screen never shows an older picture than before                     *)
(* (realtime.cpp:427-433, 1149-1182, 3803).                                *)
THEOREM PictureOrder == Spec => PictureNeverGoesBack
<1>1. Inv /\ [Next]_vars => [shown' >= shown]_vars
  <2> SUFFICES ASSUME Inv, [Next]_vars PROVE shown' >= shown
    OBVIOUS
  <2>1. shown \in Nat /\ IsQueue(rgb) /\ rgb.items \in Seq(Nat)
    BY DEF Inv, TypeOK, IsQueue
  <2>2. CASE UiShows
    <3>1. shown' = rgb.items[Len(rgb.items)] /\ Len(rgb.items) \in DOMAIN rgb.items
      BY <2>1, <2>2, TakenQueues DEF UiShows
    <3>2. shown <= rgb.items[Len(rgb.items)] /\ rgb.items[Len(rgb.items)] \in Nat
      BY <2>1, <3>1 DEF Inv, PictureInv, Between
    <3> QED
      BY <2>1, <3>1, <3>2
  <2>3. CASE shown' = shown
    BY <2>1, <2>3
  <2>4. CASE \/ Emu \/ Render \/ Audio \/ DevicePlays \/ UiEnqueues
             \/ UiSilences \/ UiGate \/ UiStops \/ UNCHANGED vars
    BY <2>3, <2>4
    DEF Emu, EmuCheck, EmuIdles, EmuFrame, EmuSound, EmuRollsBack, EmuUnqueues,
        EmuQuietFrame, EnqueueRaw, Render, RenderWait,
        RenderNewest, RenderPush, Audio, AudioStep, AudioCheck, AudioGate, AudioClear,
        AudioSilence, AudioPop, AudioQueue, AudioFinal, DevicePlays, UiEnqueues,
        UiSilences, UiGate, UiStops, vars, video
  <2> QED
    BY <2>2, <2>4 DEF Next, Ui
<1> QED
  BY <1>1, InvariantHolds, PTL DEF Spec, PictureNeverGoesBack

(* Each sample of a chunk that the audio worker queues at the device was   *)
(* made after the one before it and after all queued earlier: none is      *)
(* queued twice or out of order, with a ring of any size that wraps,       *)
(* overflows and is cleared at any moment by the user's pause, by the      *)
(* closed gate or by a netplay rollback (audio_ring_buffer.cpp:11-59,      *)
(* realtime.cpp:1841).                                                     *)
THEOREM SoundOrder == Spec => SoundNeverRepeats
<1>1. Inv => InOrderAfter(chunk, played)
  BY DEF Inv, SoundInv, Rising, InOrderAfter
<1>2. Inv => [audio = "queue" /\ audio' # "queue" => InOrderAfter(chunk, played)]_vars
  BY <1>1
<1> QED
  BY <1>2, InvariantHolds, PTL DEF Spec, SoundNeverRepeats
=============================================================================
