---------------------------- MODULE RaSessionProofs ----------------------------
(***************************************************************************)
(* Proofs about the users of the HTTP transport: the RetroAchievements     *)
(* session (RaSession) and the image cache (RaImageCache).                 *)
(***************************************************************************)
EXTENDS RaSession, RaImageCache, FiniteSetTheorems, TLAPS

-----------------------------------------------------------------------------
(* The transport.                                                          *)

Ids == Nat \ {NoRequest}
Answers == [id : Ids, ok : BOOLEAN]
Transports ==
    [pending : [Channels -> Seq(Ids)], running : [Channels -> Ids \cup {NoRequest}],
     completed : [Channels -> Seq(Answers)], outstanding : [Channels -> Int],
     stopping : BOOLEAN]

DistinctIds(answers) == \A i, j \in DOMAIN answers : answers[i].id = answers[j].id => i = j

(* A request is in one place of a channel, once, and counts once.          *)
Runs(h, c) == IF h.running[c] = NoRequest THEN 0 ELSE 1
Carries(h, c) ==
    /\ IsInjective(h.pending[c]) /\ DistinctIds(h.completed[c])
    /\ Range(h.pending[c]) \cap IdsOf(h.completed[c]) = {}
    /\ h.running[c] \notin Range(h.pending[c]) \cup IdsOf(h.completed[c])
    /\ h.outstanding[c] = Len(h.pending[c]) + Runs(h, c) + Len(h.completed[c])

(* A sequence without repetitions has as many members as places.           *)
LEMMA RangeCount ==
    ASSUME NEW S, NEW q \in Seq(S), IsInjective(q)
    PROVE  IsFiniteSet(Range(q)) /\ Cardinality(Range(q)) = Len(q)
<1>1. q \in Bijection(1..Len(q), Range(q))
  BY DEF Bijection, Injection, Surjection, Range, IsInjective
<1>2. IsFiniteSet(1..Len(q)) /\ Cardinality(1..Len(q)) = Len(q)
  <2>1. Len(q) \in Nat
    OBVIOUS
  <2> DEFINE n == Len(q)
  <2> HIDE DEF n
  <2>2. IsFiniteSet(1..n) /\ Cardinality(1..n) = IF 1 > n THEN 0 ELSE n - 1 + 1
    BY <2>1, FS_Interval DEF n
  <2> QED BY <2>1, <2>2 DEF n
<1> QED
  BY <1>1, <1>2, FS_Bijection DEF ExistsBijection

LEMMA IdsCount ==
    ASSUME NEW q \in Seq(Answers), DistinctIds(q)
    PROVE  IsFiniteSet(IdsOf(q)) /\ Cardinality(IdsOf(q)) = Len(q)
<1> DEFINE ids == [i \in 1..Len(q) |-> q[i].id]
<1>1. ids \in Seq(Ids) /\ Len(ids) = Len(q)
  <2>1. Len(q) \in Nat /\ \A i \in 1..Len(q) : q[i] \in Answers
    OBVIOUS
  <2>2. \A i \in 1..Len(q) : q[i].id \in Ids
    BY <2>1 DEF Answers
  <2> QED BY <2>1, <2>2
<1>2. IsInjective(ids)
  BY DEF IsInjective, DistinctIds
<1>3. Range(ids) = IdsOf(q)
  BY DEF Range, IdsOf
<1> QED
  BY <1>1, <1>2, <1>3, RangeCount

LEMMA UnionCount ==
    ASSUME NEW S, IsFiniteSet(S), NEW T, IsFiniteSet(T), S \cap T = {}
    PROVE  IsFiniteSet(S \cup T) /\ Cardinality(S \cup T) = Cardinality(S) + Cardinality(T)
<1>1. Cardinality(S) \in Nat /\ Cardinality(T) \in Nat
  BY FS_CardinalityType
<1>2. Cardinality(S \cap T) = 0
  BY FS_EmptySet
<1>3. /\ IsFiniteSet(S \cup T)
      /\ Cardinality(S \cup T) = Cardinality(S) + Cardinality(T) - Cardinality(S \cap T)
  BY FS_Union
<1> QED
  BY <1>1, <1>2, <1>3

LEMMA HeldCount ==
    ASSUME NEW h \in Transports, NEW c \in Channels, Carries(h, c)
    PROVE  IsFiniteSet(Held(h, c)) /\ Cardinality(Held(h, c)) = h.outstanding[c]
<1> DEFINE waits == Range(h.pending[c])
           runs  == {h.running[c]} \ {NoRequest}
           done  == IdsOf(h.completed[c])
<1>1. h.pending[c] \in Seq(Ids) /\ h.completed[c] \in Seq(Answers)
  BY DEF Transports
<1>2. IsFiniteSet(waits) /\ Cardinality(waits) = Len(h.pending[c])
  BY <1>1, RangeCount DEF Carries
<1>3. IsFiniteSet(done) /\ Cardinality(done) = Len(h.completed[c])
  BY <1>1, IdsCount DEF Carries
<1>4. IsFiniteSet(runs) /\ Cardinality(runs) = Runs(h, c)
  <2>1. CASE h.running[c] = NoRequest
    <3>1. runs = {}
      BY <2>1
    <3> QED BY <2>1, <3>1, FS_EmptySet DEF Runs
  <2>2. CASE h.running[c] # NoRequest
    <3>1. runs = {h.running[c]}
      BY <2>2
    <3> QED BY <2>2, <3>1, FS_Singleton DEF Runs
  <2> QED BY <2>1, <2>2
<1>5. waits \cap runs = {} /\ (waits \cup runs) \cap done = {}
  BY DEF Carries
<1>6. IsFiniteSet(waits \cup runs)
      /\ Cardinality(waits \cup runs) = Cardinality(waits) + Cardinality(runs)
  BY <1>2, <1>4, <1>5, UnionCount
<1>7. IsFiniteSet((waits \cup runs) \cup done)
      /\ Cardinality((waits \cup runs) \cup done) = Cardinality(waits \cup runs) + Cardinality(done)
  BY <1>3, <1>5, <1>6, UnionCount
<1>8. Held(h, c) = (waits \cup runs) \cup done
  BY DEF Held, Range
<1> HIDE DEF waits, runs, done
<1> QED
  BY <1>1, <1>2, <1>3, <1>4, <1>6, <1>7, <1>8 DEF Carries

(* What is held, by its places.                                            *)
LEMMA HeldPlaces ==
    ASSUME NEW h, NEW c
    PROVE  Held(h, c) = Range(h.pending[c]) \cup ({h.running[c]} \ {NoRequest})
                            \cup IdsOf(h.completed[c])
BY DEF Held, Range

LEMMA HeldAreIds ==
    ASSUME NEW h \in Transports, NEW c \in Channels
    PROVE  Held(h, c) \subseteq Ids
<1>1. h.pending[c] \in Seq(Ids) /\ h.completed[c] \in Seq(Answers) /\ h.running[c] \in Ids \cup {NoRequest}
  BY DEF Transports
<1>2. \A i \in DOMAIN h.pending[c] : h.pending[c][i] \in Ids
  BY <1>1
<1>3. \A i \in DOMAIN h.completed[c] : h.completed[c][i] \in Answers
  BY <1>1
<1>4. \A i \in DOMAIN h.completed[c] : h.completed[c][i].id \in Ids
  BY <1>3 DEF Answers
<1> QED
  BY <1>1, <1>2, <1>4 DEF Held, IdsOf

LEMMA AppendedRange ==
    ASSUME NEW S, NEW p \in Seq(S), NEW q \in Seq(S)
    PROVE  /\ p \o q \in Seq(S) /\ Len(p \o q) = Len(p) + Len(q)
           /\ Range(p \o q) = Range(p) \cup Range(q)
           /\ IsInjective(p) /\ IsInjective(q) /\ Range(p) \cap Range(q) = {} => IsInjective(p \o q)
<1> DEFINE r == p \o q
<1>1. /\ r \in Seq(S) /\ Len(r) = Len(p) + Len(q) /\ Len(p) \in Nat /\ Len(q) \in Nat
      /\ \A i \in 1..Len(p) : r[i] = p[i]
      /\ \A i \in 1..Len(q) : r[Len(p) + i] = q[i]
  OBVIOUS
<1>2. DOMAIN r = 1..(Len(p) + Len(q)) /\ DOMAIN p = 1..Len(p) /\ DOMAIN q = 1..Len(q)
  BY <1>1
<1> HIDE DEF r
<1>3. \A i \in DOMAIN r : \/ i \in 1..Len(p) /\ r[i] = p[i]
                          \/ i - Len(p) \in 1..Len(q) /\ r[i] = q[i - Len(p)]
  <2> SUFFICES ASSUME NEW i \in DOMAIN r, i \notin 1..Len(p)
               PROVE  i - Len(p) \in 1..Len(q) /\ r[i] = q[i - Len(p)]
    BY <1>1
  <2> DEFINE j == i - Len(p)
  <2>1. j \in 1..Len(q) /\ i = Len(p) + j
    BY <1>1, <1>2
  <2> QED BY <1>1, <2>1
<1>4. Range(r) \subseteq Range(p) \cup Range(q)
  BY <1>2, <1>3 DEF Range
<1>5. Range(p) \cup Range(q) \subseteq Range(r)
  <2>1. \A i \in 1..Len(p) : i \in DOMAIN r
    BY <1>1, <1>2
  <2>2. \A i \in 1..Len(q) : Len(p) + i \in DOMAIN r
    BY <1>1, <1>2
  <2> QED BY <1>1, <1>2, <2>1, <2>2 DEF Range
<1>6. ASSUME IsInjective(p), IsInjective(q), Range(p) \cap Range(q) = {}
      PROVE  IsInjective(r)
  <2> SUFFICES ASSUME NEW i \in DOMAIN r, NEW j \in DOMAIN r, r[i] = r[j] PROVE i = j
    BY DEF IsInjective
  <2>1. CASE i \in 1..Len(p) /\ j \in 1..Len(p)
    BY <1>1, <1>2, <1>6, <2>1 DEF IsInjective
  <2>2. CASE i \notin 1..Len(p) /\ j \notin 1..Len(p)
    <3>1. PICK k \in DOMAIN q : i = Len(p) + k /\ r[i] = q[k]
      BY <1>1, <1>2, <1>3, <2>2
    <3>2. PICK l \in DOMAIN q : j = Len(p) + l /\ r[j] = q[l]
      BY <1>1, <1>2, <1>3, <2>2
    <3>3. k = l
      BY <1>6, <3>1, <3>2 DEF IsInjective
    <3> QED BY <1>2, <3>1, <3>2, <3>3
  <2>3. CASE ~(i \in 1..Len(p) <=> j \in 1..Len(p))
    <3>1. \A k \in DOMAIN r : IF k \in 1..Len(p) THEN r[k] \in Range(p) ELSE r[k] \in Range(q)
      BY <1>2, <1>3 DEF Range
    <3> QED BY <1>6, <2>3, <3>1
  <2> QED BY <2>1, <2>2, <2>3
<1> QED
  BY <1>1, <1>4, <1>5, <1>6 DEF r

LEMMA HeadAndTail ==
    ASSUME NEW S, NEW p \in Seq(S), p # <<>>, IsInjective(p)
    PROVE  /\ Range(p) = {Head(p)} \cup Range(Tail(p)) /\ Head(p) \notin Range(Tail(p))
           /\ IsInjective(Tail(p))
<1> DEFINE first == Head(p)
           rest  == Tail(p)
<1>1. Len(p) \in Nat \ {0} /\ first = p[1] /\ DOMAIN p = 1..Len(p) /\ DOMAIN rest = 1..(Len(p) - 1)
  OBVIOUS
<1>2. \A i \in DOMAIN rest : rest[i] = p[i + 1] /\ i + 1 \in DOMAIN p
  BY <1>1
<1>3. \A i \in DOMAIN p : i # 1 => i - 1 \in DOMAIN rest /\ rest[i - 1] = p[i]
  <2> SUFFICES ASSUME NEW i \in DOMAIN p, i # 1 PROVE i - 1 \in DOMAIN rest /\ rest[i - 1] = p[i]
    OBVIOUS
  <2> DEFINE j == i - 1
  <2>1. j \in DOMAIN rest /\ i = j + 1
    BY <1>1
  <2> QED BY <1>2, <2>1
<1> HIDE DEF first, rest
<1>4. first \in Range(p) /\ Range(rest) \subseteq Range(p)
  BY <1>1, <1>2 DEF Range
<1>5. Range(p) \subseteq {first} \cup Range(rest)
  BY <1>1, <1>3 DEF Range
<1>6. first \notin Range(rest)
  <2> SUFFICES ASSUME NEW i \in DOMAIN rest, rest[i] = first PROVE FALSE
    BY DEF Range
  <2>1. i + 1 = 1
    BY <1>1, <1>2 DEF IsInjective
  <2> QED BY <1>1, <2>1
<1>7. IsInjective(rest)
  <2> SUFFICES ASSUME NEW i \in DOMAIN rest, NEW j \in DOMAIN rest, rest[i] = rest[j]
               PROVE  i = j
    BY DEF IsInjective
  <2>1. i + 1 = j + 1
    BY <1>2 DEF IsInjective
  <2> QED BY <1>1, <2>1
<1> QED
  BY <1>4, <1>5, <1>6, <1>7 DEF first, rest

LEMMA SubmittedCarries ==
    ASSUME NEW h \in Transports, NEW c \in Channels, Carries(h, c),
           NEW ids \in Seq(Ids), IsInjective(ids), Range(ids) \cap Held(h, c) = {}
    PROVE  LET t == Submitted(h, c, ids)
           IN  /\ t \in Transports /\ Carries(t, c) /\ t.stopping = h.stopping
               /\ Held(t, c) = Held(h, c) \cup Range(ids)
               /\ t.outstanding[c] = h.outstanding[c] + Len(ids)
<1> DEFINE t == Submitted(h, c, ids)
           q == h.pending[c] \o ids
<1>1. /\ h.pending \in [Channels -> Seq(Ids)] /\ h.outstanding \in [Channels -> Int]
      /\ h.pending[c] \in Seq(Ids) /\ h.outstanding[c] \in Int /\ Len(h.pending[c]) \in Nat
      /\ Len(h.completed[c]) \in Nat /\ Len(ids) \in Nat
  BY DEF Transports
<1>2. q \in Seq(Ids) /\ Len(q) = Len(h.pending[c]) + Len(ids)
      /\ Range(q) = Range(h.pending[c]) \cup Range(ids)
  BY <1>1, AppendedRange
<1>3. IsInjective(q)
  BY <1>1, AppendedRange, HeldPlaces DEF Carries
<1> HIDE DEF q
<1>4. /\ t.pending = [h.pending EXCEPT ![c] = q] /\ t.running = h.running
      /\ t.completed = h.completed /\ t.stopping = h.stopping
      /\ t.outstanding = [h.outstanding EXCEPT ![c] = h.outstanding[c] + Len(ids)]
  BY <1>1 DEF Submitted, Transports, q
<1>5. t \in Transports
  <2>1. t.pending \in [Channels -> Seq(Ids)] /\ t.outstanding \in [Channels -> Int]
    BY <1>1, <1>2, <1>4
  <2> DEFINE a == [h EXCEPT !.pending = t.pending]
  <2>2. t = [a EXCEPT !.outstanding = t.outstanding]
    BY <1>4 DEF Submitted, Transports
  <2>3. a \in Transports
    BY <2>1 DEF Transports
  <2> HIDE DEF a
  <2>4. [a EXCEPT !.outstanding = t.outstanding] \in Transports
    BY <2>1, <2>3 DEF Transports
  <2> QED BY <2>2, <2>4
<1>6. t.pending[c] = q /\ t.outstanding[c] = h.outstanding[c] + Len(ids)
  BY <1>1, <1>4
<1>7. Held(t, c) = Held(h, c) \cup Range(ids)
  BY <1>2, <1>4, <1>6, HeldPlaces
<1>8. \A id \in Range(ids) : id # NoRequest
  BY DEF Range, Ids
<1>9. Carries(t, c)
  <2>1. IsInjective(t.pending[c]) /\ DistinctIds(t.completed[c])
    BY <1>3, <1>4, <1>6 DEF Carries
  <2>2. /\ Range(t.pending[c]) \cap IdsOf(t.completed[c]) = {}
        /\ t.running[c] \notin Range(t.pending[c]) \cup IdsOf(t.completed[c])
    BY <1>2, <1>4, <1>6, <1>8, HeldPlaces DEF Carries
  <2>3. t.outstanding[c] = Len(t.pending[c]) + Runs(t, c) + Len(t.completed[c])
    <3>1. Runs(t, c) = Runs(h, c) /\ Runs(h, c) \in Nat
      BY <1>4 DEF Runs
    <3>2. h.outstanding[c] = Len(h.pending[c]) + Runs(h, c) + Len(h.completed[c])
      BY DEF Carries
    <3>3. t.outstanding[c] = h.outstanding[c] + Len(ids) /\ Len(t.pending[c]) = Len(q)
          /\ Len(t.completed[c]) = Len(h.completed[c])
      BY <1>4, <1>6
    <3>4. Len(q) = Len(h.pending[c]) + Len(ids) /\ Len(h.pending[c]) \in Nat /\ Len(ids) \in Nat
          /\ Len(h.completed[c]) \in Nat
      BY <1>1, <1>2
    <3> DEFINE o == h.outstanding[c]
               p == Len(h.pending[c])
               n == Len(h.completed[c])
               m == Len(ids)
               r == Runs(h, c)
    <3>5. o = p + r + n /\ p \in Nat /\ r \in Nat /\ n \in Nat /\ m \in Nat
      BY <3>1, <3>2, <3>4
    <3>6. t.outstanding[c] = o + m /\ Len(t.pending[c]) = p + m /\ Runs(t, c) = r
          /\ Len(t.completed[c]) = n
      BY <3>1, <3>3, <3>4
    <3> HIDE DEF t, o, p, n, m, r
    <3> QED BY <3>5, <3>6
  <2> QED BY <2>1, <2>2, <2>3 DEF Carries
<1> QED
  BY <1>4, <1>5, <1>6, <1>7, <1>9

LEMMA TakenCarries ==
    ASSUME NEW h \in Transports, NEW c \in Channels, Carries(h, c)
    PROVE  LET t == Taken(h, c)
           IN  /\ t \in Transports /\ Carries(t, c) /\ t.stopping = h.stopping
               /\ Held(t, c) = Held(h, c) \ IdsOf(h.completed[c])
               /\ t.outstanding[c] <= h.outstanding[c]
<1> DEFINE t == Taken(h, c)
<1>1. /\ h.completed \in [Channels -> Seq(Answers)] /\ h.outstanding \in [Channels -> Int]
      /\ Len(h.completed[c]) \in Nat /\ Len(h.pending[c]) \in Nat
  BY DEF Transports
<1>2. /\ t.pending = h.pending /\ t.running = h.running /\ t.stopping = h.stopping
      /\ t.completed = [h.completed EXCEPT ![c] = <<>>]
      /\ t.outstanding = [h.outstanding EXCEPT ![c] = h.outstanding[c] - Len(h.completed[c])]
  BY <1>1 DEF Taken, Transports
<1>3. t \in Transports
  <2>1. t.completed \in [Channels -> Seq(Answers)] /\ t.outstanding \in [Channels -> Int]
    BY <1>1, <1>2
  <2> DEFINE a == [h EXCEPT !.completed = t.completed]
  <2>2. t = [a EXCEPT !.outstanding = t.outstanding]
    BY <1>2 DEF Taken, Transports
  <2>3. a \in Transports
    BY <2>1 DEF Transports
  <2> HIDE DEF a
  <2>4. [a EXCEPT !.outstanding = t.outstanding] \in Transports
    BY <2>1, <2>3 DEF Transports
  <2> QED BY <2>2, <2>4
<1>4. t.completed[c] = <<>> /\ t.outstanding[c] = h.outstanding[c] - Len(h.completed[c])
  BY <1>1, <1>2
<1>5. IdsOf(<<>>) = {} /\ Len(<<>>) = 0
  BY DEF IdsOf
<1>6. Held(t, c) = Held(h, c) \ IdsOf(h.completed[c])
  BY <1>2, <1>4, <1>5, HeldPlaces DEF Carries
<1>7. Carries(t, c)
  <2>1. DistinctIds(t.completed[c])
    BY <1>4 DEF DistinctIds
  <2>2. /\ IsInjective(t.pending[c])
        /\ Range(t.pending[c]) \cap IdsOf(t.completed[c]) = {}
        /\ t.running[c] \notin Range(t.pending[c]) \cup IdsOf(t.completed[c])
    BY <1>2, <1>4, <1>5 DEF Carries
  <2>3. t.outstanding[c] = Len(t.pending[c]) + Runs(t, c) + Len(t.completed[c])
    <3>1. Runs(t, c) = Runs(h, c) /\ Runs(h, c) \in Nat
      BY <1>2 DEF Runs
    <3>2. h.outstanding[c] = Len(h.pending[c]) + Runs(h, c) + Len(h.completed[c])
      BY DEF Carries
    <3> QED BY <1>1, <1>2, <1>4, <1>5, <3>1, <3>2
  <2> QED BY <2>1, <2>2, <2>3 DEF Carries
<1> QED
  BY <1>1, <1>2, <1>3, <1>4, <1>6, <1>7

LEMMA StartedCarries ==
    ASSUME NEW h \in Transports, NEW c \in Channels, Carries(h, c), CanStart(h, c)
    PROVE  LET t == Started(h, c)
           IN  /\ t \in Transports /\ Carries(t, c) /\ t.stopping = h.stopping
               /\ t.completed = h.completed
               /\ Held(t, c) = Held(h, c) /\ t.outstanding = h.outstanding
<1> DEFINE t == Started(h, c)
           first == Head(h.pending[c])
           rest  == Tail(h.pending[c])
<1>1. /\ h.pending \in [Channels -> Seq(Ids)] /\ h.running \in [Channels -> Ids \cup {NoRequest}]
      /\ h.pending[c] \in Seq(Ids) /\ Len(h.pending[c]) \in Nat /\ Len(h.completed[c]) \in Nat
      /\ h.pending[c] # <<>> /\ h.running[c] = NoRequest
  BY DEF Transports, CanStart
<1>2. first \in Ids /\ rest \in Seq(Ids) /\ Len(rest) = Len(h.pending[c]) - 1
  BY <1>1
<1>3. /\ Range(h.pending[c]) = {first} \cup Range(rest) /\ first \notin Range(rest)
      /\ IsInjective(rest)
  BY <1>1, HeadAndTail DEF Carries
<1> HIDE DEF first, rest
<1>4. /\ t.pending = [h.pending EXCEPT ![c] = rest] /\ t.running = [h.running EXCEPT ![c] = first]
      /\ t.completed = h.completed /\ t.stopping = h.stopping /\ t.outstanding = h.outstanding
  BY <1>1 DEF Started, Transports, first, rest
<1>5. t \in Transports
  <2>1. t.pending \in [Channels -> Seq(Ids)] /\ t.running \in [Channels -> Ids \cup {NoRequest}]
    BY <1>1, <1>2, <1>4
  <2> DEFINE a == [h EXCEPT !.running = t.running]
  <2>2. t = [a EXCEPT !.pending = t.pending]
    BY <1>4 DEF Started, Transports, first, rest
  <2>3. a \in Transports
    BY <2>1 DEF Transports
  <2> HIDE DEF a
  <2>4. [a EXCEPT !.pending = t.pending] \in Transports
    BY <2>1, <2>3 DEF Transports
  <2> QED BY <2>2, <2>4
<1>6. t.pending[c] = rest /\ t.running[c] = first /\ first # NoRequest
  BY <1>1, <1>2, <1>4 DEF Ids
<1>7. Held(t, c) = Held(h, c)
  BY <1>1, <1>3, <1>4, <1>6, HeldPlaces
<1>8. Carries(t, c)
  <2>1. IsInjective(t.pending[c]) /\ DistinctIds(t.completed[c])
    BY <1>3, <1>4, <1>6 DEF Carries
  <2>2. /\ Range(t.pending[c]) \cap IdsOf(t.completed[c]) = {}
        /\ t.running[c] \notin Range(t.pending[c]) \cup IdsOf(t.completed[c])
    BY <1>3, <1>4, <1>6 DEF Carries
  <2>3. t.outstanding[c] = Len(t.pending[c]) + Runs(t, c) + Len(t.completed[c])
    <3>1. Runs(t, c) = 1 /\ Runs(h, c) = 0
      BY <1>1, <1>6 DEF Runs
    <3>2. h.outstanding[c] = Len(h.pending[c]) + Runs(h, c) + Len(h.completed[c])
      BY DEF Carries
    <3>3. t.outstanding[c] = h.outstanding[c] /\ Len(t.pending[c]) = Len(h.pending[c]) - 1
          /\ Len(t.completed[c]) = Len(h.completed[c])
      BY <1>2, <1>4, <1>6
    <3> HIDE DEF t
    <3> QED BY <1>1, <3>1, <3>2, <3>3
  <2> QED BY <2>1, <2>2, <2>3 DEF Carries
<1> QED
  BY <1>4, <1>5, <1>7, <1>8

LEMMA AnsweredCarries ==
    ASSUME NEW h \in Transports, NEW c \in Channels, Carries(h, c), CanAnswer(h, c),
           NEW ok \in BOOLEAN
    PROVE  LET t == Answered(h, c, ok)
           IN  /\ t \in Transports /\ Carries(t, c) /\ t.stopping = h.stopping
               /\ Held(t, c) = Held(h, c) /\ t.outstanding = h.outstanding
<1> DEFINE t == Answered(h, c, ok)
           answer == [id |-> h.running[c], ok |-> ok]
           done   == Append(h.completed[c], answer)
           n      == Len(h.completed[c])
<1>1. /\ h.completed \in [Channels -> Seq(Answers)] /\ h.running \in [Channels -> Ids \cup {NoRequest}]
      /\ h.completed[c] \in Seq(Answers) /\ n \in Nat /\ Len(h.pending[c]) \in Nat
      /\ h.running[c] # NoRequest
  BY DEF Transports, CanAnswer
<1>2. answer \in Answers
  BY <1>1 DEF Answers
<1> HIDE DEF answer
<1>3. /\ done \in Seq(Answers) /\ Len(done) = n + 1 /\ done[n + 1] = answer
      /\ \A i \in 1..n : done[i] = h.completed[c][i]
  BY <1>1, <1>2
<1>4. DOMAIN done = 1..(n + 1) /\ DOMAIN h.completed[c] = 1..n
  BY <1>1, <1>3
<1> HIDE DEF done, n
<1>5. /\ t.running = [h.running EXCEPT ![c] = NoRequest]
      /\ t.completed = [h.completed EXCEPT ![c] = done]
      /\ t.pending = h.pending /\ t.stopping = h.stopping /\ t.outstanding = h.outstanding
  BY <1>1 DEF Answered, Transports, answer, done
<1>6. t \in Transports
  <2>1. t.completed \in [Channels -> Seq(Answers)] /\ t.running \in [Channels -> Ids \cup {NoRequest}]
    BY <1>1, <1>3, <1>5
  <2> DEFINE a == [h EXCEPT !.running = t.running]
  <2>2. t = [a EXCEPT !.completed = t.completed]
    BY <1>5 DEF Answered, Transports, answer, done
  <2>3. a \in Transports
    BY <2>1 DEF Transports
  <2> HIDE DEF a
  <2>4. [a EXCEPT !.completed = t.completed] \in Transports
    BY <2>1, <2>3 DEF Transports
  <2> QED BY <2>2, <2>4
<1>7. t.completed[c] = done /\ t.running[c] = NoRequest
  BY <1>1, <1>5
<1>8. answer.id = h.running[c]
  BY DEF answer
<1>9. \A i \in 1..(n + 1) : i \in 1..n \/ i = n + 1
  BY <1>1
<1>10. IdsOf(done) = IdsOf(h.completed[c]) \cup {h.running[c]}
  <2>1. \A i \in 1..n : i \in 1..(n + 1)
    BY <1>1
  <2>2. n + 1 \in 1..(n + 1)
    BY <1>1
  <2> QED BY <1>3, <1>4, <1>8, <1>9, <2>1, <2>2 DEF IdsOf
<1>11. Held(t, c) = Held(h, c)
  BY <1>1, <1>5, <1>7, <1>10, HeldPlaces
<1>12. Carries(t, c)
  <2>1. \A i \in 1..n : done[i].id # h.running[c]
    BY <1>3, <1>4 DEF Carries, IdsOf
  <2>2. DistinctIds(done)
    BY <1>3, <1>4, <1>8, <1>9, <2>1 DEF Carries, DistinctIds
  <2>3. NoRequest \notin Range(h.pending[c]) \cup IdsOf(done)
    <3>1. \A i \in DOMAIN h.pending[c] : h.pending[c][i] \in Ids
      BY DEF Transports
    <3>2. \A i \in DOMAIN done : done[i] \in Answers
      BY <1>3
    <3>3. \A i \in DOMAIN done : done[i].id \in Ids
      BY <3>2 DEF Answers
    <3> QED BY <3>1, <3>3 DEF Range, IdsOf, Ids
  <2>4. /\ IsInjective(t.pending[c]) /\ DistinctIds(t.completed[c])
        /\ Range(t.pending[c]) \cap IdsOf(t.completed[c]) = {}
        /\ t.running[c] \notin Range(t.pending[c]) \cup IdsOf(t.completed[c])
    BY <1>5, <1>7, <1>10, <2>2, <2>3 DEF Carries
  <2>5. t.outstanding[c] = Len(t.pending[c]) + Runs(t, c) + Len(t.completed[c])
    <3>1. Runs(t, c) = 0 /\ Runs(h, c) = 1
      BY <1>1, <1>7 DEF Runs
    <3>2. h.outstanding[c] = Len(h.pending[c]) + Runs(h, c) + n
      BY DEF Carries, n
    <3>3. t.outstanding[c] = h.outstanding[c] /\ Len(t.pending[c]) = Len(h.pending[c])
          /\ Len(t.completed[c]) = n + 1
      BY <1>3, <1>5, <1>7
    <3> DEFINE p == Len(h.pending[c])
               o == h.outstanding[c]
    <3>4. p \in Nat /\ n \in Nat /\ o = p + 1 + n
      BY <1>1, <3>1, <3>2
    <3>5. t.outstanding[c] = o /\ Len(t.pending[c]) + Runs(t, c) + Len(t.completed[c]) = p + 0 + (n + 1)
      BY <3>1, <3>3
    <3> HIDE DEF p, o
    <3>6. o = p + 0 + (n + 1)
      BY <3>4
    <3> QED BY <3>5, <3>6
  <2> QED BY <2>4, <2>5 DEF Carries
<1> QED
  BY <1>5, <1>6, <1>11, <1>12

LEMMA StoppedCarries ==
    ASSUME NEW h \in Transports, NEW c \in Channels, Carries(h, c)
    PROVE  LET t == Stopped(h)
           IN  t \in Transports /\ Carries(t, c) /\ Held(t, c) \subseteq Held(h, c) /\ t.stopping
                 /\ t.outstanding[c] <= h.outstanding[c]
<1> DEFINE t == Stopped(h)
<1>1. /\ h.completed[c] \in Seq(Answers) /\ Len(h.completed[c]) \in Nat /\ Len(h.pending[c]) \in Nat
      /\ h.outstanding[c] \in Int /\ \A d \in Channels : h.outstanding[d] - Len(h.pending[d]) \in Int
  BY DEF Transports
<1>2. /\ t.pending = [d \in Channels |-> <<>>] /\ t.running = h.running /\ t.completed = h.completed
      /\ t.outstanding = [d \in Channels |-> h.outstanding[d] - Len(h.pending[d])]
      /\ t.stopping = TRUE
  BY DEF Stopped, Transports
<1>3. t \in Transports
  <2>0. \A S : <<>> \in Seq(S)
    OBVIOUS
  <2>1. t.pending \in [Channels -> Seq(Ids)] /\ t.outstanding \in [Channels -> Int]
    BY <1>1, <1>2, <2>0
  <2> DEFINE a == [h EXCEPT !.stopping = TRUE]
             b == [a EXCEPT !.pending = t.pending]
  <2>2. t = [b EXCEPT !.outstanding = t.outstanding]
    BY <1>2 DEF Stopped, Transports
  <2>3. a \in Transports
    BY DEF Transports
  <2> HIDE DEF a
  <2>4. b \in Transports
    BY <2>1, <2>3 DEF Transports
  <2> HIDE DEF b
  <2>5. [b EXCEPT !.outstanding = t.outstanding] \in Transports
    BY <2>1, <2>4 DEF Transports
  <2> QED BY <2>2, <2>5
<1>4. t.pending[c] = <<>> /\ t.outstanding[c] = h.outstanding[c] - Len(h.pending[c])
  BY <1>2
<1>5. Range(<<>>) = {} /\ Len(<<>>) = 0 /\ IsInjective(<<>>)
  BY DEF Range, IsInjective
<1>6. Held(t, c) \subseteq Held(h, c)
  BY <1>2, <1>4, <1>5, HeldPlaces
<1>7. Carries(t, c)
  <2>1. /\ IsInjective(t.pending[c]) /\ DistinctIds(t.completed[c])
        /\ Range(t.pending[c]) \cap IdsOf(t.completed[c]) = {}
        /\ t.running[c] \notin Range(t.pending[c]) \cup IdsOf(t.completed[c])
    BY <1>2, <1>4, <1>5 DEF Carries
  <2>2. t.outstanding[c] = Len(t.pending[c]) + Runs(t, c) + Len(t.completed[c])
    <3>1. Runs(t, c) = Runs(h, c) /\ Runs(h, c) \in Nat
      BY <1>2 DEF Runs
    <3>2. h.outstanding[c] = Len(h.pending[c]) + Runs(h, c) + Len(h.completed[c])
      BY DEF Carries
    <3>3. /\ Len(t.pending[c]) = 0 /\ Len(t.completed[c]) = Len(h.completed[c])
          /\ t.outstanding[c] = h.outstanding[c] - Len(h.pending[c])
      BY <1>2, <1>4, <1>5
    <3>4. h.outstanding[c] \in Int /\ Len(h.pending[c]) \in Nat /\ Len(h.completed[c]) \in Nat
      BY <1>1
    <3> HIDE DEF t
    <3> QED BY <3>1, <3>2, <3>3, <3>4
  <2> QED BY <2>1, <2>2 DEF Carries
<1> QED
  BY <1>1, <1>2, <1>3, <1>4, <1>6, <1>7

LEMMA JoinedCarries ==
    ASSUME NEW h \in Transports, NEW c \in Channels, Carries(h, c)
    PROVE  LET t == Joined(h)
           IN  /\ t \in Transports /\ Carries(t, c) /\ Held(t, c) \subseteq Held(h, c)
               /\ t.stopping = h.stopping /\ t.outstanding[c] <= h.outstanding[c]
<1> DEFINE t == Joined(h)
<1>1. /\ h.completed[c] \in Seq(Answers) /\ Len(h.completed[c]) \in Nat /\ Len(h.pending[c]) \in Nat
      /\ h.outstanding[c] \in Int /\ \A d \in Channels : h.outstanding[d] - Len(h.completed[d]) \in Int
  BY DEF Transports
<1>2. /\ t.completed = [d \in Channels |-> <<>>] /\ t.running = h.running /\ t.pending = h.pending
      /\ t.outstanding = [d \in Channels |-> h.outstanding[d] - Len(h.completed[d])]
      /\ t.stopping = h.stopping
  BY DEF Joined, Transports
<1>3. t \in Transports
  <2>0. \A S : <<>> \in Seq(S)
    OBVIOUS
  <2>1. t.completed \in [Channels -> Seq(Answers)] /\ t.outstanding \in [Channels -> Int]
    BY <1>1, <1>2, <2>0
  <2> DEFINE a == [h EXCEPT !.completed = t.completed]
  <2>2. t = [a EXCEPT !.outstanding = t.outstanding]
    BY <1>2 DEF Joined, Transports
  <2>3. a \in Transports
    BY <2>1 DEF Transports
  <2> HIDE DEF a
  <2>4. [a EXCEPT !.outstanding = t.outstanding] \in Transports
    BY <2>1, <2>3 DEF Transports
  <2> QED BY <2>2, <2>4
<1>4. t.completed[c] = <<>> /\ t.outstanding[c] = h.outstanding[c] - Len(h.completed[c])
  BY <1>2
<1>5. IdsOf(<<>>) = {} /\ Len(<<>>) = 0 /\ DistinctIds(<<>>)
  BY DEF IdsOf, DistinctIds
<1>6. Held(t, c) \subseteq Held(h, c)
  BY <1>2, <1>4, <1>5, HeldPlaces
<1>7. Carries(t, c)
  <2>1. /\ IsInjective(t.pending[c]) /\ DistinctIds(t.completed[c])
        /\ Range(t.pending[c]) \cap IdsOf(t.completed[c]) = {}
        /\ t.running[c] \notin Range(t.pending[c]) \cup IdsOf(t.completed[c])
    BY <1>2, <1>4, <1>5 DEF Carries
  <2>2. t.outstanding[c] = Len(t.pending[c]) + Runs(t, c) + Len(t.completed[c])
    <3>1. Runs(t, c) = Runs(h, c) /\ Runs(h, c) \in Nat
      BY <1>2 DEF Runs
    <3>2. h.outstanding[c] = Len(h.pending[c]) + Runs(h, c) + Len(h.completed[c])
      BY DEF Carries
    <3>3. /\ Len(t.completed[c]) = 0 /\ Len(t.pending[c]) = Len(h.pending[c])
          /\ t.outstanding[c] = h.outstanding[c] - Len(h.completed[c])
      BY <1>2, <1>4, <1>5
    <3>4. h.outstanding[c] \in Int /\ Len(h.pending[c]) \in Nat /\ Len(h.completed[c]) \in Nat
      BY <1>1
    <3> HIDE DEF t
    <3> QED BY <3>1, <3>2, <3>3, <3>4
  <2> QED BY <2>1, <2>2 DEF Carries
<1> QED
  BY <1>1, <1>2, <1>3, <1>4, <1>6, <1>7

-----------------------------------------------------------------------------
(* The image cache.                                                        *)

Entries == [id : Ids, url : Urls]
Caches ==
    [inflight : SUBSET Urls, failed : SUBSET Urls, probed : SUBSET Urls, local : SUBSET Urls,
     urlOf : SUBSET Entries, stopping : BOOLEAN, next : Ids, disk : SUBSET Urls]

IdsIn(entries)  == {e.id : e \in entries}
UrlsIn(entries) == {e.url : e \in entries}
OneToOne(entries) == \A e, f \in entries : (e.id = f.id \/ e.url = f.url) => e = f

(* The table of requests is what is in flight and what the transport holds,*)
(* and it relates them one to one; a shut down cache has forgotten both.   *)
ImageInv ==
    /\ images \in Caches /\ web \in Transports /\ Carries(web, "image")
    /\ \A id \in Held(web, "image") : id < images.next
    /\ OneToOne(images.urlOf)
    /\ images.stopping => images.urlOf = {} /\ images.inflight = {}
    /\ ~images.stopping => /\ images.inflight = UrlsIn(images.urlOf)
                           /\ IdsIn(images.urlOf) = Held(web, "image")

LEMMA NewCarries ==
    /\ NewTransport \in Transports
    /\ \A c \in Channels : Carries(NewTransport, c) /\ Held(NewTransport, c) = {}
<1> DEFINE h == NewTransport
<1>1. /\ h.pending = [c \in Channels |-> <<>>] /\ h.running = [c \in Channels |-> NoRequest]
      /\ h.completed = [c \in Channels |-> <<>>] /\ h.outstanding = [c \in Channels |-> 0]
      /\ h.stopping = FALSE
  BY DEF NewTransport
<1>2. \A S : <<>> \in Seq(S)
  OBVIOUS
<1>3. h \in Transports
  BY <1>2 DEF NewTransport, Transports
<1>4. Range(<<>>) = {} /\ IdsOf(<<>>) = {} /\ Len(<<>>) = 0 /\ IsInjective(<<>>) /\ DistinctIds(<<>>)
  BY DEF Range, IdsOf, IsInjective, DistinctIds
<1> HIDE DEF h
<1>5. ASSUME NEW c \in Channels PROVE Carries(h, c) /\ Held(h, c) = {}
  <2>1. /\ h.pending[c] = <<>> /\ h.running[c] = NoRequest /\ h.completed[c] = <<>>
        /\ h.outstanding[c] = 0
    BY <1>1
  <2>2. Held(h, c) = {}
    BY <1>4, <2>1, HeldPlaces
  <2>3. Runs(h, c) = 0
    BY <2>1 DEF Runs
  <2>4. 0 = 0 + 0 + 0
    OBVIOUS
  <2> QED BY <1>4, <2>1, <2>2, <2>3, <2>4 DEF Carries
<1> QED
  BY <1>3, <1>5 DEF h

LEMMA ImagesBegin == ImagesInit => ImageInv
<1> SUFFICES ASSUME ImagesInit PROVE ImageInv
  OBVIOUS
<1>1. PICK disk \in SUBSET Urls : images = [NewCache EXCEPT !.disk = disk]
  BY DEF ImagesInit
<1>2. images \in Caches /\ images.urlOf = {} /\ images.inflight = {} /\ ~images.stopping
  <2>1. 1 \in Ids
    BY DEF Ids, NoRequest
  <2>2. NewCache \in Caches
    BY <2>1 DEF NewCache, Caches
  <2>3. /\ images \in Caches /\ images.urlOf = NewCache.urlOf
        /\ images.inflight = NewCache.inflight /\ images.stopping = NewCache.stopping
    BY <1>1, <2>2 DEF Caches
  <2> QED BY <2>3 DEF NewCache
<1>3. web = NewTransport /\ "image" \in Channels
  BY DEF ImagesInit, Channels
<1>4. web \in Transports /\ Carries(web, "image") /\ Held(web, "image") = {}
  BY <1>3, NewCarries
<1>5. OneToOne({}) /\ UrlsIn({}) = {} /\ IdsIn({}) = {}
  BY DEF OneToOne, UrlsIn, IdsIn
<1> QED
  BY <1>2, <1>4, <1>5 DEF ImageInv

(* A lookup on the disk changes neither the requests nor what is in flight.*)
LEMMA ProbedKeeps ==
    ASSUME NEW cache \in Caches, NEW url \in Urls
    PROVE  LET p == Probed(cache, url)
           IN  /\ p \in Caches /\ p.urlOf = cache.urlOf /\ p.inflight = cache.inflight
               /\ p.stopping = cache.stopping /\ p.next = cache.next
<1>1. CASE url \in cache.local \/ url \in cache.probed
  BY <1>1 DEF Probed
<1>2. CASE ~(url \in cache.local \/ url \in cache.probed)
  <2> DEFINE a == [cache EXCEPT !.probed = cache.probed \cup {url}]
             b == [a EXCEPT !.local = a.local \cup ({url} \cap cache.disk)]
  <2>1. Probed(cache, url) = b
    BY <1>2 DEF Probed, Caches
  <2>2. /\ a \in Caches /\ a.urlOf = cache.urlOf /\ a.inflight = cache.inflight
        /\ a.stopping = cache.stopping /\ a.next = cache.next
    BY DEF Caches
  <2> HIDE DEF a
  <2>3. /\ b \in Caches /\ b.urlOf = a.urlOf /\ b.inflight = a.inflight
        /\ b.stopping = a.stopping /\ b.next = a.next
    BY <2>2 DEF Caches
  <2> QED BY <2>1, <2>2, <2>3
<1> QED
  BY <1>1, <1>2

LEMMA RequestImageKeeps ==
    ASSUME ImageInv, NEW url \in Urls, RequestImage(url)
    PROVE  ImageInv'
<1> DEFINE p == Probed(images, url)
<1>1. /\ p \in Caches /\ p.urlOf = images.urlOf /\ p.inflight = images.inflight
      /\ p.stopping = images.stopping /\ p.next = images.next
  BY ProbedKeeps DEF ImageInv
<1> HIDE DEF p
<1>2. /\ ~images.stopping /\ url \notin images.inflight /\ images.next \in Ids
      /\ web \in Transports /\ Carries(web, "image") /\ "image" \in Channels
  BY DEF RequestImage, AsksFor, ImageInv, Caches, Channels
<1>3. CASE images' = p /\ UNCHANGED web
  BY <1>1, <1>3 DEF ImageInv
<1>4. CASE images' = Refused(p, url) /\ UNCHANGED web
  <2>1. p.next \in Ids /\ p.next + 1 \in Ids /\ p.next < p.next + 1
    BY <1>1, <1>2 DEF Ids, NoRequest
  <2>2. /\ images' \in Caches /\ images'.urlOf = p.urlOf /\ images'.inflight = p.inflight
        /\ images'.stopping = p.stopping /\ images'.next = p.next + 1
    BY <1>1, <1>4, <2>1 DEF Refused, Caches
  <2>3. \A id \in Held(web, "image") : id < images.next + 1
    <3>1. \A id \in Held(web, "image") : id \in Ids
      BY <1>2, HeldAreIds
    <3> QED BY <1>2, <3>1 DEF ImageInv, Ids
  <2> QED BY <1>1, <1>4, <2>2, <2>3 DEF ImageInv
<1>5. CASE /\ images' = [p EXCEPT !.inflight = @ \cup {url}, !.next = @ + 1,
                                  !.urlOf = @ \cup {[id |-> p.next, url |-> url]}]
           /\ web' = Submitted(web, "image", <<images.next>>)
  <2> DEFINE e == [id |-> images.next, url |-> url]
             ids == <<images.next>>
  <2>1. /\ ids \in Seq(Ids) /\ Range(ids) = {images.next} /\ IsInjective(ids)
    BY <1>2 DEF Range, IsInjective
  <2>2. images.next \notin Held(web, "image")
    BY <1>2 DEF ImageInv, Ids
  <2>3. /\ web' \in Transports /\ Carries(web', "image")
        /\ Held(web', "image") = Held(web, "image") \cup {images.next}
    <3>1. Range(ids) \cap Held(web, "image") = {} /\ web' = Submitted(web, "image", ids)
      BY <1>5, <2>1, <2>2
    <3> HIDE DEF ids
    <3> QED BY <1>2, <2>1, <3>1, SubmittedCarries
  <2>4. e \in Entries /\ e.id = images.next /\ e.url = url
    BY <1>2 DEF Entries
  <2> HIDE DEF e
  <2>5. /\ images'.urlOf = images.urlOf \cup {e} /\ images'.inflight = images.inflight \cup {url}
        /\ images'.stopping = images.stopping /\ images'.next = images.next + 1
    BY <1>1, <1>5 DEF Caches, e
  <2>6. images.next + 1 \in Ids
    BY <1>2 DEF Ids, NoRequest
  <2>7. images' \in Caches
    <3> DEFINE a == [p EXCEPT !.inflight = p.inflight \cup {url}]
               b == [a EXCEPT !.next = images.next + 1]
               d == [b EXCEPT !.urlOf = images.urlOf \cup {e}]
    <3>1. images' = d
      BY <1>1, <1>5 DEF Caches, e
    <3>2. a \in Caches
      BY <1>1 DEF Caches
    <3> HIDE DEF a
    <3>3. b \in Caches
      BY <3>2, <2>6 DEF Caches
    <3>4. images.urlOf \cup {e} \in SUBSET Entries
      BY <2>4 DEF ImageInv, Caches
    <3> HIDE DEF b
    <3>5. d \in Caches
      BY <3>3, <3>4 DEF Caches
    <3> QED BY <3>1, <3>5
  <2>8. UrlsIn(images.urlOf \cup {e}) = images.inflight \cup {url}
    BY <1>2, <2>4 DEF ImageInv, UrlsIn
  <2>9. IdsIn(images.urlOf \cup {e}) = Held(web', "image")
    BY <1>2, <2>3, <2>4 DEF ImageInv, IdsIn
  <2>10. OneToOne(images.urlOf \cup {e})
    <3>1. \A f \in images.urlOf : f.id # e.id /\ f.url # e.url
      BY <1>2, <2>2, <2>4 DEF ImageInv, IdsIn, UrlsIn
    <3> QED BY <3>1 DEF ImageInv, OneToOne
  <2>11. \A id \in Held(web', "image") : id < images.next + 1
    <3>1. \A id \in Held(web, "image") : id \in Ids
      BY <1>2, HeldAreIds
    <3> QED BY <1>2, <2>3, <3>1 DEF ImageInv, Ids
  <2> QED BY <1>2, <2>3, <2>5, <2>7, <2>8, <2>9, <2>10, <2>11 DEF ImageInv
<1> QED
  BY <1>1, <1>3, <1>4, <1>5 DEF RequestImage, p

LEMMA ProcessImagesKeeps == ImageInv /\ ProcessImages => ImageInv'
<1> SUFFICES ASSUME ImageInv, ProcessImages PROVE ImageInv'
  OBVIOUS
<1> DEFINE answers  == web.completed["image"]
           answered == {e \in images.urlOf : e.id \in IdsOf(answers)}
           ended    == {e.url : e \in answered}
<1>1. PICK written \in SUBSET Granted(answers) : images' = AllStored(images, answers, written)
  BY DEF ProcessImages
<1> DEFINE saved == {e.url : e \in {e \in answered : e.id \in written}}
<1>2. /\ web \in Transports /\ Carries(web, "image") /\ "image" \in Channels /\ images \in Caches
      /\ web' = Taken(web, "image")
  BY DEF ImageInv, ProcessImages, Channels
<1>3. /\ web' \in Transports /\ Carries(web', "image")
      /\ Held(web', "image") = Held(web, "image") \ IdsOf(answers)
  BY <1>2, TakenCarries
<1>4. answered \subseteq Entries /\ ended \subseteq Urls /\ saved \subseteq Urls
  BY <1>2 DEF Caches, Entries
<1>5. images' = [images EXCEPT !.urlOf = @ \ answered, !.inflight = @ \ ended,
                               !.local = @ \cup saved, !.disk = @ \cup saved,
                               !.failed = @ \cup (ended \ saved)]
  BY <1>1 DEF AllStored
<1>6. UrlsIn(images.urlOf \ answered) = UrlsIn(images.urlOf) \ ended
  <2>1. OneToOne(images.urlOf)
    BY DEF ImageInv
  <2> HIDE DEF ended
  <2>2. ended = UrlsIn(answered) /\ answered \subseteq images.urlOf
    BY DEF ended, UrlsIn
  <2> HIDE DEF answered
  <2> QED BY <2>1, <2>2 DEF OneToOne, UrlsIn
<1>7. IdsIn(images.urlOf \ answered) = IdsIn(images.urlOf) \ IdsOf(answers)
  BY DEF IdsIn
<1> HIDE DEF answered, ended, saved, answers
<1>8. /\ images'.urlOf = images.urlOf \ answered /\ images'.inflight = images.inflight \ ended
      /\ images'.stopping = images.stopping /\ images'.next = images.next
  BY <1>2, <1>5 DEF Caches
<1>9. images' \in Caches
  <2> DEFINE a == [images EXCEPT !.urlOf = images.urlOf \ answered]
             b == [a EXCEPT !.inflight = a.inflight \ ended]
             c == [b EXCEPT !.local = b.local \cup saved]
             d == [c EXCEPT !.disk = c.disk \cup saved]
             f == [d EXCEPT !.failed = d.failed \cup (ended \ saved)]
  <2>1. images' = f
    BY <1>2, <1>5 DEF Caches
  <2>2. a \in Caches
    BY <1>2 DEF Caches
  <2> HIDE DEF a
  <2>3. b \in Caches
    BY <2>2 DEF Caches
  <2> HIDE DEF b
  <2>4. c \in Caches
    BY <1>4, <2>3 DEF Caches
  <2> HIDE DEF c
  <2>5. d \in Caches
    BY <1>4, <2>4 DEF Caches
  <2> HIDE DEF d
  <2>6. f \in Caches
    BY <1>4, <2>5 DEF Caches
  <2> QED BY <2>1, <2>6
<1>10. OneToOne(images'.urlOf)
  BY <1>8 DEF ImageInv, OneToOne
<1>11. \A id \in Held(web', "image") : id < images'.next
  BY <1>3, <1>8 DEF ImageInv
<1>12. images'.stopping => images'.urlOf = {} /\ images'.inflight = {}
  BY <1>8 DEF ImageInv
<1>13. ~images'.stopping => /\ images'.inflight = UrlsIn(images'.urlOf)
                            /\ IdsIn(images'.urlOf) = Held(web', "image")
  BY <1>3, <1>6, <1>7, <1>8 DEF ImageInv
<1> QED
  BY <1>3, <1>9, <1>10, <1>11, <1>12, <1>13 DEF ImageInv

LEMMA ImagesKeep == ImageInv /\ [ImagesNext]_imageVars => ImageInv'
<1> SUFFICES ASSUME ImageInv, [ImagesNext]_imageVars PROVE ImageInv'
  OBVIOUS
<1>0. web \in Transports /\ Carries(web, "image") /\ "image" \in Channels /\ images \in Caches
  BY DEF ImageInv, Channels
<1>1. ASSUME NEW url \in Urls, RequestImage(url) PROVE ImageInv'
  BY <1>1, RequestImageKeeps
<1>2. CASE ProcessImages
  BY <1>2, ProcessImagesKeeps
<1>3. CASE RetryFailed
  <2>1. /\ images' = [images EXCEPT !.failed = {}] /\ UNCHANGED web
    BY <1>3 DEF RetryFailed
  <2>2. /\ images' \in Caches /\ images'.urlOf = images.urlOf /\ images'.inflight = images.inflight
        /\ images'.stopping = images.stopping /\ images'.next = images.next
    BY <1>0, <2>1 DEF Caches
  <2> QED BY <2>1, <2>2 DEF ImageInv
<1>4. CASE ShutdownImages
  <2>1. images' = [images EXCEPT !.stopping = TRUE, !.inflight = {}, !.urlOf = {}] /\ UNCHANGED web
    BY <1>4 DEF ShutdownImages
  <2> DEFINE a == [images EXCEPT !.stopping = TRUE]
             b == [a EXCEPT !.inflight = {}]
  <2>2. images' = [b EXCEPT !.urlOf = {}]
    BY <1>0, <2>1 DEF Caches
  <2>3. a \in Caches /\ a.stopping = TRUE /\ a.next = images.next
    BY <1>0 DEF Caches
  <2> HIDE DEF a
  <2>4. b \in Caches /\ b.stopping = TRUE /\ b.inflight = {} /\ b.next = images.next
    BY <2>3 DEF Caches
  <2> HIDE DEF b
  <2>5. /\ images' \in Caches /\ images'.urlOf = {} /\ images'.inflight = {}
        /\ images'.stopping = TRUE /\ images'.next = images.next
    BY <2>2, <2>4 DEF Caches
  <2>6. OneToOne({})
    BY DEF OneToOne
  <2> QED BY <2>1, <2>5, <2>6 DEF ImageInv
<1>5. CASE UNCHANGED images /\ web' \in Transports /\ Carries(web', "image")
           /\ Held(web', "image") = Held(web, "image")
  BY <1>5 DEF ImageInv
<1>6. CASE FetchImage
  BY <1>0, <1>5, <1>6, StartedCarries, AnsweredCarries DEF FetchImage
<1>7. CASE StopImages
  <2>1. /\ UNCHANGED images /\ images.stopping
        /\ web' = Stopped(web) \/ web' = Joined(web)
    BY <1>7 DEF StopImages
  <2>2. web' \in Transports /\ Carries(web', "image") /\ Held(web', "image") \subseteq Held(web, "image")
    BY <1>0, <2>1, StoppedCarries, JoinedCarries
  <2> QED BY <2>1, <2>2 DEF ImageInv
<1>8. CASE UNCHANGED imageVars
  BY <1>8, <1>5, <1>0 DEF imageVars
<1> QED
  BY <1>1, <1>2, <1>3, <1>4, <1>6, <1>7, <1>8 DEF ImagesNext

(* While the cache is in use, a URL is in flight exactly when its request  *)
(* is in the transport, and a request counts once wherever it is: request  *)
(* never returns early for a URL that nothing will answer, whatever the    *)
(* order of requests, answers, refusals and the shutdown                   *)
(* (RetroAchievementsImageCache::request, processCompleted, shutdown).     *)
THEOREM ImagesAnswered == ImageSpec => []ImagesAreAnswered
<1>1. ImageInv => ImagesAreAnswered
  <2> SUFFICES ASSUME ImageInv PROVE ImagesAreAnswered
    OBVIOUS
  <2>1. web \in Transports /\ Carries(web, "image") /\ "image" \in Channels
    BY DEF ImageInv, Channels
  <2>2. web.outstanding["image"] = Cardinality(Held(web, "image"))
    BY <2>1, HeldCount
  <2> QED BY <2>2 DEF ImagesAreAnswered, ImageInv, UrlsIn, IdsIn
<1> QED
  BY <1>1, ImagesBegin, ImagesKeep, PTL DEF ImageSpec

-----------------------------------------------------------------------------
(* The session.                                                            *)

Names == Users \cup {NoUser}
Ops ==
    [kind : {"login", "profile", "titles", "identify", "open", "award"}, gen : Nat, part : Nat,
     user : Names]
Calls == [id : Ids, op : Ops]
Commands == [type : {"login", "logout", "loadGame"}, user : Names]

Fields ==
    {"conn", "user", "game", "library", "merged", "profiles", "titles", "loginGen", "gameGen",
     "profileGen", "connGen", "down", "commands", "shown", "calls", "rejected", "taken", "lastCall",
     "client", "ops", "later", "http", "seen", "coordinator", "epoch", "askedIn"}

Typed(s) ==
    /\ DOMAIN s = Fields /\ DOMAIN s.client = {"user", "game"}
    /\ s.loginGen \in Nat /\ s.gameGen \in Nat /\ s.profileGen \in Nat /\ s.connGen \in Nat
    /\ s.profiles \in Nat /\ s.titles \in Nat /\ s.lastCall \in Nat /\ s.epoch \in Nat
    /\ s.ops \in SUBSET Ops /\ s.rejected \in Seq(Ops) /\ s.later \in Seq(Ops)
    /\ s.calls \in SUBSET Calls /\ s.taken \in Seq(Answers) /\ s.http \in Transports
    /\ IsFiniteSet(s.merged) /\ s.client.user \in Names
    /\ s.conn \in {"loggedOut", "loggingIn", "online", "offline", "error"}

(* An operation waits in one place only, once.  `loose' are those that are *)
(* about to be called.                                                     *)
Waiting(s) == {c.op : c \in s.calls}
Linked(s, loose) ==
    /\ s.ops = Waiting(s) \cup Range(s.rejected) \cup Range(s.later) \cup loose
    /\ \A c, d \in s.calls : (c.id = d.id \/ c.op = d.op) => c = d
    /\ IsInjective(s.rejected) /\ IsInjective(s.later)
    /\ Waiting(s) \cap Range(s.rejected) = {} /\ Waiting(s) \cap Range(s.later) = {}
    /\ Range(s.rejected) \cap Range(s.later) = {}
    /\ loose \cap (Waiting(s) \cup Range(s.rejected) \cup Range(s.later)) = {}

(* A call waits for a request in the transport or an answer taken from it. *)
Answerable(s) ==
    /\ Carries(s.http, "api") /\ s.http.outstanding["api"] <= Outstanding
    /\ DistinctIds(s.taken) /\ Held(s.http, "api") \cap IdsOf(s.taken) = {}
    /\ {c.id : c \in s.calls} = Held(s.http, "api") \cup IdsOf(s.taken)
    /\ \A c \in s.calls : c.id <= s.lastCall

(* An operation carries a generation of the session, and the current one   *)
(* only for the user who is logged in.                                     *)
Current(s, op) == s.conn \in Connected /\ op.user = s.client.user
Numbered(s, op) ==
    /\ op.kind = "login" => op.gen <= s.loginGen
    /\ op.kind \in {"profile", "titles"} =>
           op.gen <= s.profileGen /\ (op.gen = s.profileGen => Current(s, op))
    /\ op.kind \in {"identify", "open"} =>
           op.gen <= s.gameGen /\ (op.gen = s.gameGen => Current(s, op))
    /\ op.kind = "titles" /\ op.gen = s.profileGen => s.profiles = 0

(* The profile waits for as many consoles as were asked for, and no game   *)
(* is loaded twice in a generation.                                        *)
AskedProfiles(s, ops) == {op \in ops : op.kind = "profile" /\ op.gen = s.profileGen}
Counted(s, ops) ==
    /\ IsFiniteSet(AskedProfiles(s, ops)) /\ s.profiles = Cardinality(AskedProfiles(s, ops))
    /\ \A o, p \in ops :
           {o.kind, p.kind} \subseteq {"identify", "open"} /\ o.gen = p.gen => o = p

OneUser(s) ==
    /\ s.shown = [conn |-> s.conn, user |-> s.user, game |-> s.game, library |-> s.library,
                  connGen |-> s.connGen]
    /\ s.user = s.client.user
    /\ s.game \in {NoUser, s.client.user} /\ s.client.game \in {NoUser, s.client.user}
    /\ \A e \in s.merged \cup s.library : e[2] = s.client.user
    /\ s.conn \notin Connected => s.client.user = NoUser /\ s.library = {}

(* What the coordinator takes for asked was asked in this connection, if   *)
(* it is the one that the coordinator saw.                                 *)
Coordinated(s) ==
    LET seen == s.coordinator
    IN  /\ seen.requested \in BOOLEAN /\ seen.gen \in Int
        /\ seen.requested => 0 <= seen.gen
        /\ seen.requested /\ s.conn \in Connected => seen.gen <= s.connGen
        /\ seen.requested /\ s.conn = "online" /\ seen.gen = s.connGen => s.askedIn = s.epoch
        /\ s.conn \in {"loggingIn", "error"} => ~seen.requested

(* A session in use, whose operations (with one that is being begun or     *)
(* completed) are `ops'.                                                   *)
Live(s, ops) ==
    /\ Typed(s) /\ s.down = FALSE /\ Linked(s, {}) /\ Answerable(s)
    /\ \A op \in ops : Numbered(s, op)
    /\ Counted(s, ops) /\ OneUser(s) /\ Coordinated(s)

(* Where the worker stands.                                                *)
Placed(s, w) ==
    /\ s.commands \in Seq(Commands)
    /\ s.commands # <<>> => w.pc \in {"ui", "pending"}
    /\ \A i \in DOMAIN s.commands :
           /\ s.commands[i].type = "login" => s.conn \notin Connected /\ ~s.coordinator.requested
           /\ s.commands[i].type = "loadGame" => i = 1 /\ s.conn = "online"
    /\ w.pc = "ui" =>
           /\ s.seen = [conn |-> s.conn, user |-> s.user]
           /\ s.conn \notin Connected => ~s.coordinator.requested
           /\ s.conn = "online" /\ s.game = NoUser => s.askedIn = s.epoch
    /\ w.pc # "respond" => s.taken = <<>>
    /\ ~w.awarded => \A op \in s.ops : op.kind # "award"

(* After the shutdown nothing waits, and what was shown stays.             *)
Ended(s) ==
    /\ DOMAIN s = Fields /\ s.down = TRUE
    /\ s.http \in Transports /\ Carries(s.http, "api")
    /\ s.ops = {} /\ s.calls = {} /\ s.rejected = <<>> /\ s.later = <<>>

InUse(s, w) ==
    /\ Live(s, s.ops) /\ Placed(s, w)
    /\ DOMAIN w = {"pc", "again", "awarded"} /\ w.awarded \in BOOLEAN

SessionInv ==
    \/ InUse(ra, worker)
    \/ Ended(ra) /\ ShownIsOneUsers /\ GameIsAskedFor

(* What an operation of the session leaves alone.                          *)
Keeps(t, s, changed) == DOMAIN t = Fields /\ \A f \in Fields \ changed : t[f] = s[f]

LEMMA IdsAfterHead ==
    ASSUME NEW p \in Seq(Answers), p # <<>>, DistinctIds(p)
    PROVE  /\ Head(p) \in Answers /\ Tail(p) \in Seq(Answers)
           /\ IdsOf(p) = {Head(p).id} \cup IdsOf(Tail(p)) /\ Head(p).id \notin IdsOf(Tail(p))
           /\ DistinctIds(Tail(p))
<1> DEFINE first == Head(p)
           rest  == Tail(p)
<1>1. Len(p) \in Nat \ {0} /\ first = p[1] /\ DOMAIN p = 1..Len(p) /\ DOMAIN rest = 1..(Len(p) - 1)
      /\ first \in Answers /\ rest \in Seq(Answers)
  OBVIOUS
<1>2. \A i \in DOMAIN rest : rest[i] = p[i + 1] /\ i + 1 \in DOMAIN p
  BY <1>1
<1>3. \A i \in DOMAIN p : i # 1 => i - 1 \in DOMAIN rest /\ rest[i - 1] = p[i]
  <2> SUFFICES ASSUME NEW i \in DOMAIN p, i # 1 PROVE i - 1 \in DOMAIN rest /\ rest[i - 1] = p[i]
    OBVIOUS
  <2> DEFINE j == i - 1
  <2>1. j \in DOMAIN rest /\ i = j + 1
    BY <1>1
  <2> QED BY <1>2, <2>1
<1> HIDE DEF first, rest
<1>4. first.id \in IdsOf(p) /\ IdsOf(rest) \subseteq IdsOf(p)
  BY <1>1, <1>2 DEF IdsOf
<1>5. IdsOf(p) \subseteq {first.id} \cup IdsOf(rest)
  BY <1>1, <1>3 DEF IdsOf
<1>6. first.id \notin IdsOf(rest)
  <2> SUFFICES ASSUME NEW i \in DOMAIN rest, rest[i].id = first.id PROVE FALSE
    BY DEF IdsOf
  <2>1. i + 1 = 1
    BY <1>1, <1>2 DEF DistinctIds
  <2> QED BY <1>1, <2>1
<1>7. DistinctIds(rest)
  <2> SUFFICES ASSUME NEW i \in DOMAIN rest, NEW j \in DOMAIN rest, rest[i].id = rest[j].id
               PROVE  i = j
    BY DEF DistinctIds
  <2>1. i + 1 = j + 1
    BY <1>2 DEF DistinctIds
  <2> QED BY <1>1, <2>1
<1> QED
  BY <1>1, <1>4, <1>5, <1>6, <1>7 DEF first, rest

(* A sequence cut in two.                                                  *)
LEMMA CutRange ==
    ASSUME NEW S, NEW p \in Seq(S), NEW n \in 0..Len(p)
    PROVE  LET rest == SubSeq(p, n + 1, Len(p))
           IN  /\ rest \in Seq(S)
               /\ Range(p) = {p[i] : i \in 1..n} \cup Range(rest)
               /\ IsInjective(p) => IsInjective(rest) /\ {p[i] : i \in 1..n} \cap Range(rest) = {}
<1> DEFINE rest == SubSeq(p, n + 1, Len(p))
<1>1. Len(p) \in Nat /\ n \in Nat /\ n <= Len(p) /\ DOMAIN p = 1..Len(p)
      /\ \A i \in 1..Len(p) : p[i] \in S
  OBVIOUS
<1>2. rest = [i \in 1..(Len(p) - n) |-> p[i + n]]
  <2>1. rest = [i \in 1..(Len(p) - (n + 1) + 1) |-> p[i + (n + 1) - 1]]
    BY <1>1 DEF SubSeq
  <2>2. Len(p) - (n + 1) + 1 = Len(p) - n
    BY <1>1
  <2>3. \A i \in 1..(Len(p) - n) : i + (n + 1) - 1 = i + n
    BY <1>1
  <2> QED BY <2>1, <2>2, <2>3
<1> HIDE DEF rest
<1>3. \A i \in 1..(Len(p) - n) : i + n \in 1..Len(p) /\ i + n > n
  BY <1>1
<1>4. rest \in Seq(S)
  BY <1>1, <1>2, <1>3
<1>5. \A i \in 1..Len(p) : i \notin 1..n => i - n \in 1..(Len(p) - n) /\ (i - n) + n = i
  BY <1>1
<1>6. 1..n \subseteq 1..Len(p)
  BY <1>1
<1>7. Range(p) \subseteq {p[i] : i \in 1..n} \cup Range(rest)
  <2> SUFFICES ASSUME NEW i \in 1..Len(p), i \notin 1..n PROVE p[i] \in Range(rest)
    BY <1>1 DEF Range
  <2>1. i - n \in DOMAIN rest /\ rest[i - n] = p[i]
    BY <1>2, <1>5
  <2> QED BY <2>1 DEF Range
<1>8. {p[i] : i \in 1..n} \cup Range(rest) \subseteq Range(p)
  BY <1>1, <1>2, <1>3, <1>6 DEF Range
<1>9. ASSUME IsInjective(p) PROVE IsInjective(rest) /\ {p[i] : i \in 1..n} \cap Range(rest) = {}
  <2>1. IsInjective(rest)
    <3> SUFFICES ASSUME NEW i \in DOMAIN rest, NEW j \in DOMAIN rest, rest[i] = rest[j]
                 PROVE  i = j
      BY DEF IsInjective
    <3>1. i + n = j + n
      BY <1>1, <1>2, <1>3, <1>9 DEF IsInjective
    <3> QED BY <1>1, <1>2, <3>1
  <2>2. ASSUME NEW i \in 1..n, NEW j \in DOMAIN rest, p[i] = rest[j] PROVE FALSE
    <3>1. i = j + n
      BY <1>1, <1>2, <1>3, <1>6, <1>9, <2>2 DEF IsInjective
    <3> QED BY <1>1, <1>2, <1>3, <3>1
  <2> QED BY <2>1, <2>2 DEF Range
<1> QED
  BY <1>4, <1>7, <1>8, <1>9 DEF rest

(* The parts of the invariant read some of the fields only.                *)
LEMMA KeepsParts ==
    ASSUME NEW s, NEW t, NEW changed, Keeps(t, s, changed)
    PROVE  /\ changed \cap {"ops", "calls", "rejected", "later"} = {} =>
                  \A loose : Linked(s, loose) => Linked(t, loose)
           /\ changed \cap {"http", "taken", "calls", "lastCall"} = {} =>
                  (Answerable(s) => Answerable(t))
           /\ changed \cap {"loginGen", "profileGen", "gameGen", "client", "conn", "profiles"} = {} =>
                  \A op : Numbered(s, op) => Numbered(t, op)
           /\ changed \cap {"profiles", "profileGen"} = {} =>
                  \A ops : Counted(s, ops) => Counted(t, ops)
           /\ changed \cap {"shown", "conn", "user", "game", "library", "connGen", "client",
                            "merged"} = {} => (OneUser(s) => OneUser(t))
           /\ changed \cap {"coordinator", "conn", "connGen", "askedIn", "epoch"} = {} =>
                  (Coordinated(s) => Coordinated(t))
<1>1. ASSUME changed \cap {"ops", "calls", "rejected", "later"} = {}, NEW loose, Linked(s, loose)
      PROVE  Linked(t, loose)
  <2>1. t.ops = s.ops /\ t.calls = s.calls /\ t.rejected = s.rejected /\ t.later = s.later
    BY <1>1 DEF Keeps, Fields
  <2> QED BY <1>1, <2>1 DEF Linked, Waiting
<1>2. ASSUME changed \cap {"http", "taken", "calls", "lastCall"} = {}, Answerable(s)
      PROVE  Answerable(t)
  <2>1. t.http = s.http /\ t.calls = s.calls /\ t.taken = s.taken /\ t.lastCall = s.lastCall
    BY <1>2 DEF Keeps, Fields
  <2> QED BY <1>2, <2>1 DEF Answerable
<1>3. ASSUME changed \cap {"loginGen", "profileGen", "gameGen", "client", "conn", "profiles"} = {},
             NEW op, Numbered(s, op)
      PROVE  Numbered(t, op)
  <2>1. /\ t.loginGen = s.loginGen /\ t.profileGen = s.profileGen /\ t.gameGen = s.gameGen
        /\ t.client = s.client /\ t.conn = s.conn /\ t.profiles = s.profiles
    BY <1>3 DEF Keeps, Fields
  <2> QED BY <1>3, <2>1 DEF Numbered, Current
<1>4. ASSUME changed \cap {"profiles", "profileGen"} = {}, NEW ops, Counted(s, ops)
      PROVE  Counted(t, ops)
  <2>1. t.profileGen = s.profileGen /\ t.profiles = s.profiles
    BY <1>4 DEF Keeps, Fields
  <2> QED BY <1>4, <2>1 DEF Counted, AskedProfiles
<1>5. ASSUME changed \cap {"shown", "conn", "user", "game", "library", "connGen", "client",
                           "merged"} = {}, OneUser(s)
      PROVE  OneUser(t)
  <2>1. /\ t.shown = s.shown /\ t.conn = s.conn /\ t.user = s.user /\ t.game = s.game
        /\ t.library = s.library /\ t.connGen = s.connGen /\ t.client = s.client
        /\ t.merged = s.merged
    BY <1>5 DEF Keeps, Fields
  <2> QED BY <1>5, <2>1 DEF OneUser
<1>6. ASSUME changed \cap {"coordinator", "conn", "connGen", "askedIn", "epoch"} = {}, Coordinated(s)
      PROVE  Coordinated(t)
  <2>1. /\ t.coordinator = s.coordinator /\ t.conn = s.conn /\ t.connGen = s.connGen
        /\ t.askedIn = s.askedIn /\ t.epoch = s.epoch
    BY <1>6 DEF Keeps, Fields
  <2> QED BY <1>6, <2>1 DEF Coordinated
<1> QED
  BY <1>1, <1>2, <1>3, <1>4, <1>5, <1>6

(* handleServerCall: whether a request is sent or refused, the operation   *)
(* waits in one place.                                                     *)
LEMMA CalledLinks ==
    ASSUME NEW s, Typed(s), Answerable(s), NEW new \in Seq(Ops), IsInjective(new),
           Linked(s, Range(new)), Outstanding \in Nat
    PROVE  LET t == Called(s, new)
           IN  /\ Keeps(t, s, {"calls", "http", "lastCall", "rejected"})
               /\ Typed(t) /\ Answerable(t) /\ Linked(t, {})
<1> DEFINE room == Room(s.http, "api")
           sent == IF Len(new) < room THEN Len(new) ELSE room
           ids  == [i \in 1..sent |-> s.lastCall + i]
           sentCalls == {[id |-> s.lastCall + i, op |-> new[i]] : i \in 1..sent}
           rest == SubSeq(new, sent + 1, Len(new))
           t == Called(s, new)
<1>1. /\ s.http \in Transports /\ Carries(s.http, "api") /\ "api" \in Channels
      /\ s.http.outstanding["api"] \in Int /\ s.http.outstanding["api"] <= Outstanding
      /\ Len(new) \in Nat /\ s.lastCall \in Nat /\ DOMAIN s = Fields
      /\ DOMAIN new = 1..Len(new) /\ \A i \in 1..Len(new) : new[i] \in Ops
  <2>1. /\ s.http \in Transports /\ "api" \in Channels /\ s.lastCall \in Nat /\ DOMAIN s = Fields
    BY DEF Typed, Channels
  <2>2. s.http.outstanding["api"] \in Int
    BY <2>1 DEF Transports
  <2>3. Carries(s.http, "api") /\ s.http.outstanding["api"] <= Outstanding
    BY DEF Answerable
  <2>4. Len(new) \in Nat /\ DOMAIN new = 1..Len(new) /\ \A i \in 1..Len(new) : new[i] \in Ops
    OBVIOUS
  <2> QED BY <2>1, <2>2, <2>3, <2>4
<1>2. sent \in 0..Len(new) /\ sent \in Nat
  <2>1. room \in Nat
    BY <1>1 DEF Room
  <2> HIDE DEF room
  <2> QED BY <1>1, <2>1
<1>2a. s.http.outstanding["api"] + sent <= Outstanding
  <2>1. sent <= room
    <3>1. room \in Nat
      BY <1>1 DEF Room
    <3> HIDE DEF room
    <3> QED BY <1>1, <3>1
  <2>2. sent \in Nat
    BY <1>2
  <2> HIDE DEF sent
  <2> QED BY <1>1, <2>1, <2>2 DEF Room
<1> HIDE DEF sent, room
<1>3. /\ ids \in Seq(Ids) /\ Len(ids) = sent /\ IsInjective(ids)
      /\ Range(ids) = {s.lastCall + i : i \in 1..sent}
  <2>1. \A i \in 1..sent : s.lastCall + i \in Ids
    BY <1>1, <1>2 DEF Ids, NoRequest
  <2>2. ids \in Seq(Ids) /\ Len(ids) = sent
    BY <1>2, <2>1
  <2>3. IsInjective(ids)
    BY <1>1, <1>2 DEF IsInjective
  <2> QED BY <2>2, <2>3 DEF Range
<1>4. \A id \in Held(s.http, "api") \cup IdsOf(s.taken) : id \in Ids /\ id <= s.lastCall
  BY DEF Answerable, Typed, Calls
<1>5. Range(ids) \cap (Held(s.http, "api") \cup IdsOf(s.taken)) = {}
  BY <1>1, <1>2, <1>3, <1>4 DEF Ids
<1> HIDE DEF ids
<1> DEFINE h == Submitted(s.http, "api", ids)
<1>6. /\ h \in Transports /\ Carries(h, "api")
      /\ Held(h, "api") = Held(s.http, "api") \cup Range(ids)
      /\ h.outstanding["api"] = s.http.outstanding["api"] + Len(ids)
  BY <1>1, <1>3, <1>5, SubmittedCarries
<1>7. /\ rest \in Seq(Ops) /\ IsInjective(rest)
      /\ Range(new) = {new[i] : i \in 1..sent} \cup Range(rest)
      /\ {new[i] : i \in 1..sent} \cap Range(rest) = {}
  BY <1>2, CutRange
<1>8. /\ sentCalls \subseteq Calls
      /\ {c.id : c \in sentCalls} = Range(ids) /\ {c.op : c \in sentCalls} = {new[i] : i \in 1..sent}
      /\ \A c, d \in sentCalls : (c.id = d.id \/ c.op = d.op) => c = d
  <2>1. \A i \in 1..sent : i \in 1..Len(new) /\ new[i] \in Ops /\ s.lastCall + i \in Ids
    BY <1>1, <1>2 DEF Ids, NoRequest
  <2>2. sentCalls \subseteq Calls
    BY <2>1 DEF Calls
  <2>3. \A c \in sentCalls : \E i \in 1..sent : c.id = s.lastCall + i /\ c.op = new[i]
    OBVIOUS
  <2>4. \A i \in 1..sent : \E c \in sentCalls : c.id = s.lastCall + i /\ c.op = new[i]
    <3> TAKE i \in 1..sent
    <3> DEFINE c == [id |-> s.lastCall + i, op |-> new[i]]
    <3>1. c \in sentCalls /\ c.id = s.lastCall + i /\ c.op = new[i]
      OBVIOUS
    <3> HIDE DEF c, sentCalls
    <3> QED BY <3>1
  <2>5. ASSUME NEW i \in 1..sent, NEW j \in 1..sent,
               s.lastCall + i = s.lastCall + j \/ new[i] = new[j]
        PROVE  i = j
    <3>1. CASE s.lastCall + i = s.lastCall + j
      BY <1>1, <1>2, <3>1
    <3>2. CASE new[i] = new[j]
      BY <1>1, <2>1, <3>2 DEF IsInjective
    <3> QED BY <2>5, <3>1, <3>2
  <2>6. \A c, d \in sentCalls : (c.id = d.id \/ c.op = d.op) => c = d
    BY <2>5
  <2> HIDE DEF sentCalls
  <2>7. {c.id : c \in sentCalls} = {s.lastCall + i : i \in 1..sent}
    BY <2>3, <2>4
  <2>8. {c.op : c \in sentCalls} = {new[i] : i \in 1..sent}
    BY <2>3, <2>4
  <2> QED BY <1>3, <2>2, <2>6, <2>7, <2>8
<1> HIDE DEF rest
<1>9. /\ t.calls = s.calls \cup sentCalls /\ t.http = h /\ t.lastCall = s.lastCall + Len(new)
      /\ t.rejected = s.rejected \o rest
      /\ Keeps(t, s, {"calls", "http", "lastCall", "rejected"})
  BY <1>1 DEF Called, room, sent, ids, rest, Keeps, Fields
<1> HIDE DEF sentCalls, h, t
<1>10. /\ s.rejected \in Seq(Ops) /\ s.later \in Seq(Ops) /\ IsInjective(s.rejected)
       /\ Range(s.rejected) \cap Range(rest) = {}
  BY <1>7 DEF Typed, Linked
<1>11. /\ t.rejected \in Seq(Ops) /\ Range(t.rejected) = Range(s.rejected) \cup Range(rest)
       /\ IsInjective(t.rejected)
  BY <1>7, <1>9, <1>10, AppendedRange
<1>12. t.ops = s.ops /\ t.later = s.later /\ t.taken = s.taken
  BY <1>9 DEF Keeps, Fields
<1>13. Typed(t)
  <2>1. /\ DOMAIN t = Fields /\ t.client = s.client
        /\ t.loginGen = s.loginGen /\ t.gameGen = s.gameGen /\ t.profileGen = s.profileGen
        /\ t.connGen = s.connGen /\ t.profiles = s.profiles /\ t.titles = s.titles
        /\ t.epoch = s.epoch /\ t.merged = s.merged /\ t.conn = s.conn
    BY <1>9 DEF Keeps, Fields
  <2>2. s.calls \in SUBSET Calls /\ s.lastCall \in Nat
    BY DEF Typed
  <2>3. t.calls \in SUBSET Calls
    BY <1>8, <1>9, <2>2
  <2>4. t.lastCall \in Nat
    BY <1>1, <1>9, <2>2
  <2> QED BY <1>6, <1>9, <1>11, <1>12, <2>1, <2>3, <2>4 DEF Typed
<1>14. Waiting(t) = Waiting(s) \cup {new[i] : i \in 1..sent}
  BY <1>8, <1>9 DEF Waiting
<1>15. Linked(t, {})
  <2>1. \A c \in s.calls, d \in sentCalls : c.id # d.id /\ c.op # d.op
    <3> SUFFICES ASSUME NEW c \in s.calls, NEW d \in sentCalls PROVE c.id # d.id /\ c.op # d.op
      OBVIOUS
    <3>1. c.id \in Held(s.http, "api") \cup IdsOf(s.taken) /\ d.id \in Range(ids)
      BY <1>8 DEF Answerable
    <3>2. c.op \in Waiting(s) /\ d.op \in Range(new)
      BY <1>7, <1>8 DEF Waiting
    <3> QED BY <1>5, <3>1, <3>2 DEF Linked
  <2>2. \A c, d \in t.calls : (c.id = d.id \/ c.op = d.op) => c = d
    BY <1>8, <1>9, <2>1 DEF Linked
  <2>3. t.ops = Waiting(t) \cup Range(t.rejected) \cup Range(t.later) \cup {}
    BY <1>7, <1>11, <1>12, <1>14 DEF Linked
  <2>4. /\ Waiting(t) \cap Range(t.rejected) = {} /\ Waiting(t) \cap Range(t.later) = {}
        /\ Range(t.rejected) \cap Range(t.later) = {}
    BY <1>7, <1>11, <1>12, <1>14 DEF Linked
  <2>5. IsInjective(t.later)
    BY <1>12 DEF Linked
  <2> QED BY <1>11, <2>2, <2>3, <2>4, <2>5 DEF Linked
<1>16. Answerable(t)
  <2>1. {c.id : c \in t.calls} = {c.id : c \in s.calls} \cup {c.id : c \in sentCalls}
    BY <1>9
  <2>2. {c.id : c \in t.calls} = Held(t.http, "api") \cup IdsOf(t.taken)
    BY <1>6, <1>8, <1>9, <1>12, <2>1 DEF Answerable
  <2>3. Held(t.http, "api") \cap IdsOf(t.taken) = {} /\ DistinctIds(t.taken)
    BY <1>5, <1>6, <1>9, <1>12 DEF Answerable
  <2>4. t.http.outstanding["api"] <= Outstanding
    BY <1>2a, <1>3, <1>6, <1>9
  <2>5. \A c \in t.calls : c.id <= t.lastCall
    <3> SUFFICES ASSUME NEW c \in t.calls PROVE c.id <= t.lastCall
      OBVIOUS
    <3>1. CASE c \in s.calls
      <4>1. c.id <= s.lastCall /\ c.id \in Nat
        BY <3>1 DEF Answerable, Typed, Calls, Ids
      <4> QED BY <1>1, <1>9, <4>1
    <3>2. CASE c \in sentCalls
      <4>1. c.id \in Range(ids)
        BY <1>8, <3>2
      <4> QED BY <1>1, <1>2, <1>3, <1>9, <4>1
    <3> QED BY <1>9, <3>1, <3>2
  <2> QED BY <1>6, <1>9, <2>2, <2>3, <2>4, <2>5 DEF Answerable
<1> QED
  BY <1>9, <1>13, <1>15, <1>16 DEF t

(* What an operation of the session makes of it: it stays in order, its    *)
(* commands, the answers taken and the coordinator are left alone, and     *)
(* unlocks are among the operations known.                                 *)
After(t, s, known) ==
    /\ Live(t, t.ops) /\ t.commands = s.commands /\ t.taken = s.taken
    /\ t.coordinator = s.coordinator
    /\ \A op \in t.ops : op.kind = "award" => op \in known

(* An operation that is completed and is no request for the current        *)
(* profile no longer matters.                                              *)
LEMMA CompletedLeaves ==
    ASSUME NEW s, NEW op, Live(s, s.ops \cup {op}),
           ~(op.kind = "profile" /\ op.gen = s.profileGen)
    PROVE  Live(s, s.ops)
<1>1. AskedProfiles(s, s.ops \cup {op}) = AskedProfiles(s, s.ops)
  BY DEF AskedProfiles
<1>2. Counted(s, s.ops)
  BY <1>1 DEF Live, Counted
<1> QED
  BY <1>2 DEF Live

LEMMA BegunLive ==
    ASSUME NEW s, NEW new \in Seq(Ops), IsInjective(new), Range(new) \cap s.ops = {},
           Live(s, s.ops \cup Range(new)), Outstanding \in Nat
    PROVE  LET t == Begun(s, new)
           IN  /\ Live(t, t.ops) /\ t.ops = s.ops \cup Range(new)
               /\ Keeps(t, s, {"ops", "calls", "http", "lastCall", "rejected"})
<1> DEFINE u == [s EXCEPT !.ops = s.ops \cup Range(new)]
           t == Begun(s, new)
<1>1. Typed(s) /\ Linked(s, {}) /\ Answerable(s) /\ DOMAIN s = Fields /\ s.down = FALSE
  BY DEF Live, Typed
<1>2. Keeps(u, s, {"ops"}) /\ u.ops = s.ops \cup Range(new)
  BY <1>1 DEF Keeps, Fields
<1>3. Range(new) \subseteq Ops
  BY DEF Range
<1>4. t = Called(u, new)
  BY DEF Begun
<1> HIDE DEF u
<1>5. /\ u.calls = s.calls /\ u.rejected = s.rejected /\ u.later = s.later
      /\ Typed(u)
  <2>1. /\ u.calls = s.calls /\ u.rejected = s.rejected /\ u.later = s.later /\ DOMAIN u = Fields
        /\ u.client = s.client
        /\ u.loginGen = s.loginGen /\ u.gameGen = s.gameGen /\ u.profileGen = s.profileGen
        /\ u.connGen = s.connGen /\ u.profiles = s.profiles /\ u.titles = s.titles
        /\ u.epoch = s.epoch /\ u.merged = s.merged /\ u.lastCall = s.lastCall
        /\ u.http = s.http /\ u.taken = s.taken /\ u.conn = s.conn
    BY <1>2 DEF Keeps, Fields
  <2>2. u.ops \in SUBSET Ops
    BY <1>1, <1>2, <1>3 DEF Typed
  <2> QED BY <1>1, <2>1, <2>2 DEF Typed
<1>6. Linked(u, Range(new))
  <2>1. Waiting(u) = Waiting(s)
    BY <1>5 DEF Waiting
  <2>2. Range(new) \cap (Waiting(s) \cup Range(s.rejected) \cup Range(s.later)) = {}
    BY <1>1 DEF Linked
  <2> QED BY <1>1, <1>2, <1>5, <2>1, <2>2 DEF Linked
<1>7. {"ops"} \cap {"http", "taken", "calls", "lastCall"} = {}
  OBVIOUS
<1>8. Answerable(u)
  BY <1>1, <1>2, <1>7, KeepsParts
<1>9. /\ Keeps(t, u, {"calls", "http", "lastCall", "rejected"})
      /\ Typed(t) /\ Answerable(t) /\ Linked(t, {})
  BY <1>4, <1>5, <1>6, <1>8, CalledLinks
<1> HIDE DEF t
<1>10. t.ops = s.ops \cup Range(new) /\ t.down = FALSE
       /\ Keeps(t, s, {"ops", "calls", "http", "lastCall", "rejected"})
  BY <1>1, <1>2, <1>9 DEF Keeps, Fields
<1> DEFINE changed == {"ops", "calls", "http", "lastCall", "rejected"}
<1>11. /\ changed \cap {"loginGen", "profileGen", "gameGen", "client", "conn", "profiles"} = {}
       /\ changed \cap {"profiles", "profileGen"} = {}
       /\ changed \cap {"shown", "conn", "user", "game", "library", "connGen", "client",
                        "merged"} = {}
       /\ changed \cap {"coordinator", "conn", "connGen", "askedIn", "epoch"} = {}
  OBVIOUS
<1> HIDE DEF changed
<1>12. Keeps(t, s, changed)
  BY <1>10 DEF changed
<1>13. \A op \in t.ops : Numbered(t, op)
  <2>1. \A op \in t.ops : Numbered(s, op)
    BY <1>10 DEF Live
  <2> QED BY <1>11, <1>12, <2>1, KeepsParts
<1>14. Counted(t, t.ops)
  <2>1. Counted(s, t.ops)
    BY <1>10 DEF Live
  <2> QED BY <1>11, <1>12, <2>1, KeepsParts
<1>15. OneUser(t) /\ Coordinated(t)
  <2>1. OneUser(s) /\ Coordinated(s)
    BY DEF Live
  <2> QED BY <1>11, <1>12, <2>1, KeepsParts
<1> QED
  BY <1>9, <1>10, <1>13, <1>14, <1>15 DEF Live, t

(* The connection fails or answers again.                                  *)
LEMMA MarkOfflineLive ==
    ASSUME NEW s, NEW ops, Live(s, ops)
    PROVE  LET t == MarkOffline(s)
           IN  Live(t, ops) /\ Keeps(t, s, {"conn", "shown"})
<1> DEFINE t == MarkOffline(s)
<1>1. CASE s.conn # "online"
  BY <1>1 DEF MarkOffline, Keeps, Live, Typed
<1>2. CASE s.conn = "online"
  <2>1. /\ Keeps(t, s, {"conn", "shown"}) /\ t.conn = "offline"
        /\ t.shown = [conn |-> "offline", user |-> s.user, game |-> s.game, library |-> s.library,
                      connGen |-> s.connGen]
    BY <1>2 DEF MarkOffline, Published, Keeps, Fields, Live, Typed
  <2> HIDE DEF t
  <2>2. Typed(t) /\ t.down = FALSE
    BY <2>1 DEF Keeps, Fields, Live, Typed
  <2>3. Linked(t, {}) /\ Answerable(t) /\ Counted(t, ops)
    BY <2>1, KeepsParts DEF Live
  <2>4. \A op \in ops : Numbered(t, op)
    BY <1>2, <2>1 DEF Live, Numbered, Current, Keeps, Fields, Connected
  <2>5. OneUser(t)
    BY <1>2, <2>1 DEF Live, OneUser, Keeps, Fields, Connected
  <2>6. Coordinated(t)
    BY <1>2, <2>1 DEF Live, Coordinated, Keeps, Fields, Connected
  <2> QED BY <2>1, <2>2, <2>3, <2>4, <2>5, <2>6 DEF Live, t
<1> QED
  BY <1>1, <1>2

LEMMA MarkOnlineLive ==
    ASSUME NEW s, NEW ops, Live(s, ops)
    PROVE  LET t == MarkOnline(s)
           IN  Live(t, ops) /\ Keeps(t, s, {"conn", "connGen", "epoch", "shown"})
<1> DEFINE t == MarkOnline(s)
<1>1. CASE s.conn # "offline"
  BY <1>1 DEF MarkOnline, Keeps, Live, Typed
<1>2. CASE s.conn = "offline"
  <2>1. /\ Keeps(t, s, {"conn", "connGen", "epoch", "shown"}) /\ t.conn = "online"
        /\ t.connGen = s.connGen + 1 /\ t.epoch = s.epoch + 1
        /\ t.shown = [conn |-> "online", user |-> s.user, game |-> s.game, library |-> s.library,
                      connGen |-> s.connGen + 1]
    BY <1>2 DEF MarkOnline, Published, Keeps, Fields, Live, Typed
  <2> HIDE DEF t
  <2>2. Typed(t) /\ t.down = FALSE
    BY <2>1 DEF Keeps, Fields, Live, Typed
  <2>3. Linked(t, {}) /\ Answerable(t) /\ Counted(t, ops)
    BY <2>1, KeepsParts DEF Live
  <2>4. \A op \in ops : Numbered(t, op)
    BY <1>2, <2>1 DEF Live, Numbered, Current, Keeps, Fields, Connected
  <2>5. OneUser(t)
    BY <1>2, <2>1 DEF Live, OneUser, Keeps, Fields, Connected
  <2>6. Coordinated(t)
    <3>1. t.coordinator = s.coordinator /\ s.connGen \in Nat
      BY <2>1 DEF Keeps, Fields, Live, Typed
    <3>2. s.coordinator.requested => s.coordinator.gen <= s.connGen
      BY <1>2 DEF Live, Coordinated, Connected
    <3>3. /\ s.coordinator.requested \in BOOLEAN /\ s.coordinator.gen \in Int
          /\ s.coordinator.requested => 0 <= s.coordinator.gen
      BY DEF Live, Coordinated
    <3> QED BY <2>1, <3>1, <3>2, <3>3 DEF Coordinated
  <2> QED BY <2>1, <2>2, <2>3, <2>4, <2>5, <2>6 DEF Live, t
<1> QED
  BY <1>1, <1>2

LEMMA OneOperation ==
    ASSUME NEW op \in Ops
    PROVE  <<op>> \in Seq(Ops) /\ Range(<<op>>) = {op} /\ IsInjective(<<op>>)
BY DEF Range, IsInjective

LEMMA OpFields ==
    ASSUME NEW kind \in {"login", "profile", "titles", "identify", "open", "award"},
           NEW gen \in Nat, NEW part \in Nat, NEW user \in Names
    PROVE  LET op == Op(kind, gen, part, user)
           IN  /\ op \in Ops /\ op.kind = kind /\ op.gen = gen /\ op.part = part
               /\ op.user = user
BY DEF Op, Ops

LEMMA BegunOne ==
    ASSUME NEW s, NEW op \in Ops, op \notin s.ops, Live(s, s.ops \cup {op}), Outstanding \in Nat
    PROVE  LET t == Begun(s, <<op>>)
           IN  /\ Live(t, t.ops) /\ t.ops = s.ops \cup {op}
               /\ Keeps(t, s, {"ops", "calls", "http", "lastCall", "rejected"})
<1> DEFINE new == <<op>>
<1>1. new \in Seq(Ops) /\ Range(new) = {op} /\ IsInjective(new)
  BY OneOperation
<1> HIDE DEF new
<1>2. LET t == Begun(s, new)
      IN  /\ Live(t, t.ops) /\ t.ops = s.ops \cup Range(new)
          /\ Keeps(t, s, {"ops", "calls", "http", "lastCall", "rejected"})
  BY <1>1, BegunLive
<1> QED
  BY <1>1, <1>2 DEF new

(* beginLogin: the new generation is nobody else's.                        *)
LEMMA BeginLoginLive ==
    ASSUME NEW s, Live(s, s.ops), s.conn \notin Connected, ~s.coordinator.requested,
           NEW user \in Names, Outstanding \in Nat
    PROVE  LET t == BeginLogin(s, user)
           IN  After(t, s, s.ops) /\ t.conn = "loggingIn"
<1> DEFINE x == Published([s EXCEPT !.loginGen = @ + 1, !.conn = "loggingIn"])
           op == Op("login", s.loginGen + 1, 0, user)
           t == BeginLogin(s, user)
<1>1. /\ Keeps(x, s, {"loginGen", "conn", "shown"}) /\ x.conn = "loggingIn"
      /\ x.loginGen = s.loginGen + 1 /\ s.loginGen \in Nat
      /\ x.shown = [conn |-> "loggingIn", user |-> s.user, game |-> s.game,
                    library |-> s.library, connGen |-> s.connGen]
  BY DEF Published, Keeps, Fields, Live, Typed
<1>2. /\ op \in Ops /\ op.kind = "login" /\ op.gen = s.loginGen + 1
  <2>1. s.loginGen + 1 \in Nat /\ 0 \in Nat
    BY <1>1
  <2> QED BY <2>1, OpFields
<1>3. t = Begun(x, <<op>>)
  BY DEF BeginLogin
<1> HIDE DEF x, op, t
<1>4. x.ops = s.ops
  BY <1>1 DEF Keeps, Fields
<1>5. op \notin s.ops
  BY <1>1, <1>2 DEF Live, Numbered
<1>6. Live(x, x.ops \cup {op})
  <2>1. Typed(x) /\ x.down = FALSE
    BY <1>1 DEF Keeps, Fields, Live, Typed
  <2>2. Linked(x, {}) /\ Answerable(x) /\ Counted(x, s.ops)
    BY <1>1, KeepsParts DEF Live
  <2>3. Counted(x, s.ops \cup {op})
    <3>1. AskedProfiles(x, s.ops \cup {op}) = AskedProfiles(x, s.ops)
      BY <1>2 DEF AskedProfiles
    <3> QED BY <1>2, <2>2, <3>1 DEF Counted
  <2>4. \A o \in s.ops : Numbered(x, o)
    <3>1. /\ x.profileGen = s.profileGen /\ x.gameGen = s.gameGen /\ x.client = s.client
          /\ x.profiles = s.profiles
      BY <1>1 DEF Keeps, Fields
    <3> SUFFICES ASSUME NEW o \in s.ops PROVE Numbered(x, o)
      OBVIOUS
    <3>2. Numbered(s, o) /\ o.gen \in Nat
      BY DEF Live, Typed, Ops
    <3> QED BY <1>1, <3>1, <3>2 DEF Numbered, Current, Connected
  <2>5. Numbered(x, op)
    BY <1>1, <1>2 DEF Numbered
  <2>6. OneUser(x)
    BY <1>1 DEF Live, OneUser, Keeps, Fields, Connected
  <2>7. Coordinated(x)
    BY <1>1 DEF Live, Coordinated, Keeps, Fields, Connected
  <2> QED BY <1>4, <2>1, <2>2, <2>3, <2>4, <2>5, <2>6, <2>7 DEF Live
<1>7. /\ Live(t, t.ops) /\ t.ops = s.ops \cup {op}
      /\ Keeps(t, x, {"ops", "calls", "http", "lastCall", "rejected"})
  BY <1>2, <1>3, <1>4, <1>5, <1>6, BegunOne
<1>8. After(t, s, s.ops) /\ t.conn = "loggingIn"
  BY <1>1, <1>2, <1>7 DEF After, Keeps, Fields
<1> QED
  BY <1>8 DEF t

(* logout: no operation belongs to the new generations.                    *)
LEMMA LogoutLive ==
    ASSUME NEW s, Live(s, s.ops)
    PROVE  LET t == Logout(s)
           IN  After(t, s, s.ops) /\ t.conn = "loggedOut"
<1> DEFINE t == Logout(s)
<1>1. /\ Keeps(t, s, {"loginGen", "gameGen", "profileGen", "connGen", "client", "ops", "later",
                      "conn", "user", "game", "library", "merged", "profiles", "titles", "shown"})
      /\ t.loginGen = s.loginGen + 1 /\ t.gameGen = s.gameGen + 1
      /\ t.profileGen = s.profileGen + 1 /\ t.connGen = 0
      /\ t.client = [user |-> NoUser, game |-> NoUser] /\ t.ops = s.ops \ Range(s.later)
      /\ t.later = <<>> /\ t.conn = "loggedOut" /\ t.user = NoUser /\ t.game = NoUser
      /\ t.library = {} /\ t.merged = {} /\ t.profiles = 0 /\ t.titles = 0
      /\ t.shown = [conn |-> "loggedOut", user |-> NoUser, game |-> NoUser, library |-> {},
                    connGen |-> 0]
  BY DEF Logout, Published, Keeps, Fields, Live, Typed
<1> HIDE DEF t
<1>2. /\ s.loginGen \in Nat /\ s.gameGen \in Nat /\ s.profileGen \in Nat
      /\ \A op \in s.ops : op.gen \in Nat /\ Numbered(s, op)
  BY DEF Live, Typed, Ops
<1>3. Typed(t) /\ t.down = FALSE
  <2>1. <<>> \in Seq(Ops) /\ IsFiniteSet({}) /\ NoUser \in Names
    BY FS_EmptySet DEF Names
  <2>2. t.ops \in SUBSET Ops
    BY <1>1 DEF Live, Typed
  <2>3. /\ t.lastCall = s.lastCall /\ t.epoch = s.epoch /\ t.rejected = s.rejected
        /\ t.calls = s.calls /\ t.taken = s.taken /\ t.http = s.http /\ t.down = s.down
        /\ DOMAIN t = Fields
    BY <1>1 DEF Keeps, Fields
  <2>4. DOMAIN t.client = {"user", "game"} /\ t.client.user = NoUser
    BY <1>1
  <2>5. /\ t.loginGen \in Nat /\ t.gameGen \in Nat /\ t.profileGen \in Nat /\ t.connGen \in Nat
        /\ t.profiles \in Nat /\ t.titles \in Nat
    BY <1>1, <1>2
  <2>6. Typed(s) /\ s.down = FALSE
    BY DEF Live
  <2>7. /\ t.lastCall \in Nat /\ t.epoch \in Nat /\ t.rejected \in Seq(Ops)
        /\ t.calls \in SUBSET Calls /\ t.taken \in Seq(Answers) /\ t.http \in Transports
    BY <2>3, <2>6 DEF Typed
  <2>8. /\ t.later \in Seq(Ops) /\ IsFiniteSet(t.merged)
        /\ t.conn \in {"loggedOut", "loggingIn", "online", "offline", "error"}
    BY <1>1, <2>1
  <2> QED BY <2>1, <2>2, <2>3, <2>4, <2>5, <2>6, <2>7, <2>8 DEF Typed
<1>4. Linked(t, {})
  <2>1. t.rejected = s.rejected /\ Waiting(t) = Waiting(s)
    BY <1>1 DEF Keeps, Fields, Waiting
  <2>2. Range(t.later) = {} /\ IsInjective(t.later)
    BY <1>1 DEF Range, IsInjective
  <2>3. t.calls = s.calls
    BY <1>1 DEF Keeps, Fields
  <2> QED BY <1>1, <2>1, <2>2, <2>3 DEF Live, Linked
<1>5. Answerable(t)
  BY <1>1, KeepsParts DEF Live
<1>6. \A op \in t.ops : Numbered(t, op)
  <2> SUFFICES ASSUME NEW op \in t.ops PROVE Numbered(t, op)
    OBVIOUS
  <2>1. op.gen \in Nat /\ Numbered(s, op)
    BY <1>1, <1>2
  <2> QED BY <1>1, <1>2, <2>1 DEF Numbered
<1>7. Counted(t, t.ops)
  <2>1. AskedProfiles(t, t.ops) = {}
    BY <1>1, <1>2 DEF AskedProfiles, Numbered
  <2>2. IsFiniteSet({}) /\ Cardinality({}) = 0
    BY FS_EmptySet
  <2> QED BY <1>1, <2>1, <2>2 DEF Counted, Live
<1>8. OneUser(t) /\ Coordinated(t)
  <2>1. t.coordinator = s.coordinator
    BY <1>1 DEF Keeps, Fields
  <2>2. OneUser(t)
    BY <1>1 DEF OneUser
  <2>3. Coordinated(t)
    BY <1>1, <2>1 DEF Live, Coordinated, Connected
  <2> QED BY <2>2, <2>3
<1>9. After(t, s, s.ops)
  BY <1>1, <1>3, <1>4, <1>5, <1>6, <1>7, <1>8 DEF After, Live, Keeps, Fields
<1> QED
  BY <1>1, <1>9 DEF t

(* beginLoadGame.                                                          *)
LEMMA BeginLoadGameLive ==
    ASSUME NEW s, Live(s, s.ops), s.conn = "online", Outstanding \in Nat
    PROVE  LET t == BeginLoadGame(s)
           IN  After(t, s, s.ops) /\ t.conn = "online"
<1> DEFINE x == [s EXCEPT !.gameGen = @ + 1]
           op == Op("identify", s.gameGen + 1, 0, s.client.user)
           t == BeginLoadGame(s)
<1>1. Keeps(x, s, {"gameGen"}) /\ x.gameGen = s.gameGen + 1 /\ s.gameGen \in Nat
      /\ s.client.user \in Names
  BY DEF Keeps, Fields, Live, Typed
<1>2. op \in Ops /\ op.kind = "identify" /\ op.gen = s.gameGen + 1 /\ op.user = s.client.user
  <2>1. s.gameGen + 1 \in Nat /\ 0 \in Nat
    BY <1>1
  <2> DEFINE user == s.client.user
             gen  == s.gameGen + 1
  <2>2. user \in Names /\ gen \in Nat
    BY <1>1
  <2> HIDE DEF user, gen
  <2>3. LET o == Op("identify", gen, 0, user)
        IN  o \in Ops /\ o.kind = "identify" /\ o.gen = gen /\ o.user = user
    BY <2>2, OpFields
  <2> QED BY <2>3 DEF user, gen
<1>3. t = Begun(x, <<op>>)
  BY DEF BeginLoadGame
<1> HIDE DEF x, op, t
<1>4. x.ops = s.ops /\ x.conn = s.conn /\ x.client = s.client
  BY <1>1 DEF Keeps, Fields
<1>5. /\ op \notin s.ops
      /\ \A o \in s.ops : o.gen \in Nat /\ (o.kind \in {"identify", "open"} => o.gen <= s.gameGen)
  <2>1. \A o \in s.ops : o \in Ops /\ Numbered(s, o)
    BY DEF Live, Typed
  <2>2. \A o \in s.ops : o.gen \in Nat /\ (o.kind \in {"identify", "open"} => o.gen <= s.gameGen)
    BY <2>1 DEF Ops, Numbered
  <2> QED BY <1>1, <1>2, <2>2
<1>6. Live(x, x.ops \cup {op})
  <2>1. Typed(x) /\ x.down = FALSE
    BY <1>1 DEF Keeps, Fields, Live, Typed
  <2>2. Linked(x, {}) /\ Answerable(x) /\ Counted(x, s.ops) /\ OneUser(x) /\ Coordinated(x)
    BY <1>1, KeepsParts DEF Live
  <2>3. Counted(x, s.ops \cup {op})
    <3>1. AskedProfiles(x, s.ops \cup {op}) = AskedProfiles(x, s.ops)
      BY <1>2 DEF AskedProfiles
    <3>2. \A o \in s.ops : o.kind \in {"identify", "open"} => o.gen # op.gen
      BY <1>1, <1>2, <1>5
    <3> QED BY <1>2, <2>2, <3>1, <3>2 DEF Counted
  <2>4. \A o \in s.ops : Numbered(x, o)
    <3>1. /\ x.profileGen = s.profileGen /\ x.loginGen = s.loginGen /\ x.client = s.client
          /\ x.profiles = s.profiles /\ x.conn = s.conn
      BY <1>1 DEF Keeps, Fields
    <3> SUFFICES ASSUME NEW o \in s.ops PROVE Numbered(x, o)
      OBVIOUS
    <3>2. Numbered(s, o) /\ o.gen \in Nat
      BY <1>5 DEF Live
    <3> QED BY <1>1, <3>1, <3>2 DEF Numbered, Current
  <2>5. Numbered(x, op)
    BY <1>1, <1>2, <1>4 DEF Numbered, Current, Connected
  <2> QED BY <1>4, <2>1, <2>2, <2>3, <2>4, <2>5 DEF Live
<1>7. /\ Live(t, t.ops) /\ t.ops = s.ops \cup {op}
      /\ Keeps(t, x, {"ops", "calls", "http", "lastCall", "rejected"})
  BY <1>2, <1>3, <1>4, <1>5, <1>6, BegunOne
<1>8. After(t, s, s.ops) /\ t.conn = "online"
  BY <1>1, <1>2, <1>7 DEF After, Keeps, Fields
<1> QED
  BY <1>8 DEF t

(* beginFullProfile, at the end of a login: the consoles' requests are the *)
(* only ones of the new profile.                                           *)
LEMMA LoginCompletedLive ==
    ASSUME NEW s, NEW op \in Ops, op \notin s.ops, Live(s, s.ops \cup {op}), op.kind = "login",
           NEW ok \in BOOLEAN, SessionAssumption
    PROVE  After(LoginCompleted(s, op, ok), s, s.ops)
<1>0. Live(s, s.ops)
  BY CompletedLeaves
<1>1. CASE op.gen # s.loginGen \/ s.conn # "loggingIn"
  <2>1. LoginCompleted(s, op, ok) = s
    BY <1>1 DEF LoginCompleted
  <2> QED BY <1>0, <2>1 DEF After
<1>2. CASE op.gen = s.loginGen /\ s.conn = "loggingIn" /\ ok = FALSE
  <2> DEFINE t == Published([s EXCEPT !.conn = "error"])
  <2>1. LoginCompleted(s, op, ok) = t
    BY <1>0, <1>2 DEF LoginCompleted, Live
  <2>2. /\ Keeps(t, s, {"conn", "shown"}) /\ t.conn = "error"
        /\ t.shown = [conn |-> "error", user |-> s.user, game |-> s.game, library |-> s.library,
                      connGen |-> s.connGen]
    BY <1>0 DEF Published, Keeps, Fields, Live, Typed
  <2> HIDE DEF t
  <2>3. Typed(t) /\ t.down = FALSE
    BY <1>0, <2>2 DEF Keeps, Fields, Live, Typed
  <2>4. t.ops = s.ops /\ t.commands = s.commands /\ t.taken = s.taken /\ t.coordinator = s.coordinator
    BY <2>2 DEF Keeps, Fields
  <2>5. Linked(t, {}) /\ Answerable(t) /\ Counted(t, s.ops)
    BY <1>0, <2>2, KeepsParts DEF Live
  <2>6. \A o \in s.ops : Numbered(t, o)
    BY <1>0, <1>2, <2>2 DEF Live, Numbered, Current, Keeps, Fields, Connected
  <2>7. OneUser(t)
    BY <1>0, <1>2, <2>2 DEF Live, OneUser, Keeps, Fields, Connected
  <2>8. Coordinated(t)
    BY <1>0, <1>2, <2>2, <2>4 DEF Live, Coordinated, Connected
  <2> QED BY <2>1, <2>3, <2>4, <2>5, <2>6, <2>7, <2>8 DEF Live, After
<1>3. CASE op.gen = s.loginGen /\ s.conn = "loggingIn" /\ ok = TRUE
  <2> DEFINE x == Published([s EXCEPT !.client.user = op.user, !.user = op.user, !.conn = "online",
                                      !.epoch = @ + 1])
             y == [x EXCEPT !.profileGen = @ + 1, !.merged = {}, !.library = {},
                            !.profiles = Len(Consoles), !.titles = 0]
             new == [i \in DOMAIN Consoles |->
                         Op("profile", x.profileGen + 1, Consoles[i], x.client.user)]
             t == LoginCompleted(s, op, ok)
  <2>1. t = Begun(y, new)
    BY <1>0, <1>3 DEF LoginCompleted, BeginFullProfile, Live
  <2>2. /\ Keeps(x, s, {"client", "user", "conn", "epoch", "shown"})
        /\ x.client = [s.client EXCEPT !.user = op.user] /\ x.user = op.user
        /\ x.conn = "online" /\ x.epoch = s.epoch + 1
        /\ x.shown = [conn |-> "online", user |-> op.user, game |-> s.game,
                      library |-> s.library, connGen |-> s.connGen]
    BY <1>0 DEF Published, Keeps, Fields, Live, Typed
  <2>3. /\ Keeps(y, x, {"profileGen", "merged", "library", "profiles", "titles"})
        /\ y.profileGen = x.profileGen + 1 /\ y.merged = {} /\ y.library = {}
        /\ y.profiles = Len(Consoles) /\ y.titles = 0
    BY <2>2 DEF Keeps, Fields
  <2> HIDE DEF x, y, t
  <2>4. /\ s.profileGen \in Nat /\ s.epoch \in Nat /\ DOMAIN s.client = {"user", "game"}
        /\ op.user \in Names /\ Len(Consoles) \in Nat
    BY <1>0 DEF Live, Typed, Ops, SessionAssumption
  <2>5. /\ Keeps(y, s, {"client", "user", "conn", "epoch", "shown", "profileGen", "merged",
                        "library", "profiles", "titles"})
        /\ y.client.user = op.user /\ y.client.game = s.client.game /\ y.user = op.user
        /\ DOMAIN y.client = {"user", "game"}
        /\ y.conn = "online" /\ y.epoch = s.epoch + 1
        /\ y.profileGen = s.profileGen + 1 /\ y.shown = x.shown
    <3>1. y.client = x.client /\ y.user = x.user /\ y.conn = x.conn /\ y.epoch = x.epoch
          /\ y.shown = x.shown /\ x.profileGen = s.profileGen
      BY <2>2, <2>3 DEF Keeps, Fields
    <3>2. /\ x.client.user = op.user /\ x.client.game = s.client.game
          /\ DOMAIN x.client = {"user", "game"}
      BY <2>2, <2>4
    <3>3. Keeps(y, s, {"client", "user", "conn", "epoch", "shown", "profileGen", "merged",
                       "library", "profiles", "titles"})
      BY <2>2, <2>3 DEF Keeps
    <3> QED BY <2>2, <2>3, <3>1, <3>2, <3>3
  <2>6. \A i \in DOMAIN Consoles :
            /\ new[i] \in Ops /\ new[i].kind = "profile" /\ new[i].gen = y.profileGen
            /\ new[i].part = Consoles[i] /\ new[i].user = op.user
    <3> SUFFICES ASSUME NEW i \in DOMAIN Consoles
                 PROVE  /\ new[i] \in Ops /\ new[i].kind = "profile" /\ new[i].gen = y.profileGen
                        /\ new[i].part = Consoles[i] /\ new[i].user = op.user
      OBVIOUS
    <3> DEFINE gen == y.profileGen
               part == Consoles[i]
               user == op.user
    <3>1. gen \in Nat /\ user \in Names
      BY <2>4, <2>5
    <3>2. part \in Nat
      BY DEF SessionAssumption
    <3>3. x.profileGen + 1 = gen /\ x.client.user = user
      BY <2>2, <2>3, <2>4, <2>5 DEF Keeps, Fields
    <3> HIDE DEF gen, part, user
    <3>4. LET o == Op("profile", gen, part, user)
          IN  o \in Ops /\ o.kind = "profile" /\ o.gen = gen /\ o.part = part /\ o.user = user
      BY <3>1, <3>2, OpFields
    <3>5. new[i] = Op("profile", gen, part, user)
      BY <3>3 DEF part
    <3> QED BY <3>4, <3>5 DEF gen, part, user
  <2>7. /\ new \in Seq(Ops) /\ Len(new) = Len(Consoles) /\ IsInjective(new)
        /\ DOMAIN new = DOMAIN Consoles
    <3> DEFINE n == Len(Consoles)
    <3>1. DOMAIN Consoles = 1..n /\ n \in Nat
      BY DEF SessionAssumption
    <3>2. DOMAIN new = 1..n
      BY <3>1
    <3>3. IsInjective(new)
      BY <2>6, <3>1, <3>2 DEF IsInjective, SessionAssumption
    <3>4. \A i \in 1..n : new[i] \in Ops
      BY <2>6, <3>1
    <3> HIDE DEF n
    <3>5. new = [i \in 1..n |-> new[i]]
      BY <3>1
    <3> HIDE DEF new
    <3>6. [i \in 1..n |-> new[i]] \in Seq(Ops) /\ Len([i \in 1..n |-> new[i]]) = n
      BY <3>1, <3>4
    <3> QED BY <3>1, <3>2, <3>3, <3>5, <3>6 DEF n
  <2>8. \A o \in Range(new) : o \in Ops /\ o.kind = "profile" /\ o.gen = y.profileGen /\ o.user = op.user
    BY <2>6, <2>7 DEF Range
  <2> HIDE DEF new
  <2>9. \A o \in s.ops : o \in Ops /\ o.gen \in Nat /\ Numbered(s, o)
    BY <1>0 DEF Live, Typed, Ops
  <2>10. \A o \in s.ops : o.kind = "profile" => o.gen < y.profileGen
    BY <2>4, <2>5, <2>9 DEF Numbered
  <2>11. y.ops = s.ops /\ Range(new) \cap s.ops = {}
    <3>1. y.ops = s.ops
      BY <2>5 DEF Keeps, Fields
    <3>2. \A o \in s.ops : o.kind = "profile" => o.gen # y.profileGen
      BY <2>4, <2>5, <2>9, <2>10
    <3> QED BY <2>8, <3>1, <3>2
  <2>12. Live(y, y.ops \cup Range(new))
    <3>1. Typed(y) /\ y.down = FALSE
      <4>1. IsFiniteSet({})
        BY FS_EmptySet
      <4>2. y.client.user \in Names /\ y.epoch \in Nat /\ y.profileGen \in Nat
        BY <2>4, <2>5
      <4>3. /\ y.lastCall = s.lastCall /\ y.rejected = s.rejected /\ y.later = s.later
            /\ y.calls = s.calls /\ y.taken = s.taken /\ y.http = s.http /\ y.down = s.down
            /\ y.loginGen = s.loginGen /\ y.gameGen = s.gameGen /\ y.connGen = s.connGen
            /\ DOMAIN y = Fields
        BY <2>5 DEF Keeps, Fields
      <4>4. y.profiles \in Nat /\ y.titles \in Nat /\ IsFiniteSet(y.merged)
        BY <2>3, <2>4, <4>1
      <4>5. Typed(s) /\ s.down = FALSE
        BY <1>0 DEF Live
      <4> QED BY <2>5, <2>11, <4>2, <4>3, <4>4, <4>5 DEF Typed
    <3>2. Linked(y, {}) /\ Answerable(y)
      BY <1>0, <2>5, KeepsParts DEF Live
    <3>3. \A o \in s.ops : Numbered(y, o)
      <4>1. y.loginGen = s.loginGen /\ y.gameGen = s.gameGen
        BY <2>5 DEF Keeps, Fields
      <4> SUFFICES ASSUME NEW o \in s.ops PROVE Numbered(y, o)
        OBVIOUS
      <4>2. o.gen \in Nat /\ Numbered(s, o)
        BY <2>9
      <4> QED BY <1>3, <2>4, <2>5, <4>1, <4>2 DEF Numbered, Current, Connected
    <3>4. \A o \in Range(new) : Numbered(y, o)
      BY <2>4, <2>5, <2>8 DEF Numbered, Current, Connected
    <3>5. Counted(y, s.ops \cup Range(new))
      <4>1. AskedProfiles(y, s.ops \cup Range(new)) = Range(new)
        BY <2>8, <2>10, <2>4, <2>5, <2>9 DEF AskedProfiles
      <4>2. IsFiniteSet(Range(new)) /\ Cardinality(Range(new)) = y.profiles
        BY <2>3, <2>7, RangeCount
      <4>3. \A o \in Range(new) : o.kind \notin {"identify", "open"}
        BY <2>8
      <4>4. Counted(s, s.ops)
        BY <1>0 DEF Live
      <4> QED BY <4>1, <4>2, <4>3, <4>4 DEF Counted
    <3>6. OneUser(y)
      <4>1. s.client.user = NoUser /\ s.library = {} /\ s.game = NoUser /\ s.client.game = NoUser
        BY <1>0, <1>3 DEF Live, OneUser, Connected
      <4>2. y.game = s.game /\ y.connGen = s.connGen
        BY <2>5 DEF Keeps, Fields
      <4> QED BY <2>2, <2>3, <2>5, <4>1, <4>2 DEF OneUser, Connected
    <3>7. Coordinated(y)
      <4>1. y.coordinator = s.coordinator
        BY <2>5 DEF Keeps, Fields
      <4> QED BY <1>0, <1>3, <2>5, <4>1 DEF Live, Coordinated
    <3> QED BY <2>11, <3>1, <3>2, <3>3, <3>4, <3>5, <3>6, <3>7 DEF Live
  <2>13. /\ Live(t, t.ops) /\ t.ops = s.ops \cup Range(new)
         /\ Keeps(t, y, {"ops", "calls", "http", "lastCall", "rejected"})
    BY <2>1, <2>7, <2>11, <2>12, BegunLive DEF SessionAssumption
  <2>14. After(t, s, s.ops)
    BY <2>5, <2>8, <2>13 DEF After, Keeps, Fields
  <2> QED BY <2>14 DEF t
<1> QED
  BY <1>1, <1>2, <1>3

(* gameLoadCompleted: a game of the current generation is the user's.      *)
LEMMA GameLoadCompletedLive ==
    ASSUME NEW s, NEW op \in Ops, Live(s, s.ops \cup {op}),
           op.kind \in {"identify", "open"}, NEW ok \in BOOLEAN
    PROVE  After(GameLoadCompleted(s, op, ok), s, s.ops)
<1>0. Live(s, s.ops) /\ s.down = FALSE
  BY CompletedLeaves DEF Live
<1>1. CASE op.gen # s.gameGen \/ (~ok /\ s.conn = "offline")
  <2>1. s.down \/ op.gen # s.gameGen \/ (~ok /\ s.conn = "offline")
    BY <1>1
  <2>2. GameLoadCompleted(s, op, ok) = s
    BY <2>1 DEF GameLoadCompleted
  <2> QED BY <1>0, <2>2 DEF After
<1>2. ASSUME NEW t, NEW game,
             t = Published([s EXCEPT !.client.game = game, !.game = game])
               \/ t = Published([s EXCEPT !.game = game]),
             game \in {NoUser, s.client.user}
      PROVE  After(t, s, s.ops)
  <2>1. /\ Keeps(t, s, {"client", "game", "shown"}) /\ t.game = game
        /\ t.client.user = s.client.user /\ t.client.game \in {s.client.game, game}
        /\ DOMAIN t.client = {"user", "game"}
        /\ t.shown = [conn |-> s.conn, user |-> s.user, game |-> game, library |-> s.library,
                      connGen |-> s.connGen]
    <3>1. CASE t = Published([s EXCEPT !.client.game = game, !.game = game])
      BY <1>0, <3>1 DEF Published, Keeps, Fields, Live, Typed
    <3>2. CASE t = Published([s EXCEPT !.game = game])
      BY <1>0, <3>2 DEF Published, Keeps, Fields, Live, Typed
    <3> QED BY <1>2, <3>1, <3>2
  <2>2. Typed(t) /\ t.down = FALSE
    BY <1>0, <2>1 DEF Keeps, Fields, Live, Typed
  <2>3. /\ t.ops = s.ops /\ t.commands = s.commands /\ t.taken = s.taken
        /\ t.coordinator = s.coordinator
    BY <2>1 DEF Keeps, Fields
  <2>4. Linked(t, {}) /\ Answerable(t) /\ Counted(t, s.ops) /\ Coordinated(t)
    BY <1>0, <2>1, KeepsParts DEF Live
  <2>5. \A o \in s.ops : Numbered(t, o)
    BY <1>0, <2>1 DEF Live, Numbered, Current, Keeps, Fields
  <2>6. OneUser(t)
    BY <1>0, <1>2, <2>1 DEF Live, OneUser, Keeps, Fields
  <2> QED BY <2>2, <2>3, <2>4, <2>5, <2>6 DEF Live, After
<1>3. CASE op.gen = s.gameGen /\ ok = TRUE
  <2>1. op.user = s.client.user
    BY <1>3 DEF Live, Numbered, Current
  <2>2. GameLoadCompleted(s, op, ok) = Published([s EXCEPT !.client.game = op.user, !.game = op.user])
    BY <1>0, <1>3 DEF GameLoadCompleted
  <2> QED BY <1>2, <2>1, <2>2
<1>4. CASE op.gen = s.gameGen /\ ok = FALSE /\ s.conn # "offline"
  <2>1. GameLoadCompleted(s, op, ok) = Published([s EXCEPT !.game = NoUser])
    BY <1>0, <1>4 DEF GameLoadCompleted
  <2> QED BY <1>2, <2>1
<1> QED
  BY <1>1, <1>3, <1>4

(* A game that was identified is opened in the same generation.            *)
LEMMA OpenLive ==
    ASSUME NEW s, NEW op \in Ops, op \notin s.ops, Live(s, s.ops \cup {op}),
           op.kind = "identify", Outstanding \in Nat
    PROVE  After(Begun(s, <<[op EXCEPT !.kind = "open"]>>), s, s.ops)
<1> DEFINE open == [op EXCEPT !.kind = "open"]
           t == Begun(s, <<open>>)
<1>1. open \in Ops /\ open.kind = "open" /\ open.gen = op.gen /\ open.user = op.user
  BY DEF Ops
<1> HIDE DEF open
<1>2. Counted(s, s.ops \cup {op})
  BY DEF Live
<1>3. open \notin s.ops
  BY <1>1, <1>2 DEF Counted
<1>4. Live(s, s.ops \cup {open})
  <2>1. AskedProfiles(s, s.ops \cup {open}) = AskedProfiles(s, s.ops \cup {op})
    BY <1>1 DEF AskedProfiles
  <2>2. Counted(s, s.ops \cup {open})
    BY <1>1, <1>2, <2>1 DEF Counted
  <2>3. Numbered(s, open)
    BY <1>1 DEF Live, Numbered, Current
  <2> QED BY <2>2, <2>3 DEF Live
<1>5. /\ Live(t, t.ops) /\ t.ops = s.ops \cup {open}
      /\ Keeps(t, s, {"ops", "calls", "http", "lastCall", "rejected"})
  BY <1>1, <1>3, <1>4, BegunOne
<1> HIDE DEF t
<1>6. After(t, s, s.ops)
  BY <1>1, <1>5 DEF After, Keeps, Fields
<1> QED
  BY <1>6 DEF t, open

(* achievementTriggered.                                                   *)
LEMMA AwardedLive ==
    ASSUME NEW s, Live(s, s.ops), \A op \in s.ops : op.kind # "award", Outstanding \in Nat
    PROVE  LET t == Awarded(s)
           IN  /\ Live(t, t.ops) /\ t.commands = s.commands /\ t.taken = s.taken
               /\ t.coordinator = s.coordinator
<1> DEFINE op == Op("award", 0, 0, s.client.user)
           u == Begun(s, <<op>>)
           t == Awarded(s)
<1>1. op \in Ops /\ op.kind = "award"
  <2> DEFINE user == s.client.user
  <2>1. user \in Names /\ 0 \in Nat
    BY DEF Live, Typed
  <2> HIDE DEF user
  <2>2. LET o == Op("award", 0, 0, user) IN o \in Ops /\ o.kind = "award"
    BY <2>1, OpFields
  <2> QED BY <2>2 DEF user
<1>2. t = Published([u EXCEPT !.game = u.client.game, !.user = u.client.user])
  BY DEF Awarded
<1> HIDE DEF op, t
<1>3. Live(s, s.ops \cup {op})
  <2>1. AskedProfiles(s, s.ops \cup {op}) = AskedProfiles(s, s.ops)
    BY <1>1 DEF AskedProfiles
  <2>2. Counted(s, s.ops \cup {op})
    BY <1>1, <2>1 DEF Live, Counted
  <2>3. Numbered(s, op)
    BY <1>1 DEF Numbered
  <2> QED BY <2>2, <2>3 DEF Live
<1>4. /\ Live(u, u.ops) /\ u.ops = s.ops \cup {op}
      /\ Keeps(u, s, {"ops", "calls", "http", "lastCall", "rejected"})
  BY <1>1, <1>3, BegunOne
<1> HIDE DEF u
<1>5. /\ Keeps(t, u, {"game", "user", "shown"}) /\ t.game = u.client.game
      /\ t.user = u.client.user
      /\ t.shown = [conn |-> u.conn, user |-> u.client.user, game |-> u.client.game,
                    library |-> u.library, connGen |-> u.connGen]
  BY <1>2, <1>4 DEF Published, Keeps, Fields
<1>6. Typed(t) /\ t.down = FALSE /\ t.ops = u.ops
  BY <1>4, <1>5 DEF Keeps, Fields, Live, Typed
<1>7. /\ Linked(t, {}) /\ Answerable(t) /\ Counted(t, u.ops) /\ Coordinated(t)
      /\ \A o \in u.ops : Numbered(t, o)
  BY <1>4, <1>5, KeepsParts DEF Live
<1>8. OneUser(t)
  BY <1>4, <1>5 DEF Live, OneUser, Keeps, Fields
<1>9. t.commands = s.commands /\ t.taken = s.taken /\ t.coordinator = s.coordinator
  BY <1>4, <1>5 DEF Keeps, Fields
<1> QED
  BY <1>6, <1>7, <1>8, <1>9 DEF Live, t

(* An unlock that is tried again when the worker is idle.                  *)
LEMMA RetriedLive ==
    ASSUME NEW s, NEW op \in Ops, op \notin s.ops, Live(s, s.ops \cup {op}), op.kind = "award"
    PROVE  After([s EXCEPT !.ops = @ \cup {op}, !.later = Append(@, op)], s, s.ops \cup {op})
<1> DEFINE t == [s EXCEPT !.ops = @ \cup {op}, !.later = Append(@, op)]
<1>1. /\ Keeps(t, s, {"ops", "later"}) /\ t.ops = s.ops \cup {op}
      /\ t.later = Append(s.later, op) /\ s.later \in Seq(Ops)
  BY DEF Keeps, Fields, Live, Typed
<1> HIDE DEF t
<1>2. /\ Append(s.later, op) \in Seq(Ops) /\ Range(Append(s.later, op)) = Range(s.later) \cup {op}
      /\ IsInjective(Append(s.later, op))
  <2> DEFINE q == <<op>>
  <2>1. Append(s.later, op) = s.later \o q
    BY <1>1
  <2>2. q \in Seq(Ops) /\ Range(q) = {op} /\ IsInjective(q)
    BY OneOperation
  <2>3. IsInjective(s.later) /\ Range(s.later) \cap {op} = {}
    BY DEF Live, Linked
  <2> HIDE DEF q
  <2> QED BY <1>1, <2>1, <2>2, <2>3, AppendedRange
<1>3. Typed(t) /\ t.down = FALSE
  <2>1. t.ops \in SUBSET Ops /\ t.later \in Seq(Ops)
    BY <1>1, <1>2 DEF Live, Typed
  <2>2. /\ t.lastCall = s.lastCall /\ t.rejected = s.rejected /\ t.merged = s.merged
        /\ t.calls = s.calls /\ t.taken = s.taken /\ t.http = s.http /\ t.down = s.down
        /\ t.loginGen = s.loginGen /\ t.gameGen = s.gameGen /\ t.connGen = s.connGen
        /\ t.profileGen = s.profileGen /\ t.epoch = s.epoch /\ t.profiles = s.profiles
        /\ t.titles = s.titles /\ t.client = s.client /\ t.conn = s.conn /\ DOMAIN t = Fields
    BY <1>1 DEF Keeps, Fields
  <2>3. Typed(s) /\ s.down = FALSE
    BY DEF Live
  <2> QED BY <2>1, <2>2, <2>3 DEF Typed
<1>4. Linked(t, {})
  <2>1. t.calls = s.calls /\ t.rejected = s.rejected
    BY <1>1 DEF Keeps, Fields
  <2>2. Waiting(t) = Waiting(s)
    BY <2>1 DEF Waiting
  <2>3. Linked(s, {})
    BY DEF Live
  <2> QED BY <1>1, <1>2, <2>1, <2>2, <2>3 DEF Linked
<1>5. /\ Answerable(t) /\ OneUser(t) /\ Coordinated(t) /\ Counted(t, s.ops \cup {op})
      /\ \A o \in s.ops \cup {op} : Numbered(t, o)
  BY <1>1, KeepsParts DEF Live
<1>6. After(t, s, s.ops \cup {op})
  <2>1. t.commands = s.commands /\ t.taken = s.taken /\ t.coordinator = s.coordinator
    BY <1>1 DEF Keeps, Fields
  <2> QED BY <1>1, <1>3, <1>4, <1>5, <2>1 DEF After, Live
<1> QED
  BY <1>6 DEF t

(* finishProfile: the library is shown.                                    *)
LEMMA FinishProfileLive ==
    ASSUME NEW s, Live(s, s.ops), s.conn \in Connected
    PROVE  After(FinishProfile(s), s, s.ops)
<1> DEFINE t == FinishProfile(s)
<1>1. /\ Keeps(t, s, {"library", "shown"}) /\ t.library = s.merged
      /\ t.shown = [conn |-> s.conn, user |-> s.user, game |-> s.game,
                    library |-> s.merged, connGen |-> s.connGen]
  BY DEF FinishProfile, Published, Keeps, Fields, Live, Typed
<1> HIDE DEF t
<1>2. Typed(t) /\ t.down = FALSE /\ t.ops = s.ops
  BY <1>1 DEF Keeps, Fields, Live, Typed
<1>3. /\ Linked(t, {}) /\ Answerable(t) /\ Counted(t, s.ops) /\ Coordinated(t)
      /\ \A o \in s.ops : Numbered(t, o)
  BY <1>1, KeepsParts DEF Live
<1>4. OneUser(t)
  BY <1>1 DEF Live, OneUser, Keeps, Fields
<1>5. After(t, s, s.ops)
  BY <1>1, <1>2, <1>3, <1>4 DEF After, Live, Keeps, Fields
<1> QED
  BY <1>5 DEF t

LEMMA TitlesCompletedLive ==
    ASSUME NEW s, NEW op \in Ops, Live(s, s.ops \cup {op}), op.kind = "titles"
    PROVE  After(TitlesCompleted(s, op), s, s.ops)
<1>0. Live(s, s.ops) /\ s.down = FALSE
  BY CompletedLeaves DEF Live
<1>1. CASE ~IsActive(s, op)
  BY <1>0, <1>1 DEF TitlesCompleted, After
<1>2. CASE IsActive(s, op)
  <2> DEFINE n == IF s.titles > 0 THEN s.titles - 1 ELSE 0
             t == [s EXCEPT !.titles = IF @ > 0 THEN @ - 1 ELSE 0]
  <2>1. n \in Nat /\ s.conn \in Connected
    BY <1>0, <1>2 DEF Live, Typed, IsActive
  <2>2. Keeps(t, s, {"titles"}) /\ t.titles = n
    BY <1>0 DEF Keeps, Fields, Live, Typed
  <2>3. TitlesCompleted(s, op) = IF t.titles = 0 THEN FinishProfile(t) ELSE t
    BY <1>2 DEF TitlesCompleted
  <2> HIDE DEF t, n
  <2>4. Typed(t) /\ t.down = FALSE /\ t.ops = s.ops /\ t.conn = s.conn
    BY <1>0, <2>1, <2>2 DEF Keeps, Fields, Live, Typed
  <2>5. /\ Linked(t, {}) /\ Answerable(t) /\ Counted(t, s.ops) /\ Coordinated(t) /\ OneUser(t)
        /\ \A o \in s.ops : Numbered(t, o)
    BY <1>0, <2>2, KeepsParts DEF Live
  <2>6. Live(t, t.ops)
    BY <2>4, <2>5 DEF Live
  <2>7. After(FinishProfile(t), t, t.ops)
    BY <2>1, <2>4, <2>6, FinishProfileLive
  <2>8. t.commands = s.commands /\ t.taken = s.taken /\ t.coordinator = s.coordinator
    BY <2>2 DEF Keeps, Fields
  <2> QED BY <2>3, <2>4, <2>6, <2>7, <2>8 DEF After
<1> QED
  BY <1>1, <1>2

(* beginTitleBatches: the last console has answered, and no batch of this  *)
(* profile was asked for before.                                           *)
LEMMA BeginTitleBatchesLive ==
    ASSUME NEW s, Live(s, s.ops), s.conn \in Connected, s.profiles = 0,
           \A op \in s.ops : ~(op.kind = "titles" /\ op.gen = s.profileGen), SessionAssumption
    PROVE  After(BeginTitleBatches(s), s, s.ops)
<1>1. CASE s.merged = {}
  BY <1>1, FinishProfileLive DEF BeginTitleBatches
<1>2. CASE s.merged # {}
  <2> DEFINE n == Batches(s)
             y == [s EXCEPT !.titles = n]
             user == s.client.user
             gen == s.profileGen
             new == [b \in 1..n |-> Op("titles", gen, b, user)]
             t == BeginTitleBatches(s)
  <2>1. t = Begun(y, new)
    BY <1>2 DEF BeginTitleBatches
  <2>2. n \in Nat
    <3> DEFINE m == Cardinality(s.merged)
    <3>1. m \in Nat /\ TitleBatch \in Nat /\ TitleBatch > 0
      BY FS_CardinalityType DEF Live, Typed, SessionAssumption
    <3> HIDE DEF m
    <3>2. (m + TitleBatch - 1) \div TitleBatch \in Nat
      <4> DEFINE k == m + TitleBatch - 1
      <4>1. k \in Nat
        BY <3>1
      <4> HIDE DEF k
      <4>2. k \div TitleBatch \in Nat
        BY <3>1, <4>1
      <4> QED BY <4>2 DEF k
    <3> QED BY <3>2 DEF Batches, m
  <2>3. Keeps(y, s, {"titles"}) /\ y.titles = n
    BY DEF Keeps, Fields, Live, Typed
  <2>4. user \in Names /\ gen \in Nat
    BY DEF Live, Typed
  <2> HIDE DEF n, y, user, gen, t
  <2>5. \A b \in 1..n : /\ new[b] \in Ops /\ new[b].kind = "titles" /\ new[b].gen = gen
                        /\ new[b].part = b /\ new[b].user = user
    <3> SUFFICES ASSUME NEW b \in 1..n
                 PROVE  /\ new[b] \in Ops /\ new[b].kind = "titles" /\ new[b].gen = gen
                        /\ new[b].part = b /\ new[b].user = user
      OBVIOUS
    <3>1. b \in Nat
      BY <2>2
    <3> HIDE DEF new
    <3>2. new[b] = Op("titles", gen, b, user)
      BY DEF new
    <3> DEFINE o == Op("titles", gen, b, user)
    <3>3. o = [kind |-> "titles", gen |-> gen, part |-> b, user |-> user]
      BY DEF Op
    <3> HIDE DEF o
    <3>4. new[b] = o
      BY <3>2 DEF o
    <3>5. o \in Ops
      BY <2>4, <3>1, <3>3 DEF Ops
    <3> QED BY <3>3, <3>4, <3>5
  <2>6. new \in Seq(Ops) /\ Len(new) = n /\ DOMAIN new = 1..n
    <3>1. \A b \in 1..n : Op("titles", gen, b, user) \in Ops
      BY <2>5
    <3> QED BY <2>2, <3>1
  <2> HIDE DEF new
  <2>7. IsInjective(new)
    BY <2>5, <2>6 DEF IsInjective
  <2>8. \A o \in Range(new) : o \in Ops /\ o.kind = "titles" /\ o.gen = s.profileGen /\ o.user = s.client.user
    BY <2>5, <2>6 DEF Range, gen, user
  <2>9. y.ops = s.ops /\ y.conn = s.conn
    BY <2>3 DEF Keeps, Fields
  <2>10. Range(new) \cap y.ops = {}
    BY <2>8, <2>9
  <2>11. Live(y, y.ops \cup Range(new))
    <3>1. Typed(y) /\ y.down = FALSE
      BY <2>2, <2>3 DEF Keeps, Fields, Live, Typed
    <3>2. /\ Linked(y, {}) /\ Answerable(y) /\ Coordinated(y) /\ OneUser(y) /\ Counted(y, s.ops)
          /\ \A o \in s.ops : Numbered(y, o)
      BY <2>3, KeepsParts DEF Live
    <3>3. Counted(y, s.ops \cup Range(new))
      <4>1. AskedProfiles(y, s.ops \cup Range(new)) = AskedProfiles(y, s.ops)
        BY <2>8 DEF AskedProfiles
      <4>2. \A o \in Range(new) : o.kind \notin {"identify", "open"}
        BY <2>8
      <4> QED BY <3>2, <4>1, <4>2 DEF Counted
    <3>4. \A o \in Range(new) : Numbered(y, o)
      <4>1. y.profileGen = s.profileGen /\ y.client = s.client /\ y.profiles = s.profiles
        BY <2>3 DEF Keeps, Fields
      <4>2. s.profileGen \in Nat
        BY DEF Live, Typed
      <4> QED BY <2>8, <2>9, <4>1, <4>2 DEF Numbered, Current
    <3> QED BY <2>9, <3>1, <3>2, <3>3, <3>4 DEF Live
  <2>12. /\ Live(t, t.ops) /\ t.ops = y.ops \cup Range(new)
         /\ Keeps(t, y, {"ops", "calls", "http", "lastCall", "rejected"})
    BY <2>1, <2>6, <2>7, <2>10, <2>11, BegunLive DEF SessionAssumption
  <2>13. After(t, s, s.ops)
    BY <2>3, <2>8, <2>9, <2>12 DEF After, Keeps, Fields
  <2> QED BY <2>13 DEF t
<1> QED
  BY <1>1, <1>2

(* profileCompleted: one console less to wait for.                         *)
LEMMA ProfileCompletedLive ==
    ASSUME NEW s, NEW op \in Ops, op \notin s.ops, Live(s, s.ops \cup {op}),
           op.kind = "profile", NEW ok \in BOOLEAN, SessionAssumption
    PROVE  After(ProfileCompleted(s, op, ok), s, s.ops)
<1>0. Live(s, s.ops \cup {op}) /\ s.down = FALSE /\ Numbered(s, op)
  BY DEF Live
<1>1. CASE op.gen # s.profileGen
  <2>1. ProfileCompleted(s, op, ok) = s
    BY <1>1 DEF ProfileCompleted, IsActive
  <2> QED BY <1>1, <2>1, CompletedLeaves DEF After
<1>2. CASE op.gen = s.profileGen
  <2> DEFINE entries == IF ok THEN {<<op.part, op.user>>} ELSE {}
             t == [s EXCEPT !.merged = @ \cup entries, !.profiles = IF @ > 0 THEN @ - 1 ELSE 0]
  <2>1. IsActive(s, op) /\ s.conn \in Connected /\ op.user = s.client.user
    BY <1>0, <1>2 DEF Numbered, Current, IsActive
  <2>2. ProfileCompleted(s, op, ok) = IF t.profiles = 0 THEN BeginTitleBatches(t) ELSE t
    BY <2>1 DEF ProfileCompleted
  <2>3. s.profiles \in Nat /\ IsFiniteSet(s.merged) /\ s.profileGen \in Nat
    BY <1>0 DEF Live, Typed
  <2>4. /\ IsFiniteSet(AskedProfiles(s, s.ops)) /\ s.profiles > 0
        /\ Cardinality(AskedProfiles(s, s.ops)) = s.profiles - 1
    <3> DEFINE asked == AskedProfiles(s, s.ops \cup {op})
    <3>1. op \in asked /\ asked \ {op} = AskedProfiles(s, s.ops)
      BY <1>2 DEF AskedProfiles
    <3>2. IsFiniteSet(asked) /\ Cardinality(asked) = s.profiles
      BY <1>0 DEF Live, Counted
    <3> HIDE DEF asked
    <3>3. IsFiniteSet(asked \ {op}) /\ Cardinality(asked \ {op}) = Cardinality(asked) - 1
      BY <3>1, <3>2, FS_RemoveElement
    <3>4. Cardinality(asked \ {op}) \in Nat
      BY <3>3, FS_CardinalityType
    <3> DEFINE c == Cardinality(asked)
               d == Cardinality(asked \ {op})
    <3>5. c = s.profiles /\ d = c - 1 /\ d \in Nat
      BY <3>2, <3>3, <3>4
    <3> HIDE DEF c, d
    <3>6. s.profiles > 0 /\ d = s.profiles - 1
      BY <2>3, <3>5
    <3> QED BY <3>1, <3>3, <3>6 DEF d
  <2>5. /\ Keeps(t, s, {"merged", "profiles"}) /\ t.merged = s.merged \cup entries
        /\ t.profiles = s.profiles - 1
    BY <1>0, <2>3, <2>4 DEF Keeps, Fields, Live, Typed
  <2>6. IsFiniteSet(s.merged \cup entries) /\ \A e \in entries : e[2] = s.client.user
    <3>1. IsFiniteSet(entries)
      BY FS_EmptySet, FS_Singleton
    <3>2. IsFiniteSet(s.merged \cup entries)
      BY <2>3, <3>1, FS_Union
    <3> QED BY <2>1, <3>2
  <2> HIDE DEF t, entries
  <2>7. /\ t.ops = s.ops /\ t.conn = s.conn /\ t.client = s.client /\ t.profileGen = s.profileGen
        /\ t.loginGen = s.loginGen /\ t.gameGen = s.gameGen
        /\ t.commands = s.commands /\ t.taken = s.taken /\ t.coordinator = s.coordinator
    BY <2>5 DEF Keeps, Fields
  <2>8. \A o \in s.ops : ~(o.kind = "titles" /\ o.gen = s.profileGen)
    BY <1>0, <2>3, <2>4 DEF Live, Numbered
  <2>9. Live(t, t.ops)
    <3>1. Typed(t) /\ t.down = FALSE
      <4>1. t.profiles \in Nat /\ IsFiniteSet(t.merged)
        BY <2>3, <2>4, <2>5, <2>6
      <4> QED BY <1>0, <2>5, <2>7, <4>1 DEF Keeps, Fields, Live, Typed
    <3>2. Linked(t, {}) /\ Answerable(t) /\ Coordinated(t)
      BY <1>0, <2>5, KeepsParts DEF Live
    <3>3. Counted(t, s.ops)
      <4>1. AskedProfiles(t, s.ops) = AskedProfiles(s, s.ops)
        BY <2>7 DEF AskedProfiles
      <4>2. Counted(s, s.ops \cup {op})
        BY <1>0 DEF Live
      <4> QED BY <2>4, <2>5, <4>1, <4>2 DEF Counted
    <3>4. \A o \in s.ops : Numbered(t, o)
      BY <1>0, <2>7, <2>8 DEF Live, Numbered, Current
    <3>5. OneUser(t)
      BY <1>0, <2>5, <2>6, <2>7 DEF Live, OneUser, Keeps, Fields
    <3> QED BY <2>7, <3>1, <3>2, <3>3, <3>4, <3>5 DEF Live
  <2>10. t.profiles = 0 => After(BeginTitleBatches(t), t, t.ops)
    BY <2>1, <2>7, <2>8, <2>9, BeginTitleBatchesLive
  <2> QED BY <2>2, <2>7, <2>9, <2>10 DEF After
<1> QED
  BY <1>1, <1>2

(* The library's callback, whatever was asked.                             *)
LEMMA CompletedLive ==
    ASSUME NEW s, NEW op \in Ops, op \notin s.ops, Live(s, s.ops \cup {op}),
           NEW ok \in BOOLEAN, SessionAssumption
    PROVE  After(Completed(s, op, ok), s, s.ops \cup {op})
<1>1. Outstanding \in Nat
  BY DEF SessionAssumption
<1>2. \A t : After(t, s, s.ops) => After(t, s, s.ops \cup {op})
  BY DEF After
<1>3. CASE op.kind = "login"
  <2>1. Completed(s, op, ok) = LoginCompleted(s, op, ok)
    BY <1>3 DEF Completed
  <2> QED BY <1>2, <1>3, <2>1, LoginCompletedLive
<1>4. CASE op.kind = "profile"
  <2>1. Completed(s, op, ok) = ProfileCompleted(s, op, ok)
    BY <1>4 DEF Completed
  <2> QED BY <1>2, <1>4, <2>1, ProfileCompletedLive
<1>5. CASE op.kind = "titles"
  <2>1. Completed(s, op, ok) = TitlesCompleted(s, op)
    BY <1>5 DEF Completed
  <2> QED BY <1>2, <1>5, <2>1, TitlesCompletedLive
<1>6. CASE op.kind = "identify" /\ ok = TRUE
  <2>1. Completed(s, op, ok) = Begun(s, <<[op EXCEPT !.kind = "open"]>>)
    BY <1>6 DEF Completed
  <2> QED BY <1>1, <1>2, <1>6, <2>1, OpenLive
<1>7. CASE op.kind = "identify" /\ ok = FALSE
  <2>1. Completed(s, op, ok) = GameLoadCompleted(s, op, FALSE)
    BY <1>7 DEF Completed
  <2> QED BY <1>2, <1>7, <2>1, GameLoadCompletedLive
<1>8. CASE op.kind = "open"
  <2>1. Completed(s, op, ok) = GameLoadCompleted(s, op, ok)
    BY <1>8 DEF Completed
  <2> QED BY <1>2, <1>8, <2>1, GameLoadCompletedLive
<1>9. CASE op.kind = "award" /\ ok = FALSE /\ s.client.user = op.user
  <2>1. Completed(s, op, ok) = [s EXCEPT !.ops = @ \cup {op}, !.later = Append(@, op)]
    BY <1>9 DEF Completed
  <2> DEFINE t == [s EXCEPT !.ops = @ \cup {op}, !.later = Append(@, op)]
  <2>2. After(t, s, s.ops \cup {op})
    BY <1>9, RetriedLive
  <2>3. Completed(s, op, ok) = t
    BY <2>1
  <2> HIDE DEF t
  <2> QED BY <2>2, <2>3
<1>10. CASE op.kind = "award" /\ ~(ok = FALSE /\ s.client.user = op.user)
  <2>1. Completed(s, op, ok) = s
    BY <1>10 DEF Completed
  <2> QED BY <1>2, <1>10, <2>1, CompletedLeaves DEF After
<1>11. op.kind \in {"login", "profile", "titles", "identify", "open", "award"}
  BY DEF Ops
<1> QED
  BY <1>3, <1>4, <1>5, <1>6, <1>7, <1>8, <1>9, <1>10, <1>11

(* What a session in use shows is right.                                   *)
LEMMA InUseShows ==
    ASSUME NEW s, NEW w, InUse(s, w)
    PROVE  /\ s.shown.game # NoUser => s.shown.game = s.shown.user
           /\ \A entry \in s.shown.library : entry[2] = s.shown.user
           /\ w.pc = "ui" /\ s.shown.conn = "online" /\ s.shown.game = NoUser =>
                  s.askedIn = s.epoch
BY DEF InUse, Live, OneUser, Placed

(* The commands and the snapshot taken are no concern of the session's.    *)
LEMMA LiveUntouched ==
    ASSUME NEW s, NEW t, NEW ops, Live(s, ops), Keeps(t, s, {"commands", "seen"})
    PROVE  Live(t, ops)
<1>1. Typed(t) /\ t.down = FALSE
  BY DEF Keeps, Fields, Live, Typed
<1>2. /\ Linked(t, {}) /\ Answerable(t) /\ Counted(t, ops) /\ Coordinated(t) /\ OneUser(t)
      /\ \A o \in ops : Numbered(t, o)
  BY KeepsParts DEF Live
<1> QED
  BY <1>1, <1>2 DEF Live

LEMMA UserInUse ==
    ASSUME InUse(ra, worker), UserLogsIn \/ UserLogsOut \/ NoCommand
    PROVE  InUse(ra', worker')
<1>1. /\ worker.pc = "ui" /\ worker' = [worker EXCEPT !.pc = "pending"]
      /\ DOMAIN worker' = {"pc", "again", "awarded"} /\ worker'.pc = "pending"
      /\ worker'.awarded = worker.awarded /\ worker.awarded \in BOOLEAN
  BY DEF UserLogsIn, UserLogsOut, NoCommand, At, Goto, InUse
<1>2. CASE UNCHANGED ra
  BY <1>1, <1>2 DEF InUse, Placed
<1>3. ASSUME NEW c \in Commands, ra' = [ra EXCEPT !.commands = Append(@, c)],
             c.type # "loadGame", c.type = "login" => ra.conn \notin Connected
      PROVE  InUse(ra', worker')
  <2>1. /\ ra.commands \in Seq(Commands) /\ DOMAIN ra = Fields /\ Len(ra.commands) \in Nat
        /\ ra.conn \notin Connected => ~ra.coordinator.requested
        /\ Placed(ra, worker)
    BY <1>1 DEF InUse, Placed, Live, Typed
  <2> DEFINE new == Append(ra.commands, c)
             n == Len(ra.commands)
  <2>2. Keeps(ra', ra, {"commands", "seen"}) /\ ra'.commands = new /\ ra'.seen = ra.seen
    BY <1>3, <2>1 DEF Keeps, Fields
  <2>3. /\ new \in Seq(Commands) /\ Len(new) = n + 1 /\ new[n + 1] = c /\ DOMAIN new = 1..(n + 1)
        /\ \A i \in 1..n : new[i] = ra.commands[i] /\ i \in DOMAIN ra.commands
    BY <2>1
  <2> HIDE DEF new
  <2>4. \A i \in 1..(n + 1) : i \in 1..n \/ i = n + 1
    BY <2>1
  <2> HIDE DEF n
  <2>5. /\ ra'.ops = ra.ops /\ ra'.taken = ra.taken /\ ra'.conn = ra.conn
        /\ ra'.coordinator = ra.coordinator
    BY <2>2 DEF Keeps, Fields
  <2>6. Live(ra', ra'.ops)
    BY <2>2, <2>5, LiveUntouched DEF InUse
  <2>7. \A i \in DOMAIN new :
            /\ new[i].type = "login" => ra.conn \notin Connected /\ ~ra.coordinator.requested
            /\ new[i].type = "loadGame" => i = 1 /\ ra.conn = "online"
    BY <1>3, <2>1, <2>3, <2>4 DEF Placed
  <2>8. Placed(ra', worker')
    <3>1. worker.pc # "respond"
      BY <1>1
    <3> QED BY <1>1, <2>1, <2>2, <2>3, <2>5, <2>7, <3>1 DEF Placed
  <2> QED BY <1>1, <2>6, <2>8 DEF InUse
<1>4. CASE UserLogsIn
  <2>1. PICK u \in Users : ra' = [ra EXCEPT !.commands = Append(@, [type |-> "login", user |-> u])]
    BY <1>4 DEF UserLogsIn
  <2> DEFINE c == [type |-> "login", user |-> u]
  <2>2. c \in Commands /\ c.type = "login"
    BY DEF Commands, Names
  <2>3. ra.conn \notin Connected
    BY <1>1, <1>4 DEF UserLogsIn, InUse, Placed, Connected
  <2> HIDE DEF c
  <2>4. ra' = [ra EXCEPT !.commands = Append(@, c)]
    BY <2>1 DEF c
  <2> QED BY <1>3, <2>2, <2>3, <2>4
<1>5. CASE UserLogsOut
  <2> DEFINE c == [type |-> "logout", user |-> NoUser]
  <2>1. c \in Commands /\ c.type = "logout"
    BY DEF Commands, Names
  <2>2. ra' = [ra EXCEPT !.commands = Append(@, c)]
    BY <1>5 DEF UserLogsOut
  <2> HIDE DEF c
  <2> QED BY <1>3, <2>1, <2>2
<1> QED
  BY <1>2, <1>4, <1>5 DEF NoCommand

LEMMA ProcessCommandInUse ==
    ASSUME InUse(ra, worker), ProcessCommand, SessionAssumption
    PROVE  InUse(ra', worker')
<1> DEFINE c == Head(ra.commands)
           rest == Tail(ra.commands)
           s == [ra EXCEPT !.commands = Tail(@)]
<1>1. /\ worker.pc = "pending" /\ UNCHANGED worker /\ ra.commands # <<>>
      /\ ra.commands \in Seq(Commands) /\ DOMAIN ra = Fields /\ Placed(ra, worker)
  BY DEF ProcessCommand, At, InUse, Placed, Live, Typed
<1>2. /\ c \in Commands /\ rest \in Seq(Commands) /\ c = ra.commands[1] /\ 1 \in DOMAIN ra.commands
      /\ \A i \in DOMAIN rest : rest[i] = ra.commands[i + 1] /\ i + 1 \in DOMAIN ra.commands
                                /\ i + 1 # 1
  <2>1. c \in Commands /\ rest \in Seq(Commands) /\ c = ra.commands[1]
    BY <1>1
  <2>2. Len(ra.commands) \in Nat \ {0} /\ DOMAIN ra.commands = 1..Len(ra.commands)
    BY <1>1
  <2>3. DOMAIN rest = 1..(Len(ra.commands) - 1)
        /\ \A i \in 1..(Len(ra.commands) - 1) : rest[i] = ra.commands[i + 1]
    BY <1>1
  <2> QED BY <2>1, <2>2, <2>3
<1>3. Keeps(s, ra, {"commands", "seen"}) /\ s.commands = rest /\ s.ops = ra.ops /\ s.conn = ra.conn
      /\ s.coordinator = ra.coordinator /\ s.taken = ra.taken
  BY <1>1 DEF Keeps, Fields
<1>4. ra' = CASE c.type = "login"    -> BeginLogin(s, c.user)
              [] c.type = "logout"   -> Logout(s)
              [] c.type = "loadGame" -> BeginLoadGame(s)
  BY DEF ProcessCommand
<1> HIDE DEF c, rest, s
<1>5. Live(s, s.ops)
  BY <1>3, LiveUntouched DEF InUse
<1>6. /\ c.type = "login" => ra.conn \notin Connected /\ ~ra.coordinator.requested
      /\ c.type = "loadGame" => ra.conn = "online"
      /\ \A i \in DOMAIN rest : rest[i].type # "loadGame"
      /\ \A i \in DOMAIN rest : rest[i].type = "login" =>
             ra.conn \notin Connected /\ ~ra.coordinator.requested
  BY <1>1, <1>2 DEF Placed
<1>7. ASSUME NEW t, After(t, s, s.ops), ra' = t,
             t.conn \in {"loggingIn", "loggedOut"} \/ ra.conn = "online"
      PROVE  InUse(ra', worker')
  <2>1. /\ t.commands = rest /\ t.taken = ra.taken /\ t.coordinator = ra.coordinator
        /\ \A op \in t.ops : op.kind = "award" => op \in ra.ops
    BY <1>3, <1>7 DEF After
  <2>2. Placed(t, worker)
    BY <1>1, <1>2, <1>6, <1>7, <2>1 DEF Placed, Connected
  <2> QED BY <1>1, <1>7, <2>2 DEF InUse, After
<1>8. CASE c.type = "login"
  <2>1. ra' = BeginLogin(s, c.user) /\ c.user \in Names
    BY <1>2, <1>4, <1>8 DEF Commands
  <2>2. After(ra', s, s.ops) /\ ra'.conn = "loggingIn"
    BY <1>3, <1>5, <1>6, <1>8, <2>1, BeginLoginLive DEF SessionAssumption
  <2> QED BY <1>7, <2>2
<1>9. CASE c.type = "logout"
  <2>1. ra' = Logout(s)
    BY <1>4, <1>9
  <2>2. After(ra', s, s.ops) /\ ra'.conn = "loggedOut"
    BY <1>5, <2>1, LogoutLive
  <2> QED BY <1>7, <2>2
<1>10. CASE c.type = "loadGame"
  <2>1. ra' = BeginLoadGame(s)
    BY <1>4, <1>10
  <2>2. After(ra', s, s.ops) /\ ra.conn = "online"
    BY <1>3, <1>5, <1>6, <1>10, <2>1, BeginLoadGameLive DEF SessionAssumption
  <2> QED BY <1>7, <2>2
<1>11. c.type \in {"login", "logout", "loadGame"}
  BY <1>2 DEF Commands
<1> QED
  BY <1>8, <1>9, <1>10, <1>11

(* An answer or a refusal is delivered, after the connection was told.     *)
LEMMA DeliveredInUse ==
    ASSUME NEW s, NEW op \in Ops, op \notin s.ops, Live(s, s.ops \cup {op}), NEW ok \in BOOLEAN,
           NEW m, m \in {MarkOffline(s), MarkOnline(s)}, NEW w,
           s.commands = <<>>, w.pc # "ui", w.pc # "respond" => s.taken = <<>>,
           DOMAIN w = {"pc", "again", "awarded"}, w.awarded \in BOOLEAN,
           ~w.awarded => \A o \in s.ops \cup {op} : o.kind # "award", SessionAssumption
    PROVE  InUse(Completed(m, op, ok), w)
<1> DEFINE t == Completed(m, op, ok)
<1>1. /\ Live(m, s.ops \cup {op}) /\ Keeps(m, s, {"conn", "connGen", "epoch", "shown"})
  <2>1. \A x : Keeps(x, s, {"conn", "shown"}) => Keeps(x, s, {"conn", "connGen", "epoch", "shown"})
    BY DEF Keeps
  <2> QED BY <2>1, MarkOfflineLive, MarkOnlineLive
<1>2. m.ops = s.ops /\ m.commands = s.commands /\ m.taken = s.taken
  BY <1>1 DEF Keeps, Fields
<1>3. After(t, m, s.ops \cup {op})
  BY <1>1, <1>2, CompletedLive
<1> HIDE DEF t
<1>4. Placed(t, w)
  <2>1. t.commands = <<>> /\ t.taken = s.taken /\ <<>> \in Seq(Commands) /\ DOMAIN <<>> = {}
    BY <1>2, <1>3 DEF After
  <2>2. ~w.awarded => \A o \in t.ops : o.kind # "award"
    BY <1>3 DEF After
  <2> QED BY <2>1, <2>2 DEF Placed
<1>5. InUse(t, w)
  BY <1>3, <1>4 DEF InUse, After
<1> QED
  BY <1>5 DEF t

LEMMA FlushRejectedInUse ==
    ASSUME InUse(ra, worker), FlushRejected, SessionAssumption
    PROVE  InUse(ra', worker')
<1> DEFINE op == Head(ra.rejected)
           rest == Tail(ra.rejected)
           s == [ra EXCEPT !.rejected = Tail(@), !.ops = @ \ {op}]
<1>1. /\ UNCHANGED worker /\ worker.pc \in {"pending", "respond"} /\ ra.rejected # <<>>
      /\ Live(ra, ra.ops) /\ Placed(ra, worker) /\ ra.commands = <<>>
  BY DEF FlushRejected, At, InUse, Placed
<1>2. /\ Typed(ra) /\ Linked(ra, {}) /\ ra.rejected \in Seq(Ops) /\ IsInjective(ra.rejected)
  BY <1>1 DEF Live, Typed, Linked
<1>3. /\ op \in Ops /\ rest \in Seq(Ops) /\ IsInjective(rest)
      /\ Range(ra.rejected) = {op} \cup Range(rest) /\ op \notin Range(rest)
  <2>1. op \in Ops /\ rest \in Seq(Ops)
    BY <1>1, <1>2
  <2> QED BY <1>1, <1>2, <2>1, HeadAndTail
<1>4. ra' = Completed(MarkOffline(s), op, FALSE)
  BY DEF FlushRejected
<1>5. Keeps(s, ra, {"rejected", "ops"}) /\ s.rejected = rest /\ s.ops = ra.ops \ {op}
  BY <1>2 DEF Keeps, Fields, Typed
<1> HIDE DEF op, rest, s
<1>6. /\ s.calls = ra.calls /\ s.later = ra.later /\ s.commands = ra.commands
      /\ s.taken = ra.taken /\ Waiting(s) = Waiting(ra)
  BY <1>5 DEF Keeps, Fields, Waiting
<1>7. op \notin s.ops /\ s.ops \cup {op} = ra.ops
  BY <1>2, <1>3, <1>5 DEF Linked
<1>8. Live(s, s.ops \cup {op})
  <2>1. Typed(s) /\ s.down = FALSE
    <3>1. s.ops \in SUBSET Ops /\ s.rejected \in Seq(Ops)
      BY <1>2, <1>3, <1>5 DEF Typed
    <3> QED BY <1>1, <1>5, <1>6, <3>1 DEF Keeps, Fields, Live, Typed
  <2>2. Linked(s, {})
    BY <1>2, <1>3, <1>5, <1>6 DEF Linked
  <2>3. /\ Answerable(s) /\ OneUser(s) /\ Coordinated(s) /\ Counted(s, ra.ops)
        /\ \A o \in ra.ops : Numbered(s, o)
    BY <1>1, <1>5, KeepsParts DEF Live
  <2> QED BY <1>7, <2>1, <2>2, <2>3 DEF Live
<1>9. /\ worker.pc # "respond" => s.taken = <<>>
      /\ ~worker.awarded => \A o \in s.ops \cup {op} : o.kind # "award"
  BY <1>1, <1>6, <1>7 DEF Placed
<1>10. InUse(Completed(MarkOffline(s), op, FALSE), worker)
  <2> DEFINE m == MarkOffline(s)
  <2>1. m \in {MarkOffline(s), MarkOnline(s)} /\ s.commands = <<>> /\ worker.pc # "ui"
    BY <1>1, <1>6
  <2>2. DOMAIN worker = {"pc", "again", "awarded"} /\ worker.awarded \in BOOLEAN
    BY DEF InUse
  <2> HIDE DEF m
  <2>3. InUse(Completed(m, op, FALSE), worker)
    BY <1>3, <1>7, <1>8, <1>9, <2>1, <2>2, DeliveredInUse
  <2> QED BY <2>3 DEF m
<1> QED
  BY <1>1, <1>4, <1>10

LEMMA TakeCompletedInUse ==
    ASSUME InUse(ra, worker), TakeCompleted, SessionAssumption
    PROVE  InUse(ra', worker')
<1>1. /\ worker.pc = "pending" /\ worker' = [worker EXCEPT !.pc = "respond"]
      /\ Live(ra, ra.ops) /\ Placed(ra, worker) /\ ra.commands = <<>> /\ ra.taken = <<>>
      /\ DOMAIN worker = {"pc", "again", "awarded"} /\ worker.awarded \in BOOLEAN
  BY DEF TakeCompleted, At, Goto, InUse, Placed
<1> DEFINE answers == ra.http.completed["api"]
           h == Taken(ra.http, "api")
<1>2. ra' = [ra EXCEPT !.taken = answers, !.http = h]
  BY <1>1 DEF TakeCompleted, Live, Typed
<1>3. ra.http \in Transports /\ "api" \in Channels /\ Carries(ra.http, "api")
      /\ ra.http.outstanding["api"] <= Outstanding
  BY <1>1 DEF Live, Typed, Answerable, Channels
<1>4. /\ h \in Transports /\ Carries(h, "api")
      /\ Held(h, "api") = Held(ra.http, "api") \ IdsOf(answers)
      /\ h.outstanding["api"] <= ra.http.outstanding["api"]
  BY <1>3, TakenCarries
<1>5. answers \in Seq(Answers) /\ DistinctIds(answers) /\ IdsOf(answers) \subseteq Held(ra.http, "api")
  <2>1. answers \in Seq(Answers)
    BY <1>3 DEF Transports
  <2> QED BY <1>3, <2>1, HeldPlaces DEF Carries
<1>6. Keeps(ra', ra, {"taken", "http"}) /\ ra'.taken = answers /\ ra'.http = h
  BY <1>1, <1>2 DEF Keeps, Fields, Live, Typed
<1>7. h.outstanding["api"] <= Outstanding
  <2>1. h.outstanding["api"] \in Int /\ ra.http.outstanding["api"] \in Int /\ Outstanding \in Nat
    BY <1>3, <1>4 DEF Transports, SessionAssumption
  <2> HIDE DEF h
  <2> QED BY <1>3, <1>4, <2>1
<1> HIDE DEF answers, h
<1>8. /\ ra'.calls = ra.calls /\ ra'.lastCall = ra.lastCall /\ ra'.ops = ra.ops
      /\ ra'.commands = ra.commands
  BY <1>6 DEF Keeps, Fields
<1>9. Live(ra', ra'.ops)
  <2>1. Typed(ra') /\ ra'.down = FALSE
    BY <1>1, <1>4, <1>5, <1>6 DEF Keeps, Fields, Live, Typed
  <2>2. IdsOf(<<>>) = {}
    BY DEF IdsOf
  <2>3. Answerable(ra')
    BY <1>1, <1>4, <1>5, <1>6, <1>7, <1>8, <2>2 DEF Live, Answerable
  <2>4. /\ Linked(ra', {}) /\ OneUser(ra') /\ Coordinated(ra') /\ Counted(ra', ra.ops)
        /\ \A o \in ra.ops : Numbered(ra', o)
    BY <1>1, <1>6, KeepsParts DEF Live
  <2> QED BY <1>8, <2>1, <2>3, <2>4 DEF Live
<1>10. worker'.pc = "respond" /\ worker'.awarded = worker.awarded
       /\ DOMAIN worker' = {"pc", "again", "awarded"}
  BY <1>1
<1>11. Placed(ra', worker')
  <2>1. <<>> \in Seq(Commands) /\ DOMAIN <<>> = {}
    OBVIOUS
  <2> QED BY <1>1, <1>8, <1>10, <2>1 DEF Placed
<1> QED
  BY <1>1, <1>9, <1>10, <1>11 DEF InUse

LEMMA ProcessResponseInUse ==
    ASSUME InUse(ra, worker), ProcessResponse, SessionAssumption
    PROVE  InUse(ra', worker')
<1> DEFINE r == Head(ra.taken)
           rest == Tail(ra.taken)
           s == [ra EXCEPT !.taken = Tail(@)]
           call == CHOOSE c \in s.calls : c.id = r.id
           t == [s EXCEPT !.calls = @ \ {call}, !.ops = @ \ {call.op}]
<1>1. /\ UNCHANGED worker /\ worker.pc = "respond" /\ ra.taken # <<>>
      /\ Live(ra, ra.ops) /\ Placed(ra, worker) /\ ra.commands = <<>>
      /\ DOMAIN worker = {"pc", "again", "awarded"} /\ worker.awarded \in BOOLEAN
  BY DEF ProcessResponse, At, InUse, Placed
<1>2. /\ Typed(ra) /\ Linked(ra, {}) /\ Answerable(ra) /\ ra.taken \in Seq(Answers)
      /\ DistinctIds(ra.taken)
  BY <1>1 DEF Live, Typed, Answerable
<1>3. /\ r \in Answers /\ rest \in Seq(Answers) /\ DistinctIds(rest)
      /\ IdsOf(ra.taken) = {r.id} \cup IdsOf(rest) /\ r.id \notin IdsOf(rest)
  BY <1>1, <1>2, IdsAfterHead
<1>4. r.ok \in BOOLEAN
  BY <1>3 DEF Answers
<1>5. Keeps(s, ra, {"taken"}) /\ s.taken = rest /\ s.calls = ra.calls /\ s.ops = ra.ops
  BY <1>2 DEF Keeps, Fields, Typed
<1>6. \E c \in s.calls : c.id = r.id
  <2>1. r.id \in {c.id : c \in ra.calls}
    BY <1>2, <1>3 DEF Answerable
  <2> QED BY <1>5, <2>1
<1>7. call \in s.calls /\ call.id = r.id
  BY <1>6
<1>8. \E m, ok : m \in {MarkOffline(t), MarkOnline(t)} /\ ok \in BOOLEAN
                 /\ ra' = Completed(m, call.op, ok)
  <2>1. ~(\A c \in s.calls : c.id # r.id)
    BY <1>6
  <2>2. IF ~r.ok THEN ra' = Completed(MarkOffline(t), call.op, FALSE)
        ELSE \E granted \in IF call.op.kind \in {"login", "open"} THEN BOOLEAN ELSE {TRUE} :
                 ra' = Completed(MarkOnline(t), call.op, granted)
    BY <2>1 DEF ProcessResponse
  <2> HIDE DEF t, call, s, r
  <2>3. CASE ~r.ok
    BY <2>2, <2>3
  <2>4. CASE r.ok
    <3>1. PICK granted \in IF call.op.kind \in {"login", "open"} THEN BOOLEAN ELSE {TRUE} :
                 ra' = Completed(MarkOnline(t), call.op, granted)
      BY <2>2, <2>4
    <3>2. granted \in BOOLEAN
      OBVIOUS
    <3> QED BY <3>1, <3>2
  <2> QED BY <2>3, <2>4
<1> HIDE DEF call, r, rest
<1>9. DOMAIN s = Fields
  BY <1>5 DEF Keeps
<1> HIDE DEF s
<1> DEFINE op == call.op
<1>10. /\ Keeps(t, ra, {"taken", "calls", "ops"}) /\ t.taken = rest
       /\ t.calls = ra.calls \ {call} /\ t.ops = ra.ops \ {op}
  <2>1. /\ Keeps(t, s, {"calls", "ops"}) /\ t.calls = s.calls \ {call} /\ t.ops = s.ops \ {op}
    BY <1>9 DEF Keeps, Fields
  <2> HIDE DEF t
  <2> QED BY <1>5, <2>1 DEF Keeps, Fields
<1> HIDE DEF t
<1>11. call \in ra.calls /\ op \in Ops
  BY <1>2, <1>5, <1>7 DEF Typed, Calls
<1>12. Waiting(ra) = Waiting(t) \cup {op} /\ op \notin Waiting(t)
  BY <1>2, <1>10, <1>11 DEF Waiting, Linked
<1> HIDE DEF op
<1>13. /\ t.rejected = ra.rejected /\ t.later = ra.later /\ t.http = ra.http
       /\ t.lastCall = ra.lastCall /\ t.commands = ra.commands
  BY <1>10 DEF Keeps, Fields
<1>14. op \notin t.ops /\ t.ops \cup {op} = ra.ops
  BY <1>2, <1>10, <1>12 DEF Linked
<1>15. Live(t, t.ops \cup {op})
  <2>1. Typed(t) /\ t.down = FALSE
    <3>1. t.ops \in SUBSET Ops /\ t.calls \in SUBSET Calls /\ t.taken \in Seq(Answers)
      BY <1>2, <1>3, <1>10 DEF Typed
    <3> QED BY <1>1, <1>10, <1>13, <3>1 DEF Keeps, Fields, Live, Typed
  <2>2. Linked(t, {})
    BY <1>2, <1>10, <1>12, <1>13 DEF Linked
  <2>3. Answerable(t)
    <3>1. {c.id : c \in t.calls} = {c.id : c \in ra.calls} \ {r.id}
      BY <1>2, <1>5, <1>7, <1>10, <1>11 DEF Linked
    <3>2. r.id \notin Held(ra.http, "api")
      BY <1>2, <1>3 DEF Answerable
    <3> QED BY <1>2, <1>3, <1>10, <1>13, <3>1, <3>2 DEF Answerable
  <2>4. /\ OneUser(t) /\ Coordinated(t) /\ Counted(t, ra.ops)
        /\ \A o \in ra.ops : Numbered(t, o)
    BY <1>1, <1>10, KeepsParts DEF Live
  <2> QED BY <1>14, <2>1, <2>2, <2>3, <2>4 DEF Live
<1>16. ~worker.awarded => \A o \in t.ops \cup {op} : o.kind # "award"
  BY <1>1, <1>14 DEF Placed
<1>17. ASSUME NEW m, m \in {MarkOffline(t), MarkOnline(t)}, NEW ok \in BOOLEAN
       PROVE  InUse(Completed(m, op, ok), worker)
  <2>1. t.commands = <<>> /\ worker.pc # "ui" /\ (worker.pc # "respond" => t.taken = <<>>)
    BY <1>1, <1>13
  <2> QED BY <1>1, <1>11, <1>14, <1>15, <1>16, <1>17, <2>1, DeliveredInUse
<1> QED
  BY <1>1, <1>8, <1>17 DEF op

LEMMA StandingInUse ==
    ASSUME InUse(ra, worker), PendingProcessed \/ NoFrame
    PROVE  InUse(ra', worker')
<1>1. /\ UNCHANGED ra /\ Live(ra, ra.ops) /\ Placed(ra, worker) /\ ra.commands = <<>>
      /\ ra.taken = <<>>
      /\ DOMAIN worker = {"pc", "again", "awarded"} /\ worker.awarded \in BOOLEAN
      /\ \/ worker' = [worker EXCEPT !.pc = "frame"]
         \/ worker' = [worker EXCEPT !.pc = "publish"]
  BY DEF PendingProcessed, NoFrame, At, Goto, InUse, Placed
<1>2. /\ worker'.pc \in {"frame", "publish"} /\ worker'.awarded = worker.awarded
      /\ DOMAIN worker' = {"pc", "again", "awarded"}
  BY <1>1
<1>3. Placed(ra', worker')
  <2>1. <<>> \in Seq(Commands) /\ DOMAIN <<>> = {}
    OBVIOUS
  <2> QED BY <1>1, <1>2, <2>1 DEF Placed
<1> QED
  BY <1>1, <1>2, <1>3 DEF InUse

LEMMA DoFrameInUse ==
    ASSUME InUse(ra, worker), DoFrame, SessionAssumption
    PROVE  InUse(ra', worker')
<1>1. /\ ra' = Awarded(ra) /\ Live(ra, ra.ops) /\ ra.commands = <<>> /\ ra.taken = <<>>
      /\ \A o \in ra.ops : o.kind # "award"
      /\ worker' = [pc |-> "publish", again |-> FALSE, awarded |-> TRUE]
  BY DEF DoFrame, At, InUse, Placed
<1>2. /\ Live(ra', ra'.ops) /\ ra'.commands = <<>> /\ ra'.taken = <<>>
  BY <1>1, AwardedLive DEF SessionAssumption
<1>3. /\ worker'.pc = "publish" /\ worker'.awarded = TRUE
      /\ DOMAIN worker' = {"pc", "again", "awarded"}
  BY <1>1
<1>4. Placed(ra', worker')
  <2>1. <<>> \in Seq(Commands) /\ DOMAIN <<>> = {}
    OBVIOUS
  <2> QED BY <1>2, <1>3, <2>1 DEF Placed
<1> QED
  BY <1>2, <1>3, <1>4 DEF InUse

(* idle: what is tried again waits for an answer like any other.           *)
LEMMA IdleInUse ==
    ASSUME InUse(ra, worker), Idle, SessionAssumption
    PROVE  InUse(ra', worker')
<1>1. /\ worker.pc = "frame" /\ Live(ra, ra.ops) /\ Placed(ra, worker) /\ ra.commands = <<>>
      /\ ra.taken = <<>>
      /\ DOMAIN worker = {"pc", "again", "awarded"} /\ worker.awarded \in BOOLEAN
  BY DEF Idle, At, InUse, Placed
<1>2. <<>> \in Seq(Commands) /\ DOMAIN <<>> = {}
  OBVIOUS
<1>3. CASE worker' = [worker EXCEPT !.pc = "pending", !.again = TRUE] /\ UNCHANGED ra
  <2>1. /\ worker'.pc = "pending" /\ worker'.awarded = worker.awarded
        /\ DOMAIN worker' = {"pc", "again", "awarded"}
    BY <1>1, <1>3
  <2>2. Placed(ra', worker')
    BY <1>1, <1>2, <1>3, <2>1 DEF Placed
  <2> QED BY <1>1, <1>3, <2>1, <2>2 DEF InUse
<1>4. CASE ra' = Called([ra EXCEPT !.later = <<>>], ra.later) /\ worker' = [worker EXCEPT !.pc = "publish"]
  <2> DEFINE s == [ra EXCEPT !.later = <<>>]
             new == ra.later
  <2>1. Typed(ra) /\ Linked(ra, {}) /\ Answerable(ra) /\ DOMAIN ra = Fields
    BY <1>1 DEF Live, Typed
  <2>2. Keeps(s, ra, {"later"}) /\ s.later = <<>>
    BY <2>1 DEF Keeps, Fields
  <2> HIDE DEF s
  <2>3. s.calls = ra.calls /\ s.rejected = ra.rejected /\ s.ops = ra.ops /\ Waiting(s) = Waiting(ra)
    BY <2>2 DEF Keeps, Fields, Waiting
  <2>4. Typed(s) /\ s.down = FALSE
    <3>1. <<>> \in Seq(Ops)
      OBVIOUS
    <3> QED BY <1>1, <2>2, <3>1 DEF Keeps, Fields, Live, Typed
  <2>5. Range(<<>>) = {} /\ IsInjective(<<>>)
    BY DEF Range, IsInjective
  <2>6. Linked(s, Range(new))
    BY <2>1, <2>2, <2>3, <2>5 DEF Linked
  <2>7. new \in Seq(Ops) /\ IsInjective(new)
    BY <2>1 DEF Typed, Linked
  <2>8. /\ Answerable(s) /\ OneUser(s) /\ Coordinated(s) /\ Counted(s, ra.ops)
        /\ \A o \in ra.ops : Numbered(s, o)
    BY <1>1, <2>2, KeepsParts DEF Live
  <2> HIDE DEF new
  <2>9. /\ Keeps(ra', s, {"calls", "http", "lastCall", "rejected"})
        /\ Typed(ra') /\ Answerable(ra') /\ Linked(ra', {})
    <3>1. ra' = Called(s, new) /\ Outstanding \in Nat
      BY <1>4 DEF s, new, SessionAssumption
    <3> QED BY <2>4, <2>6, <2>7, <2>8, <3>1, CalledLinks
  <2>10. /\ ra'.ops = ra.ops /\ ra'.down = FALSE /\ ra'.commands = ra.commands
         /\ ra'.taken = ra.taken
    BY <1>1, <2>2, <2>9 DEF Keeps, Fields, Live
  <2>11. /\ OneUser(ra') /\ Coordinated(ra') /\ Counted(ra', ra.ops)
         /\ \A o \in ra.ops : Numbered(ra', o)
    BY <2>8, <2>9, KeepsParts
  <2>12. Live(ra', ra'.ops)
    BY <2>9, <2>10, <2>11 DEF Live
  <2>13. /\ worker'.pc = "publish" /\ worker'.awarded = worker.awarded
         /\ DOMAIN worker' = {"pc", "again", "awarded"}
    BY <1>1, <1>4
  <2>14. Placed(ra', worker')
    BY <1>1, <1>2, <2>10, <2>13 DEF Placed
  <2> QED BY <1>1, <2>12, <2>13, <2>14 DEF InUse
<1> QED
  BY <1>3, <1>4 DEF Idle, Goto

(* observeSnapshot: whether the game is asked for now or was before, it    *)
(* was in this connection.                                                 *)
LEMMA PublishRaStateInUse ==
    ASSUME InUse(ra, worker), PublishRaState
    PROVE  InUse(ra', worker')
<1> DEFINE observed == Observed(ra.coordinator, ra.shown)
           asks == ra.shown.conn = "online" /\ ra.shown.game = NoUser /\ ~observed.requested
           s == [ra EXCEPT !.coordinator = [observed EXCEPT !.requested = @ \/ asks],
                           !.seen = [conn |-> ra.shown.conn, user |-> ra.shown.user]]
           c == [type |-> "loadGame", user |-> NoUser]
           new == IF asks THEN <<c>> ELSE <<>>
           coordinator == [observed EXCEPT !.requested = @ \/ asks]
           askedIn == IF asks THEN ra.epoch ELSE ra.askedIn
<1>1. /\ worker.pc = "publish" /\ Live(ra, ra.ops) /\ Placed(ra, worker) /\ ra.commands = <<>>
      /\ ra.taken = <<>>
      /\ DOMAIN worker = {"pc", "again", "awarded"} /\ worker.awarded \in BOOLEAN
      /\ worker' = [worker EXCEPT !.pc = "ui", !.again = FALSE]
  BY DEF PublishRaState, At, InUse, Placed
<1>2. /\ DOMAIN ra = Fields /\ OneUser(ra) /\ Coordinated(ra) /\ ra.connGen \in Nat
      /\ ra.epoch \in Nat /\ Typed(ra)
  BY <1>1 DEF Live, Typed
<1>3. /\ ra.shown.conn = ra.conn /\ ra.shown.user = ra.user /\ ra.shown.game = ra.game
      /\ ra.shown.connGen = ra.connGen
  BY <1>2 DEF OneUser
<1>4. ra' = IF ~asks THEN s
            ELSE [s EXCEPT !.commands = Append(@, [type |-> "loadGame", user |-> NoUser]),
                           !.askedIn = s.epoch]
  BY DEF PublishRaState
<1>5. /\ observed.gen = ra.connGen /\ observed.requested \in BOOLEAN
      /\ observed.requested => /\ ra.coordinator.requested /\ ra.coordinator.gen \in {-1, ra.connGen}
                               /\ ra.conn \notin {"loggedOut", "loggingIn", "offline"}
      /\ DOMAIN observed = {"gen", "requested"}
  BY <1>3 DEF Observed
<1> HIDE DEF observed
<1>6. /\ coordinator.gen = ra.connGen /\ coordinator.requested = (observed.requested \/ asks)
      /\ coordinator.requested \in BOOLEAN
  BY <1>5
<1>7. /\ Keeps(ra', ra, {"coordinator", "seen", "commands", "askedIn"})
      /\ ra'.coordinator = coordinator /\ ra'.seen = [conn |-> ra.conn, user |-> ra.user]
      /\ ra'.commands = new /\ ra'.askedIn = askedIn
  <2>1. /\ Keeps(s, ra, {"coordinator", "seen"}) /\ s.coordinator = coordinator
        /\ s.seen = [conn |-> ra.conn, user |-> ra.user] /\ s.commands = <<>> /\ s.epoch = ra.epoch
        /\ s.askedIn = ra.askedIn
    BY <1>1, <1>2, <1>3 DEF Keeps, Fields
  <2> HIDE DEF s, coordinator
  <2>2. CASE ~asks
    BY <1>4, <2>1, <2>2 DEF Keeps
  <2>3. CASE asks
    <3>1. Append(<<>>, c) = <<c>>
      OBVIOUS
    <3>2. ra' = [s EXCEPT !.commands = Append(@, c), !.askedIn = s.epoch]
      BY <1>4, <2>3
    <3> HIDE DEF asks, c
    <3> QED BY <2>1, <2>3, <3>1, <3>2 DEF Keeps, Fields
  <2> QED BY <2>2, <2>3
<1>8. /\ ra'.conn = ra.conn /\ ra'.game = ra.game /\ ra'.user = ra.user /\ ra'.ops = ra.ops
      /\ ra'.taken = ra.taken /\ ra'.epoch = ra.epoch /\ ra'.connGen = ra.connGen
  BY <1>7 DEF Keeps, Fields
<1>9. asks <=> ra.conn = "online" /\ ra.game = NoUser /\ ~observed.requested
  BY <1>3
<1> HIDE DEF s, asks, coordinator, c
<1>10. observed.requested /\ ra.conn = "online" => ra.askedIn = ra.epoch
  <2> SUFFICES ASSUME observed.requested, ra.conn = "online" PROVE ra.askedIn = ra.epoch
    OBVIOUS
  <2>1. ra.coordinator.requested /\ ra.coordinator.gen \in {-1, ra.connGen}
    BY <1>5
  <2>2. 0 <= ra.coordinator.gen
    BY <1>2, <2>1 DEF Coordinated, Connected
  <2>3. ra.coordinator.gen = ra.connGen
    BY <2>1, <2>2
  <2> QED BY <1>2, <2>1, <2>3 DEF Coordinated
<1>11. ra'.coordinator.requested => ra.conn \notin {"loggedOut", "loggingIn", "offline", "error"}
  BY <1>2, <1>5, <1>6, <1>7, <1>9 DEF Coordinated
<1>12. ra'.coordinator.requested /\ ra.conn = "online" => ra'.askedIn = ra.epoch
  BY <1>6, <1>7, <1>10
<1>13. Live(ra', ra'.ops)
  <2>1. Typed(ra') /\ ra'.down = FALSE
    BY <1>1, <1>7 DEF Keeps, Fields, Live, Typed
  <2>2. Coordinated(ra')
    <3>1. /\ ra'.coordinator.requested \in BOOLEAN /\ ra'.coordinator.gen = ra.connGen
          /\ ra.connGen \in Nat
      BY <1>2, <1>6, <1>7
    <3> QED BY <1>8, <1>11, <1>12, <3>1 DEF Coordinated
  <2>3. /\ Linked(ra', {}) /\ Answerable(ra') /\ OneUser(ra') /\ Counted(ra', ra.ops)
        /\ \A o \in ra.ops : Numbered(ra', o)
    BY <1>1, <1>7, KeepsParts DEF Live
  <2> QED BY <1>8, <2>1, <2>2, <2>3 DEF Live
<1>14. /\ worker'.pc = "ui" /\ worker'.awarded = worker.awarded
       /\ DOMAIN worker' = {"pc", "again", "awarded"}
  BY <1>1
<1>15. Placed(ra', worker')
  <2>1. /\ new \in Seq(Commands) /\ \A i \in DOMAIN new : i = 1 /\ new[i] = c /\ asks
    <3>1. c \in Commands
      BY DEF c, Commands, Names
    <3> QED BY <3>1
  <2>2. c.type = "loadGame"
    BY DEF c
  <2>3. ra.conn = "online" /\ ra.game = NoUser => ra'.askedIn = ra.epoch
    BY <1>7, <1>9, <1>10
  <2>4. ra.conn \notin Connected => ~ra'.coordinator.requested
    <3>1. CASE asks
      BY <1>9, <3>1 DEF Connected
    <3>2. CASE ~asks
      <4> SUFFICES ASSUME ra'.coordinator.requested, ra.conn \notin Connected PROVE FALSE
        OBVIOUS
      <4>1. ra.coordinator.requested
        BY <1>5, <1>6, <1>7, <3>2
      <4> QED BY <1>2, <1>11 DEF Typed, Connected
    <3> QED BY <3>1, <3>2
  <2> HIDE DEF new
  <2> QED BY <1>1, <1>7, <1>8, <1>9, <1>14, <2>1, <2>2, <2>3, <2>4 DEF Placed
<1> QED
  BY <1>1, <1>13, <1>14, <1>15 DEF InUse

(* The threads of the transport: a request moves, and is in the transport  *)
(* as before.                                                              *)
LEMMA TransportThreadMoves ==
    ASSUME DOMAIN ra = Fields, ra.http \in Transports, Carries(ra.http, "api"), TransportThread
    PROVE  /\ Keeps(ra', ra, {"http"}) /\ ra'.http \in Transports /\ Carries(ra'.http, "api")
           /\ Held(ra'.http, "api") = Held(ra.http, "api")
           /\ ra'.http.outstanding = ra.http.outstanding
           /\ UNCHANGED worker
<1>1. "api" \in Channels /\ UNCHANGED worker
  BY DEF Channels, TransportThread
<1>2. ASSUME NEW h, ra' = [ra EXCEPT !.http = h]
      PROVE  Keeps(ra', ra, {"http"}) /\ ra'.http = h
  BY <1>2 DEF Keeps, Fields
<1>3. CASE CanStart(ra.http, "api") /\ ra' = [ra EXCEPT !.http = Started(@, "api")]
  <2> DEFINE h == Started(ra.http, "api")
  <2>1. /\ h \in Transports /\ Carries(h, "api")
        /\ Held(h, "api") = Held(ra.http, "api") /\ h.outstanding = ra.http.outstanding
    BY <1>1, <1>3, StartedCarries
  <2>2. ra' = [ra EXCEPT !.http = h]
    BY <1>3
  <2> HIDE DEF h
  <2> QED BY <1>1, <1>2, <2>1, <2>2
<1>4. CASE /\ CanAnswer(ra.http, "api")
           /\ \E ok \in BOOLEAN : ra' = [ra EXCEPT !.http = Answered(@, "api", ok)]
  <2>1. PICK ok \in BOOLEAN : ra' = [ra EXCEPT !.http = Answered(@, "api", ok)]
    BY <1>4
  <2> DEFINE h == Answered(ra.http, "api", ok)
  <2>2. /\ h \in Transports /\ Carries(h, "api")
        /\ Held(h, "api") = Held(ra.http, "api") /\ h.outstanding = ra.http.outstanding
    BY <1>1, <1>4, AnsweredCarries
  <2>3. ra' = [ra EXCEPT !.http = h]
    BY <2>1
  <2> HIDE DEF h
  <2> QED BY <1>1, <1>2, <2>2, <2>3
<1> QED
  BY <1>3, <1>4 DEF TransportThread

LEMMA TransportThreadInUse ==
    ASSUME InUse(ra, worker), TransportThread
    PROVE  InUse(ra', worker')
<1>1. Live(ra, ra.ops) /\ Placed(ra, worker) /\ Typed(ra) /\ Answerable(ra) /\ DOMAIN ra = Fields
  BY DEF InUse, Live, Typed
<1>2. /\ Keeps(ra', ra, {"http"}) /\ ra'.http \in Transports /\ Carries(ra'.http, "api")
      /\ Held(ra'.http, "api") = Held(ra.http, "api")
      /\ ra'.http.outstanding = ra.http.outstanding
      /\ UNCHANGED worker
  BY <1>1, TransportThreadMoves DEF Typed, Answerable
<1>3. Typed(ra') /\ ra'.down = FALSE
  BY <1>1, <1>2 DEF Keeps, Fields, Live, Typed
<1>4. Answerable(ra')
  <2>1. ra'.calls = ra.calls /\ ra'.taken = ra.taken /\ ra'.lastCall = ra.lastCall
    BY <1>2 DEF Keeps, Fields
  <2> QED BY <1>1, <1>2, <2>1 DEF Answerable
<1>5. /\ Linked(ra', {}) /\ OneUser(ra') /\ Coordinated(ra') /\ Counted(ra', ra.ops)
      /\ \A o \in ra.ops : Numbered(ra', o)
  BY <1>1, <1>2, KeepsParts DEF Live
<1>6. ra'.ops = ra.ops
  BY <1>2 DEF Keeps, Fields
<1>7. Live(ra', ra'.ops)
  BY <1>3, <1>4, <1>5, <1>6 DEF Live
<1>8. Placed(ra', worker')
  BY <1>1, <1>2 DEF Placed, Keeps, Fields
<1> QED
  BY <1>2, <1>7, <1>8 DEF InUse

(* shutdown: what the user saw last stays.                                 *)
LEMMA ShutdownEnds ==
    ASSUME InUse(ra, worker), ShutdownSession
    PROVE  Ended(ra') /\ ShownIsOneUsers' /\ GameIsAskedFor'
<1>1. DOMAIN ra = Fields /\ ra.http \in Transports /\ Carries(ra.http, "api") /\ UNCHANGED worker
  BY DEF InUse, Live, Typed, Answerable, ShutdownSession
<1>2. /\ Keeps(ra', ra, {"down", "commands", "calls", "rejected", "ops", "later"})
      /\ ra'.down = TRUE /\ ra'.calls = {} /\ ra'.rejected = <<>> /\ ra'.ops = {}
      /\ ra'.later = <<>>
  BY <1>1 DEF ShutdownSession, Keeps, Fields
<1>3. /\ DOMAIN ra' = Fields /\ ra'.http = ra.http /\ ra'.shown = ra.shown
      /\ ra'.askedIn = ra.askedIn /\ ra'.epoch = ra.epoch
  BY <1>2 DEF Keeps, Fields
<1>4. Ended(ra')
  BY <1>1, <1>2, <1>3 DEF Ended
<1>5. ShownIsOneUsers' /\ GameIsAskedFor'
  BY <1>1, <1>3, InUseShows DEF ShownIsOneUsers, GameIsAskedFor
<1> QED
  BY <1>4, <1>5

(* Once it has ended, only the transport goes on.                          *)
LEMMA EndedStays ==
    ASSUME Ended(ra), ShownIsOneUsers, GameIsAskedFor, SessionNext
    PROVE  Ended(ra') /\ ShownIsOneUsers' /\ GameIsAskedFor'
<1>1. /\ DOMAIN ra = Fields /\ ra.down = TRUE /\ ra.http \in Transports
      /\ Carries(ra.http, "api") /\ "api" \in Channels
  BY DEF Ended, Channels
<1>2. StopTransport \/ TransportThread
  BY <1>1 DEF SessionNext, At, UserLogsIn, UserLogsOut, NoCommand, ProcessCommand, FlushRejected,
              TakeCompleted, ProcessResponse, PendingProcessed, DoFrame, Idle, NoFrame,
              PublishRaState, ShutdownSession
<1>3. /\ Keeps(ra', ra, {"http"}) /\ UNCHANGED worker
      /\ ra'.http \in Transports /\ Carries(ra'.http, "api")
  <2>1. CASE TransportThread
    BY <1>1, <2>1, TransportThreadMoves
  <2>2. ASSUME NEW h \in {Stopped(ra.http), Joined(ra.http)}, ra' = [ra EXCEPT !.http = h]
        PROVE  Keeps(ra', ra, {"http"}) /\ ra'.http \in Transports /\ Carries(ra'.http, "api")
    <3>1. h \in Transports /\ Carries(h, "api")
      BY <1>1, StoppedCarries, JoinedCarries
    <3>2. Keeps(ra', ra, {"http"}) /\ ra'.http = h
      BY <1>1, <2>2 DEF Keeps, Fields
    <3> QED BY <3>1, <3>2
  <2>3. CASE StopTransport
    BY <2>2, <2>3 DEF StopTransport
  <2> QED BY <1>2, <2>1, <2>3
<1>4. /\ ra'.down = ra.down /\ ra'.ops = ra.ops /\ ra'.calls = ra.calls /\ DOMAIN ra' = Fields
      /\ ra'.rejected = ra.rejected /\ ra'.later = ra.later /\ ra'.shown = ra.shown
      /\ ra'.askedIn = ra.askedIn /\ ra'.epoch = ra.epoch
  BY <1>3 DEF Keeps, Fields
<1> QED
  BY <1>3, <1>4 DEF Ended, ShownIsOneUsers, GameIsAskedFor

LEMMA SessionBegins == SessionInit => SessionInv
<1> SUFFICES ASSUME SessionInit PROVE InUse(ra, worker)
  BY DEF SessionInv
<1> DEFINE t == NewTransport
<1>1. PICK cs \in {<<>>} \cup {<<[type |-> "login", user |-> u]>> : u \in Users} :
          ra = [NewSession EXCEPT !.commands = cs]
  BY DEF SessionInit
<1>2. worker = [pc |-> "ui", again |-> FALSE, awarded |-> FALSE]
  BY DEF SessionInit
<1>3. t \in Transports /\ Carries(t, "api") /\ Held(t, "api") = {} /\ t.outstanding["api"] = 0
  BY NewCarries DEF Channels, NewTransport
<1>4. /\ DOMAIN ra = Fields /\ ra.conn = "loggedOut" /\ ra.user = NoUser /\ ra.game = NoUser
      /\ ra.library = {} /\ ra.merged = {} /\ ra.profiles = 0 /\ ra.titles = 0 /\ ra.loginGen = 0
      /\ ra.gameGen = 0 /\ ra.profileGen = 0 /\ ra.connGen = 0 /\ ra.down = FALSE
      /\ ra.commands = cs
      /\ ra.shown = [conn |-> "loggedOut", user |-> NoUser, game |-> NoUser, library |-> {},
                     connGen |-> 0]
  BY <1>1 DEF NewSession, Fields
<1>5. /\ ra.calls = {} /\ ra.rejected = <<>> /\ ra.taken = <<>> /\ ra.lastCall = 0
      /\ ra.client = [user |-> NoUser, game |-> NoUser] /\ ra.ops = {} /\ ra.later = <<>>
      /\ ra.http = t /\ ra.seen = [conn |-> "loggedOut", user |-> NoUser]
      /\ ra.coordinator = [gen |-> -1, requested |-> FALSE] /\ ra.epoch = 0 /\ ra.askedIn = 0
  BY <1>1 DEF NewSession, NoRequest
<1> HIDE DEF t
<1>6. /\ <<>> \in Seq(Ops) /\ <<>> \in Seq(Answers) /\ DOMAIN <<>> = {} /\ Range(<<>>) = {}
      /\ IsInjective(<<>>) /\ DistinctIds(<<>>) /\ IdsOf(<<>>) = {}
  BY DEF Range, IsInjective, DistinctIds, IdsOf
<1>7. Typed(ra)
  BY <1>3, <1>4, <1>5, <1>6, FS_EmptySet DEF Typed, Names
<1>8. Linked(ra, {}) /\ Answerable(ra)
  <2>1. Waiting(ra) = {}
    BY <1>5 DEF Waiting
  <2>2. 0 <= Outstanding
    BY SessionAssumption DEF SessionAssumption
  <2> QED BY <1>3, <1>5, <1>6, <2>1, <2>2 DEF Linked, Answerable
<1>9. Counted(ra, ra.ops) /\ OneUser(ra) /\ Coordinated(ra)
  <2>1. AskedProfiles(ra, {}) = {}
    BY DEF AskedProfiles
  <2>2. Counted(ra, ra.ops)
    BY <1>4, <1>5, <2>1, FS_EmptySet DEF Counted
  <2>3. OneUser(ra) /\ Coordinated(ra)
    BY <1>4, <1>5 DEF OneUser, Coordinated, Connected
  <2> QED BY <2>2, <2>3
<1>10. Live(ra, ra.ops)
  BY <1>4, <1>5, <1>7, <1>8, <1>9 DEF Live
<1>11. /\ cs \in Seq(Commands)
       /\ \A i \in DOMAIN cs : cs[i].type = "login"
  <2>1. CASE cs = <<>>
    BY <2>1
  <2>2. ASSUME NEW u \in Users, cs = <<[type |-> "login", user |-> u]>>
        PROVE  cs \in Seq(Commands) /\ \A i \in DOMAIN cs : cs[i].type = "login"
    <3> DEFINE c == [type |-> "login", user |-> u]
    <3>1. c \in Commands /\ c.type = "login"
      BY DEF Commands, Names
    <3> HIDE DEF c
    <3>2. cs = <<c>>
      BY <2>2 DEF c
    <3> QED BY <3>1, <3>2
  <2> QED BY <2>1, <2>2
<1>12. Placed(ra, worker)
  BY <1>2, <1>4, <1>5, <1>11 DEF Placed, Connected
<1> QED
  BY <1>2, <1>10, <1>12 DEF InUse

LEMMA SessionKeeps == SessionInv /\ [SessionNext]_sessionVars => SessionInv'
<1> SUFFICES ASSUME SessionInv, [SessionNext]_sessionVars PROVE SessionInv'
  OBVIOUS
<1>1. CASE UNCHANGED sessionVars
  BY <1>1 DEF sessionVars, SessionInv, ShownIsOneUsers, GameIsAskedFor
<1>2. CASE SessionNext /\ InUse(ra, worker)
  <2>1. ra.down = FALSE
    BY <1>2 DEF InUse, Live
  <2>2. CASE UserLogsIn \/ UserLogsOut \/ NoCommand
    BY <1>2, <2>2, UserInUse DEF SessionInv
  <2>3. CASE ProcessCommand
    BY <1>2, <2>3, ProcessCommandInUse, SessionAssumption DEF SessionInv
  <2>4. CASE FlushRejected
    BY <1>2, <2>4, FlushRejectedInUse, SessionAssumption DEF SessionInv
  <2>5. CASE TakeCompleted
    BY <1>2, <2>5, TakeCompletedInUse, SessionAssumption DEF SessionInv
  <2>6. CASE ProcessResponse
    BY <1>2, <2>6, ProcessResponseInUse, SessionAssumption DEF SessionInv
  <2>7. CASE PendingProcessed \/ NoFrame
    BY <1>2, <2>7, StandingInUse DEF SessionInv
  <2>8. CASE DoFrame
    BY <1>2, <2>8, DoFrameInUse, SessionAssumption DEF SessionInv
  <2>9. CASE Idle
    BY <1>2, <2>9, IdleInUse, SessionAssumption DEF SessionInv
  <2>10. CASE PublishRaState
    BY <1>2, <2>10, PublishRaStateInUse DEF SessionInv
  <2>11. CASE ShutdownSession
    BY <1>2, <2>11, ShutdownEnds DEF SessionInv
  <2>12. CASE StopTransport
    BY <2>1, <2>12 DEF StopTransport
  <2>13. CASE TransportThread
    BY <1>2, <2>13, TransportThreadInUse DEF SessionInv
  <2> QED BY <1>2, <2>2, <2>3, <2>4, <2>5, <2>6, <2>7, <2>8, <2>9, <2>10, <2>11, <2>12, <2>13
          DEF SessionNext
<1>3. CASE SessionNext /\ Ended(ra) /\ ShownIsOneUsers /\ GameIsAskedFor
  BY <1>3, EndedStays DEF SessionInv
<1> QED
  BY <1>1, <1>2, <1>3 DEF SessionInv

(* What is shown belongs to one user: answers that arrive after a logout   *)
(* or for an earlier login leave no trace in the profile                   *)
(* (publishSnapshot, and the generations in every callback's context).     *)
THEOREM ShownBelongs == SessionSpec => []ShownIsOneUsers
<1>1. SessionInv => ShownIsOneUsers
  BY InUseShows DEF SessionInv, ShownIsOneUsers
<1> QED
  BY <1>1, SessionBegins, SessionKeeps, PTL DEF SessionSpec

(* Online without a game, the worker has asked for it in this connection,  *)
(* even if it was lost and made anew between two publications              *)
(* (RaRealtimeLifecycleCoordinator::observeSnapshot).                      *)
THEOREM GameAsked == SessionSpec => []GameIsAskedFor
<1>1. SessionInv => GameIsAskedFor
  BY InUseShows DEF SessionInv, GameIsAskedFor
<1> QED
  BY <1>1, SessionBegins, SessionKeeps, PTL DEF SessionSpec

(* Calls are as many as their ids and as their operations.                 *)
LEMMA CallsCount ==
    ASSUME NEW C, IsFiniteSet({c.id : c \in C}),
           \A c, d \in C : (c.id = d.id \/ c.op = d.op) => c = d
    PROVE  /\ IsFiniteSet({c.op : c \in C})
           /\ Cardinality({c.op : c \in C}) = Cardinality(C)
<1> DEFINE ids == {c.id : c \in C}
           ops == {c.op : c \in C}
           toId == [c \in C |-> c.id]
           toOp == [c \in C |-> c.op]
<1>1. toId \in Bijection(C, ids)
  BY DEF Bijection, Injection, Surjection, IsInjective
<1>2. toOp \in Bijection(C, ops)
  BY DEF Bijection, Injection, Surjection, IsInjective
<1>3. ExistsBijection(C, ops) /\ toId \in Injection(C, ids)
  BY <1>1, <1>2 DEF ExistsBijection, Bijection
<1>4. IsFiniteSet(ids)
  OBVIOUS
<1> HIDE DEF ids, ops, toId
<1>5. IsFiniteSet(C)
  BY <1>3, <1>4, FS_Injection
<1>6. IsFiniteSet(ops) /\ Cardinality(ops) = Cardinality(C)
  BY <1>3, <1>5, FS_Bijection
<1> QED
  BY <1>6 DEF ops

(* Every operation of the library waits for one answer that is still to    *)
(* come, and after shutdown none waits (handleServerCall, processResponse, *)
(* flushRejectedServerCalls and shutdown).                                 *)
THEOREM CallsAnswered == SessionSpec => []RequestsAreAnswered
<1>1. ASSUME InUse(ra, worker) PROVE RequestsAreAnswered
  <2> DEFINE waiting == Waiting(ra)
             refused == Range(ra.rejected)
             tried == Range(ra.later)
             held == Held(ra.http, "api")
             taken == IdsOf(ra.taken)
  <2>1. Live(ra, ra.ops) /\ Linked(ra, {}) /\ Answerable(ra) /\ Typed(ra) /\ ra.down = FALSE
    BY <1>1 DEF InUse, Live
  <2>2. /\ IsFiniteSet(held) /\ Cardinality(held) = ra.http.outstanding["api"]
        /\ IsFiniteSet(taken) /\ held \cap taken = {}
    <3>1. ra.http \in Transports /\ "api" \in Channels /\ Carries(ra.http, "api")
      BY <2>1 DEF Typed, Answerable, Channels
    <3>2. ra.taken \in Seq(Answers) /\ DistinctIds(ra.taken)
      BY <2>1 DEF Typed, Answerable
    <3> QED BY <2>1, <3>1, <3>2, HeldCount, IdsCount DEF Answerable
  <2>3. IsFiniteSet({c.id : c \in ra.calls})
    <3>1. {c.id : c \in ra.calls} = held \cup taken
      BY <2>1 DEF Answerable
    <3> HIDE DEF held, taken
    <3> QED BY <2>2, <3>1, UnionCount
  <2>4. IsFiniteSet(waiting) /\ Cardinality(waiting) = Cardinality(ra.calls)
    BY <2>1, <2>3, CallsCount DEF Linked, Waiting
  <2>5. /\ IsFiniteSet(refused) /\ Cardinality(refused) = Len(ra.rejected)
        /\ IsFiniteSet(tried) /\ Cardinality(tried) = Len(ra.later)
    BY <2>1, RangeCount DEF Typed, Linked
  <2>6. /\ ra.ops = (waiting \cup refused) \cup tried
        /\ waiting \cap refused = {} /\ (waiting \cup refused) \cap tried = {}
    BY <2>1 DEF Linked
  <2> HIDE DEF waiting, refused, tried
  <2>7. Cardinality(ra.calls) + Len(ra.rejected) + Len(ra.later) = Cardinality(ra.ops)
    <3> DEFINE asked == waiting \cup refused
    <3>1. IsFiniteSet(asked) /\ Cardinality(asked) = Cardinality(waiting) + Cardinality(refused)
      BY <2>4, <2>5, <2>6, UnionCount
    <3>2. ra.ops = asked \cup tried /\ asked \cap tried = {}
      BY <2>6
    <3> HIDE DEF asked
    <3>3. Cardinality(ra.ops) = Cardinality(asked) + Cardinality(tried)
      BY <2>5, <3>1, <3>2, UnionCount
    <3> QED BY <2>4, <2>5, <3>1, <3>3
  <2>8. ra.ops = {c.op : c \in ra.calls} \cup Range(ra.rejected) \cup Range(ra.later)
    BY <2>6 DEF waiting, refused, tried, Waiting
  <2> QED BY <2>1, <2>2, <2>7, <2>8 DEF RequestsAreAnswered, Answerable
<1>2. ASSUME Ended(ra) PROVE RequestsAreAnswered
  <2>1. ra.http.outstanding["api"] = Cardinality(Held(ra.http, "api"))
    BY <1>2, HeldCount DEF Ended, Channels
  <2>2. Range(<<>>) = {} /\ Len(<<>>) = 0 /\ Cardinality({}) = 0
    BY FS_EmptySet DEF Range
  <2> QED BY <1>2, <2>1, <2>2 DEF Ended, RequestsAreAnswered
<1>3. SessionInv => RequestsAreAnswered
  BY <1>1, <1>2 DEF SessionInv
<1> QED
  BY <1>3, SessionBegins, SessionKeeps, PTL DEF SessionSpec
=============================================================================
