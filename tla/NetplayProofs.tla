---------------------------- MODULE NetplayProofs -----------------------------
(***************************************************************************)
(* The safety of Netplay for any set of buttons, any window, any delay and *)
(* any number of frames.                                                   *)
(*                                                                         *)
(* The argument: every input that is under way, waiting in the transport   *)
(* or held by the session is the mask the peer applied to that frame (the  *)
(* peer applies one mask per frame and never changes it), so a record that *)
(* was not predicted, or was corrected, carries the peer's mask; and the   *)
(* machine is at all times the replay of the window, which is where a      *)
(* rollback finds the state to restart from.                               *)
(***************************************************************************)
EXTENDS Netplay, TLAPS, FiniteSetTheorems, WellFoundedInduction

-----------------------------------------------------------------------------
(* What the operators of the session and its transport return and          *)
(* preserve.                                                               *)

(* Every entry of a map is the entry of `log' for its frame.               *)
AgreesWith(map, log) ==
    \A f \in DOMAIN map : f \in DOMAIN log /\ map[f] = log[f]

(* What the records of a window say of the machine `state' they replay, of *)
(* the local inputs `mine' and of the peer's inputs `log'.                 *)
GoodHistory(h, state, mine, log) ==
    \A g \in DOMAIN h :
        /\ IsRecord(h[g])
        /\ h[g].local = mine[g]
        /\ state[g] = h[g].local \cup h[g].remote
        /\ h[g].pre = Before(state, g)
        /\ ~h[g].predicted => g \in DOMAIN log /\ h[g].remote = log[g]

(* There are two ends.                                                     *)
LEMMA TwoPeers ==
    ASSUME NEW p \in Peers
    PROVE  /\ Other(p) \in Peers /\ Other(p) # p /\ Other(Other(p)) = p
           /\ \A q \in Peers : q # p => q = Other(p)
  BY PeersAssumption DEF Peers, Other

(* delayLocalInput returns a mask and leaves a line of masks.              *)
LEMMA DelayLineType ==
    ASSUME NEW line \in Seq(Mask), NEW input \in Mask, NEW d \in Nat
    PROVE  /\ DelayedInput(line, input, d) \in Mask
           /\ DelayLineAfter(line, input, d) \in Seq(Mask)
<1>1. {} \in Mask
  BY DEF Mask
<1>2. Resized(line, d) \in Seq(Mask)
  <2>1. CASE Len(line) >= d
    <3>1. SubSeq(line, Len(line) - d + 1, Len(line)) \in Seq(Mask)
      BY <2>1
    <3> QED
      BY <2>1, <3>1 DEF Resized
  <2>2. CASE ~(Len(line) >= d)
    <3>1. d - Len(line) \in Nat
      BY <2>2
    <3>2. [i \in 1..(d - Len(line)) |-> {}] \in Seq(Mask)
      BY <1>1, <3>1
    <3> QED
      BY <2>2, <3>2 DEF Resized
  <2> QED
    BY <2>1, <2>2
<1>3. /\ Shifted(line, input, d) \in Seq(Mask)
      /\ Shifted(line, input, d) # << >>
  BY <1>2 DEF Shifted
<1>4. /\ Head(Shifted(line, input, d)) \in Mask
      /\ Tail(Shifted(line, input, d)) \in Seq(Mask)
  BY <1>3
<1> QED
  BY <1>4 DEF DelayedInput, DelayLineAfter

(* drainIncoming stores what the datagrams say, over what was there.       *)
LEMMA MergeAgrees ==
    ASSUME NEW map, NEW batch, NEW log, AgreesWith(map, log),
           \A d \in batch : d[1] \in DOMAIN log /\ d[2] = log[d[1]]
    PROVE  AgreesWith(Merge(map, batch), log)
<1> SUFFICES ASSUME NEW f \in DOMAIN Merge(map, batch)
             PROVE  f \in DOMAIN log /\ Merge(map, batch)[f] = log[f]
  BY DEF AgreesWith
<1>1. f \in DOMAIN map \cup {d[1] : d \in batch}
  BY DEF Merge
<1>2. CASE \E d \in batch : d[1] = f
  <2> DEFINE last == CHOOSE d \in batch : d[1] = f
  <2>1. last \in batch /\ last[1] = f
    BY <1>2
  <2>2. Merge(map, batch)[f] = last[2]
    BY <1>1, <1>2 DEF Merge
  <2> QED
    BY <2>1, <2>2
<1>3. CASE ~\E d \in batch : d[1] = f
  BY <1>1, <1>3 DEF Merge, AgreesWith
<1> QED
  BY <1>2, <1>3

(* A log that grows by a frame keeps what agreed with it.                  *)
LEMMA PutAgrees ==
    ASSUME NEW map, NEW log, NEW n, NEW v, n \notin DOMAIN log,
           AgreesWith(map, log)
    PROVE  AgreesWith(map, Put(log, n, v))
  BY DEF AgreesWith, Put

(* Accepting inputs that agree with the log keeps the authoritative inputs *)
(* in agreement.                                                           *)
LEMMA AcceptAgrees ==
    ASSUME NEW auth0, NEW late, NEW log, AgreesWith(auth0, log), AgreesWith(late, log)
    PROVE  AgreesWith(AcceptAll(auth0, late), log)
  BY DEF AgreesWith, AcceptAll

(* The earliest of some frames is one of them, and no later than any.      *)
LEMMA EarliestIsLeast ==
    ASSUME NEW S \in SUBSET Nat, S # {}
    PROVE  Earliest(S) \in S /\ \A g \in S : Earliest(S) <= g
<1>1. PICK e \in S : \A g \in S : ~(<<g, e>> \in OpToRel(<, Nat))
  BY NatLessThanWellFounded, WFMin
<1>2. ASSUME NEW g \in S PROVE e <= g
  <2>1. g \in Nat /\ e \in Nat
    OBVIOUS
  <2>2. <<g, e>> \in Nat \X Nat
    BY <2>1
  <2>3. ~(g < e)
    BY <1>1, <2>2 DEF OpToRel
  <2> QED
    BY <2>1, <2>3
<1> QED
  BY <1>2 DEF Earliest

(* Trimming the window and the new frame gives the next window.            *)
LEMMA NewestIsWindow ==
    ASSUME NEW n \in Nat
    PROVE  Newest(Window(n) \cup {n}) = Window(n + 1)
<1> USE HistoryLimitAssumption
<1>1. ASSUME NEW f \in Window(n) \cup {n}
      PROVE  Cardinality({g \in Window(n) \cup {n} : g > f}) = n - f
  <2>1. {g \in Window(n) \cup {n} : g > f} = (f + 1)..n
    BY DEF Window
  <2>2. f \in Int /\ f + 1 \in Int /\ n \in Int /\ f <= n
    BY DEF Window
  <2>3. Cardinality((f + 1)..n) = IF f + 1 > n THEN 0 ELSE n - (f + 1) + 1
    BY <2>2, FS_Interval
  <2>4. Cardinality((f + 1)..n) = n - f
    BY <2>2, <2>3
  <2> QED
    BY <2>1, <2>4
<1>2. Newest(Window(n) \cup {n}) = {f \in Window(n) \cup {n} : n - f < HistoryLimit}
  BY <1>1 DEF Newest
<1>3. {f \in Window(n) \cup {n} : n - f < HistoryLimit} = Window(n + 1)
  BY DEF Window
<1> QED
  BY <1>2, <1>3

(* The window `h' replays the machine `state' after n frames, and only its *)
(* mispredicted frames contradict the authoritative inputs `a'.            *)
NeedsRepair(n, state, h, a, late, mine, log) ==
    /\ n \in Nat
    /\ state = Before(state, n) /\ \A g \in 0..(n - 1) : state[g] \in Mask
    /\ DOMAIN h = Window(n) /\ GoodHistory(h, state, mine, log)
    /\ AgreesWith(a, log) /\ IsMaskMap(a)
    /\ Mispredicted(h, late) # {}
    /\ \A g \in DOMAIN h \cap DOMAIN a :
          g \in Mispredicted(h, late) \/ h[g].remote = a[g]

(* The window `h2' replays the machine `state2', contradicts no input, and *)
(* a frame either kept what it ran with or ran with what both ends applied.*)
Repaired(n, state, h, a, mine, log, state2, h2) ==
    /\ state2 = Before(state2, n) /\ \A g \in 0..(n - 1) : state2[g] \in Mask
    /\ DOMAIN h2 = DOMAIN h
    /\ GoodHistory(h2, state2, mine, log)
    /\ \A g \in DOMAIN h2 \cap DOMAIN a : h2[g].remote = a[g]
    /\ \A g \in 0..(n - 1) :
          state2[g] = state[g]
          \/ (g \in DOMAIN log /\ state2[g] = mine[g] \cup log[g])

(* resimulateFrom the earliest misprediction repairs the window.           *)
LEMMA RollbackRepairs ==
    ASSUME NEW n, NEW state, NEW h, NEW a, NEW late, NEW mine, NEW log,
           NeedsRepair(n, state, h, a, late, mine, log),
           NEW from, from = Earliest(Mispredicted(h, late)),
           NEW state2, state2 = Resimulated(state, h, a, from),
           NEW h2, h2 = RefreshedHistory(h, a, from, state2)
    PROVE  Repaired(n, state, h, a, mine, log, state2, h2)
<1>0. /\ n \in Nat
      /\ state = Before(state, n) /\ \A g \in 0..(n - 1) : state[g] \in Mask
      /\ DOMAIN h = Window(n) /\ GoodHistory(h, state, mine, log)
      /\ AgreesWith(a, log) /\ IsMaskMap(a)
      /\ Mispredicted(h, late) # {}
      /\ \A g \in DOMAIN h \cap DOMAIN a :
            g \in Mispredicted(h, late) \/ h[g].remote = a[g]
  BY DEF NeedsRepair
<1> USE <1>0
<1>1. /\ from \in DOMAIN h /\ from \in 0..(n - 1)
      /\ \A g \in Mispredicted(h, late) : from <= g
      /\ DOMAIN h \subseteq 0..(n - 1)
  <2>1. DOMAIN h \subseteq 0..(n - 1)
    BY DEF Window
  <2>2. Mispredicted(h, late) \subseteq DOMAIN h
    BY DEF Mispredicted
  <2>3. Mispredicted(h, late) \in SUBSET Nat
    BY <2>1, <2>2
  <2> QED
    BY <2>1, <2>2, <2>3, EarliestIsLeast
<1>2. \A g \in 0..(n - 1) : g >= from => g \in DOMAIN h
  BY <1>1, HistoryLimitAssumption DEF Window
<1>3. DOMAIN state = 0..(n - 1)
  BY DEF Before
<1>4. \A g \in 0..(n - 1) : g < from => state2[g] = state[g]
  <2>1. h[from].pre = Before(state, from)
    BY <1>1 DEF GoodHistory
  <2> QED
    BY <1>1, <1>3, <2>1 DEF Resimulated, Before
<1>5. ASSUME NEW g \in 0..(n - 1), g >= from
      PROVE  LET rec == CorrectedRecord(h[g], a, g)
             IN  /\ IsRecord(rec)
                 /\ rec.local = mine[g]
                 /\ rec.remote = IF g \in DOMAIN a THEN a[g] ELSE h[g].remote
                 /\ ~rec.predicted => g \in DOMAIN log /\ rec.remote = log[g]
                 /\ state2[g] = rec.local \cup rec.remote
  <2>1. g \in DOMAIN h
    BY <1>2, <1>5
  <2>2. /\ IsRecord(h[g]) /\ h[g].local = mine[g]
        /\ ~h[g].predicted => g \in DOMAIN log /\ h[g].remote = log[g]
    BY <2>1 DEF GoodHistory
  <2>3. g \in DOMAIN a => g \in DOMAIN log /\ a[g] = log[g] /\ a[g] \in Mask
    BY DEF AgreesWith, IsMaskMap
  <2>4. state2[g] = CorrectedRecord(h[g], a, g).local
                    \cup CorrectedRecord(h[g], a, g).remote
    BY <1>3, <1>5, <2>1 DEF Resimulated
  <2>5. CASE g \in DOMAIN a
    <3>1. CorrectedRecord(h[g], a, g) =
             [local |-> h[g].local, remote |-> a[g], predicted |-> FALSE,
              pre |-> h[g].pre, pad |-> h[g].pad, marks |-> h[g].marks]
      BY <2>2, <2>5 DEF CorrectedRecord, IsRecord
    <3>2. h[g].local \in Mask
      BY <2>2 DEF IsRecord
    <3>3. IsRecord(CorrectedRecord(h[g], a, g))
      BY <3>1, <3>2, <2>3, <2>5 DEF IsRecord
    <3> QED
      BY <2>2, <2>3, <2>4, <2>5, <3>1, <3>3
  <2>6. CASE g \notin DOMAIN a
    BY <2>2, <2>4, <2>6 DEF CorrectedRecord
  <2> QED
    BY <2>5, <2>6
<1>6. state2 = Before(state2, n)
  BY <1>3 DEF Resimulated, Before
<1>7. \A g \in 0..(n - 1) : state2[g] \in Mask
  <2>1. ASSUME NEW g \in 0..(n - 1) PROVE state2[g] \in Mask
    <3>1. CASE g < from
      BY <1>4, <3>1
    <3>2. CASE g >= from
      BY <1>5, <3>2 DEF IsRecord, Mask
    <3> QED
      BY <1>1, <3>1, <3>2
  <2> QED
    BY <2>1
<1>8. DOMAIN h2 = DOMAIN h
  BY DEF RefreshedHistory
<1>9. ASSUME NEW g \in DOMAIN h2
      PROVE  /\ IsRecord(h2[g]) /\ h2[g].local = mine[g]
             /\ state2[g] = h2[g].local \cup h2[g].remote
             /\ h2[g].pre = Before(state2, g)
             /\ ~h2[g].predicted => g \in DOMAIN log /\ h2[g].remote = log[g]
             /\ g \in DOMAIN a => h2[g].remote = a[g]
  <2>1. g \in DOMAIN h /\ g \in 0..(n - 1)
    BY <1>1, <1>8, <1>9
  <2>2. CASE g < from
    <3>0. ~(g >= from)
      BY <1>1, <2>1, <2>2
    <3>1. h2[g] = h[g]
      BY <2>1, <3>0, Zenon DEF RefreshedHistory
    <3>2. state2[g] = state[g]
      BY <1>4, <2>1, <2>2
    <3>3. Before(state2, g) = Before(state, g)
      <4>1. \A i \in 0..(g - 1) : state2[i] = state[i]
        BY <1>1, <1>4, <2>1, <2>2
      <4> QED
        BY <4>1 DEF Before
    <3>4. g \in DOMAIN a => h[g].remote = a[g]
      <4>1. g \notin Mispredicted(h, late)
        BY <1>1, <2>1, <2>2
      <4> QED
        BY <2>1, <4>1
    <3>5. /\ IsRecord(h[g]) /\ h[g].local = mine[g]
          /\ state[g] = h[g].local \cup h[g].remote
          /\ h[g].pre = Before(state, g)
          /\ ~h[g].predicted => g \in DOMAIN log /\ h[g].remote = log[g]
      BY <2>1 DEF GoodHistory
    <3> QED
      BY <3>1, <3>2, <3>3, <3>4, <3>5
  <2>3. CASE g >= from
    <3> DEFINE rec == CorrectedRecord(h[g], a, g)
    <3>1. h2[g] = [rec EXCEPT !.pre = Before(state2, g),
                              !.pad = IF g = from THEN @ ELSE state2[g - 1],
                              !.marks = MarksBefore(h, state2, from, g)]
      BY <2>1, <2>3 DEF RefreshedHistory
    <3>2. /\ IsRecord(rec) /\ rec.local = mine[g]
          /\ rec.remote = IF g \in DOMAIN a THEN a[g] ELSE h[g].remote
          /\ ~rec.predicted => g \in DOMAIN log /\ rec.remote = log[g]
          /\ state2[g] = rec.local \cup rec.remote
      BY <1>5, <2>1, <2>3
    <3> HIDE DEF rec
    <3>3. h2[g] = [local |-> rec.local, remote |-> rec.remote,
                   predicted |-> rec.predicted, pre |-> Before(state2, g),
                   pad |-> IF g = from THEN rec.pad ELSE state2[g - 1],
                   marks |-> MarksBefore(h, state2, from, g)]
      BY <3>1, <3>2 DEF IsRecord
    <3>4. IsRecord(h2[g])
      BY <3>2, <3>3 DEF IsRecord
    <3> QED
      BY <3>2, <3>3, <3>4
  <2> QED
    BY <1>1, <2>1, <2>2, <2>3
<1>10. \A g \in 0..(n - 1) :
          state2[g] = state[g]
          \/ (g \in DOMAIN log /\ state2[g] = mine[g] \cup log[g])
  <2> SUFFICES ASSUME NEW g \in 0..(n - 1)
               PROVE  state2[g] = state[g]
                      \/ (g \in DOMAIN log /\ state2[g] = mine[g] \cup log[g])
    OBVIOUS
  <2>1. CASE g < from
    BY <1>4, <2>1
  <2>2. CASE g >= from
    <3>1. g \in DOMAIN h
      BY <1>2, <2>2
    <3>2. state[g] = mine[g] \cup h[g].remote
      BY <3>1 DEF GoodHistory
    <3>3. g \in DOMAIN a => g \in DOMAIN log /\ a[g] = log[g]
      BY DEF AgreesWith
    <3>4. state2[g] = mine[g] \cup (IF g \in DOMAIN a THEN a[g] ELSE h[g].remote)
      BY <1>5, <2>2
    <3> QED
      BY <3>2, <3>3, <3>4
  <2> QED
    BY <1>1, <2>1, <2>2
<1> QED
  <2>1. GoodHistory(h2, state2, mine, log)
    BY <1>9 DEF GoodHistory
  <2> QED
    BY <1>1, <1>6, <1>7, <1>8, <1>9, <1>10, <2>1 DEF Repaired

-----------------------------------------------------------------------------
(* What end p holds of its peer's inputs is what the peer applied.         *)
PeerInputs(p) ==
    /\ \A d \in inputNet[p] :
          d[1] \in DOMAIN applied[Other(p)] /\ d[2] = applied[Other(p)][d[1]]
    /\ AgreesWith(inputs[p], applied[Other(p)])
    /\ AgreesWith(auth[p], applied[Other(p)])

(* The frame that is running was recorded as it started.                   *)
RunningFrame(p) ==
    running[p] =>
        /\ current[p].local = applied[p][frame[p]]
        /\ pad[p] = current[p].local \cup current[p].remote
        /\ current[p].pre = machine[p]
        /\ frame[p] \notin DOMAIN auth[p]
        /\ ~current[p].predicted =>
              /\ frame[p] \in DOMAIN applied[Other(p)]
              /\ current[p].remote = applied[Other(p)][frame[p]]

(* The window is the last frames of the machine, and contradicts no input  *)
(* the session knows.                                                      *)
GoodWindow(p) ==
    /\ DOMAIN hist[p] = Window(frame[p]) /\ DOMAIN sums[p] = Window(frame[p])
    /\ GoodHistory(hist[p], machine[p], applied[p], applied[Other(p)])
    /\ \A f \in DOMAIN hist[p] \cap DOMAIN auth[p] : hist[p][f].remote = auth[p][f]

(* A settled frame ran with what both ends applied.                        *)
SettledFrames(p) ==
    \A f \in confirmed[p] :
        f \in DOMAIN applied[Other(p)]
        /\ machine[p][f] = applied[p][f] \cup applied[Other(p)][f]

PeerInv(p) ==
    /\ machine[p] = Before(machine[p], frame[p])
    /\ PeerInputs(p) /\ RunningFrame(p) /\ GoodWindow(p) /\ SettledFrames(p)

IInv == TypeOK /\ \A p \in Peers : PeerInv(p)

-----------------------------------------------------------------------------
(* The initial states satisfy the invariant: nothing was sent or run.      *)
LEMMA InitIInv == Init => IInv
<1> SUFFICES ASSUME Init PROVE IInv
  OBVIOUS
<1>0. PICK d \in 0..MaxDelay : delayLine = [p \in Peers |-> [i \in 1..d |-> {}]]
                               /\ delay = [p \in Peers |-> d]
  BY DEF Init
<1>1. {} \in Mask
  BY DEF Mask
<1>2. delayLine \in [Peers -> Seq(Mask)]
  <2>1. d \in Nat
    BY <1>0, BoundsAssumption
  <2>2. [i \in 1..d |-> {}] \in Seq(Mask)
    BY <1>1, <2>1
  <2> QED
    BY <1>0, <2>2
<1>3. IsRecord(NoRecord)
  BY <1>1 DEF NoRecord, IsRecord
<1>4. IsMaskMap(NoFrames) /\ DOMAIN NoFrames = {} /\ DOMAIN NoFrames = 0..(0 - 1)
  BY DEF NoFrames, IsMaskMap
<1>5. TypeOK
  BY <1>0, <1>1, <1>2, <1>3, <1>4 DEF Init, TypeOK
<1>6. ASSUME NEW p \in Peers PROVE PeerInv(p)
  <2>1. NoFrames = Before(NoFrames, 0)
    BY DEF NoFrames, Before
  <2>2. Window(0) = {}
    BY DEF Window
  <2>3. \A log : AgreesWith(NoFrames, log)
    BY <1>4 DEF AgreesWith
  <2>4. GoodHistory(NoFrames, NoFrames, NoFrames, NoFrames)
    BY <1>4 DEF GoodHistory
  <2>5. Other(p) \in Peers
    BY TwoPeers
  <2> QED
    BY <1>4, <2>1, <2>2, <2>3, <2>4, <2>5
    DEF Init, PeerInv, PeerInputs, RunningFrame, GoodWindow, SettledFrames
<1> QED
  BY <1>5, <1>6 DEF IInv

-----------------------------------------------------------------------------
(* What a user does between frames.                                        *)
UserActs(p) == \/ \E b \in Buttons : KeyEvent(p, b)
               \/ WriteMemory(p) \/ ChangeDelay(p) \/ TogglePause(p)

(* Nothing the user does between frames disturbs the invariant.            *)
LEMMA UserStep ==
    ASSUME IInv, NEW p \in Peers,
           UserActs(p)
    PROVE  IInv'
<1>1. /\ UNCHANGED <<frame, machine, running, current, session, transport>>
      /\ UNCHANGED <<applied, guess, confirmed, desync>>
      /\ \A r \in Peers : running[r] => pad'[r] = pad[r]
      /\ pad' \in [Peers -> Mask] /\ DOMAIN marks' = Peers
      /\ delay' \in [Peers -> 0..MaxDelay] /\ paused' \in [Peers -> BOOLEAN]
      /\ keys' \in Nat
  <2>1. CASE \E b \in Buttons : KeyEvent(p, b)
    BY <2>1 DEF IInv, TypeOK, KeyEvent, Mask, session, transport
  <2>2. CASE ChangeDelay(p)
    BY <2>2 DEF IInv, TypeOK, ChangeDelay, session, transport
  <2>3. CASE TogglePause(p)
    BY <2>3 DEF IInv, TypeOK, TogglePause, session, transport, ghosts
  <2>4. CASE WriteMemory(p)
    BY <2>4 DEF IInv, TypeOK, WriteMemory, session, transport, ghosts
  <2> QED
    BY <2>1, <2>2, <2>3, <2>4 DEF UserActs
<1>2. TypeOK'
  BY <1>1 DEF IInv, TypeOK, session, transport
<1>3. ASSUME NEW r \in Peers PROVE PeerInv(r)'
  BY <1>1, <1>3 DEF IInv, PeerInv, PeerInputs, RunningFrame, GoodWindow,
     SettledFrames, session, transport
<1> QED
  BY <1>2, <1>3 DEF IInv

-----------------------------------------------------------------------------
(* The first half of a frame: the exchange.                                *)
LEMMA BeginStep ==
    ASSUME IInv, NEW p \in Peers, BeginFrame(p)
    PROVE  IInv'
<1> DEFINE q == Other(p)
           f == frame[p]
           log == applied[q]
           local == DelayedInput(delayLine[p], pad[p], delay[p])
<1>0. /\ q \in Peers /\ q # p /\ Other(q) = p
      /\ \A r \in Peers : r # p => r = q
  BY TwoPeers
<1>1. TypeOK /\ PeerInv(p) /\ PeerInv(q)
  BY <1>0 DEF IInv
<1>2. PICK ins \in Drains(inputNet[p], MaxInputs), chs \in Drains(sumNet[p], MaxSums) :
         BeginWith(p, ins, chs)
  BY DEF BeginFrame
<1> DEFINE inArr == Merge(inputs[p], ins)
           known0 == f \in DOMAIN auth[p]
           remote == IF known0 THEN auth[p][f]
                     ELSE ExchangedInput(inArr, lastRemote[p], f)
<1>3. /\ ~running[p]
      /\ UNCHANGED <<frame, paused, delay, machine, keys, hist, sums, pressed, since,
                     confirmed, desync>>
  BY DEF BeginFrame
<1>4. /\ delayLine' = [delayLine EXCEPT ![p] = DelayLineAfter(@, pad[p], delay[p])]
      /\ inputNet' = [inputNet EXCEPT ![q] = Send(@, known[p], f, local),
                                      ![p] = Undrained(@, ins, Repeats)]
      /\ sumNet' = [sumNet EXCEPT ![p] = Undrained(@, chs, Repeats)]
      /\ known' = [known EXCEPT ![p] = @ \/ ins # {} \/ chs # {}]
      /\ inputs' = [inputs EXCEPT ![p] = Erase(inArr, f)]
      /\ DOMAIN peerSums' = DOMAIN peerSums
      /\ lastRemote' = [lastRemote EXCEPT ![p] = ExchangedInput(inArr, lastRemote[p], f)]
      /\ auth' = [auth EXCEPT ![p] = Erase(@, f)]
      /\ current' = [current EXCEPT
                       ![p] = [local |-> local, remote |-> remote,
                               predicted |-> ~known0 /\ ~Arrived(inArr, f),
                               pre |-> machine[p], pad |-> pad[p],
                               marks |-> marks[p]]]
      /\ DOMAIN marks' = DOMAIN marks
      /\ pad' = [pad EXCEPT ![p] = local \cup remote]
      /\ running' = [running EXCEPT ![p] = TRUE]
      /\ applied' = [applied EXCEPT ![p] = Put(@, f, local)]
      /\ DOMAIN guess' = DOMAIN guess
  BY <1>2 DEF BeginWith
<1>5. f \in Nat /\ delay[p] \in Nat /\ pad[p] \in Mask /\ delayLine[p] \in Seq(Mask)
      /\ lastRemote[p] \in Mask /\ IsMaskMap(log) /\ IsMaskMap(applied[p])
      /\ IsMaskMap(auth[p]) /\ DOMAIN applied[p] = 0..(f - 1)
  BY <1>0, <1>1, <1>3, BoundsAssumption DEF TypeOK
<1>6. local \in Mask /\ DelayLineAfter(delayLine[p], pad[p], delay[p]) \in Seq(Mask)
  BY <1>5, DelayLineType
<1>7. AgreesWith(inArr, log)
  <2>1. ins \subseteq inputNet[p]
    BY DEF Drains
  <2>2. \A d \in ins : d[1] \in DOMAIN log /\ d[2] = log[d[1]]
    BY <1>1, <2>1 DEF PeerInv, PeerInputs
  <2>3. AgreesWith(inputs[p], log)
    BY <1>1 DEF PeerInv, PeerInputs
  <2> QED
    BY <2>2, <2>3, MergeAgrees
<1>8. IsMaskMap(inArr)
  BY <1>5, <1>7 DEF AgreesWith, IsMaskMap
<1>9. remote \in Mask /\ ExchangedInput(inArr, lastRemote[p], f) \in Mask
  BY <1>5, <1>8 DEF ExchangedInput, Arrived, IsMaskMap
<1>10. ~(~known0 /\ ~Arrived(inArr, f)) => f \in DOMAIN log /\ remote = log[f]
  BY <1>1, <1>7 DEF PeerInv, PeerInputs, AgreesWith, ExchangedInput, Arrived
<1> HIDE DEF local, remote, inArr, known0
<1>11. /\ applied'[p] = Put(applied[p], f, local) /\ applied'[q] = log
       /\ f \notin DOMAIN applied[p]
       /\ DOMAIN applied'[p] = 0..f
       /\ IsMaskMap(applied'[p])
       /\ \A g \in 0..(f - 1) : applied'[p][g] = applied[p][g]
       /\ applied'[p][f] = local
  <2>1. applied'[p] = Put(applied[p], f, local) /\ applied'[q] = log
    BY <1>0, <1>1, <1>4 DEF TypeOK
  <2> QED
    BY <1>5, <1>6, <2>1 DEF Put, IsMaskMap
<1>12. TypeOK'
  <2>1. /\ pad' \in [Peers -> Mask] /\ lastRemote' \in [Peers -> Mask]
        /\ delayLine' \in [Peers -> Seq(Mask)]
        /\ running' \in [Peers -> BOOLEAN] /\ known' \in [Peers -> BOOLEAN]
    <3>1. local \cup remote \in Mask
      BY <1>6, <1>9 DEF Mask
    <3> QED
      BY <1>1, <1>4, <1>6, <1>9, <3>1 DEF TypeOK
  <2>2. /\ DOMAIN current' = Peers /\ DOMAIN auth' = Peers /\ DOMAIN inputs' = Peers
        /\ DOMAIN peerSums' = Peers /\ DOMAIN inputNet' = Peers /\ DOMAIN sumNet' = Peers
        /\ DOMAIN applied' = Peers /\ DOMAIN guess' = Peers
        /\ DOMAIN marks' = Peers
    BY <1>1, <1>4 DEF TypeOK
  <2>3. ASSUME NEW r \in Peers
        PROVE  /\ IsMaskMap(applied'[r])
               /\ DOMAIN applied'[r] = 0..(IF running'[r] THEN frame[r] ELSE frame[r] - 1)
               /\ IsMaskMap(auth'[r]) /\ IsMaskMap(inputs'[r]) /\ IsRecord(current'[r])
    <3>1. CASE r = p
      <4>1. IsMaskMap(Erase(auth[p], f)) /\ IsMaskMap(Erase(inArr, f))
        BY <1>5, <1>8 DEF Erase, IsMaskMap
      <4>2. IsRecord(current'[p])
        BY <1>1, <1>4, <1>6, <1>9 DEF TypeOK, IsRecord
      <4> QED
        BY <1>1, <1>4, <1>11, <3>1, <4>1, <4>2 DEF TypeOK
    <3>2. CASE r = q
      BY <1>0, <1>1, <1>4, <1>11, <3>2 DEF TypeOK
    <3> QED
      BY <1>0, <3>1, <3>2
  <2> QED
    BY <1>1, <1>3, <2>1, <2>2, <2>3 DEF TypeOK
<1>13. PeerInv(p)'
  <2>1. PeerInputs(p)'
    <3>1. inputNet'[p] \subseteq inputNet[p]
      BY <1>0, <1>1, <1>4 DEF TypeOK, Undrained
    <3>2. AgreesWith(inputs'[p], log) /\ AgreesWith(auth'[p], log)
      BY <1>1, <1>4, <1>7 DEF TypeOK, Erase, AgreesWith, PeerInv, PeerInputs
    <3> QED
      BY <1>1, <1>11, <3>1, <3>2 DEF PeerInv, PeerInputs
  <2>2. RunningFrame(p)'
    <3>1. f \notin DOMAIN auth'[p]
      BY <1>1, <1>4 DEF TypeOK, Erase
    <3> QED
      BY <1>1, <1>3, <1>4, <1>10, <1>11, <3>1 DEF TypeOK, RunningFrame
  <2>3. GoodWindow(p)'
    <3>1. \A g \in DOMAIN hist[p] : applied'[p][g] = applied[p][g]
      BY <1>1, <1>11 DEF TypeOK
    <3>2. GoodHistory(hist[p], machine[p], applied'[p], log)
      BY <1>1, <3>1 DEF PeerInv, GoodWindow, GoodHistory
    <3>3. DOMAIN auth'[p] \subseteq DOMAIN auth[p]
          /\ \A g \in DOMAIN auth'[p] : auth'[p][g] = auth[p][g]
      BY <1>1, <1>4 DEF TypeOK, Erase
    <3> QED
      BY <1>1, <1>3, <1>11, <3>2, <3>3 DEF PeerInv, GoodWindow
  <2>4. SettledFrames(p)'
    BY <1>1, <1>3, <1>11 DEF TypeOK, PeerInv, SettledFrames
  <2> QED
    BY <1>1, <1>3, <2>1, <2>2, <2>3, <2>4 DEF PeerInv
<1>14. PeerInv(q)'
  <2>1. /\ inputs'[q] = inputs[q] /\ auth'[q] = auth[q] /\ current'[q] = current[q]
        /\ pad'[q] = pad[q] /\ running'[q] = running[q]
        /\ inputNet'[q] = Send(inputNet[q], known[p], f, local)
    BY <1>0, <1>1, <1>4 DEF TypeOK
  <2>2. PeerInputs(q)'
    <3>1. AgreesWith(inputs[q], applied'[p]) /\ AgreesWith(auth[q], applied'[p])
      BY <1>0, <1>1, <1>11, PutAgrees DEF PeerInv, PeerInputs
    <3>2. ASSUME NEW d \in inputNet'[q]
          PROVE  d[1] \in DOMAIN applied'[p] /\ d[2] = applied'[p][d[1]]
      <4>1. CASE d \in inputNet[q]
        <5>1. d[1] \in DOMAIN applied[p] /\ d[2] = applied[p][d[1]]
          BY <1>0, <1>1, <4>1 DEF PeerInv, PeerInputs
        <5> QED
          BY <1>5, <1>11, <5>1
      <4>2. CASE d = <<f, local>>
        BY <1>5, <1>11, <4>2
      <4> QED
        BY <2>1, <4>1, <4>2 DEF Send
    <3> QED
      BY <1>0, <2>1, <3>1, <3>2 DEF PeerInputs
  <2>3. RunningFrame(q)'
    BY <1>0, <1>1, <1>3, <1>5, <1>11, <2>1 DEF TypeOK, PeerInv, RunningFrame
  <2>4. GoodWindow(q)'
    <3>1. GoodHistory(hist[q], machine[q], log, applied'[p])
      BY <1>0, <1>1, <1>5, <1>11 DEF PeerInv, GoodWindow, GoodHistory
    <3> QED
      BY <1>0, <1>1, <1>3, <1>11, <2>1, <3>1 DEF PeerInv, GoodWindow
  <2>5. SettledFrames(q)'
    <3>1. ASSUME NEW g \in confirmed[q]
          PROVE  /\ g \in DOMAIN applied'[p]
                 /\ machine[q][g] = log[g] \cup applied'[p][g]
      <4>1. g \in DOMAIN applied[p] /\ machine[q][g] = log[g] \cup applied[p][g]
        BY <1>0, <1>1 DEF PeerInv, SettledFrames
      <4> QED
        BY <1>5, <1>11, <4>1
    <3> QED
      BY <1>0, <1>3, <1>11, <3>1 DEF SettledFrames
  <2> QED
    BY <1>1, <1>3, <2>2, <2>3, <2>4, <2>5 DEF PeerInv
<1> QED
  BY <1>0, <1>12, <1>13, <1>14 DEF IInv

(* A rollback changes what a frame was played with only to what both ends  *)
(* applied.                                                                *)
OnlySettles(p) ==
    LET ran == RunFrame(machine[p], frame[p], pad[p])
    IN  \A g \in 0..frame[p] :
            \/ machine'[p][g] = ran[g]
            \/ /\ g \in DOMAIN applied[Other(p)]
               /\ machine'[p][g] = applied[p][g] \cup applied[Other(p)][g]

-----------------------------------------------------------------------------
(* The second half of a frame: run, record, drain, accept, roll back.      *)
LEMMA EndStep ==
    ASSUME IInv, NEW p \in Peers, EndFrame(p)
    PROVE  IInv' /\ OnlySettles(p)
<1> DEFINE q == Other(p)
           f == frame[p]
           log == applied[q]
<1>0. /\ q \in Peers /\ q # p /\ Other(q) = p
      /\ \A r \in Peers : r # p => r = q
  BY TwoPeers
<1>1. TypeOK /\ PeerInv(p) /\ PeerInv(q)
  BY <1>0 DEF IInv
<1>2. PICK ins \in Drains(inputNet[p], MaxInputs), chs \in Drains(sumNet[p], MaxSums) :
         EndWith(p, ins, chs)
  BY DEF EndFrame
<1> DEFINE inArr == Merge(inputs[p], ins)
           sumArr == Merge(peerSums[p], chs)
           ran == RunFrame(machine[p], f, pad[p])
           sums1 == RecordIn(sums[p], f, FrameChecksum(ran, marks[p]))
           hist1 == RecordIn(hist[p], f, current[p])
           auth1 == AuthAfterRecord(auth[p], hist[p], f)
           auth2 == AcceptAll(auth1, inArr)
           wrong == Mispredicted(hist1, inArr)
           from == Earliest(wrong)
           ran2 == Resimulated(ran, hist1, auth2, from)
           hist2 == IF wrong = {} THEN hist1
                    ELSE RefreshedHistory(hist1, auth2, from, ran2)
           redone == {g \in DOMAIN hist1 : g >= from}
           sumOf == [g \in redone |->
                       FrameChecksum(Before(ran2, g + 1),
                                     MarksBefore(hist1, ran2, from, g + 1))]
           sums2 == IF wrong = {} THEN sums1
                    ELSE [g \in DOMAIN sums1 \cup redone |->
                            IF g \in redone THEN sumOf[g] ELSE sums1[g]]
           end == IF wrong = {} THEN ran ELSE ran2
<1>3. /\ running[p] /\ UNCHANGED <<delay, keys, delayLine, lastRemote, applied, guess>>
      /\ f \in Nat
  BY <1>1 DEF EndFrame, TypeOK
<1>4. /\ frame' = [frame EXCEPT ![p] = f + 1]
      /\ machine' = [machine EXCEPT ![p] = end]
      /\ pad' = [pad EXCEPT ![p] = IF wrong = {} THEN @ ELSE ran2[f]]
      /\ hist' = [hist EXCEPT ![p] = hist2]
      /\ sums' = [sums EXCEPT ![p] = Keep(sums2, Newest(DOMAIN sums2))]
      /\ auth' = [auth EXCEPT ![p] = auth2]
      /\ inputs' = [inputs EXCEPT ![p] = NoFrames]
      /\ confirmed' = [confirmed EXCEPT ![p] = @ \cup
                         {g \in DOMAIN hist2 :
                             ~hist2[g].predicted \/ g \in DOMAIN auth2}]
      /\ running' = [running EXCEPT ![p] = FALSE]
      /\ current' = [current EXCEPT ![p] = NoRecord]
      /\ inputNet' = [inputNet EXCEPT ![p] = Undrained(@, ins, Repeats)]
      /\ DOMAIN peerSums' = DOMAIN peerSums /\ DOMAIN sumNet' = DOMAIN sumNet
      /\ DOMAIN marks' = DOMAIN marks
  <2>1. machine' = [machine EXCEPT ![p] = IF wrong = {} THEN ran ELSE ran2]
    BY <1>2 DEF EndWith
  <2> QED
    BY <1>2, <2>1 DEF EndWith
<1>5. /\ paused' \in [Peers -> BOOLEAN] /\ desync' \in [Peers -> BOOLEAN]
      /\ known' \in [Peers -> BOOLEAN]
  <2> DEFINE alarm == \E g \in DOMAIN sums1 \cap DOMAIN sumArr : sums1[g] # sumArr[g]
  <2>1. /\ paused' = [paused EXCEPT ![p] = @ \/ alarm]
        /\ desync' = [desync EXCEPT ![p] = @ \/ alarm]
        /\ known' = [known EXCEPT ![p] = known[p] \/ ins # {} \/ chs # {}]
    BY <1>2 DEF EndWith
  <2> HIDE DEF alarm
  <2> QED
    BY <1>1, <2>1 DEF TypeOK
<1>6. AgreesWith(inArr, log)
  <2>1. ins \subseteq inputNet[p]
    BY DEF Drains
  <2>2. \A d \in ins : d[1] \in DOMAIN log /\ d[2] = log[d[1]]
    BY <1>1, <2>1 DEF PeerInv, PeerInputs
  <2>3. AgreesWith(inputs[p], log)
    BY <1>1 DEF PeerInv, PeerInputs
  <2> QED
    BY <2>2, <2>3, MergeAgrees
<1>7. /\ AgreesWith(auth1, log) /\ f \notin DOMAIN auth1
      /\ DOMAIN auth1 \subseteq DOMAIN auth[p]
      /\ \A g \in DOMAIN auth1 : auth1[g] = auth[p][g]
  <2>1. AgreesWith(auth[p], log) /\ f \notin DOMAIN auth[p]
    BY <1>1, <1>3 DEF PeerInv, PeerInputs, RunningFrame
  <2> QED
    BY <2>1 DEF AuthAfterRecord, Drop, AgreesWith
<1>8. AgreesWith(auth2, log) /\ IsMaskMap(auth2) /\ IsMaskMap(log)
  <2>1. AgreesWith(auth2, log)
    BY <1>6, <1>7, AcceptAgrees
  <2>2. IsMaskMap(log)
    BY <1>0, <1>1 DEF TypeOK
  <2> QED
    BY <2>1, <2>2 DEF AgreesWith, IsMaskMap
<1>9. /\ ran = Before(ran, f + 1) /\ \A g \in 0..f : ran[g] \in Mask
      /\ \A g \in 0..(f - 1) : ran[g] = machine[p][g]
      /\ ran[f] = pad[p] /\ machine[p] = Before(ran, f)
      /\ \A g \in 0..f : Before(ran, g) = Before(machine[p], g)
  <2>1. machine[p] = Before(machine[p], f)
    BY <1>1 DEF PeerInv
  <2>2. \A g \in 0..(f - 1) : machine[p][g] \in Mask
    BY <1>1 DEF TypeOK, IsMaskMap
  <2>3. pad[p] \in Mask
    BY <1>1 DEF TypeOK
  <2>4. /\ \A g \in 0..(f - 1) : ran[g] = machine[p][g]
        /\ ran[f] = pad[p]
    BY <1>3 DEF RunFrame
  <2>5. ran = Before(ran, f + 1)
    BY <1>3 DEF RunFrame, Before
  <2>6. \A g \in 0..f : Before(ran, g) = Before(machine[p], g)
    <3> HIDE DEF ran
    <3>1. ASSUME NEW g \in 0..f PROVE Before(ran, g) = Before(machine[p], g)
      <4>1. \A i \in 0..(g - 1) : ran[i] = machine[p][i]
        BY <1>3, <2>4
      <4> QED
        BY <4>1 DEF Before
    <3> QED
      BY <3>1
  <2>7. Before(ran, f) = Before(machine[p], f)
    BY <1>3, <2>6
  <2>8. \A g \in 0..f : ran[g] \in Mask
    <3> HIDE DEF ran
    <3> QED
      BY <1>3, <2>2, <2>3, <2>4
  <2> QED
    BY <2>1, <2>4, <2>5, <2>6, <2>7, <2>8
<1>10. /\ DOMAIN hist1 = Window(f + 1)
       /\ \A g \in DOMAIN hist1 :
             hist1[g] = IF g = f THEN current[p] ELSE hist[p][g]
       /\ \A g \in DOMAIN hist1 : g = f \/ g \in DOMAIN hist[p]
  <2>1. DOMAIN hist[p] = Window(f)
    BY <1>1 DEF PeerInv, GoodWindow
  <2>2. Newest(Window(f) \cup {f}) = Window(f + 1)
    BY <1>3, NewestIsWindow
  <2>3. Window(f + 1) \subseteq Window(f) \cup {f}
    BY <1>3, HistoryLimitAssumption DEF Window
  <2> QED
    BY <2>1, <2>2, <2>3 DEF RecordIn, Put, Keep
<1>11. GoodHistory(hist1, ran, applied[p], log)
  <2> SUFFICES ASSUME NEW g \in DOMAIN hist1
               PROVE  /\ IsRecord(hist1[g])
                      /\ hist1[g].local = applied[p][g]
                      /\ ran[g] = hist1[g].local \cup hist1[g].remote
                      /\ hist1[g].pre = Before(ran, g)
                      /\ ~hist1[g].predicted => g \in DOMAIN log /\ hist1[g].remote = log[g]
    BY DEF GoodHistory
  <2> HIDE DEF hist1, ran
  <2>1. CASE g = f
    <3>1. hist1[g] = current[p]
      BY <1>10, <2>1
    <3> QED
      BY <1>1, <1>3, <1>9, <2>1, <3>1 DEF TypeOK, PeerInv, RunningFrame
  <2>2. CASE g # f
    <3>1. hist1[g] = hist[p][g] /\ g \in DOMAIN hist[p] /\ g \in 0..(f - 1)
      BY <1>1, <1>10, <2>2 DEF TypeOK
    <3>2. /\ IsRecord(hist[p][g]) /\ hist[p][g].local = applied[p][g]
          /\ machine[p][g] = hist[p][g].local \cup hist[p][g].remote
          /\ hist[p][g].pre = Before(machine[p], g)
          /\ ~hist[p][g].predicted => g \in DOMAIN log /\ hist[p][g].remote = log[g]
      BY <1>1, <3>1 DEF PeerInv, GoodWindow, GoodHistory
    <3>3. ran[g] = machine[p][g] /\ Before(ran, g) = Before(machine[p], g)
      BY <1>3, <1>9, <3>1
    <3> QED
      BY <3>1, <3>2, <3>3
  <2> QED
    BY <2>1, <2>2
<1>12. \A g \in DOMAIN hist1 \cap DOMAIN auth2 :
          g \in wrong \/ hist1[g].remote = auth2[g]
  <2> SUFFICES ASSUME NEW g \in DOMAIN hist1, g \in DOMAIN auth2, g \notin wrong
               PROVE  hist1[g].remote = auth2[g]
    OBVIOUS
  <2>1. CASE g \in DOMAIN inArr
    <3>1. auth2[g] = inArr[g] /\ inArr[g] = log[g]
      BY <1>6, <2>1 DEF AcceptAll, AgreesWith
    <3>2. CASE hist1[g].predicted
      BY <2>1, <3>1, <3>2 DEF Mispredicted
    <3>3. CASE ~hist1[g].predicted
      BY <1>11, <3>1, <3>3 DEF GoodHistory
    <3> QED
      BY <3>2, <3>3
  <2>2. CASE g \notin DOMAIN inArr
    <3>1. g \in DOMAIN auth1 /\ auth2[g] = auth1[g]
      BY <2>2 DEF AcceptAll
    <3>2. g \in DOMAIN hist[p] /\ hist1[g] = hist[p][g] /\ auth2[g] = auth[p][g]
          /\ g \in DOMAIN auth[p]
      BY <1>7, <1>10, <3>1
    <3> QED
      BY <1>1, <3>2 DEF PeerInv, GoodWindow
  <2> QED
    BY <2>1, <2>2
<1> HIDE DEF inArr, sumArr, ran, sums1, hist1, auth1, auth2
<1>13. /\ end = Before(end, f + 1) /\ \A g \in 0..f : end[g] \in Mask
       /\ DOMAIN hist2 = DOMAIN hist1
       /\ GoodHistory(hist2, end, applied[p], log)
       /\ \A g \in DOMAIN hist2 \cap DOMAIN auth2 : hist2[g].remote = auth2[g]
       /\ \A g \in 0..f : end[g] = ran[g]
             \/ (g \in DOMAIN log /\ end[g] = applied[p][g] \cup log[g])
  <2>1. CASE wrong = {}
    BY <1>9, <1>11, <1>12, <2>1
  <2>2. CASE wrong # {}
    <3>1. f + 1 \in Nat /\ (f + 1) - 1 = f
      BY <1>3
    <3> DEFINE h2 == RefreshedHistory(hist1, auth2, from, ran2)
    <3>2. /\ wrong = Mispredicted(hist1, inArr)
          /\ from = Earliest(Mispredicted(hist1, inArr))
          /\ ran2 = Resimulated(ran, hist1, auth2, from)
          /\ h2 = RefreshedHistory(hist1, auth2, from, ran2)
          /\ end = ran2 /\ hist2 = h2
      BY <2>2
    <3>3. \A g \in 0..((f + 1) - 1) : ran[g] \in Mask
      BY <1>9, <3>1
    <3> HIDE DEF wrong, from, ran2, h2, end, hist2
    <3>4. \A g \in DOMAIN hist1 \cap DOMAIN auth2 :
             g \in Mispredicted(hist1, inArr) \/ hist1[g].remote = auth2[g]
      BY <1>12, <3>2
    <3>5. Mispredicted(hist1, inArr) # {}
      BY <2>2, <3>2
    <3>6. NeedsRepair(f + 1, ran, hist1, auth2, inArr, applied[p], log)
      BY <1>8, <1>9, <1>10, <1>11, <3>1, <3>3, <3>4, <3>5 DEF NeedsRepair
    <3>7. Repaired(f + 1, ran, hist1, auth2, applied[p], log, ran2, h2)
      BY <3>2, <3>6, RollbackRepairs
    <3> QED
      BY <3>1, <3>2, <3>7 DEF Repaired
  <2> QED
    BY <2>1, <2>2
<1> HIDE DEF hist2, end, wrong, from, ran2, redone, sumOf, sums2
<1>14. /\ frame'[p] = f + 1 /\ machine'[p] = end /\ hist'[p] = hist2
       /\ auth'[p] = auth2 /\ inputs'[p] = NoFrames /\ ~running'[p]
       /\ applied' = applied
       /\ confirmed'[p] = confirmed[p] \cup
             {g \in DOMAIN hist2 : ~hist2[g].predicted \/ g \in DOMAIN auth2}
       /\ inputNet'[p] \subseteq inputNet[p]
       /\ frame'[q] = frame[q] /\ machine'[q] = machine[q] /\ hist'[q] = hist[q]
       /\ auth'[q] = auth[q] /\ inputs'[q] = inputs[q] /\ running'[q] = running[q]
       /\ confirmed'[q] = confirmed[q] /\ inputNet'[q] = inputNet[q]
       /\ sums'[q] = sums[q] /\ current'[q] = current[q] /\ pad'[q] = pad[q]
  BY <1>0, <1>1, <1>3, <1>4 DEF TypeOK, Undrained
<1>15. DOMAIN sums'[p] = Window(f + 1)
  <2>1. DOMAIN sums1 = Window(f + 1)
    <3>1. DOMAIN sums[p] = Window(f)
      BY <1>1 DEF PeerInv, GoodWindow
    <3>2. Newest(Window(f) \cup {f}) = Window(f + 1)
      BY <1>3, NewestIsWindow
    <3>3. Window(f + 1) \subseteq Window(f) \cup {f}
      BY <1>3, HistoryLimitAssumption DEF Window
    <3> QED
      BY <3>1, <3>2, <3>3 DEF sums1, RecordIn, Put, Keep
  <2>2. DOMAIN sums2 = Window(f + 1)
    BY <1>10, <2>1 DEF sums2, redone
  <2>3. Newest(Window(f + 1)) = Window(f + 1)
    <3>1. Newest(Window(f + 1)) = Newest(Newest(Window(f) \cup {f}))
      BY <1>3, NewestIsWindow
    <3>2. ASSUME NEW g \in Window(f + 1) PROVE g \in Newest(Window(f + 1))
      <4>1. g \in Newest(Window(f) \cup {f})
        BY <1>3, NewestIsWindow
      <4>2. Cardinality({h \in Window(f) \cup {f} : h > g}) < HistoryLimit
        BY <4>1 DEF Newest
      <4>3. {h \in Window(f + 1) : h > g} = {h \in Window(f) \cup {f} : h > g}
        BY <1>3, HistoryLimitAssumption DEF Window
      <4> QED
        BY <4>2, <4>3 DEF Newest
    <3> QED
      BY <3>2 DEF Newest
  <2>4. sums'[p] = Keep(sums2, Newest(DOMAIN sums2))
    BY <1>1, <1>4 DEF TypeOK
  <2> QED
    BY <2>2, <2>3, <2>4 DEF Keep
<1>16. DOMAIN hist2 \subseteq 0..f
  BY <1>3, <1>10, <1>13 DEF Window
<1>17. ASSUME NEW g \in confirmed'[p]
       PROVE  g \in 0..f /\ g \in DOMAIN log /\ end[g] = applied[p][g] \cup log[g]
  <2>1. CASE g \in confirmed[p]
    <3>1. g \in 0..(f - 1)
      BY <1>1, <2>1 DEF TypeOK
    <3>2. g \in DOMAIN log /\ machine[p][g] = applied[p][g] \cup log[g]
      BY <1>1, <2>1 DEF PeerInv, SettledFrames
    <3>3. ran[g] = machine[p][g] /\ g \in 0..f
      BY <1>3, <1>9, <3>1
    <3> QED
      BY <1>13, <3>2, <3>3
  <2>2. CASE g \in DOMAIN hist2 /\ (~hist2[g].predicted \/ g \in DOMAIN auth2)
    <3>1. end[g] = applied[p][g] \cup hist2[g].remote /\ g \in 0..f
      BY <1>13, <1>16, <2>2 DEF GoodHistory
    <3>2. g \in DOMAIN log /\ hist2[g].remote = log[g]
      <4>1. CASE ~hist2[g].predicted
        BY <1>13, <2>2, <4>1 DEF GoodHistory
      <4>2. CASE g \in DOMAIN auth2
        BY <1>8, <1>13, <2>2, <4>2 DEF AgreesWith
      <4> QED
        BY <2>2, <4>1, <4>2
    <3> QED
      BY <3>1, <3>2
  <2> QED
    BY <1>14, <2>1, <2>2
<1>18. TypeOK'
  <2>1. /\ frame' \in [Peers -> Nat] /\ running' \in [Peers -> BOOLEAN]
        /\ pad' \in [Peers -> Mask]
    <3>1. wrong # {} => ran2[f] \in Mask
      BY <1>3, <1>13 DEF end
    <3> QED
      BY <1>1, <1>3, <1>4, <3>1 DEF TypeOK
  <2>2. /\ DOMAIN machine' = Peers /\ DOMAIN hist' = Peers /\ DOMAIN sums' = Peers
        /\ DOMAIN auth' = Peers /\ DOMAIN inputs' = Peers /\ DOMAIN confirmed' = Peers
        /\ DOMAIN current' = Peers /\ DOMAIN inputNet' = Peers
    BY <1>1, <1>4 DEF TypeOK
  <2>3. /\ IsMaskMap(machine'[p]) /\ DOMAIN machine'[p] = 0..(frame'[p] - 1)
        /\ IsMaskMap(inputs'[p]) /\ IsMaskMap(auth'[p])
        /\ DOMAIN applied[p] = 0..(frame'[p] - 1)
        /\ IsRecord(current'[p])
        /\ DOMAIN hist'[p] \subseteq 0..(frame'[p] - 1)
        /\ \A g \in DOMAIN hist'[p] : IsRecord(hist'[p][g])
        /\ confirmed'[p] \subseteq 0..(frame'[p] - 1)
    <3>1. frame'[p] - 1 = f
      BY <1>3, <1>14
    <3>2. DOMAIN end = 0..f
      <4>1. end = Before(end, f + 1) /\ (f + 1) - 1 = f
        BY <1>3, <1>13
      <4>2. DOMAIN Before(end, f + 1) = 0..((f + 1) - 1)
        BY DEF Before
      <4> QED
        BY <4>1, <4>2
    <3>3. IsMaskMap(end)
      BY <1>3, <1>13, <3>2 DEF IsMaskMap
    <3>4. IsMaskMap(NoFrames)
      BY DEF NoFrames, IsMaskMap
    <3>5. current'[p] = NoRecord /\ IsRecord(NoRecord)
      BY <1>1, <1>4 DEF TypeOK, NoRecord, IsRecord, Mask
    <3>6. DOMAIN applied[p] = 0..f
      BY <1>1, <1>3 DEF TypeOK
    <3>7. \A g \in DOMAIN hist2 : IsRecord(hist2[g])
      BY <1>13 DEF GoodHistory
    <3> QED
      BY <1>8, <1>14, <1>16, <1>17, <3>1, <3>2, <3>3, <3>4, <3>5, <3>6, <3>7
  <2>4. DOMAIN peerSums' = Peers /\ DOMAIN sumNet' = Peers /\ DOMAIN marks' = Peers
    BY <1>1, <1>4 DEF TypeOK
  <2>5. /\ lastRemote' \in [Peers -> Mask] /\ delay' \in [Peers -> 0..MaxDelay]
        /\ delayLine' \in [Peers -> Seq(Mask)] /\ keys' \in Nat
        /\ DOMAIN applied' = Peers /\ DOMAIN guess' = Peers
    BY <1>1, <1>3 DEF TypeOK
  <2>6. ASSUME NEW r \in Peers
        PROVE  /\ IsMaskMap(machine'[r]) /\ DOMAIN machine'[r] = 0..(frame'[r] - 1)
               /\ IsMaskMap(applied'[r])
               /\ DOMAIN applied'[r] = 0..(IF running'[r] THEN frame'[r]
                                           ELSE frame'[r] - 1)
               /\ IsMaskMap(auth'[r]) /\ IsMaskMap(inputs'[r]) /\ IsRecord(current'[r])
               /\ DOMAIN hist'[r] \subseteq 0..(frame'[r] - 1)
               /\ \A g \in DOMAIN hist'[r] : IsRecord(hist'[r][g])
               /\ confirmed'[r] \subseteq 0..(frame'[r] - 1)
    <3>1. CASE r = p
      <4>1. IsMaskMap(applied'[p])
        BY <1>1, <1>14 DEF TypeOK
      <4> QED
        BY <1>14, <2>3, <3>1, <4>1
    <3>2. CASE r = q
      BY <1>0, <1>1, <1>14, <3>2 DEF TypeOK
    <3> QED
      BY <1>0, <3>1, <3>2
  <2> QED
    BY <1>5, <2>1, <2>2, <2>4, <2>5, <2>6 DEF TypeOK
<1>19. PeerInv(p)'
  <2>1. PeerInputs(p)'
    BY <1>1, <1>8, <1>14 DEF PeerInv, PeerInputs, AgreesWith, NoFrames
  <2>2. RunningFrame(p)'
    BY <1>14 DEF RunningFrame
  <2>3. GoodWindow(p)'
    BY <1>10, <1>13, <1>14, <1>15 DEF GoodWindow
  <2>4. SettledFrames(p)'
    BY <1>14, <1>17 DEF SettledFrames
  <2> QED
    BY <1>13, <1>14, <2>1, <2>2, <2>3, <2>4 DEF PeerInv
<1>20. PeerInv(q)'
  BY <1>0, <1>1, <1>14 DEF PeerInv, PeerInputs, RunningFrame, GoodWindow, SettledFrames
<1>21. OnlySettles(p)
  <2> HIDE DEF ran
  <2>1. \A g \in 0..f : machine'[p][g] = ran[g]
           \/ (g \in DOMAIN log /\ machine'[p][g] = applied[p][g] \cup log[g])
    BY <1>13, <1>14
  <2> QED
    BY <2>1 DEF OnlySettles, ran
<1> QED
  BY <1>0, <1>18, <1>19, <1>20, <1>21 DEF IInv

-----------------------------------------------------------------------------
(* No step of either end disturbs the invariant.                           *)
LEMMA StepIInv == IInv /\ [Next]_vars => IInv'
<1> SUFFICES ASSUME IInv, [Next]_vars PROVE IInv'
  OBVIOUS
<1>1. CASE Next
  <2>1. PICK p \in Peers : UserActs(p) \/ BeginFrame(p) \/ EndFrame(p)
    BY <1>1 DEF Next, UserActs
  <2> QED
    BY <2>1, UserStep, BeginStep, EndStep
<1>2. CASE UNCHANGED vars
  BY <1>2 DEF vars, session, transport, ghosts, IInv, TypeOK, PeerInv, PeerInputs,
     RunningFrame, GoodWindow, SettledFrames
<1> QED
  BY <1>1, <1>2

(* The inductive invariant holds in every reachable state.                 *)
THEOREM Invariance == Spec => []IInv
<1>1. Init => IInv
  BY InitIInv
<1>2. IInv /\ [Next]_vars => IInv'
  BY StepIInv
<1> QED
  BY <1>1, <1>2, PTL DEF Spec

(* Every variable keeps its type, for every window, delay and button set.  *)
THEOREM TypeCorrect == Spec => []TypeOK
<1>1. IInv => TypeOK
  BY DEF IInv
<1> QED
  BY <1>1, Invariance, PTL

(* A record that is not predicted carries the peer's own input.            *)
THEOREM ConfirmedInputs == Spec => []ConfirmedInputIsPeers
<1>1. IInv => ConfirmedInputIsPeers
  BY DEF IInv, PeerInv, GoodWindow, GoodHistory, ConfirmedInputIsPeers
<1> QED
  BY <1>1, Invariance, PTL

(* No record contradicts an input the session knows.                       *)
THEOREM MispredictionsAreRepaired == Spec => []NoKnownMisprediction
<1>1. IInv => NoKnownMisprediction
  BY DEF IInv, PeerInv, GoodWindow, NoKnownMisprediction
<1> QED
  BY <1>1, Invariance, PTL

(* After any number of rollbacks the machine is the replay of the window.  *)
THEOREM MachineIsReplay == Spec => []MachineIsReplayOfHistory
<1>1. IInv => MachineIsReplayOfHistory
  BY DEF IInv, PeerInv, GoodWindow, GoodHistory, MachineIsReplayOfHistory
<1> QED
  BY <1>1, Invariance, PTL

(* The window is exactly the newest HistoryLimit frames.                   *)
THEOREM WindowIsExact == Spec => []WindowIsContiguous
<1>1. IInv => WindowIsContiguous
  BY DEF IInv, PeerInv, GoodWindow, WindowIsContiguous
<1> QED
  BY <1>1, Invariance, PTL

(* Two ends that have settled a frame played it with the same mask.        *)
THEOREM Agreement == Spec => []ConfirmedFramesAgree
<1>1. IInv => ConfirmedFramesAgree
  <2> SUFFICES ASSUME IInv, NEW f \in confirmed[Host] \cap confirmed[Client]
               PROVE  machine[Host][f] = machine[Client][f]
    BY DEF ConfirmedFramesAgree
  <2>1. Host \in Peers /\ Client \in Peers /\ Other(Host) = Client
        /\ Other(Client) = Host
    BY PeersAssumption DEF Peers, Other
  <2>2. machine[Host][f] = applied[Host][f] \cup applied[Client][f]
    BY <2>1 DEF IInv, PeerInv, SettledFrames
  <2>3. machine[Client][f] = applied[Client][f] \cup applied[Host][f]
    BY <2>1 DEF IInv, PeerInv, SettledFrames
  <2> QED
    BY <2>2, <2>3
<1> QED
  BY <1>1, Invariance, PTL

-----------------------------------------------------------------------------
(* Every step of Netplay is a step of its promise, or leaves it alone.     *)
LEMMA StepKeepsPromise ==
    ASSUME IInv, IInv', [Next]_vars
    PROVE  [Promise!Next]_<<applied, [p \in Peers |-> [f \in confirmed[p] |-> machine[p][f]]]>>
<1> DEFINE played == [p \in Peers |-> [f \in confirmed[p] |-> machine[p][f]]]
<1>1. ASSUME UNCHANGED <<applied, confirmed, machine>>
      PROVE  UNCHANGED <<applied, played>>
  BY <1>1
<1>2. CASE UNCHANGED vars
  BY <1>1, <1>2 DEF vars, ghosts
<1>3. ASSUME NEW p \in Peers, UserActs(p) PROVE UNCHANGED <<applied, played>>
  BY <1>1, <1>3 DEF UserActs, KeyEvent, WriteMemory, ChangeDelay, TogglePause, ghosts
<1>4. ASSUME NEW p \in Peers, BeginFrame(p)
      PROVE  Promise!Apply(p)
  <2> DEFINE local == DelayedInput(delayLine[p], pad[p], delay[p])
             n == frame[p]
  <2>1. /\ ~running[p] /\ UNCHANGED <<machine, confirmed>>
        /\ applied' = [applied EXCEPT ![p] = Put(@, n, local)]
    BY <1>4 DEF BeginFrame, BeginWith
  <2>2. /\ DOMAIN applied = Peers /\ DOMAIN applied[p] = 0..(n - 1) /\ n \in Nat
        /\ delay[p] \in Nat /\ pad[p] \in Mask /\ delayLine[p] \in Seq(Mask)
    BY <2>1, BoundsAssumption DEF IInv, TypeOK
  <2>3. local \in SUBSET Buttons
    BY <2>2, DelayLineType DEF Mask
  <2> HIDE DEF local
  <2>4. Put(applied[p], n, local) =
           [f \in 0..n |-> IF f = n THEN local ELSE applied[p][f]]
    <3>1. DOMAIN applied[p] \cup {n} = 0..n
      BY <2>2
    <3> QED
      BY <3>1 DEF Put
  <2>5. applied' = [applied EXCEPT
                      ![p] = [f \in 0..n |-> IF f = n THEN local ELSE @[f]]]
    BY <2>1, <2>4
  <2>6. n \in DOMAIN applied'[p]
    BY <2>2, <2>5
  <2>7. UNCHANGED played
    BY <2>1
  <2> QED
    BY <2>2, <2>3, <2>5, <2>6, <2>7 DEF Promise!Apply
<1>5. ASSUME NEW p \in Peers, EndFrame(p)
      PROVE  Promise!Settle(p)
  <2> DEFINE q == Other(p)
  <2>1. q \in Peers /\ q # p /\ \A r \in Peers : r # p => r = q
    BY TwoPeers
  <2>2. UNCHANGED applied /\ confirmed[p] \subseteq confirmed'[p]
        /\ machine'[q] = machine[q] /\ confirmed'[q] = confirmed[q]
    <3>1. PICK ins \in Drains(inputNet[p], MaxInputs),
               chs \in Drains(sumNet[p], MaxSums) : EndWith(p, ins, chs)
      BY <1>5 DEF EndFrame
    <3>2. \E m, c : machine' = [machine EXCEPT ![p] = m]
                    /\ confirmed' = [confirmed EXCEPT ![p] = @ \cup c]
      BY <3>1 DEF EndWith
    <3>3. DOMAIN machine = Peers /\ DOMAIN confirmed = Peers
      BY DEF IInv, TypeOK
    <3> QED
      BY <1>5, <2>1, <3>2, <3>3 DEF EndFrame
  <2>3. \A f \in confirmed[p] :
           f \in DOMAIN applied[q] /\ machine[p][f] = applied[p][f] \cup applied[q][f]
    BY DEF IInv, PeerInv, SettledFrames
  <2>4. \A f \in confirmed'[p] :
           f \in DOMAIN applied[q] /\ machine'[p][f] = applied[p][f] \cup applied[q][f]
    BY <2>2 DEF IInv, PeerInv, SettledFrames
  <2>5. \A f \in confirmed'[p] : f \in DOMAIN applied[p]
    <3>1. confirmed'[p] \subseteq 0..(frame'[p] - 1) /\ frame'[p] \in Nat
      BY DEF IInv, TypeOK
    <3>2. DOMAIN applied'[p] = 0..(IF running'[p] THEN frame'[p] ELSE frame'[p] - 1)
      BY DEF IInv, TypeOK
    <3> QED
      BY <2>2, <3>1, <3>2
  <2>6. Promise!Extends(played'[p], played[p])
    BY <2>2, <2>3, <2>4 DEF Promise!Extends
  <2>7. \A r \in Peers \ {p} : played'[r] = played[r]
    BY <2>1, <2>2
  <2>8. ASSUME NEW f \in DOMAIN played'[p]
        PROVE  /\ \A r \in Peers : f \in DOMAIN applied[r]
               /\ played'[p][f] = UNION {applied[r][f] : r \in Peers}
    <3>1. f \in confirmed'[p] /\ played'[p][f] = machine'[p][f]
      OBVIOUS
    <3>2. {applied[r][f] : r \in Peers} = {applied[p][f], applied[q][f]}
      BY <2>1
    <3> QED
      BY <2>1, <2>4, <2>5, <3>1, <3>2
  <2>9. DOMAIN played' = Peers
    OBVIOUS
  <2> QED
    BY <2>2, <2>6, <2>7, <2>8, <2>9 DEF Promise!Settle
<1>6. CASE Next
  <2>1. PICK p \in Peers : UserActs(p) \/ BeginFrame(p) \/ EndFrame(p)
    BY <1>6 DEF Next, UserActs
  <2> QED
    BY <1>3, <1>4, <1>5, <2>1 DEF Promise!Next
<1> QED
  BY <1>2, <1>6

(* Netplay implements its promise: frames are begun in order, and a frame  *)
(* that settled stays as both ends applied it.                             *)
THEOREM PromiseIsKept == Spec => KeepsPromise
<1>1. Init => Promise!Init
  BY DEF Init, Promise!Init, Promise!Empty, NoFrames
<1>2. IInv /\ IInv' /\ [Next]_vars
      => [Promise!Next]_<<applied, [p \in Peers |-> [f \in confirmed[p] |-> machine[p][f]]]>>
  BY StepKeepsPromise
<1> QED
  BY <1>1, <1>2, Invariance, PTL DEF Spec, KeepsPromise, Promise!Spec
-----------------------------------------------------------------------------
(* The delay.  The line holds what the joypad was when the last frames     *)
(* began, except that entries older than the last growth of the delay may  *)
(* be the neutral ones that filled the line up.                            *)

(* The frames that have begun.                                             *)
Begun(p) == IF running[p] THEN frame[p] + 1 ELSE frame[p]

(* The last entries of `line' are the entries of `log' before frame n, as  *)
(* far back as frame `growth'.                                             *)
LineFollows(line, log, n, growth) ==
    \A i \in 1..Len(line) :
        n - 1 - Len(line) + i >= growth => line[i] = log[n - 1 - Len(line) + i]

DelayInv(p) ==
    /\ since[p].change \in Nat /\ since[p].growth \in Nat
    /\ DOMAIN sampled[p] = 0..(Begun(p) - 1)
    /\ Len(delayLine[p]) < delay[p] => since[p].growth >= Begun(p)
    /\ LineFollows(delayLine[p], sampled[p], Begun(p), since[p].growth)
    /\ \A f \in 0..(Begun(p) - 1) :
          f >= since[p].change /\ f >= since[p].growth + delay[p] =>
              applied[p][f] = sampled[p][f - delay[p]]

Delays == /\ DOMAIN since = Peers /\ DOMAIN sampled = Peers
          /\ \A p \in Peers : DelayInv(p)

(* A resize and a shift leave the newest entries in order.                 *)
IsShifted(s, line, input, d) ==
    /\ s \in Seq(Mask) /\ Len(s) = d + 1 /\ s[d + 1] = input
    /\ Len(line) >= d => \A i \in 1..d : s[i] = line[Len(line) - d + i]

LEMMA ShiftedEntries ==
    ASSUME NEW line \in Seq(Mask), NEW input \in Mask, NEW d \in Nat
    PROVE  IsShifted(Shifted(line, input, d), line, input, d)
<1> DEFINE r == Resized(line, d)
<1>1. {} \in Mask /\ Len(line) \in Nat
  BY DEF Mask
<1>2. CASE Len(line) >= d
  <2>1. r = SubSeq(line, Len(line) - d + 1, Len(line))
    BY <1>2 DEF Resized
  <2>2. r \in Seq(Mask) /\ Len(r) = d /\ \A i \in 1..d : r[i] = line[Len(line) - d + i]
    BY <1>1, <1>2, <2>1
  <2> HIDE DEF r
  <2> QED BY <2>2 DEF Shifted, IsShifted, r
<1>3. CASE ~(Len(line) >= d)
  <2> DEFINE fill == [i \in 1..(d - Len(line)) |-> {}]
  <2>1. d - Len(line) \in Nat
    BY <1>1, <1>3
  <2>2. fill \in Seq(Mask) /\ Len(fill) = d - Len(line)
    BY <1>1, <2>1
  <2>3. r = line \o fill
    BY <1>3 DEF Resized
  <2> HIDE DEF fill
  <2>4. r \in Seq(Mask) /\ Len(r) = d
    BY <1>1, <2>2, <2>3
  <2> HIDE DEF r
  <2> QED BY <1>3, <2>4 DEF Shifted, IsShifted, r
<1> QED BY <1>2, <1>3

(* delayLocalInput: the line follows the joypad, and what it returns is    *)
(* what the joypad was d frames before.                                    *)
LEMMA LineIsShifted ==
    ASSUME NEW line \in Seq(Mask), NEW input \in Mask, NEW d \in Nat, NEW n \in Nat,
           NEW growth \in Nat, NEW log, DOMAIN log = 0..(n - 1),
           Len(line) < d => growth >= n,
           LineFollows(line, log, n, growth)
    PROVE  /\ Len(DelayLineAfter(line, input, d)) = d
           /\ LineFollows(DelayLineAfter(line, input, d), Put(log, n, input), n + 1, growth)
           /\ n >= growth + d => DelayedInput(line, input, d) = Put(log, n, input)[n - d]
<1> DEFINE log2 == Put(log, n, input)
           s == Shifted(line, input, d)
<1>1. log2[n] = input /\ \A k \in 0..(n - 1) : log2[k] = log[k]
  BY DEF Put
<1>2. Len(line) \in Nat
  OBVIOUS
<1> HIDE DEF log2
<1>3. CASE d = 0
  <2>1. DelayLineAfter(line, input, d) = << >> /\ DelayedInput(line, input, d) = input
    BY <1>3 DEF DelayLineAfter, DelayedInput
  <2> QED BY <1>1, <1>3, <2>1 DEF LineFollows, log2
<1>4. CASE d > 0
  <2>1. IsShifted(s, line, input, d)
    BY ShiftedEntries
  <2>2. DelayLineAfter(line, input, d) = Tail(s) /\ DelayedInput(line, input, d) = Head(s)
    BY <1>4 DEF DelayLineAfter, DelayedInput
  <2> HIDE DEF s
  <2>3. /\ s \in Seq(Mask) /\ Len(s) = d + 1 /\ s[d + 1] = input
        /\ Len(line) >= d => \A i \in 1..d : s[i] = line[Len(line) - d + i]
    BY <2>1 DEF IsShifted
  <2>4. Len(Tail(s)) = d /\ (\A i \in 1..d : Tail(s)[i] = s[i + 1]) /\ Head(s) = s[1]
    BY <1>4, <2>3
  <2>5. ASSUME Len(line) >= d, NEW i \in 1..d, n - d + (i - 1) >= growth
        PROVE  s[i] = log2[n - d + (i - 1)]
    <3> DEFINE k == Len(line) - d + i
    <3>1. s[i] = line[k] /\ k \in 1..Len(line)
      BY <1>2, <2>3, <2>5
    <3>2. n - 1 - Len(line) + k = n - d + (i - 1)
      BY <1>2
    <3>3. line[k] = log[n - d + (i - 1)]
      BY <2>5, <3>1, <3>2 DEF LineFollows
    <3>4. n - d + (i - 1) \in 0..(n - 1)
      BY <2>5
    <3> QED BY <1>1, <3>1, <3>3, <3>4
  <2>6. ASSUME NEW i \in 1..d, (n + 1) - 1 - d + i >= growth
        PROVE  Tail(s)[i] = log2[(n + 1) - 1 - d + i]
    <3>1. CASE i = d
      <4>1. Tail(s)[i] = input
        BY <1>4, <2>3, <2>4, <3>1
      <4>2. (n + 1) - 1 - d + i = n
        BY <3>1
      <4> QED BY <1>1, <4>1, <4>2
    <3>2. CASE i # d
      <4>1. i + 1 \in 1..d /\ n - d + ((i + 1) - 1) = (n + 1) - 1 - d + i
        BY <3>2
      <4>2. Len(line) >= d
        BY <1>2, <2>6, <3>2
      <4>3. s[i + 1] = log2[(n + 1) - 1 - d + i]
        BY <2>5, <2>6, <4>1, <4>2
      <4> QED BY <2>4, <4>3
    <3> QED BY <3>1, <3>2
  <2>7. LineFollows(Tail(s), log2, n + 1, growth)
    BY <2>4, <2>6 DEF LineFollows
  <2>8. ASSUME n >= growth + d PROVE Head(s) = log2[n - d]
    <3>1. Len(line) >= d
      BY <1>2, <1>4, <2>8
    <3>2. 1 \in 1..d /\ n - d + (1 - 1) = n - d /\ n - d >= growth
      BY <1>4, <2>8
    <3>3. s[1] = log2[n - d + (1 - 1)]
      BY <2>5, <3>1, <3>2
    <3> QED BY <2>4, <3>2, <3>3
  <2> QED BY <2>2, <2>4, <2>7, <2>8 DEF log2
<1> QED BY <1>3, <1>4
(* The delay is a matter of the line, of the frames begun and of the menu. *)
LEMMA OtherStepsKeepDelays ==
    ASSUME Delays, UNCHANGED <<delay, delayLine, sampled, since, applied>>,
           \A p \in Peers : Begun(p)' = Begun(p)
    PROVE  Delays'
BY DEF Delays, DelayInv, LineFollows

LEMMA ChangeKeepsDelays ==
    ASSUME IInv, Delays, NEW p \in Peers, ChangeDelay(p)
    PROVE  Delays'
<1> DEFINE n == Begun(p)
<1>1. PICK d \in 0..MaxDelay :
         /\ d = delay[p] + 1 \/ d + 1 = delay[p]
         /\ delay' = [delay EXCEPT ![p] = d]
         /\ since' = [since EXCEPT ![p] =
                        [change |-> n,
                         growth |-> IF d > delay[p] THEN n ELSE @.growth]]
  BY DEF ChangeDelay, Begun
<1>2. UNCHANGED <<frame, running, delayLine, sampled, applied>>
  BY DEF ChangeDelay, session, transport
<1>3. /\ DOMAIN since = Peers /\ DOMAIN sampled = Peers /\ n \in Nat
      /\ delay \in [Peers -> 0..MaxDelay] /\ delay[p] \in Nat /\ d \in Nat
      /\ delayLine[p] \in Seq(Mask) /\ Len(delayLine[p]) \in Nat
  BY BoundsAssumption DEF Delays, Begun, IInv, TypeOK
<1>4. /\ since'[p].change = n
      /\ since'[p].growth = IF d > delay[p] THEN n ELSE since[p].growth
      /\ delay'[p] = d
  BY <1>1, <1>3
<1>5. DelayInv(p)'
  <2>1. DelayInv(p) /\ Begun(p)' = n
    BY <1>2 DEF Delays, Begun
  <2> HIDE DEF n
  <2>2. since'[p].growth \in Nat /\ since'[p].change \in Nat
    BY <1>3, <1>4, <2>1 DEF DelayInv
  <2>3. Len(delayLine[p]) < d => since'[p].growth >= n
    BY <1>1, <1>3, <1>4, <2>1 DEF DelayInv, n
  <2>4. LineFollows(delayLine[p], sampled[p], n, since'[p].growth)
    <3>1. CASE d > delay[p]
      BY <1>3, <1>4, <3>1 DEF LineFollows
    <3>2. CASE ~(d > delay[p])
      BY <1>4, <2>1, <3>2 DEF DelayInv, n
    <3> QED BY <3>1, <3>2
  <2>5. \A f \in 0..(n - 1) : ~(f >= since'[p].change)
    BY <1>3, <1>4
  <2> QED BY <1>2, <1>4, <2>1, <2>2, <2>3, <2>4, <2>5 DEF DelayInv, n
<1>6. ASSUME NEW r \in Peers, r # p PROVE DelayInv(r)'
  <2>1. since'[r] = since[r] /\ delay'[r] = delay[r] /\ Begun(r)' = Begun(r)
    BY <1>1, <1>2, <1>3, <1>6 DEF Begun
  <2> QED BY <1>2, <2>1 DEF Delays, DelayInv
<1> QED BY <1>1, <1>2, <1>3, <1>5, <1>6 DEF Delays

LEMMA BeginKeepsDelays ==
    ASSUME IInv, Delays, NEW p \in Peers, BeginFrame(p)
    PROVE  Delays'
<1> DEFINE n == frame[p]
           d == delay[p]
           line == delayLine[p]
           log == sampled[p]
           growth == since[p].growth
           local == DelayedInput(line, pad[p], d)
           line2 == DelayLineAfter(line, pad[p], d)
           log2 == Put(log, n, pad[p])
<1>1. ~running[p] /\ UNCHANGED <<frame, delay, since>>
  BY DEF BeginFrame
<1>2. /\ delayLine' = [delayLine EXCEPT ![p] = line2]
      /\ running' = [running EXCEPT ![p] = TRUE]
      /\ sampled' = [sampled EXCEPT ![p] = log2]
      /\ applied' = [applied EXCEPT ![p] = Put(@, n, local)]
  BY DEF BeginFrame, BeginWith
<1>3. /\ DOMAIN since = Peers /\ DOMAIN sampled = Peers /\ DOMAIN running = Peers
      /\ DOMAIN delayLine = Peers /\ DOMAIN applied = Peers
      /\ n \in Nat /\ d \in Nat /\ pad[p] \in Mask /\ line \in Seq(Mask)
      /\ DOMAIN applied[p] = 0..(n - 1)
  BY <1>1, BoundsAssumption DEF Delays, IInv, TypeOK
<1>4. /\ Begun(p) = n /\ DelayInv(p)
  BY <1>1 DEF Begun, Delays
<1>5. /\ growth \in Nat /\ since[p].change \in Nat /\ DOMAIN log = 0..(n - 1)
      /\ Len(line) < d => growth >= n
      /\ LineFollows(line, log, n, growth)
      /\ \A f \in 0..(n - 1) : f >= since[p].change /\ f >= growth + d =>
            applied[p][f] = log[f - d]
  BY <1>4 DEF DelayInv
<1>6. /\ delayLine'[p] = line2 /\ running'[p] /\ sampled'[p] = log2
      /\ applied'[p] = Put(applied[p], n, local)
      /\ Begun(p)' = n + 1
  BY <1>1, <1>2, <1>3 DEF Begun
<1> HIDE DEF n, d, line, log, growth
<1>7. /\ Len(line2) = d
      /\ LineFollows(line2, log2, n + 1, growth)
      /\ n >= growth + d => local = log2[n - d]
  BY <1>3, <1>5, LineIsShifted
<1>8. /\ DOMAIN log2 = 0..n /\ \A k \in 0..(n - 1) : log2[k] = log[k]
      /\ applied'[p][n] = local /\ \A k \in 0..(n - 1) : applied'[p][k] = applied[p][k]
  BY <1>3, <1>5, <1>6 DEF Put
<1> HIDE DEF line2, log2, local
<1>9. ASSUME NEW f \in 0..n, f >= growth + d, f >= since[p].change
      PROVE  applied'[p][f] = log2[f - d]
  <2>1. CASE f = n
    BY <1>7, <1>8, <1>9, <2>1
  <2>2. CASE f # n
    <3>1. f \in 0..(n - 1) /\ f - d \in 0..(n - 1)
      BY <1>3, <1>5, <1>9, <2>2
    <3> QED BY <1>5, <1>8, <1>9, <3>1
  <2> QED BY <2>1, <2>2
<1>10. DelayInv(p)'
  <2>1. since'[p] = since[p] /\ delay'[p] = d /\ since[p].growth = growth
        /\ (n + 1) - 1 = n /\ ~(d < d)
    BY <1>1, <1>3 DEF d, growth
  <2> QED BY <1>5, <1>6, <1>7, <1>8, <1>9, <2>1 DEF DelayInv
<1>11. ASSUME NEW r \in Peers, r # p PROVE DelayInv(r)'
  <2>1. /\ delayLine'[r] = delayLine[r] /\ sampled'[r] = sampled[r]
        /\ applied'[r] = applied[r] /\ Begun(r)' = Begun(r)
    BY <1>1, <1>2, <1>3, <1>11 DEF Begun
  <2> QED BY <1>1, <2>1 DEF Delays, DelayInv
<1> QED BY <1>1, <1>2, <1>3, <1>10, <1>11 DEF Delays

LEMMA StepKeepsDelays == IInv /\ Delays /\ [Next]_vars => Delays'
<1> SUFFICES ASSUME IInv, Delays, [Next]_vars PROVE Delays'
  OBVIOUS
<1>1. ASSUME NEW p \in Peers, EndFrame(p) PROVE Delays'
  <2>1. UNCHANGED <<delay, delayLine, sampled, since, applied>> /\ running[p]
    BY <1>1 DEF EndFrame
  <2>2. /\ frame' = [frame EXCEPT ![p] = frame[p] + 1]
        /\ running' = [running EXCEPT ![p] = FALSE]
    BY <1>1 DEF EndFrame, EndWith
  <2>3. \A r \in Peers : Begun(r)' = Begun(r)
    BY <2>1, <2>2 DEF Begun, IInv, TypeOK
  <2> QED BY <2>1, <2>3, OtherStepsKeepDelays
<1>2. ASSUME NEW p \in Peers,
             (\E b \in Buttons : KeyEvent(p, b)) \/ WriteMemory(p) \/ TogglePause(p)
      PROVE  Delays'
  <2>1. UNCHANGED <<frame, running, delay, delayLine, sampled, since, applied>>
    BY <1>2 DEF KeyEvent, WriteMemory, TogglePause, session, ghosts
  <2> QED BY <2>1, OtherStepsKeepDelays DEF Begun
<1>3. CASE UNCHANGED vars
  BY <1>3, OtherStepsKeepDelays DEF vars, session, ghosts, Begun
<1>4. CASE Next
  BY <1>1, <1>2, <1>4, ChangeKeepsDelays, BeginKeepsDelays DEF Next
<1> QED BY <1>3, <1>4

(* The delay is exact, however the user changes it and whatever the length *)
(* of the line was when he did (netplay_session.cpp:17-32).                *)
THEOREM DelayExact == Spec => []DelayIsExact
<1>1. Init => Delays
  <2> SUFFICES ASSUME Init, NEW p \in Peers PROVE DelayInv(p)
    BY DEF Delays, Init
  <2>1. PICK d \in 0..MaxDelay :
           /\ delay[p] = d /\ delayLine[p] = [i \in 1..d |-> {}]
           /\ since[p] = [change |-> 0, growth |-> 0]
           /\ ~running[p] /\ frame[p] = 0 /\ sampled[p] = NoFrames
    BY DEF Init
  <2>2. d \in Nat /\ {} \in Mask
    BY BoundsAssumption DEF Mask
  <2>3. Len(delayLine[p]) = d
    BY <2>1, <2>2
  <2>4. Begun(p) = 0 /\ DOMAIN sampled[p] = 0..(0 - 1)
    BY <2>1 DEF Begun, NoFrames
  <2>5. LineFollows(delayLine[p], sampled[p], 0, 0)
    BY <2>2, <2>3 DEF LineFollows
  <2> QED BY <2>1, <2>2, <2>3, <2>4, <2>5 DEF DelayInv
<1>2. IInv /\ Delays => DelayIsExact
  <2> SUFFICES ASSUME IInv, Delays, NEW p \in Peers, NEW f \in DOMAIN applied[p],
                      f >= since[p].change, f >= since[p].growth + delay[p]
               PROVE  applied[p][f] = sampled[p][f - delay[p]]
    BY DEF DelayIsExact
  <2>1. f \in 0..(Begun(p) - 1)
    BY DEF IInv, TypeOK, Begun
  <2> QED BY <2>1 DEF Delays, DelayInv
<1> QED
  BY <1>1, <1>2, StepKeepsDelays, Invariance, PTL DEF Spec
-----------------------------------------------------------------------------
(* The alarm.  As long as no frame runs with a wrong guess no end rolls    *)
(* back, so the checksums of an end, wherever they are, are those of its   *)
(* machine as it still is; and where no mark is a stray, two machines that *)
(* played a frame have the same masks and the same marks up to it.         *)

(* c is the checksum of frame g of end p.                                  *)
IsSum(p, c, g) ==
    /\ g \in 0..(frame[p] - 1)
    /\ c = FrameChecksum(Before(machine[p], g + 1), MarksUpTo(p, g + 1))

(* The same, of the machine as it is after a step.                         *)
IsSumAfter(p, c, g) ==
    /\ g \in 0..(frame'[p] - 1)
    /\ c = FrameChecksum(Before(machine'[p], g + 1), {k \in marks'[p] : k[1] < g + 1})

Calm(p) ==
    /\ running[p] => current[p].remote = guess[p][frame[p]]
    /\ \A g \in DOMAIN hist[p] : hist[p][g].remote = guess[p][g]
    /\ \A g \in 0..(frame[p] - 1) : machine[p][g] = applied[p][g] \cup guess[p][g]
    /\ \A k \in marks[p] : k[1] \in Nat /\ k[1] <= frame[p]
    /\ \A g \in DOMAIN sums[p] : IsSum(p, sums[p][g], g)
    /\ \A d \in sumNet[Other(p)] : IsSum(p, d[2], d[1])
    /\ \A g \in DOMAIN peerSums[Other(p)] : IsSum(p, peerSums[Other(p)][g], g)

Alarms ==
    /\ \A p \in Peers : DOMAIN guess[p] = DOMAIN applied[p]
    /\ SomeMisprediction \/ \A p \in Peers : Calm(p)
    /\ DesyncHasACause

(* drainIncoming: an entry is an old one, or what a datagram says.         *)
LEMMA MergeEntries ==
    ASSUME NEW map, NEW batch, NEW g \in DOMAIN Merge(map, batch)
    PROVE  \/ g \in DOMAIN map /\ Merge(map, batch)[g] = map[g]
           \/ \E d \in batch : d[1] = g /\ Merge(map, batch)[g] = d[2]
<1>1. g \in DOMAIN map \cup {d[1] : d \in batch}
  BY DEF Merge
<1>2. CASE \E d \in batch : d[1] = g
  <2> DEFINE last == CHOOSE d \in batch : d[1] = g
  <2>1. last \in batch /\ last[1] = g
    BY <1>2
  <2>2. Merge(map, batch)[g] = last[2]
    BY <1>1, <1>2 DEF Merge
  <2> QED BY <2>1, <2>2
<1>3. CASE ~\E d \in batch : d[1] = g
  BY <1>1, <1>3 DEF Merge
<1> QED BY <1>2, <1>3

(* A misprediction is not forgotten.                                       *)
LEMMA MispredictionStays ==
    ASSUME SomeMisprediction, DOMAIN guess = Peers, DOMAIN applied = Peers,
           \A p \in Peers : AgreesWith(guess[p], guess'[p]),
           \A p \in Peers : AgreesWith(applied[p], applied'[p])
    PROVE  SomeMisprediction'
<1>0. PICK p \in Peers : \E f \in DOMAIN guess[p] \cap DOMAIN applied[Other(p)] :
                            guess[p][f] # applied[Other(p)][f]
  BY DEF SomeMisprediction
<1>1. PICK f \in DOMAIN guess[p] \cap DOMAIN applied[Other(p)] :
         guess[p][f] # applied[Other(p)][f]
  BY <1>0
<1>2. Other(p) \in Peers
  BY TwoPeers
<1>3. /\ f \in DOMAIN guess'[p] /\ guess'[p][f] = guess[p][f]
      /\ f \in DOMAIN applied'[Other(p)] /\ applied'[Other(p)][f] = applied[Other(p)][f]
  BY <1>1, <1>2 DEF AgreesWith
<1> QED BY <1>1, <1>3 DEF SomeMisprediction

(* The interrupts of the first frames are those of the masks they ran with.*)
LEMMA EdgesOfPrefix ==
    ASSUME NEW m, NEW n \in Nat, m = Before(m, n), NEW k \in 0..n
    PROVE  {e \in Edges(m) : e[1] < k} = Edges(Before(m, k))
<1>1. DOMAIN m = 0..(n - 1) /\ DOMAIN Before(m, k) = 0..(k - 1)
  BY DEF Before
<1>2. \A g \in 0..(k - 1) :
         /\ g \in DOMAIN m /\ Before(m, k)[g] = m[g]
         /\ g # 0 => Before(m, k)[g - 1] = m[g - 1]
  BY <1>1 DEF Before
<1> DEFINE new(r, g) == ~(r[g] \subseteq (IF g = 0 THEN {} ELSE r[g - 1]))
<1>3. \A g \in 0..(k - 1) : new(Before(m, k), g) <=> new(m, g)
  BY <1>2
<1>4. {g \in DOMAIN Before(m, k) : new(Before(m, k), g)}
        = {g \in DOMAIN m : new(m, g) /\ g < k}
  <2> HIDE DEF new
  <2>1. \A g : g \in DOMAIN Before(m, k) <=> g \in DOMAIN m /\ g < k
    BY <1>1
  <2> QED BY <1>1, <1>3, <2>1
<1>5. /\ Edges(m) = {<<f, "interrupt">> : f \in {g \in DOMAIN m : new(m, g)}}
      /\ Edges(Before(m, k)) =
            {<<f, "interrupt">> : f \in {g \in DOMAIN Before(m, k) : new(Before(m, k), g)}}
  BY DEF Edges
<1> HIDE DEF new
<1> QED BY <1>4, <1>5

(* Without a stray the marks of every frame are those of its masks.        *)
LEMMA MarksOfMasks ==
    ASSUME NEW m, NEW n \in Nat, m = Before(m, n), NEW ms, \A k \in ms : k[1] \in Nat,
           {k \in ms : k[1] < n} = Edges(m), NEW i \in 0..n
    PROVE  {k \in ms : k[1] < i} = Edges(Before(m, i))
<1>1. {k \in ms : k[1] < i} = {k \in {e \in ms : e[1] < n} : k[1] < i}
  OBVIOUS
<1> QED BY <1>1, EdgesOfPrefix

(* An end goes on: its frames and their marks stay, its machine and the    *)
(* marks of its next frame may grow.                                       *)
GoesOn(p) ==
    /\ frame[p] \in Nat /\ frame'[p] \in Nat /\ frame[p] <= frame'[p]
    /\ machine[p] = Before(machine[p], frame[p])
    /\ machine'[p] = Before(machine'[p], frame'[p])
    /\ \A g \in 0..(frame[p] - 1) : machine'[p][g] = machine[p][g]
    /\ \A k \in marks'[p] : k[1] \in Nat
    /\ \A n \in 0..frame[p] : {k \in marks'[p] : k[1] < n} = {k \in marks[p] : k[1] < n}

LEMMA SumsStay ==
    ASSUME NEW p \in Peers, GoesOn(p), NEW c, NEW g, IsSum(p, c, g)
    PROVE  IsSumAfter(p, c, g)
<1>1. g \in 0..(frame[p] - 1) /\ g \in 0..(frame'[p] - 1) /\ g + 1 \in 0..frame[p]
  BY DEF IsSum, GoesOn
<1>2. Before(machine'[p], g + 1) = Before(machine[p], g + 1)
  <2>1. \A i \in 0..((g + 1) - 1) : machine'[p][i] = machine[p][i]
    BY <1>1 DEF GoesOn
  <2> QED BY <2>1 DEF Before
<1>3. {k \in marks'[p] : k[1] < g + 1} = {k \in marks[p] : k[1] < g + 1}
  BY <1>1 DEF GoesOn
<1> QED BY <1>1, <1>2, <1>3 DEF IsSum, IsSumAfter, MarksUpTo

LEMMA StrayStays ==
    ASSUME \A p \in Peers : GoesOn(p), SomeStray
    PROVE  SomeStray'
<1> SUFFICES ASSUME ~SomeStray' PROVE FALSE
  OBVIOUS
<1>1. PICK p \in Peers : MarksUpTo(p, frame[p]) # Edges(machine[p])
  BY DEF SomeStray
<1>2. {k \in marks'[p] : k[1] < frame'[p]} = Edges(machine'[p])
  BY DEF SomeStray, MarksUpTo
<1>3. Edges(Before(machine'[p], frame[p])) = {e \in Edges(machine'[p]) : e[1] < frame[p]}
  BY EdgesOfPrefix DEF GoesOn
<1>4. Before(machine'[p], frame[p]) = machine[p]
  <2>1. \A g \in 0..(frame[p] - 1) : machine'[p][g] = machine[p][g]
    BY DEF GoesOn
  <2>2. Before(machine'[p], frame[p]) = Before(machine[p], frame[p])
    BY <2>1 DEF Before
  <2> QED BY <2>2 DEF GoesOn
<1>5. {k \in marks'[p] : k[1] < frame[p]}
         = {k \in {e \in marks'[p] : e[1] < frame'[p]} : k[1] < frame[p]}
  BY DEF GoesOn
<1>6. {k \in marks'[p] : k[1] < frame[p]} = MarksUpTo(p, frame[p])
  BY DEF GoesOn, MarksUpTo
<1> QED BY <1>1, <1>2, <1>3, <1>4, <1>5, <1>6

LEMMA CalmAfter ==
    ASSUME NEW p \in Peers,
           running'[p] => current'[p].remote = guess'[p][frame'[p]],
           \A g \in DOMAIN hist'[p] : hist'[p][g].remote = guess'[p][g],
           \A g \in 0..(frame'[p] - 1) :
              machine'[p][g] = applied'[p][g] \cup guess'[p][g],
           \A k \in marks'[p] : k[1] \in Nat /\ k[1] <= frame'[p],
           \A g \in DOMAIN sums'[p] : IsSumAfter(p, sums'[p][g], g),
           \A d \in sumNet'[Other(p)] : IsSumAfter(p, d[2], d[1]),
           \A g \in DOMAIN peerSums'[Other(p)] :
              IsSumAfter(p, peerSums'[Other(p)][g], g)
    PROVE  Calm(p)'
BY DEF Calm, IsSum, IsSumAfter, MarksUpTo

(* Marks are only added to the frame an end is at.                         *)
MarksGrow(p) ==
    /\ marks[p] \subseteq marks'[p]
    /\ \A k \in marks'[p] \ marks[p] : k[1] = frame[p]

LEMMA FramesGoOn ==
    ASSUME IInv, IInv', NEW p \in Peers, Calm(p), MarksGrow(p),
           frame'[p] = frame[p] \/ frame'[p] = frame[p] + 1,
           \A g \in 0..(frame[p] - 1) : machine'[p][g] = machine[p][g]
    PROVE  GoesOn(p) /\ \A k \in marks'[p] : k[1] <= frame'[p]
<1>1. /\ frame[p] \in Nat /\ frame'[p] \in Nat /\ frame[p] <= frame'[p]
      /\ machine[p] = Before(machine[p], frame[p])
      /\ machine'[p] = Before(machine'[p], frame'[p])
  BY DEF IInv, PeerInv, TypeOK
<1>2. \A k \in marks'[p] : k \in marks[p] \/ k[1] = frame[p]
  BY DEF MarksGrow
<1>3. \A k \in marks[p] : k[1] \in Nat /\ k[1] <= frame[p]
  BY DEF Calm
<1>4. ASSUME NEW n \in 0..frame[p]
      PROVE  {k \in marks'[p] : k[1] < n} = {k \in marks[p] : k[1] < n}
  <2>1. \A k \in marks'[p] : k[1] < n => k \in marks[p]
    BY <1>1, <1>2
  <2> QED BY <2>1 DEF MarksGrow
<1> QED BY <1>1, <1>2, <1>3, <1>4 DEF GoesOn

(* A user adds at most marks of the frame his machine is at.               *)
LEMMA UserKeepsAlarms ==
    ASSUME IInv, IInv', Alarms, \A p \in Peers : MarksGrow(p),
           UNCHANGED <<frame, machine, running, current, hist, sums, peerSums, sumNet,
                       applied, guess, desync>>
    PROVE  Alarms'
<1>1. SomeMisprediction' <=> SomeMisprediction
  BY DEF SomeMisprediction
<1>2. \A p \in Peers : DOMAIN guess'[p] = DOMAIN applied'[p]
  BY DEF Alarms
<1>3. CASE SomeMisprediction
  BY <1>1, <1>2, <1>3 DEF Alarms, DesyncHasACause
<1>4. CASE ~SomeMisprediction
  <2>1. ASSUME NEW p \in Peers
        PROVE  /\ Calm(p) /\ GoesOn(p)
               /\ \A k \in marks'[p] : k[1] \in Nat /\ k[1] <= frame'[p]
    <3>1. Calm(p)
      BY <1>4 DEF Alarms
    <3>2. frame'[p] = frame[p] /\ \A g \in 0..(frame[p] - 1) : machine'[p][g] = machine[p][g]
      OBVIOUS
    <3>3. GoesOn(p) /\ \A k \in marks'[p] : k[1] <= frame'[p]
      BY <3>1, <3>2, FramesGoOn
    <3> QED BY <3>1, <3>3 DEF GoesOn
  <2>2. ASSUME NEW p \in Peers PROVE Calm(p)'
    <3>1. \A c, g : IsSum(p, c, g) => IsSumAfter(p, c, g)
      BY <2>1, SumsStay
    <3>2. /\ \A g \in DOMAIN sums'[p] : IsSumAfter(p, sums'[p][g], g)
          /\ \A d \in sumNet'[Other(p)] : IsSumAfter(p, d[2], d[1])
          /\ \A g \in DOMAIN peerSums'[Other(p)] :
                IsSumAfter(p, peerSums'[Other(p)][g], g)
      BY <2>1, <3>1 DEF Calm
    <3>3. /\ running'[p] => current'[p].remote = guess'[p][frame'[p]]
          /\ \A g \in DOMAIN hist'[p] : hist'[p][g].remote = guess'[p][g]
          /\ \A g \in 0..(frame'[p] - 1) :
                machine'[p][g] = applied'[p][g] \cup guess'[p][g]
      BY <2>1 DEF Calm
    <3> QED BY <2>1, <3>2, <3>3, CalmAfter
  <2>3. SomeStray => SomeStray'
    BY <2>1, StrayStays
  <2> QED BY <1>1, <1>2, <1>4, <2>2, <2>3 DEF Alarms, DesyncHasACause
<1> QED BY <1>3, <1>4

(* What a drain took out of the socket are checksums of the peer.          *)
LEMMA MergedSums ==
    ASSUME NEW p \in Peers, Calm(Other(p)), NEW chs \in SUBSET sumNet[p]
    PROVE  \A g \in DOMAIN Merge(peerSums[p], chs) :
              IsSum(Other(p), Merge(peerSums[p], chs)[g], g)
<1> DEFINE q == Other(p)
<1>1. q \in Peers /\ Other(q) = p
  BY TwoPeers
<1>2. /\ \A d \in sumNet[p] : IsSum(q, d[2], d[1])
      /\ \A g \in DOMAIN peerSums[p] : IsSum(q, peerSums[p][g], g)
  BY <1>1 DEF Calm
<1> SUFFICES ASSUME NEW g \in DOMAIN Merge(peerSums[p], chs)
             PROVE  IsSum(q, Merge(peerSums[p], chs)[g], g)
  OBVIOUS
<1>3. CASE g \in DOMAIN peerSums[p] /\ Merge(peerSums[p], chs)[g] = peerSums[p][g]
  BY <1>2, <1>3
<1>4. CASE \E d \in chs : d[1] = g /\ Merge(peerSums[p], chs)[g] = d[2]
  BY <1>2, <1>4
<1> QED BY <1>3, <1>4, MergeEntries

LEMMA BeginKeepsAlarms ==
    ASSUME IInv, IInv', Alarms, NEW p \in Peers, BeginFrame(p)
    PROVE  Alarms'
<1> DEFINE q == Other(p)
           n == frame[p]
<1>1. q \in Peers /\ q # p /\ Other(q) = p /\ \A r \in Peers : r # p => r = q
  BY TwoPeers
<1>2. PICK ins \in Drains(inputNet[p], MaxInputs), chs \in Drains(sumNet[p], MaxSums) :
         BeginWith(p, ins, chs)
  BY DEF BeginFrame
<1>3. ~running[p] /\ UNCHANGED <<frame, machine, hist, sums, desync>>
  BY DEF BeginFrame
<1>4. \E local, remote, pred :
         /\ applied' = [applied EXCEPT ![p] = Put(@, n, local)]
         /\ guess' = [guess EXCEPT ![p] = Put(@, n, remote)]
         /\ current' = [current EXCEPT
                 ![p] = [local |-> local, remote |-> remote, predicted |-> pred,
                         pre |-> machine[p], pad |-> pad[p], marks |-> marks[p]]]
         /\ marks' = [marks EXCEPT ![p] = @ \cup Edge(pad[p], local \cup remote, n)]
  BY <1>2 DEF BeginWith
<1>5. PICK local, remote, pred :
         /\ applied' = [applied EXCEPT ![p] = Put(@, n, local)]
         /\ guess' = [guess EXCEPT ![p] = Put(@, n, remote)]
         /\ current' = [current EXCEPT
                 ![p] = [local |-> local, remote |-> remote, predicted |-> pred,
                         pre |-> machine[p], pad |-> pad[p], marks |-> marks[p]]]
         /\ marks' = [marks EXCEPT ![p] = @ \cup Edge(pad[p], local \cup remote, n)]
  BY <1>4
<1>6. /\ running' = [running EXCEPT ![p] = TRUE]
      /\ sumNet' = [sumNet EXCEPT ![p] = Undrained(@, chs, Repeats)]
      /\ peerSums' = [peerSums EXCEPT ![p] = Merge(@, chs)]
  BY <1>2 DEF BeginWith
<1>7. /\ DOMAIN applied = Peers /\ DOMAIN guess = Peers /\ DOMAIN current = Peers
      /\ DOMAIN running = Peers /\ DOMAIN sumNet = Peers /\ DOMAIN peerSums = Peers
      /\ DOMAIN marks = Peers /\ frame \in [Peers -> Nat] /\ n \in Nat
      /\ DOMAIN applied[p] = 0..(n - 1) /\ DOMAIN guess[p] = 0..(n - 1)
      /\ DOMAIN hist[p] \subseteq 0..(n - 1)
  BY <1>3 DEF IInv, TypeOK, Alarms
<1>8. /\ applied'[p] = Put(applied[p], n, local) /\ guess'[p] = Put(guess[p], n, remote)
      /\ applied'[q] = applied[q] /\ guess'[q] = guess[q]
      /\ current'[p].remote = remote /\ current'[q] = current[q]
      /\ running'[q] = running[q]
      /\ sumNet'[p] \subseteq sumNet[p] /\ sumNet'[q] = sumNet[q]
      /\ peerSums'[p] = Merge(peerSums[p], chs) /\ peerSums'[q] = peerSums[q]
      /\ marks'[p] = marks[p] \cup Edge(pad[p], local \cup remote, n)
      /\ marks'[q] = marks[q]
  BY <1>1, <1>5, <1>6, <1>7 DEF Undrained
<1>9. /\ DOMAIN applied'[p] = DOMAIN guess'[p] /\ guess'[p][n] = remote
      /\ \A f \in 0..(n - 1) : applied'[p][f] = applied[p][f] /\ guess'[p][f] = guess[p][f]
      /\ AgreesWith(applied[p], applied'[p]) /\ AgreesWith(guess[p], guess'[p])
  BY <1>7, <1>8 DEF Put, AgreesWith
<1>10. AgreesWith(applied[q], applied'[q]) /\ AgreesWith(guess[q], guess'[q])
  BY <1>8 DEF AgreesWith
<1>11. SomeMisprediction => SomeMisprediction'
  BY <1>1, <1>7, <1>9, <1>10, MispredictionStays
<1>12. \A r \in Peers : DOMAIN guess'[r] = DOMAIN applied'[r]
  BY <1>1, <1>8, <1>9 DEF Alarms
<1>13. CASE SomeMisprediction'
  BY <1>12, <1>13 DEF Alarms, DesyncHasACause
<1>14. CASE ~SomeMisprediction'
  <2>1. Calm(p) /\ Calm(q)
    BY <1>1, <1>11, <1>14 DEF Alarms
  <2>2. MarksGrow(p) /\ MarksGrow(q)
    BY <1>8 DEF MarksGrow, Edge
  <2>3. /\ GoesOn(p) /\ \A k \in marks'[p] : k[1] <= frame'[p]
        /\ GoesOn(q) /\ \A k \in marks'[q] : k[1] <= frame'[q]
    BY <1>1, <1>3, <2>1, <2>2, FramesGoOn
  <2>4. /\ \A c, g : IsSum(p, c, g) => IsSumAfter(p, c, g)
        /\ \A c, g : IsSum(q, c, g) => IsSumAfter(q, c, g)
    BY <1>1, <2>3, SumsStay
  <2>5. Calm(p)'
    <3>1. \A g \in DOMAIN hist[p] : hist[p][g].remote = guess'[p][g]
      BY <1>7, <1>9, <2>1 DEF Calm
    <3>2. \A g \in 0..(n - 1) : machine[p][g] = applied'[p][g] \cup guess'[p][g]
      BY <1>9, <2>1 DEF Calm
    <3>3. /\ \A g \in DOMAIN sums'[p] : IsSumAfter(p, sums'[p][g], g)
          /\ \A d \in sumNet'[q] : IsSumAfter(p, d[2], d[1])
          /\ \A g \in DOMAIN peerSums'[q] : IsSumAfter(p, peerSums'[q][g], g)
      BY <1>3, <1>8, <2>1, <2>4 DEF Calm
    <3>4. current'[p].remote = guess'[p][frame'[p]]
      BY <1>3, <1>8, <1>9
    <3>5. \A k \in marks'[p] : k[1] \in Nat /\ k[1] <= frame'[p]
      BY <2>3 DEF GoesOn
    <3> QED BY <1>3, <3>1, <3>2, <3>3, <3>4, <3>5, CalmAfter
  <2>6. Calm(q)'
    <3>1. chs \in SUBSET sumNet[p]
      BY DEF Drains
    <3>2. \A g \in DOMAIN peerSums'[p] : IsSum(q, peerSums'[p][g], g)
      BY <1>8, <2>1, <3>1, MergedSums
    <3>3. /\ \A g \in DOMAIN sums'[q] : IsSumAfter(q, sums'[q][g], g)
          /\ \A d \in sumNet'[p] : IsSumAfter(q, d[2], d[1])
          /\ \A g \in DOMAIN peerSums'[p] : IsSumAfter(q, peerSums'[p][g], g)
      BY <1>1, <1>3, <1>8, <2>1, <2>4, <3>2 DEF Calm
    <3>4. /\ running'[q] => current'[q].remote = guess'[q][frame'[q]]
          /\ \A g \in DOMAIN hist'[q] : hist'[q][g].remote = guess'[q][g]
          /\ \A g \in 0..(frame'[q] - 1) :
                machine'[q][g] = applied'[q][g] \cup guess'[q][g]
      BY <1>3, <1>8, <2>1 DEF Calm
    <3>5. \A k \in marks'[q] : k[1] \in Nat /\ k[1] <= frame'[q]
      BY <2>3 DEF GoesOn
    <3> QED BY <1>1, <3>3, <3>4, <3>5, CalmAfter
  <2>7. SomeStray => SomeStray'
    BY <1>1, <2>3, StrayStays
  <2>8. ~SomeMisprediction
    BY <1>11, <1>14
  <2> QED BY <1>1, <1>3, <1>12, <2>5, <2>6, <2>7, <2>8 DEF Alarms, DesyncHasACause
<1> QED BY <1>13, <1>14

(* Where the guesses were right the frame ends without a rollback.         *)
EndsAsRun(p, chs) ==
    LET f   == frame[p]
        ran == RunFrame(machine[p], f, pad[p])
        sum == FrameChecksum(ran, marks[p])
    IN  /\ machine'[p] = ran /\ marks'[p] = marks[p]
        /\ hist'[p] = RecordIn(hist[p], f, current[p])
        /\ \A g \in DOMAIN sums'[p] : g \in DOMAIN RecordIn(sums[p], f, sum)
                                      /\ sums'[p][g] = RecordIn(sums[p], f, sum)[g]
        /\ sumNet'[Other(p)] \subseteq sumNet[Other(p)] \cup {<<f, sum>>}
        /\ sumNet'[p] \subseteq sumNet[p]

LEMMA RightGuesses ==
    ASSUME IInv, Alarms, ~SomeMisprediction, NEW p \in Peers, running[p],
           NEW ins \in SUBSET inputNet[p], NEW chs, EndWith(p, ins, chs)
    PROVE  EndsAsRun(p, chs)
<1> DEFINE q == Other(p)
           f == frame[p]
           inArr == Merge(inputs[p], ins)
           hist1 == RecordIn(hist[p], f, current[p])
           wrong == Mispredicted(hist1, inArr)
           sum == FrameChecksum(RunFrame(machine[p], f, pad[p]), marks[p])
           sums1 == RecordIn(sums[p], f, sum)
<1>1. q \in Peers /\ q # p
  BY TwoPeers
<1>2. /\ DOMAIN machine = Peers /\ DOMAIN marks = Peers /\ DOMAIN hist = Peers
      /\ DOMAIN sums = Peers /\ DOMAIN sumNet = Peers /\ f \in Nat
      /\ DOMAIN hist[p] \subseteq 0..(f - 1) /\ DOMAIN applied[p] = 0..f
  BY DEF IInv, TypeOK
<1>3. Calm(p) /\ DOMAIN guess[p] = 0..f
  BY <1>2 DEF Alarms
<1>4. AgreesWith(inArr, applied[q])
  BY MergeAgrees DEF IInv, PeerInv, PeerInputs
<1>5. ASSUME NEW g \in DOMAIN hist1 PROVE g \in 0..f /\ hist1[g].remote = guess[p][g]
  <2>1. \/ g = f /\ hist1[g] = current[p]
        \/ g \in DOMAIN hist[p] /\ hist1[g] = hist[p][g]
    BY DEF RecordIn, Put, Keep
  <2> HIDE DEF hist1
  <2> QED BY <1>2, <1>3, <2>1 DEF Calm
<1>6. wrong = {}
  <2> SUFFICES ASSUME NEW g \in wrong PROVE FALSE
    OBVIOUS
  <2>1. g \in DOMAIN hist1 /\ g \in DOMAIN inArr /\ hist1[g].remote # inArr[g]
    BY DEF Mispredicted
  <2>2. g \in DOMAIN applied[q] /\ inArr[g] = applied[q][g]
    BY <1>4, <2>1 DEF AgreesWith
  <2>3. g \in DOMAIN guess[p] /\ guess[p][g] # applied[q][g]
    BY <1>3, <1>5, <2>1, <2>2
  <2> QED BY <2>2, <2>3 DEF SomeMisprediction
<1>7. /\ machine' = [machine EXCEPT ![p] = RunFrame(machine[p], f, pad[p])]
      /\ marks' = [marks EXCEPT ![p] = @]
      /\ hist' = [hist EXCEPT ![p] = hist1]
      /\ sums' = [sums EXCEPT ![p] = Keep(sums1, Newest(DOMAIN sums1))]
      /\ sumNet' = [sumNet EXCEPT ![q] = Send(@, known[p], f, sum) \cup {},
                                  ![p] = Undrained(@, chs, Repeats)]
  BY <1>6 DEF EndWith
<1> HIDE DEF sums1, hist1, sum
<1>8. \A g \in DOMAIN sums'[p] : g \in DOMAIN sums1 /\ sums'[p][g] = sums1[g]
  BY <1>2, <1>7 DEF Keep
<1>9. /\ sumNet'[q] \subseteq sumNet[q] \cup {<<f, sum>>}
      /\ sumNet'[p] \subseteq sumNet[p]
  BY <1>1, <1>2, <1>7 DEF Send, Undrained
<1> QED BY <1>2, <1>7, <1>8, <1>9 DEF EndsAsRun, sums1, hist1, sum

(* Two ends that guessed right, and whose marks are those of their masks,  *)
(* have the same checksum of every frame that both ran.                    *)
LEMMA SumsAgree ==
    ASSUME IInv', \A r \in Peers : Calm(r)' /\ DOMAIN guess'[r] = DOMAIN applied'[r],
           ~SomeMisprediction', ~SomeStray',
           NEW p \in Peers, NEW g, NEW c, NEW d,
           IsSumAfter(p, c, g), IsSumAfter(Other(p), d, g)
    PROVE  c = d
<1> DEFINE q == Other(p)
           UpTo(r, n) == {k \in marks'[r] : k[1] < n}
<1>1. q \in Peers /\ Other(q) = p
  BY TwoPeers
<1>2. /\ g \in 0..(frame'[p] - 1) /\ g \in 0..(frame'[q] - 1)
      /\ frame'[p] \in Nat /\ frame'[q] \in Nat
      /\ g + 1 \in 0..frame'[p] /\ g + 1 \in 0..frame'[q]
  BY <1>1 DEF IsSumAfter, IInv, TypeOK
<1>3. ASSUME NEW i \in 0..((g + 1) - 1) PROVE machine'[p][i] = machine'[q][i]
  <2>0. ASSUME NEW r \in Peers, i \in 0..(frame'[r] - 1)
        PROVE  i \in DOMAIN applied'[r] /\ i \in DOMAIN guess'[r]
    <3>1. /\ frame'[r] \in Nat
          /\ DOMAIN applied'[r] = 0..(IF running'[r] THEN frame'[r] ELSE frame'[r] - 1)
      BY DEF IInv, TypeOK
    <3>2. i \in DOMAIN applied'[r]
      BY <2>0, <3>1
    <3> QED BY <3>2
  <2>1. /\ i \in 0..(frame'[p] - 1) /\ i \in DOMAIN applied'[p] /\ i \in DOMAIN guess'[p]
        /\ i \in 0..(frame'[q] - 1) /\ i \in DOMAIN applied'[q] /\ i \in DOMAIN guess'[q]
    BY <1>1, <1>2, <2>0
  <2>2. guess'[p][i] = applied'[q][i] /\ guess'[q][i] = applied'[p][i]
    BY <1>1, <2>1 DEF SomeMisprediction
  <2>3. /\ machine'[p][i] = applied'[p][i] \cup guess'[p][i]
        /\ machine'[q][i] = applied'[q][i] \cup guess'[q][i]
    BY <1>1, <2>1 DEF Calm
  <2> QED BY <2>2, <2>3
<1>4. Before(machine'[p], g + 1) = Before(machine'[q], g + 1)
  BY <1>3 DEF Before
<1>5. ASSUME NEW r \in Peers, NEW n \in 0..frame'[r]
      PROVE  UpTo(r, n) = Edges(Before(machine'[r], n))
  <2>1. /\ frame'[r] \in Nat /\ machine'[r] = Before(machine'[r], frame'[r])
        /\ \A k \in marks'[r] : k[1] \in Nat
        /\ UpTo(r, frame'[r]) = Edges(machine'[r])
    <3>1. /\ frame'[r] \in Nat /\ machine'[r] = Before(machine'[r], frame'[r])
      BY DEF IInv, TypeOK, PeerInv
    <3>2. \A k \in marks'[r] : k[1] \in Nat
      BY DEF Calm
    <3>3. UpTo(r, frame'[r]) = Edges(machine'[r])
      <4>1. ~\E x \in Peers : {k \in marks'[x] : k[1] < frame'[x]} # Edges(machine'[x])
        BY Zenon DEF SomeStray, MarksUpTo
      <4> QED BY <4>1
    <3> QED BY <3>1, <3>2, <3>3
  <2> DEFINE ms == marks'[r]
             m  == machine'[r]
             k0 == frame'[r]
  <2>2. /\ k0 \in Nat /\ m = Before(m, k0) /\ n \in 0..k0
        /\ \A k \in ms : k[1] \in Nat
        /\ {k \in ms : k[1] < k0} = Edges(m)
    BY <2>1
  <2> SUFFICES {k \in ms : k[1] < n} = Edges(Before(m, n))
    OBVIOUS
  <2> HIDE DEF ms, m, k0
  <2> QED BY <2>2, MarksOfMasks
<1>6. UpTo(p, g + 1) = UpTo(q, g + 1)
  BY <1>1, <1>2, <1>4, <1>5
<1> QED BY <1>4, <1>6 DEF IsSumAfter

LEMMA EndKeepsAlarms ==
    ASSUME IInv, Alarms, NEW p \in Peers, EndFrame(p)
    PROVE  Alarms'
<1> DEFINE q == Other(p)
           f == frame[p]
           ran == RunFrame(machine[p], f, pad[p])
           sum == FrameChecksum(ran, marks[p])
<1>1. q \in Peers /\ q # p /\ Other(q) = p /\ \A r \in Peers : r # p => r = q
  BY TwoPeers
<1>2. PICK ins \in Drains(inputNet[p], MaxInputs), chs \in Drains(sumNet[p], MaxSums) :
         EndWith(p, ins, chs)
  BY DEF EndFrame
<1> DEFINE sumArr == Merge(peerSums[p], chs)
           sums1 == RecordIn(sums[p], f, sum)
           matched == DOMAIN sums1 \cap DOMAIN sumArr
           alarm == \E g \in matched : sums1[g] # sumArr[g]
<1>3. /\ running[p] /\ UNCHANGED <<applied, guess>>
      /\ frame' = [frame EXCEPT ![p] = f + 1]
      /\ running' = [running EXCEPT ![p] = FALSE]
      /\ peerSums' = [peerSums EXCEPT ![p] = Drop(sumArr, matched)]
      /\ desync' = [desync EXCEPT ![p] = @ \/ alarm]
  <2>1. desync' = [desync EXCEPT ![p] = @ \/ alarm]
    BY <1>2 DEF EndWith
  <2>2. /\ frame' = [frame EXCEPT ![p] = f + 1]
        /\ running' = [running EXCEPT ![p] = FALSE]
        /\ peerSums' = [peerSums EXCEPT ![p] = Drop(sumArr, matched)]
    BY <1>2 DEF EndWith
  <2>3. running[p] /\ UNCHANGED <<applied, guess>>
    BY DEF EndFrame
  <2> HIDE DEF alarm, matched, sumArr
  <2> QED BY <2>1, <2>2, <2>3
<1>4. \E end, trace, window, held, kept :
         /\ machine' = [machine EXCEPT ![p] = end]
         /\ marks' = [marks EXCEPT ![p] = trace]
         /\ sums' = [sums EXCEPT ![p] = window]
         /\ current' = [current EXCEPT ![p] = held]
         /\ hist' = [hist EXCEPT ![p] = kept]
  BY <1>2 DEF EndWith
<1>5. /\ DOMAIN frame = Peers /\ DOMAIN running = Peers /\ DOMAIN peerSums = Peers
      /\ DOMAIN desync = Peers /\ DOMAIN machine = Peers /\ DOMAIN sums = Peers
      /\ DOMAIN current = Peers /\ DOMAIN hist = Peers /\ DOMAIN marks = Peers
      /\ f \in Nat /\ DOMAIN applied[p] = 0..f
      /\ pad[p] = applied[p][f] \cup current[p].remote
      /\ machine[p] = Before(machine[p], f)
      /\ DOMAIN hist[p] \subseteq 0..(f - 1)
  BY <1>3 DEF IInv, TypeOK, PeerInv, RunningFrame
<1>6. IInv'
  BY EndStep
<1>7. /\ SomeMisprediction' <=> SomeMisprediction
      /\ \A r \in Peers : DOMAIN guess'[r] = DOMAIN applied'[r]
  BY <1>3 DEF SomeMisprediction, Alarms
<1>8. CASE SomeMisprediction
  BY <1>7, <1>8 DEF Alarms, DesyncHasACause
<1>9. CASE ~SomeMisprediction
  <2>1. Calm(p) /\ Calm(q) /\ DOMAIN guess[p] = 0..f
    BY <1>1, <1>5, <1>9 DEF Alarms
  <2>2. EndsAsRun(p, chs)
    BY <1>2, <1>3, <1>9, RightGuesses DEF Drains
  <2>3. /\ frame'[q] = frame[q] /\ running'[q] = running[q] /\ peerSums'[q] = peerSums[q]
        /\ machine'[q] = machine[q] /\ sums'[q] = sums[q] /\ current'[q] = current[q]
        /\ hist'[q] = hist[q] /\ marks'[q] = marks[q]
        /\ frame'[p] = f + 1 /\ ~running'[p]
        /\ peerSums'[p] = Drop(sumArr, matched)
    BY <1>1, <1>3, <1>4, <1>5
  <2>4. /\ machine'[p] = ran /\ marks'[p] = marks[p] /\ ran[f] = pad[p]
        /\ \A g \in 0..(f - 1) : machine'[p][g] = machine[p][g]
    BY <1>5, <2>2 DEF EndsAsRun, RunFrame
  <2>5. /\ GoesOn(p) /\ \A k \in marks'[p] : k[1] <= frame'[p]
        /\ GoesOn(q) /\ \A k \in marks'[q] : k[1] <= frame'[q]
    <3>1. MarksGrow(p) /\ MarksGrow(q)
      BY <2>3, <2>4 DEF MarksGrow
    <3> QED BY <1>1, <1>6, <2>1, <2>3, <2>4, <3>1, FramesGoOn
  <2>6. /\ \A c, g : IsSum(p, c, g) => IsSumAfter(p, c, g)
        /\ \A c, g : IsSum(q, c, g) => IsSumAfter(q, c, g)
    BY <1>1, <2>5, SumsStay
  <2>7. IsSumAfter(p, sum, f)
    <3>1. f \in 0..(frame'[p] - 1) /\ Before(machine'[p], f + 1) = ran
      <4>1. machine'[p] = Before(machine'[p], f + 1)
        BY <1>6, <2>3 DEF IInv, PeerInv
      <4> QED BY <1>5, <2>3, <2>4, <4>1
    <3>2. {k \in marks'[p] : k[1] < f + 1} = marks[p]
      <4>1. \A k \in marks[p] : k[1] \in Nat /\ k[1] <= f
        BY <2>1 DEF Calm
      <4>2. \A k \in marks[p] : k[1] < f + 1
        BY <1>5, <4>1
      <4> QED BY <2>4, <4>2
    <3> HIDE DEF ran
    <3> QED BY <3>1, <3>2 DEF IsSumAfter
  <2> HIDE DEF sum
  <2>8. \A g \in DOMAIN sums1 : IsSumAfter(p, sums1[g], g)
    <3>1. \A g \in DOMAIN sums1 : \/ g = f /\ sums1[g] = sum
                                  \/ g \in DOMAIN sums[p] /\ sums1[g] = sums[p][g]
      BY DEF RecordIn, Put, Keep
    <3> HIDE DEF sums1
    <3> QED BY <2>1, <2>6, <2>7, <3>1 DEF Calm
  <2>9. /\ \A g \in DOMAIN sums'[p] : g \in DOMAIN sums1 /\ sums'[p][g] = sums1[g]
        /\ sumNet'[q] \subseteq sumNet[q] \cup {<<f, sum>>}
        /\ sumNet'[p] \subseteq sumNet[p]
        /\ hist'[p] = RecordIn(hist[p], f, current[p])
    BY <2>2 DEF EndsAsRun, sum
  <2>10. \A g \in DOMAIN sumArr : IsSum(q, sumArr[g], g)
    <3>1. chs \in SUBSET sumNet[p]
      BY DEF Drains
    <3> QED BY <2>1, <3>1, MergedSums
  <2> HIDE DEF sums1, sumArr, ran
  <2>11. Calm(p)'
    <3>1. \A g \in DOMAIN hist'[p] : hist'[p][g].remote = guess[p][g]
      <4>1. \A g \in DOMAIN hist'[p] : \/ g = f /\ hist'[p][g] = current[p]
                                       \/ g \in DOMAIN hist[p] /\ hist'[p][g] = hist[p][g]
        BY <2>9 DEF RecordIn, Put, Keep
      <4> QED BY <1>3, <2>1, <4>1 DEF Calm
    <3>2. \A g \in 0..(frame'[p] - 1) : machine'[p][g] = applied[p][g] \cup guess[p][g]
      <4> SUFFICES ASSUME NEW g \in 0..(frame'[p] - 1)
                   PROVE  machine'[p][g] = applied[p][g] \cup guess[p][g]
        OBVIOUS
      <4>1. CASE g = f
        BY <1>3, <1>5, <2>1, <2>4, <4>1 DEF Calm
      <4>2. CASE g # f
        <5>1. g \in 0..(f - 1)
          BY <1>5, <2>3, <4>2
        <5> QED BY <2>1, <2>4, <5>1 DEF Calm
      <4> QED BY <4>1, <4>2
    <3>3. \A d \in sumNet'[q] : IsSumAfter(p, d[2], d[1])
      BY <2>1, <2>6, <2>7, <2>9 DEF Calm
    <3>4. \A g \in DOMAIN sums'[p] : IsSumAfter(p, sums'[p][g], g)
      BY <2>8, <2>9
    <3>5. \A g \in DOMAIN peerSums'[q] : IsSumAfter(p, peerSums'[q][g], g)
      BY <2>1, <2>3, <2>6 DEF Calm
    <3>6. \A k \in marks'[p] : k[1] \in Nat /\ k[1] <= frame'[p]
      BY <2>5 DEF GoesOn
    <3> QED BY <1>3, <2>3, <3>1, <3>2, <3>3, <3>4, <3>5, <3>6, CalmAfter
  <2>12. Calm(q)'
    <3>1. \A g \in DOMAIN peerSums'[p] : IsSum(q, peerSums'[p][g], g)
      BY <2>3, <2>10 DEF Drop
    <3>2. \A d \in sumNet'[p] : IsSum(q, d[2], d[1])
      BY <1>1, <2>1, <2>9 DEF Calm
    <3>3. /\ \A g \in DOMAIN sums'[q] : IsSumAfter(q, sums'[q][g], g)
          /\ \A d \in sumNet'[p] : IsSumAfter(q, d[2], d[1])
          /\ \A g \in DOMAIN peerSums'[p] : IsSumAfter(q, peerSums'[p][g], g)
      BY <2>1, <2>3, <2>6, <3>1, <3>2 DEF Calm
    <3>4. /\ running'[q] => current'[q].remote = guess'[q][frame'[q]]
          /\ \A g \in DOMAIN hist'[q] : hist'[q][g].remote = guess'[q][g]
          /\ \A g \in 0..(frame'[q] - 1) :
                machine'[q][g] = applied'[q][g] \cup guess'[q][g]
      BY <1>3, <2>1, <2>3 DEF Calm
    <3>5. \A k \in marks'[q] : k[1] \in Nat /\ k[1] <= frame'[q]
      BY <2>5 DEF GoesOn
    <3> QED BY <1>1, <3>3, <3>4, <3>5, CalmAfter
  <2>13. alarm => SomeStray'
    <3> SUFFICES ASSUME ~SomeStray', NEW g \in matched PROVE sums1[g] = sumArr[g]
      OBVIOUS
    <3>1. IsSumAfter(p, sums1[g], g) /\ IsSumAfter(q, sumArr[g], g)
      BY <2>6, <2>8, <2>10
    <3>2. \A r \in Peers : Calm(r)' /\ DOMAIN guess'[r] = DOMAIN applied'[r]
      BY <1>1, <1>7, <2>11, <2>12
    <3>3. ~SomeMisprediction'
      BY <1>7, <1>9
    <3> QED BY <1>6, <3>1, <3>2, <3>3, SumsAgree
  <2>14. SomeStray => SomeStray'
    BY <1>1, <2>5, StrayStays
  <2>15. (\E r \in Peers : desync'[r]) => (\E r \in Peers : desync[r]) \/ alarm
    <3> HIDE DEF alarm
    <3> QED BY <1>3, <1>5
  <2> HIDE DEF alarm
  <2> QED BY <1>1, <1>7, <1>9, <2>11, <2>12, <2>13, <2>14, <2>15 DEF Alarms, DesyncHasACause
<1> QED BY <1>8, <1>9

LEMMA StepKeepsAlarms == IInv /\ Alarms /\ [Next]_vars => Alarms'
<1> SUFFICES ASSUME IInv, Alarms, [Next]_vars PROVE Alarms'
  OBVIOUS
<1>1. IInv'
  BY StepIInv
<1>2. ASSUME NEW p \in Peers, UserActs(p) PROVE Alarms'
  <2>1. UNCHANGED <<frame, machine, running, current, hist, sums, peerSums, sumNet,
                    applied, guess, desync>>
    BY <1>2 DEF UserActs, KeyEvent, WriteMemory, ChangeDelay, TogglePause,
       session, transport, ghosts
  <2>2. DOMAIN marks = Peers
    BY DEF IInv, TypeOK
  <2>3. \A r \in Peers : MarksGrow(r)
    BY <1>2, <2>2 DEF UserActs, KeyEvent, WriteMemory, ChangeDelay, TogglePause,
       MarksGrow, Edge, ghosts
  <2> QED BY <1>1, <2>1, <2>3, UserKeepsAlarms
<1>3. CASE UNCHANGED vars
  <2>1. \A r \in Peers : MarksGrow(r)
    BY <1>3 DEF vars, MarksGrow
  <2> QED BY <1>1, <1>3, <2>1, UserKeepsAlarms DEF vars, session, transport, ghosts
<1>4. CASE Next
  BY <1>1, <1>2, <1>4, BeginKeepsAlarms, EndKeepsAlarms DEF Next, UserActs
<1> QED BY <1>3, <1>4

(* NETPLAY DESYNC is never shown to two ends that guessed right and whose  *)
(* machines hold nothing but what their masks explain: two checksums that  *)
(* are compared differ only where some frame first ran with an input the   *)
(* peer did not apply, where a user wrote into his own machine, or where a *)
(* key event left a joypad interrupt (realtime.cpp:1799-1812).             *)
THEOREM AlarmsAreEarned == Spec => []DesyncHasACause
<1>1. Init => Alarms
  <2> SUFFICES ASSUME Init PROVE Alarms
    OBVIOUS
  <2>1. \A p \in Peers : Other(p) \in Peers
    BY TwoPeers
  <2> QED BY <2>1 DEF Init, Alarms, Calm, NoFrames, DesyncHasACause
<1>2. Alarms => DesyncHasACause
  BY DEF Alarms
<1> QED
  BY <1>1, <1>2, StepKeepsAlarms, Invariance, PTL DEF Spec
=============================================================================
