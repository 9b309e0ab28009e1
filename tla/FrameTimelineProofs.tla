-------------------------- MODULE FrameTimelineProofs -------------------------
(***************************************************************************)
(* Proofs about FrameTimeline, for every MaxHistory and MaxStates: type    *)
(* correctness, the two invariants on time, and the refinement of          *)
(* TimelinePromise.                                                        *)
(***************************************************************************)
EXTENDS FrameTimeline, SequenceTheorems, TLAPS

(* The inductive invariant adds that nothing refers to a state that has    *)
(* not been computed yet, so computing one leaves the ancestors of all     *)
(* that is stored as they were.                                            *)
OnlyMadeStates ==
    /\ machine <= made
    /\ saved <= made
    /\ \A i \in DOMAIN history : history[i] <= made
    /\ \A i \in DOMAIN starts : starts[i] <= made

IInv == TypeOK /\ OnlyMadeStates /\ HistoryIsOneLine /\ PastIsTheMachines

-----------------------------------------------------------------------------
(* What captureCurrent leaves: the entries up to the cursor, perhaps       *)
(* without the first, then the new one, which the cursor is on.            *)
LEMMA CaptureEntries ==
    ASSUME TypeOK, NEW s \in States, CaptureCurrent(s)
    PROVE  /\ history' \in Seq(States)
           /\ Len(history') \in 1..MaxHistory
           /\ cursor' = Len(history') - 1
           /\ history'[Len(history')] = s
           /\ \E d \in {0, 1} :
                /\ d = 1 <=> cursor + 2 > MaxHistory
                /\ Len(history') + d = cursor + 2
                /\ \A i \in 1..(Len(history') - 1) :
                     i + d \in 1..(cursor + 1) /\ history'[i] = history[i + d]
<1> DEFINE all == Append(Truncated, s)
<1>1. /\ MaxHistory \in Nat \ {0}
      /\ history \in Seq(States) /\ Len(history) \in 1..MaxHistory
      /\ cursor \in 0..(Len(history) - 1)
  BY TimelineAssumption DEF TypeOK
<1>2. /\ Truncated \in Seq(States)
      /\ Len(Truncated) = cursor + 1
      /\ \A i \in 1..(cursor + 1) : Truncated[i] = history[i]
  <2>1. \A i \in 1..(cursor + 1) : history[i] \in States
    BY <1>1, ElementOfSeq
  <2> QED
    BY <1>1, <2>1, SubSeqProperties DEF Truncated
<1>3. /\ all \in Seq(States)
      /\ Len(all) = cursor + 2
      /\ all[cursor + 2] = s
      /\ \A i \in 1..(cursor + 1) : all[i] = history[i]
  BY <1>1, <1>2
<1>4. CASE Len(all) > MaxHistory
  <2>1. history' = Tail(all) /\ cursor' = Len(Tail(all)) - 1
    BY <1>4 DEF CaptureCurrent
  <2>2. /\ Tail(all) \in Seq(States)
        /\ Len(Tail(all)) = cursor + 1
        /\ \A i \in 1..(cursor + 1) : Tail(all)[i] = all[i + 1]
    BY <1>1, <1>3, HeadTailProperties
  <2>3. cursor + 1 = MaxHistory
    BY <1>1, <1>3, <1>4
  <2>4. \A i \in 1..cursor : Tail(all)[i] = history[i + 1]
    BY <1>1, <1>3, <2>2
  <2>5. Tail(all)[cursor + 1] = s
    BY <1>1, <1>3, <2>2
  <2>6. /\ Len(history') + 1 = cursor + 2
        /\ \A i \in 1..(Len(history') - 1) :
             i + 1 \in 1..(cursor + 1) /\ history'[i] = history[i + 1]
    BY <1>1, <2>1, <2>2, <2>4
  <2>7. \E d \in {0, 1} :
          /\ d = 1 <=> cursor + 2 > MaxHistory
          /\ Len(history') + d = cursor + 2
          /\ \A i \in 1..(Len(history') - 1) :
               i + d \in 1..(cursor + 1) /\ history'[i] = history[i + d]
    <3> WITNESS 1 \in {0, 1}
    <3> QED BY <1>3, <1>4, <2>6
  <2>8. /\ Len(history') = cursor + 1 /\ Len(history') \in 1..MaxHistory
        /\ history' \in Seq(States) /\ cursor' = Len(history') - 1
    BY <1>1, <2>1, <2>2, <2>3
  <2>9. history'[Len(history')] = s
    BY <2>1, <2>5, <2>8
  <2> QED
    BY <2>7, <2>8, <2>9
<1>5. CASE ~(Len(all) > MaxHistory)
  <2>1. history' = all /\ cursor' = Len(all) - 1
    BY <1>5 DEF CaptureCurrent
  <2>2. /\ Len(history') + 0 = cursor + 2
        /\ \A i \in 1..(Len(history') - 1) :
             i + 0 \in 1..(cursor + 1) /\ history'[i] = history[i + 0]
    BY <1>1, <1>3, <2>1
  <2>3. Len(all) \in 1..MaxHistory
    BY <1>1, <1>3, <1>5
  <2>4. \E d \in {0, 1} :
          /\ d = 1 <=> cursor + 2 > MaxHistory
          /\ Len(history') + d = cursor + 2
          /\ \A i \in 1..(Len(history') - 1) :
               i + d \in 1..(cursor + 1) /\ history'[i] = history[i + d]
    <3> WITNESS 0 \in {0, 1}
    <3> QED BY <1>3, <1>5, <2>2
  <2> QED
    BY <1>1, <1>3, <2>1, <2>3, <2>4
<1> QED
  BY <1>4, <1>5

-----------------------------------------------------------------------------
(* The machine goes to a state that was never there before: nothing that   *)
(* is stored is disturbed, and what was the machine's past still is, or    *)
(* has been undone.                                                        *)
Advances(s) ==
    /\ s \in States /\ made < s /\ made' = s /\ machine' = s
    /\ ancestors' \in [States -> SUBSET States]
    /\ \A t \in States : t <= made => ancestors'[t] = ancestors[t]
    /\ undone \subseteq undone' /\ undone' \subseteq States
    /\ Past(machine) \subseteq ancestors'[s] \cup undone'

LEMMA ComputeAdvances ==
    ASSUME IInv, Compute, undone' = undone
    PROVE  Advances(made + 1)
<1>1. made + 1 \in States /\ made < made + 1 /\ made' = made + 1 /\ machine' = made + 1
  BY TimelineAssumption DEF IInv, TypeOK, States, Compute
<1>2. ancestors' = [ancestors EXCEPT ![made + 1] = ancestors[machine] \cup {machine}]
  BY DEF Compute
<1>3. /\ machine \in States
      /\ ancestors \in [States -> SUBSET States]
      /\ made \in Nat /\ undone \subseteq States
  BY TimelineAssumption DEF IInv, TypeOK, States
<1>4. ancestors' \in [States -> SUBSET States]
  BY <1>1, <1>2, <1>3
<1>5. ancestors'[made + 1] = Past(machine)
  BY <1>1, <1>2, <1>3 DEF Past
<1>6. \A s \in States : s <= made => ancestors'[s] = ancestors[s]
  BY <1>1, <1>2, <1>3 DEF States
<1> QED
  BY <1>1, <1>3, <1>4, <1>5, <1>6 DEF Advances

(* The window of netplay holds states that were computed.                  *)
LEMMA WindowRecords ==
    ASSUME IInv
    PROVE  /\ Recorded \in Seq(States)
           /\ Len(Recorded) \in 1..RollbackWindow
           /\ \A i \in 1..Len(Recorded) : Recorded[i] \in States /\ Recorded[i] <= made
<1> DEFINE all == Append(starts, machine)
           n == Len(starts)
<1>1. /\ starts \in Seq(States) /\ n \in Nat /\ n <= RollbackWindow
      /\ RollbackWindow \in Nat \ {0}
      /\ machine \in States /\ machine <= made
      /\ \A i \in 1..n : starts[i] \in States /\ starts[i] <= made
  BY ElementOfSeq, LenProperties, TimelineAssumption DEF IInv, TypeOK, OnlyMadeStates
<1>2. /\ all \in Seq(States) /\ Len(all) = n + 1
      /\ \A i \in 1..(n + 1) : all[i] \in States /\ all[i] <= made
  BY <1>1
<1>3. CASE Len(all) > RollbackWindow
  <2>1. Recorded = Tail(all)
    BY <1>3 DEF Recorded
  <2>2. /\ Tail(all) \in Seq(States) /\ Len(Tail(all)) = n
        /\ \A i \in 1..n : Tail(all)[i] = all[i + 1]
    BY <1>1, <1>2, HeadTailProperties
  <2>3. n \in 1..RollbackWindow
    BY <1>1, <1>2, <1>3
  <2> QED
    BY <1>1, <1>2, <2>1, <2>2, <2>3
<1>4. CASE ~(Len(all) > RollbackWindow)
  BY <1>1, <1>2, <1>4 DEF Recorded
<1> QED
  BY <1>3, <1>4

(* A rollback undoes what it takes from the machine's past.                *)
LEMMA RollBackAdvances ==
    ASSUME IInv, NEW k \in DOMAIN Recorded, NEW ff \in BOOLEAN, RollBack(k, ff)
    PROVE  /\ \E s \in States : s = made + Len(Recorded) - k + 1 /\ Advances(s)
           /\ starts' \in Seq(States) /\ Len(starts') <= RollbackWindow
           /\ \A i \in DOMAIN starts' : starts'[i] <= made'
<1> DEFINE again == Len(Recorded) - k + 1
           first == Recorded[k]
           last == made + again
<1>1. /\ Recorded \in Seq(States) /\ Len(Recorded) \in 1..RollbackWindow
      /\ DOMAIN Recorded = 1..Len(Recorded)
      /\ \A i \in 1..Len(Recorded) : Recorded[i] \in States /\ Recorded[i] <= made
  BY WindowRecords, LenProperties
<1>2. /\ RollbackWindow \in Nat /\ MaxStates \in Nat /\ made \in Nat
      /\ made \in States /\ machine \in States
      /\ ancestors \in [States -> SUBSET States] /\ undone \subseteq States
  BY TimelineAssumption DEF IInv, TypeOK, States
<1>3. again \in Nat \ {0} /\ k \in Nat \ {0} /\ k <= Len(Recorded)
  BY <1>1, <1>2
<1>4. /\ last <= MaxStates /\ made' = last /\ machine' = last
      /\ ancestors' = [s \in States |-> IF s \in (made + 1)..last
                                        THEN Past(first) \cup ((made + 1)..(s - 1))
                                        ELSE ancestors[s]]
      /\ starts' = [i \in DOMAIN Recorded |->
                      IF i <= k THEN Recorded[i] ELSE made + i - k]
      /\ undone' = undone \cup (Past(machine) \ Past(first))
  BY DEF RollBack
<1>5. last \in States /\ made < last /\ last \in Nat
  BY <1>2, <1>3, <1>4 DEF States
<1>6. Past(first) \subseteq States /\ Past(machine) \subseteq States
  BY <1>1, <1>2 DEF Past
<1>7. ancestors' \in [States -> SUBSET States]
  <2>1. ASSUME NEW s \in States, s \in (made + 1)..last
        PROVE  Past(first) \cup ((made + 1)..(s - 1)) \subseteq States
    BY <1>2, <1>4, <1>5, <1>6, <2>1 DEF States
  <2> HIDE DEF first, last
  <2> QED
    BY <1>2, <1>4, <2>1
<1>8. \A t \in States : t <= made => ancestors'[t] = ancestors[t]
  BY <1>2, <1>4 DEF States
<1>9. Past(first) \subseteq ancestors'[last]
  <2>1. last \in (made + 1)..last
    BY <1>2, <1>5
  <2> HIDE DEF first, last
  <2> QED
    BY <1>4, <1>5, <2>1
<1>10. Advances(last)
  <2> HIDE DEF first, last
  <2> QED
    BY <1>2, <1>4, <1>5, <1>6, <1>7, <1>8, <1>9 DEF Advances
<1>11. \A i \in 1..Len(Recorded) : starts'[i] \in States /\ starts'[i] <= last
  <2> SUFFICES ASSUME NEW i \in 1..Len(Recorded)
               PROVE  starts'[i] \in States /\ starts'[i] <= last
    OBVIOUS
  <2>1. CASE i <= k
    <3>1. starts'[i] = Recorded[i]
      BY <1>1, <1>4, <2>1
    <3>2. starts'[i] \in States /\ starts'[i] <= made
      BY <1>1, <3>1
    <3> QED
      BY <1>2, <1>5, <3>2 DEF States
  <2>2. CASE ~(i <= k)
    <3>1. starts'[i] = made + i - k
      BY <1>1, <1>4, <2>2
    <3>2. made + i - k \in Nat \ {0} /\ made + i - k <= last
      BY <1>1, <1>2, <1>3, <2>2
    <3>3. made + i - k \in States
      <4> HIDE DEF last
      <4> QED
        BY <1>2, <1>4, <1>5, <3>2 DEF States
    <3> QED
      BY <3>1, <3>2, <3>3
  <2> QED
    BY <2>1, <2>2
<1>12. starts' \in Seq(States) /\ Len(starts') = Len(Recorded)
  <2>1. starts' = [i \in 1..Len(Recorded) |-> starts'[i]]
    BY <1>1, <1>4
  <2>2. Len(Recorded) \in Nat
    BY <1>1
  <2>3. starts' \in [1..Len(Recorded) -> States]
    BY <1>11, <2>1
  <2> QED
    BY <2>2, <2>3
<1>13. \A i \in DOMAIN starts' : starts'[i] <= made'
  BY <1>4, <1>11, <1>12, LenProperties
<1> QED
  BY <1>1, <1>2, <1>5, <1>10, <1>12, <1>13

(* What a frame records of netplay keeps its type.                         *)
WindowKeeps ==
    /\ starts' \in Seq(States) /\ Len(starts') <= RollbackWindow
    /\ \A i \in DOMAIN starts' : starts'[i] <= made'
    /\ netplay' = netplay

LEMMA SameWindow ==
    ASSUME IInv, NEW s, Advances(s), UNCHANGED <<starts, netplay>>
    PROVE  WindowKeeps
<1>1. /\ starts \in Seq(States) /\ Len(starts) <= RollbackWindow
      /\ \A i \in DOMAIN starts : starts[i] \in States /\ starts[i] <= made
      /\ made \in States
  BY ElementOfSeq, LenProperties DEF IInv, TypeOK, OnlyMadeStates
<1>2. \A i \in DOMAIN starts : starts[i] <= made'
  BY <1>1 DEF Advances, States
<1> QED
  BY <1>1, <1>2 DEF WindowKeeps

(* A captured frame keeps the inductive invariant.                         *)
LEMMA CaptureStep ==
    ASSUME IInv, NEW s, Advances(s), CaptureCurrent(s), saved' = saved,
           frames' \in {0, 1}, WindowKeeps
    PROVE  IInv'
<1>1. /\ s \in States /\ made < s /\ made' = s /\ machine' = s
      /\ ancestors' \in [States -> SUBSET States]
      /\ Past(machine) \subseteq ancestors'[s] \cup undone'
      /\ undone \subseteq undone' /\ undone' \subseteq States
      /\ \A t \in States : t <= made => ancestors'[t] = ancestors[t]
  BY DEF Advances
<1> DEFINE n == Len(history')
<1>2. /\ history' \in Seq(States)
      /\ n \in 1..MaxHistory /\ n \in Nat
      /\ cursor' = n - 1
      /\ history'[n] = s
  BY <1>1, CaptureEntries, TimelineAssumption DEF IInv
<1>3. PICK d \in {0, 1} :
        /\ n + d = cursor + 2
        /\ \A i \in 1..(n - 1) : i + d \in 1..(cursor + 1) /\ history'[i] = history[i + d]
  BY <1>1, CaptureEntries DEF IInv
<1>4. /\ history \in Seq(States) /\ Len(history) \in Nat
      /\ cursor \in 0..(Len(history) - 1)
      /\ DOMAIN history = 1..Len(history) /\ DOMAIN history' = 1..n
      /\ machine \in States /\ made \in States /\ made \in Nat
      /\ machine \in Nat /\ saved \in Nat
      /\ saved \in States \cup {0} /\ saved <= made /\ machine <= made
      /\ s \in Nat
  BY <1>1, <1>2, TimelineAssumption, LenProperties DEF IInv, TypeOK, OnlyMadeStates, States
<1>5. \A i \in 1..(cursor + 1) :
        history[i] \in States /\ history[i] <= made
  BY <1>4, ElementOfSeq DEF IInv, OnlyMadeStates
<1>6. TypeOK'
  <2>1. cursor' \in 0..(Len(history') - 1)
    BY <1>2, <1>4
  <2> QED
    BY <1>1, <1>2, <1>4, <2>1 DEF TypeOK, IInv, WindowKeeps
<1>7. \A i \in 1..(n - 1) :
        /\ history'[i] \in States /\ history'[i] \in Nat /\ history'[i] <= made
        /\ history'[i] \in Past(machine) \cup undone
  BY <1>3, <1>5 DEF IInv, PastIsTheMachines, States
<1>8. OnlyMadeStates'
  <2>1. \A i \in 1..n : history'[i] <= s
    <3> SUFFICES ASSUME NEW i \in 1..n PROVE history'[i] <= s
      OBVIOUS
    <3>1. CASE i = n
      BY <1>1, <1>2, <1>4, <3>1
    <3>2. CASE i # n
      <4>1. i \in 1..(n - 1)
        BY <1>2, <3>2
      <4>2. history'[i] \in Nat /\ history'[i] <= made
        BY <1>7, <4>1
      <4> QED
        BY <1>1, <1>4, <4>2
    <3> QED
      BY <3>1, <3>2
  <2> QED
    BY <1>1, <1>4, <2>1 DEF OnlyMadeStates, WindowKeeps
<1>9. HistoryIsOneLine'
  <2> SUFFICES ASSUME NEW i \in 1..n, NEW j \in 1..n, i < j
               PROVE  history'[i] \in ancestors'[history'[j]] \cup undone'
    BY <1>4 DEF HistoryIsOneLine
  <2>1. CASE j = n
    BY <1>1, <1>2, <1>7, <2>1
  <2>2. CASE j < n
    <3>0. i \in 1..(n - 1) /\ j \in 1..(n - 1)
      BY <1>2, <2>2
    <3>1. i + d \in DOMAIN history /\ j + d \in DOMAIN history /\ i + d < j + d
      <4>1. i + d \in 1..(cursor + 1) /\ j + d \in 1..(cursor + 1)
        BY <1>3, <3>0
      <4>2. cursor + 1 \in 1..Len(history)
        BY <1>4
      <4>3. i + d < j + d
        OBVIOUS
      <4> QED
        BY <1>4, <4>1, <4>2, <4>3
    <3>2. history[i + d] \in ancestors[history[j + d]] \cup undone
      BY <3>1 DEF IInv, HistoryIsOneLine
    <3>3. history'[i] = history[i + d] /\ history'[j] = history[j + d]
      BY <1>3, <3>0
    <3> QED
      BY <1>1, <1>7, <3>0, <3>2, <3>3
  <2> QED
    BY <1>2, <2>1, <2>2
<1>10. PastIsTheMachines'
  BY <1>1, <1>2, <1>7 DEF PastIsTheMachines, Past
<1> QED
  BY <1>6, <1>8, <1>9, <1>10 DEF IInv

(* A computed state that is not captured keeps it too.                     *)
LEMMA ComputeStep ==
    ASSUME IInv, NEW s, Advances(s), UNCHANGED <<history, cursor, saved>>,
           frames' \in {0, 1}, WindowKeeps
    PROVE  IInv'
<1>1. /\ s \in States /\ made < s /\ made' = s /\ machine' = s
      /\ ancestors' \in [States -> SUBSET States]
      /\ Past(machine) \subseteq ancestors'[s] \cup undone'
      /\ undone \subseteq undone' /\ undone' \subseteq States
      /\ \A t \in States : t <= made => ancestors'[t] = ancestors[t]
  BY DEF Advances
<1>2. /\ history \in Seq(States) /\ DOMAIN history = 1..Len(history)
      /\ Len(history) \in Nat /\ cursor \in 0..(Len(history) - 1)
      /\ made \in Nat /\ saved \in Nat
      /\ saved \in States \cup {0} /\ saved <= made /\ s \in Nat
  BY <1>1, LenProperties, TimelineAssumption DEF IInv, TypeOK, OnlyMadeStates, States
<1>3. \A i \in DOMAIN history :
        history[i] \in States /\ history[i] \in Nat /\ history[i] <= made
  <2>1. \A i \in DOMAIN history : history[i] \in States /\ history[i] <= made
    BY <1>2, ElementOfSeq DEF IInv, OnlyMadeStates
  <2> QED
    BY <2>1 DEF States
<1>4. TypeOK'
  BY <1>1 DEF IInv, TypeOK, WindowKeeps
<1>5. OnlyMadeStates'
  <2>1. machine' <= made'
    BY <1>1, <1>2
  <2>3. saved' <= made'
    BY <1>1, <1>2
  <2>2. \A i \in DOMAIN history : history[i] <= s
    BY <1>1, <1>2, <1>3
  <2> QED
    BY <1>1, <2>1, <2>2, <2>3 DEF OnlyMadeStates, WindowKeeps
<1>6. HistoryIsOneLine'
  BY <1>1, <1>3 DEF IInv, HistoryIsOneLine
<1>7. PastIsTheMachines'
  BY <1>1 DEF IInv, PastIsTheMachines, Past
<1> QED
  BY <1>4, <1>5, <1>6, <1>7 DEF IInv

-----------------------------------------------------------------------------
LEMMA InitIInv == Init => IInv
<1> SUFFICES ASSUME Init PROVE IInv
  OBVIOUS
<1>1. 1 \in States /\ MaxHistory \in Nat \ {0}
  BY TimelineAssumption DEF States
<1>2. history \in Seq(States) /\ Len(history) = 1 /\ history[1] = 1
  BY <1>1 DEF Init
<1>3. /\ starts = <<>> /\ <<>> \in Seq(States) /\ Len(<<>>) = 0 /\ DOMAIN <<>> = {}
      /\ RollbackWindow \in Nat /\ 0 <= RollbackWindow
  BY TimelineAssumption DEF Init
<1>4. TypeOK
  BY <1>1, <1>2, <1>3 DEF Init, TypeOK
<1> QED
  BY <1>1, <1>2, <1>3, <1>4 DEF Init, IInv, OnlyMadeStates, HistoryIsOneLine,
                                  PastIsTheMachines, Past

(* Every step keeps the inductive invariant, action by action.             *)
LEMMA StepIInv == IInv /\ [Next]_vars => IInv'
<1> SUFFICES ASSUME IInv, [Next]_vars PROVE IInv'
  OBVIOUS
<1>1. /\ history \in Seq(States) /\ DOMAIN history = 1..Len(history)
      /\ Len(history) \in 1..MaxHistory /\ cursor \in 0..(Len(history) - 1)
      /\ MaxHistory \in Nat /\ States \subseteq Nat
      /\ \A i \in 1..Len(history) : history[i] \in States /\ history[i] <= made
  BY LenProperties, ElementOfSeq, TimelineAssumption
  DEF IInv, TypeOK, OnlyMadeStates, States
<1>2. ASSUME NEW ff \in BOOLEAN,
             RunFrame(ff) \/ \E k \in DOMAIN Recorded : RollBack(k, ff)
      PROVE  IInv'
  <2>1. ASSUME NEW s, Advances(s), FrameEnds(ff, s), saved' = saved, WindowKeeps
        PROVE  IInv'
    <3>1. frames' \in {0, 1}
      BY <2>1 DEF FrameEnds, IInv, TypeOK
    <3>2. CaptureCurrent(s) \/ UNCHANGED <<history, cursor>>
      BY <2>1 DEF FrameEnds
    <3> QED
      BY <2>1, <3>1, <3>2, CaptureStep, ComputeStep
  <2>2. CASE RunFrame(ff)
    <3>1. /\ Advances(made + 1) /\ FrameEnds(ff, made + 1)
          /\ saved' = saved /\ netplay' = netplay
      BY <2>2, ComputeAdvances DEF RunFrame
    <3>2. CASE netplay
      <4>1. starts' = Recorded
        BY <2>2, <3>2 DEF RunFrame
      <4>2. \A i \in 1..Len(Recorded) : Recorded[i] <= made'
        <5> TAKE i \in 1..Len(Recorded)
        <5>1. Recorded[i] \in Nat /\ Recorded[i] <= made
          BY <1>1, WindowRecords
        <5>2. made \in Nat /\ made' \in Nat /\ made < made'
          BY <1>1, <3>1 DEF IInv, TypeOK, Advances
        <5> QED
          BY <5>1, <5>2
      <4>3. WindowKeeps
        <5>1. /\ starts' \in Seq(States) /\ Len(starts') <= RollbackWindow
              /\ DOMAIN starts' = 1..Len(starts')
          BY <4>1, WindowRecords, LenProperties, TimelineAssumption
        <5> QED
          BY <3>1, <4>1, <4>2, <5>1 DEF WindowKeeps
      <4> QED
        BY <2>1, <3>1, <4>3
    <3>3. CASE ~netplay
      <4>1. UNCHANGED <<starts, netplay>>
        BY <2>2, <3>3 DEF RunFrame
      <4> QED
        BY <2>1, <3>1, <4>1, SameWindow
    <3> QED
      BY <3>2, <3>3
  <2>3. ASSUME NEW k \in DOMAIN Recorded, RollBack(k, ff)
        PROVE  IInv'
    <3>1. PICK s \in States : s = made + Len(Recorded) - k + 1 /\ Advances(s)
      BY <2>3, RollBackAdvances
    <3>2. WindowKeeps
      BY <2>3, RollBackAdvances DEF WindowKeeps, RollBack
    <3>3. FrameEnds(ff, machine') /\ saved' = saved
      BY <2>3 DEF RollBack
    <3>4. machine' = s
      BY <3>1 DEF Advances
    <3> QED
      BY <2>1, <3>1, <3>2, <3>3, <3>4
  <2> QED
    BY <1>2, <2>2, <2>3
<1>3. CASE StepBack
  <2>1. /\ cursor \in 1..Len(history) /\ cursor' = cursor - 1 /\ machine' = history[cursor]
        /\ UNCHANGED <<history, saved, frames, session, made, ancestors>>
    BY <1>1, <1>3 DEF StepBack
  <2>2. TypeOK' /\ OnlyMadeStates' /\ HistoryIsOneLine'
    BY <1>1, <2>1 DEF IInv, TypeOK, OnlyMadeStates, HistoryIsOneLine, session
  <2>3. PastIsTheMachines'
    BY <1>1, <2>1 DEF IInv, HistoryIsOneLine, PastIsTheMachines, Past, session
  <2> QED
    BY <2>2, <2>3 DEF IInv
<1>4. CASE StepForward
  <2>1. /\ cursor + 2 \in 1..Len(history) /\ cursor' = cursor + 1
        /\ machine' = history[cursor + 2]
        /\ UNCHANGED <<history, saved, frames, session, made, ancestors>>
    BY <1>1, <1>4 DEF StepForward
  <2>2. TypeOK' /\ OnlyMadeStates' /\ HistoryIsOneLine'
    BY <1>1, <2>1 DEF IInv, TypeOK, OnlyMadeStates, HistoryIsOneLine, session
  <2>3. PastIsTheMachines'
    BY <1>1, <2>1 DEF IInv, HistoryIsOneLine, PastIsTheMachines, Past, session
  <2> QED
    BY <2>2, <2>3 DEF IInv
<1>5. CASE ForwardByFrame
  <2>1. Advances(made + 1) /\ WindowKeeps /\ saved' = saved /\ frames' \in {0, 1}
    BY <1>5, ComputeAdvances, SameWindow DEF ForwardByFrame, session, IInv, TypeOK
  <2> QED
    BY <1>5, <2>1, CaptureStep DEF ForwardByFrame
<1>6. CASE WriteMemory
  <2>1. Advances(made + 1) /\ WindowKeeps /\ frames' \in {0, 1}
    BY <1>6, ComputeAdvances, SameWindow DEF WriteMemory, session, IInv, TypeOK
  <2> QED
    BY <1>6, <2>1, ComputeStep DEF WriteMemory
<1>7. CASE SaveState
  BY <1>7 DEF SaveState, IInv, TypeOK, OnlyMadeStates, HistoryIsOneLine,
              PastIsTheMachines, Past, session
<1>8. CASE LoadState
  <2>1. saved \in States /\ saved <= made /\ machine' = saved
    BY <1>8 DEF LoadState, IInv, TypeOK, OnlyMadeStates
  <2>2. /\ history' \in Seq(States) /\ Len(history') = 1 /\ history'[1] = saved
        /\ DOMAIN history' = 1..1 /\ cursor' = 0
    BY <1>8, <2>1 DEF LoadState
  <2>3. UNCHANGED <<saved, frames, session, made, ancestors>>
    BY <1>8 DEF LoadState
  <2>4. TypeOK' /\ OnlyMadeStates'
    BY <1>1, <2>1, <2>2, <2>3 DEF IInv, TypeOK, OnlyMadeStates, session
  <2>5. HistoryIsOneLine' /\ PastIsTheMachines'
    BY <2>1, <2>2 DEF HistoryIsOneLine, PastIsTheMachines, Past
  <2> QED
    BY <2>4, <2>5 DEF IInv
<1>9. CASE UNCHANGED vars
  BY <1>9 DEF vars, session, IInv, TypeOK, OnlyMadeStates, HistoryIsOneLine,
              PastIsTheMachines, Past
<1> QED
  BY <1>2, <1>3, <1>4, <1>5, <1>6, <1>7, <1>8, <1>9 DEF Next

THEOREM Invariance == Spec => []IInv
<1> QED
  BY InitIInv, StepIInv, PTL DEF Spec

(* The history stays within MaxHistory and the cursor on it.               *)
THEOREM TypeCorrect == Spec => []TypeOK
<1>1. IInv => TypeOK
  BY DEF IInv
<1> QED
  BY <1>1, Invariance, PTL

(* Stepping back goes back in the machine's own past, or to a state that   *)
(* netplay has rolled back (frame_timeline.cpp:57-78, realtime.cpp:1822).  *)
THEOREM StepBackGoesBack == Spec => []PastIsTheMachines
<1>1. IInv => PastIsTheMachines
  BY DEF IInv
<1> QED
  BY <1>1, Invariance, PTL

(* The entries are one line of time, but for what netplay has rolled back  *)
(* (frame_timeline.cpp:57-86, realtime.cpp:1822-1866).                     *)
THEOREM OneLine == Spec => []HistoryIsOneLine
<1>1. IInv => HistoryIsOneLine
  BY DEF IInv
<1> QED
  BY <1>1, Invariance, PTL

-----------------------------------------------------------------------------
(* The refinement.  The past and the future are the parts of the deque on  *)
(* either side of the cursor.                                              *)
ThePast    == SubSeq(history, 1, cursor)
ThePresent == history[cursor + 1]
TheFuture  == SubSeq(history, cursor + 2, Len(history))

LEMMA Cut ==
    ASSUME NEW h \in Seq(States), NEW a \in Nat \ {0}, NEW b \in Nat,
           b <= Len(h), a <= b + 1
    PROVE  /\ SubSeq(h, a, b) \in Seq(States)
           /\ Len(SubSeq(h, a, b)) = b + 1 - a
           /\ \A i \in 1..(b + 1 - a) : SubSeq(h, a, b)[i] = h[a + i - 1]
<1>1. \A i \in a..b : h[i] \in States
  BY ElementOfSeq
<1>2. /\ SubSeq(h, a, b) \in Seq(States)
      /\ Len(SubSeq(h, a, b)) = IF a <= b THEN b - a + 1 ELSE 0
      /\ \A i \in 1..(b - a + 1) : SubSeq(h, a, b)[i] = h[a + i - 1]
  BY <1>1, SubSeqProperties
<1>3. /\ b - a + 1 = b + 1 - a
      /\ (IF a <= b THEN b - a + 1 ELSE 0) = b + 1 - a
  OBVIOUS
<1> QED
  BY <1>2, <1>3

LEMMA PastAndFuture ==
    ASSUME NEW h \in Seq(States), NEW c \in Nat, c < Len(h)
    PROVE  /\ SubSeq(h, 1, c) \in Seq(States) /\ Len(SubSeq(h, 1, c)) = c
           /\ \A i \in 1..c : SubSeq(h, 1, c)[i] = h[i]
           /\ h[c + 1] \in States
           /\ SubSeq(h, c + 2, Len(h)) \in Seq(States)
           /\ Len(SubSeq(h, c + 2, Len(h))) = Len(h) - (c + 1)
<1>1. Len(h) \in Nat
  OBVIOUS
<1>2. /\ SubSeq(h, 1, c) \in Seq(States) /\ Len(SubSeq(h, 1, c)) = c + 1 - 1
      /\ \A i \in 1..(c + 1 - 1) : SubSeq(h, 1, c)[i] = h[1 + i - 1]
  BY <1>1, Cut
<1>3. c + 1 - 1 = c /\ \A i \in Nat : 1 + i - 1 = i
  OBVIOUS
<1>4. h[c + 1] \in States
  BY <1>1, ElementOfSeq
<1>5. /\ SubSeq(h, c + 2, Len(h)) \in Seq(States)
      /\ Len(SubSeq(h, c + 2, Len(h))) = Len(h) + 1 - (c + 2)
  BY <1>1, Cut
<1>6. Len(h) + 1 - (c + 2) = Len(h) - (c + 1)
  BY <1>1
<1>7. SubSeq(h, 1, c) \in Seq(States) /\ Len(SubSeq(h, 1, c)) = c
  BY <1>2, <1>3
<1>8. \A i \in 1..c : SubSeq(h, 1, c)[i] = h[i]
  <2>1. TAKE i \in 1..c
  <2>2. i \in 1..(c + 1 - 1) /\ 1 + i - 1 = i
    BY <1>3
  <2> QED
    BY <1>2, <2>2
<1>9. Len(SubSeq(h, c + 2, Len(h))) = Len(h) - (c + 1)
  BY <1>5, <1>6
<1> QED
  BY <1>4, <1>5, <1>7, <1>8, <1>9

(* A capture is the promise's Capture.                                     *)
LEMMA CaptureIsCapture ==
    ASSUME TypeOK, TypeOK', NEW s \in States, CaptureCurrent(s)
    PROVE  Promise!Capture
<1> DEFINE n == Len(history')
           both == Append(ThePast, ThePresent)
<1>1. /\ n \in 1..MaxHistory /\ n \in Nat /\ MaxHistory \in Nat
      /\ cursor' = n - 1 /\ history'[n] = s /\ cursor \in Nat
      /\ history' \in Seq(States)
      /\ history \in Seq(States) /\ cursor < Len(history)
  BY CaptureEntries, TimelineAssumption DEF TypeOK
<1>2. PICK d \in {0, 1} :
        /\ d = 1 <=> cursor + 2 > MaxHistory
        /\ n + d = cursor + 2
        /\ \A i \in 1..(n - 1) : i + d \in 1..(cursor + 1) /\ history'[i] = history[i + d]
  BY CaptureEntries
<1>3. /\ ThePast' \in Seq(States) /\ Len(ThePast') = n - 1
      /\ \A i \in 1..(n - 1) : ThePast'[i] = history'[i]
  <2>1. n - 1 \in Nat /\ n - 1 < Len(history')
    BY <1>1
  <2> QED
    BY <1>1, <2>1, PastAndFuture DEF ThePast
<1> HIDE DEF n
<1>4. /\ both \in Seq(States) /\ Len(both) = cursor + 1
      /\ \A i \in 1..(cursor + 1) : both[i] = history[i]
  <2>1. /\ ThePast \in Seq(States) /\ Len(ThePast) = cursor
        /\ \A i \in 1..cursor : ThePast[i] = history[i]
        /\ ThePresent \in States /\ ThePresent = history[cursor + 1]
    BY <1>1, PastAndFuture DEF ThePresent, ThePast
  <2> QED
    BY <1>1, <2>1
<1>5. Promise!LastOf(both, MaxHistory - 1) = SubSeq(both, 1 + d, cursor + 1)
  <2>1. CASE d = 1
    <3>1. Len(both) > MaxHistory - 1 /\ Len(both) = MaxHistory
      BY <1>1, <1>2, <1>4, <2>1
    <3>2. Len(both) - (MaxHistory - 1) + 1 = 1 + d
      BY <1>1, <2>1, <3>1
    <3> QED
      BY <1>4, <3>1, <3>2 DEF Promise!LastOf
  <2>2. CASE d = 0
    <3>1. ~(Len(both) > MaxHistory - 1) /\ 1 + d = 1
      BY <1>1, <1>2, <1>4, <2>2
    <3> QED
      BY <1>4, <3>1 DEF Promise!LastOf
  <2> QED
    BY <2>1, <2>2
<1>6. /\ SubSeq(both, 1 + d, cursor + 1) \in Seq(States)
      /\ Len(SubSeq(both, 1 + d, cursor + 1)) = n - 1
      /\ \A i \in 1..(n - 1) : SubSeq(both, 1 + d, cursor + 1)[i] = history'[i]
  <2>1. 1 + d \in Nat \ {0} /\ cursor + 1 \in Nat /\ 1 + d <= cursor + 1 + 1
    BY <1>1
  <2>2. /\ SubSeq(both, 1 + d, cursor + 1) \in Seq(States)
        /\ Len(SubSeq(both, 1 + d, cursor + 1)) = cursor + 1 - d
        /\ \A i \in 1..(cursor + 1 - d) :
             SubSeq(both, 1 + d, cursor + 1)[i] = both[i + d]
    <3> HIDE DEF both
    <3>1. /\ SubSeq(both, 1 + d, cursor + 1) \in Seq(States)
          /\ Len(SubSeq(both, 1 + d, cursor + 1)) = cursor + 1 + 1 - (1 + d)
          /\ \A i \in 1..(cursor + 1 + 1 - (1 + d)) :
               SubSeq(both, 1 + d, cursor + 1)[i] = both[1 + d + i - 1]
      BY <1>4, <2>1, Cut
    <3>2. cursor + 1 + 1 - (1 + d) = cursor + 1 - d
      BY <1>1
    <3>3. \A i \in Nat : 1 + d + i - 1 = i + d
      OBVIOUS
    <3>4. \A i \in 1..(cursor + 1 - d) :
             SubSeq(both, 1 + d, cursor + 1)[i] = both[i + d]
      <4> TAKE i \in 1..(cursor + 1 - d)
      <4>1. i \in Nat /\ 1 + d + i - 1 = i + d
        BY <1>1, <3>3
      <4> QED
        BY <3>1, <3>2, <4>1
    <3> QED
      BY <3>1, <3>2, <3>4
  <2>3. cursor + 1 - d = n - 1
    BY <1>1, <1>2
  <2>4. \A i \in 1..(n - 1) : both[i + d] = history'[i]
    BY <1>2, <1>4
  <2> QED
    BY <2>2, <2>3, <2>4
<1>7. ThePast' = Promise!LastOf(both, MaxHistory - 1)
  <2>1. Len(ThePast') = Len(SubSeq(both, 1 + d, cursor + 1))
    BY <1>3, <1>6
  <2>2. \A i \in 1..Len(ThePast') : ThePast'[i] = SubSeq(both, 1 + d, cursor + 1)[i]
    BY <1>3, <1>6
  <2> QED
    BY <1>3, <1>5, <1>6, <2>1, <2>2, SeqEqual
<1>8. ThePresent' \in States
  <2>1. n - 1 + 1 = n
    BY <1>1
  <2> QED
    BY <1>1, <2>1 DEF ThePresent
<1>9. TheFuture' = <<>>
  <2>1. cursor' + 2 \in Int /\ n \in Int /\ n < cursor' + 2
    BY <1>1
  <2> QED
    BY <2>1, SubSeqEmpty DEF TheFuture, n
<1> QED
  BY <1>7, <1>8, <1>9 DEF Promise!Capture, ThePast, ThePresent, TheFuture

LEMMA BackIsBack == ASSUME TypeOK, StepBack PROVE Promise!Back
<1>1. /\ history \in Seq(States) /\ Len(history) \in Nat
      /\ cursor \in Nat /\ cursor < Len(history) /\ cursor > 0
      /\ cursor' = cursor - 1 /\ history' = history
  BY DEF TypeOK, StepBack
<1>2. /\ ThePast \in Seq(States) /\ Len(ThePast) = cursor
      /\ \A i \in 1..cursor : ThePast[i] = history[i]
  BY <1>1, PastAndFuture DEF ThePast
<1>3. ThePast # <<>> /\ ThePast[Len(ThePast)] = ThePresent'
  BY <1>1, <1>2 DEF ThePresent
<1>4. ThePast' = SubSeq(ThePast, 1, Len(ThePast) - 1)
  <2>1. CASE cursor = 1
    BY <1>1, <1>2, <2>1, SubSeqEmpty DEF ThePast
  <2>2. CASE cursor > 1
    <3>1. /\ 1 \in 1..Len(history) /\ cursor \in 1..Len(history)
          /\ 1 \in 1..(cursor - 1 + 1) /\ cursor - 1 \in 1..(cursor - 1 + 1)
      BY <1>1, <2>2
    <3>2. SubSeq(SubSeq(history, 1, cursor), 1, cursor - 1) =
             SubSeq(history, 1 + 1 - 1, 1 + (cursor - 1) - 1)
      BY <1>1, <3>1, SubSeqOfSubSeq
    <3>3. 1 + 1 - 1 = 1 /\ 1 + (cursor - 1) - 1 = cursor - 1
      BY <1>1
    <3> QED
      BY <1>1, <1>2, <3>2, <3>3 DEF ThePast
  <2> QED
    BY <1>1, <2>1, <2>2
<1>5. TheFuture' = <<ThePresent>> \o TheFuture
  <2>1. cursor + 1 \in 1..Len(history) /\ Len(history) \in (cursor + 1)..Len(history)
    BY <1>1
  <2>2. SubSeq(history, cursor + 1, Len(history)) =
          <<history[cursor + 1]>> \o SubSeq(history, cursor + 1 + 1, Len(history))
    BY <1>1, <2>1, SubSeqRecursiveFirst
  <2>3. cursor' + 2 = cursor + 1 /\ cursor + 1 + 1 = cursor + 2
    BY <1>1
  <2> QED
    BY <1>1, <2>2, <2>3 DEF TheFuture, ThePresent
<1> QED
  BY <1>3, <1>4, <1>5 DEF Promise!Back, ThePast, ThePresent, TheFuture

LEMMA ForwardIsForward == ASSUME TypeOK, StepForward PROVE Promise!Forward
<1>1. /\ history \in Seq(States) /\ Len(history) \in Nat
      /\ cursor \in Nat /\ cursor + 1 < Len(history)
      /\ cursor' = cursor + 1 /\ history' = history
  BY DEF TypeOK, StepForward
<1>2. /\ ThePast \in Seq(States) /\ Len(ThePast) = cursor
      /\ \A i \in 1..cursor : ThePast[i] = history[i]
      /\ ThePresent \in States /\ ThePresent = history[cursor + 1]
      /\ TheFuture \in Seq(States) /\ Len(TheFuture) = Len(history) - (cursor + 1)
  BY <1>1, PastAndFuture DEF ThePast, ThePresent, TheFuture
<1>3. cursor + 2 \in 1..Len(history) /\ Len(history) \in (cursor + 2)..Len(history)
  BY <1>1
<1>4. TheFuture # <<>>
  BY <1>1, <1>2
<1>5. Head(TheFuture) = ThePresent' /\ Tail(TheFuture) = TheFuture'
  <2>1. /\ Head(TheFuture) = history[cursor + 2]
        /\ Tail(TheFuture) = SubSeq(history, cursor + 2 + 1, Len(history))
    BY <1>1, <1>3, HeadTailOfSubSeq DEF TheFuture
  <2>2. cursor' + 1 = cursor + 2 /\ cursor' + 2 = cursor + 2 + 1
    BY <1>1
  <2> QED
    BY <1>1, <2>1, <2>2 DEF ThePresent, TheFuture
<1>6. ThePast' = Append(ThePast, ThePresent)
  <2>1. cursor + 1 \in 1..Len(history) /\ 1 \in 1..Len(history)
    BY <1>1
  <2>2. /\ SubSeq(history, 1, cursor + 1) \in Seq(States)
        /\ Len(SubSeq(history, 1, cursor + 1)) = cursor + 1
        /\ \A i \in 1..(cursor + 1) : SubSeq(history, 1, cursor + 1)[i] = history[i]
    <3>1. \A i \in 1..(cursor + 1) : history[i] \in States
      BY <1>1, ElementOfSeq
    <3> QED
      BY <1>1, <3>1, SubSeqProperties
  <2>3. /\ Append(ThePast, ThePresent) \in Seq(States)
        /\ Len(Append(ThePast, ThePresent)) = cursor + 1
        /\ \A i \in 1..(cursor + 1) : Append(ThePast, ThePresent)[i] = history[i]
    BY <1>1, <1>2
  <2>4. SubSeq(history, 1, cursor + 1) = Append(ThePast, ThePresent)
    BY <1>1, <2>2, <2>3, SeqEqual
  <2> QED
    BY <1>1, <2>4 DEF ThePast
<1> QED
  BY <1>4, <1>5, <1>6 DEF Promise!Forward, ThePast, ThePresent, TheFuture

LEMMA LoadIsReset == ASSUME TypeOK, TypeOK', LoadState PROVE Promise!Reset
<1>1. /\ cursor' = 0 /\ history' = <<saved>> /\ Len(history') = 1
  BY DEF LoadState
<1>2. ThePast' = <<>>
  BY <1>1, SubSeqEmpty DEF ThePast
<1>3. TheFuture' = <<>>
  BY <1>1, SubSeqEmpty DEF TheFuture
<1>4. ThePresent' \in States
  BY <1>1 DEF LoadState, TypeOK, ThePresent
<1> QED
  BY <1>2, <1>3, <1>4 DEF Promise!Reset, ThePast, ThePresent, TheFuture

LEMMA StepKeepsPromise == IInv /\ IInv' /\ [Next]_vars => [Promise!Next]_(Promise!vars)
<1> SUFFICES ASSUME IInv, IInv', [Next]_vars
             PROVE  Promise!Next \/ UNCHANGED Promise!vars
  OBVIOUS
<1>1. TypeOK /\ TypeOK'
  BY DEF IInv
<1>2. ASSUME UNCHANGED <<history, cursor>> PROVE UNCHANGED Promise!vars
  BY <1>2 DEF Promise!vars
<1>3. ASSUME Compute PROVE made + 1 \in States
  BY <1>3, TimelineAssumption DEF Compute, IInv, TypeOK, States
<1>4. ASSUME NEW ff \in BOOLEAN,
             RunFrame(ff) \/ \E k \in DOMAIN Recorded : RollBack(k, ff)
      PROVE  Promise!Next \/ UNCHANGED Promise!vars
  <2>1. PICK s \in States : FrameEnds(ff, s)
    <3>1. CASE RunFrame(ff)
      BY <1>3, <3>1 DEF RunFrame
    <3>2. ASSUME NEW k \in DOMAIN Recorded, RollBack(k, ff)
          PROVE  \E s \in States : FrameEnds(ff, s)
      <4>1. \E s \in States : Advances(s)
        BY <3>2, RollBackAdvances
      <4>2. machine' \in States
        BY <4>1 DEF Advances
      <4>3. FrameEnds(ff, machine')
        BY <3>2 DEF RollBack
      <4> QED
        BY <4>2, <4>3
    <3> QED
      BY <1>4, <3>1, <3>2
  <2>2. CaptureCurrent(s) \/ UNCHANGED <<history, cursor>>
    BY <2>1 DEF FrameEnds
  <2> QED
    BY <1>1, <1>2, <2>2, CaptureIsCapture DEF Promise!Next
<1>5. CASE StepBack
  BY <1>1, <1>5, BackIsBack DEF Promise!Next
<1>6. CASE StepForward
  BY <1>1, <1>6, ForwardIsForward DEF Promise!Next
<1>7. CASE ForwardByFrame
  BY <1>1, <1>3, <1>7, CaptureIsCapture DEF Promise!Next, ForwardByFrame
<1>8. CASE WriteMemory \/ SaveState \/ UNCHANGED vars
  BY <1>2, <1>8 DEF WriteMemory, SaveState, vars
<1>9. CASE LoadState
  BY <1>1, <1>9, LoadIsReset DEF Promise!Next
<1> QED
  BY <1>4, <1>5, <1>6, <1>7, <1>8, <1>9 DEF Next

(* The deque and its cursor implement the undo history.                    *)
THEOREM PromiseIsKept == Spec => KeepsPromise
<1>1. Init => Promise!Init
  <2> SUFFICES ASSUME Init PROVE Promise!Init
    OBVIOUS
  <2>1. history = <<1>> /\ Len(history) = 1 /\ cursor = 0 /\ 1 \in States
    BY TimelineAssumption DEF Init, States
  <2>2. SubSeq(history, 1, cursor) = <<>>
    BY <2>1, SubSeqEmpty
  <2>3. SubSeq(history, cursor + 2, Len(history)) = <<>>
    BY <2>1, SubSeqEmpty
  <2> QED
    BY <2>1, <2>2, <2>3 DEF Promise!Init
<1> QED
  BY <1>1, StepKeepsPromise, Invariance, PTL DEF Spec, KeepsPromise, Promise!Spec
=============================================================================
