-------------------------- MODULE RunLabControlProofs --------------------------
(***************************************************************************)
(* Proofs about RunLabControl, for every set of lines and buttons and all  *)
(* limits: the user's pause holds, and the bridge reads the lines it       *)
(* should.                                                                 *)
(***************************************************************************)
EXTENDS RunLabControl, SequenceTheorems, TLAPS

(* While a pause of the user is in force both copies of `paused' say so,   *)
(* so no store of the UI thread undoes it; and the frames run, the one     *)
(* under way and the steps still in the budget are covered by the steps    *)
(* granted and the frame the pause may have found under way.               *)
UnderWay == IF emu = "run" THEN 1 ELSE 0

PauseInv ==
    /\ steps \in Nat /\ granted \in Nat /\ overrun \in Nat \cup {-1}
    /\ overrun # -1 =>
         /\ pausedAtomic /\ paused
         /\ overrun + UnderWay + steps <= granted + 1

(* What is used of the types.                                              *)
IsQueue(q) ==
    /\ q = [on |-> q.on, ready |-> q.ready, offset |-> q.offset,
            pending |-> q.pending, mask |-> q.mask, left |-> q.left,
            notes |-> q.notes]
    /\ q.on \in BOOLEAN /\ q.ready \in BOOLEAN /\ q.offset \in Nat

ReadTypes ==
    /\ file \in Seq(Lines) /\ Len(file) <= MaxLines
    /\ IsQueue(queue)
    /\ size \in Nat
    /\ taken \in [1..MaxLines -> Nat]
    /\ stale \subseteq 1..MaxLines

(* The file has not been cut since the bridge began to listen.             *)
Whole == ~MayDelete \/ stale # {}

(* A queue that has not looked at the file yet has read nothing; one that  *)
(* has is behind the lines it ignored; and while the file is whole the     *)
(* offset and the size that poll() took are places in it.                  *)
ReadInv ==
    /\ ReadTypes
    /\ ~queue.ready => queue.offset = 0 /\ \A i \in 1..MaxLines : taken[i] = 0
    /\ stale # {} => queue.on /\ queue.ready /\ stale \subseteq 1..queue.offset
    /\ Whole => /\ queue.offset <= Len(file)
                /\ emu = "read" /\ queue.on =>
                       queue.offset <= size /\ size <= Len(file)

-----------------------------------------------------------------------------
(* While the user's pause holds, both copies of `paused' say so, and every *)
(* frame takes a step from the budget (realtime.cpp:1016, 1641, 2643).     *)
THEOREM PauseInvHolds == Spec => []PauseInv
<1>1. Init => PauseInv
  BY DEF Init, PauseInv
<1>2. ASSUME PauseInv, [Next]_vars
      PROVE  PauseInv'
  <2> USE <1>2 DEF PauseInv, UnderWay, shared, uiVars, ghosts
  <2>1. ASSUME NEW line \in Lines, WriteLine(line)
        PROVE  PauseInv'
    BY <2>1 DEF WriteLine
  <2>2. CASE DeleteFile
    BY <2>2 DEF DeleteFile
  <2>3. CASE Poll
    BY <2>3 DEF Poll
  <2>4. CASE ReadAndTick
    BY <2>4 DEF ReadAndTick
  <2>5. CASE Apply
    <3> DEFINE c == tick.started
    <3>1. /\ overrun' = IF c.type = "resume" THEN -1 ELSE overrun
          /\ emu = "apply" /\ emu' = "check" /\ paused' = paused
      BY <2>5 DEF Apply
    <3>4. c.type # "resume" /\ pausedAtomic => pausedAtomic'
      <4>1. CASE c.type = "pause"
        BY <2>5, <4>1 DEF Apply
      <4>2. CASE c.type \notin {"pause", "resume"}
        <5>1. pausedAtomic' = pausedAtomic
          BY <2>5, <4>2 DEF Apply
        <5> QED
          BY <5>1
      <4> QED
        BY <4>1, <4>2
    <3>2. CASE Asked(c)
      <4>1. /\ c.frames \in Nat /\ c.type = "step_frame"
            /\ steps' = steps + c.frames
            /\ granted' = IF overrun' = -1 THEN 0 ELSE granted + c.frames
        BY <2>5, <3>2 DEF Apply, Asked
      <4> QED
        BY <3>1, <3>4, <4>1
    <3>3. CASE ~Asked(c)
      <4>1. steps' = steps /\ granted' = IF overrun' = -1 THEN 0 ELSE granted
        BY <2>5, <3>3 DEF Apply
      <4> QED
        BY <3>1, <3>4, <4>1
    <3> QED
      BY <3>2, <3>3
  <2>6. CASE Check
    <3>1. UNCHANGED <<pausedAtomic, paused, overrun, granted>> /\ emu = "check"
      BY <2>6 DEF Check
    <3>2. CASE pausedAtomic /\ steps > 0
      <4>1. stepping' = TRUE
        BY <2>6, <3>2, Zenon DEF Check
      <4>2. steps' = steps - 1 /\ emu' = "run"
        BY <2>6, <4>1, Zenon DEF Check
      <4> QED
        BY <3>1, <3>2, <4>2
    <3>3. CASE ~(pausedAtomic /\ steps > 0)
      <4>1. stepping' = FALSE
        BY <2>6, <3>3, Zenon DEF Check
      <4>2. steps' = steps /\ (pausedAtomic => emu' = "poll")
        BY <2>6, <4>1, Zenon DEF Check
      <4> QED
        BY <3>1, <4>2
    <3> QED
      BY <3>2, <3>3
  <2>7. CASE RunFrame
    BY <2>7 DEF RunFrame
  <2>8. CASE HitPauses
    BY <2>8 DEF HitPauses
  <2>9. CASE HitAnnounces
    BY <2>9 DEF HitAnnounces
  <2>10. CASE LoadPaused
    BY <2>10 DEF LoadPaused
  <2>11. CASE TakeReason
    BY <2>11 DEF TakeReason
  <2>12. CASE SyncThreadState
    BY <2>12 DEF SyncThreadState
  <2>13. CASE EventsDone
    BY <2>13 DEF EventsDone
  <2>14. CASE TogglePause
    <3>1. /\ overrun' = IF paused THEN -1 ELSE 0
          /\ granted' = IF paused THEN 0 ELSE steps
          /\ steps' = steps /\ emu' = emu
      BY <2>14 DEF TogglePause
    <3>2. CASE paused
      BY <3>1, <3>2
    <3>3. CASE ~paused
      <4>1. pausedAtomic' /\ paused'
        BY <2>14, <3>3, Zenon DEF TogglePause
      <4>2. overrun' = 0 /\ granted' = steps
        BY <3>1, <3>3
      <4> QED
        BY <3>1, <4>1, <4>2
    <3> QED
      BY <3>2, <3>3
  <2>15. CASE ToggleBridge
    BY <2>15 DEF ToggleBridge, Event
  <2>16. CASE ClearQueue
    BY <2>16 DEF ClearQueue, Event
  <2>17. ASSUME NEW b \in Buttons, Key(b)
         PROVE  PauseInv'
    BY <2>17 DEF Key, Event
  <2>18. CASE UNCHANGED vars
    BY <2>18 DEF vars
  <2> QED
    BY <2>1, <2>2, <2>3, <2>4, <2>5, <2>6, <2>7, <2>8, <2>9, <2>10, <2>11, <2>12,
       <2>13, <2>14, <2>15, <2>16, <2>17, <2>18
       DEF Next, Worker, UiLoop, User, Others
<1> QED
  BY <1>1, <1>2, PTL DEF Spec

(* A pause of the user holds, whatever the worker, the MCP client and the  *)
(* stores of the UI thread do: but for the frame under way, no frame runs  *)
(* that the budget of steps does not pay for (realtime.cpp:1016, 1616,     *)
(* 1626-1648, 2643).                                                       *)
THEOREM PauseHolds == Spec => []UserPauseHolds
<1>1. PauseInv => UserPauseHolds
  BY DEF PauseInv, UnderWay, UserPauseHolds
<1> QED
  BY <1>1, PauseInvHolds, PTL

-----------------------------------------------------------------------------
(* What the operations of the queue do to the fields that reading needs.   *)
LEMMA SizeTakenFields ==
    ASSUME NEW q, IsQueue(q), NEW n \in Nat
    PROVE  /\ IsQueue(SizeTaken(q, n))
           /\ SizeTaken(q, n).on = q.on
           /\ SizeTaken(q, n).ready = (q.ready \/ q.on)
           /\ SizeTaken(q, n).offset =
                IF q.on /\ (~q.ready \/ n < q.offset)
                THEN IF q.ready THEN 0 ELSE n
                ELSE q.offset
  BY DEF IsQueue, SizeTaken

LEMMA LinesReadFields ==
    ASSUME NEW q, IsQueue(q), NEW f, NEW n \in Nat
    PROVE  /\ IsQueue(LinesRead(q, f, n))
           /\ LinesRead(q, f, n).on = q.on
           /\ LinesRead(q, f, n).ready = q.ready
           /\ LinesRead(q, f, n).offset = IF Reads(q, f, n) THEN n ELSE q.offset
<1> DEFINE commands == SelectSeq(Unread(q, f), IsCommand)
           more == Enqueued(q.pending, [i \in DOMAIN commands |-> Parsed(commands[i])])
<1>1. LinesRead(q, f, n) =
        IF Reads(q, f, n) THEN [q EXCEPT !.pending = more, !.offset = n] ELSE q
  BY DEF LinesRead
<1> HIDE DEF more
<1> QED
  BY <1>1 DEF IsQueue

LEMMA TickedFields ==
    ASSUME NEW q, IsQueue(q)
    PROVE  /\ IsQueue(Ticked(q))
           /\ Ticked(q).on = q.on
           /\ Ticked(q).ready = q.ready
           /\ Ticked(q).offset = q.offset
<1> DEFINE aged == [q EXCEPT !.notes = Aged(@)]
           s == Started(aged)
           Same(r) == IsQueue(r) /\ r.on = q.on /\ r.ready = q.ready /\ r.offset = q.offset
<1>1. Ticked(q) = IF ~q.on THEN q ELSE IF s.left = 0 THEN s
                  ELSE [s EXCEPT !.left = @ - 1, !.mask = IF s.left = 1 THEN {} ELSE @]
  BY DEF Ticked
<1>2. Same(aged)
  BY DEF IsQueue
<1> HIDE DEF aged
<1>3. Same(s)
  <2>1. CASE ~Starts(aged)
    BY <1>2, <2>1 DEF Started
  <2>2. CASE Starts(aged)
    <3> DEFINE c == Head(aged.pending)
               left == IF Lasts(c) THEN c.frames ELSE 0
               notes == IF c.type = "annotation" THEN Noted(aged.notes, c.frames)
                        ELSE aged.notes
    <3>1. s = [aged EXCEPT !.pending = Tail(@), !.mask = c.mask,
                           !.left = left, !.notes = notes]
      BY <1>2, <2>2 DEF Started, IsQueue
    <3> HIDE DEF s, c, left, notes
    <3> QED
      BY <1>2, <3>1 DEF IsQueue
  <2> QED
    BY <2>1, <2>2
<1> HIDE DEF s
<1> QED
  BY <1>1, <1>3 DEF IsQueue

(* The lines that are read are the ones behind the offset.                 *)
LEMMA LinesBehindOffset ==
    ASSUME ReadTypes, queue.offset <= Len(file)
    PROVE  Len(file) - Len(Unread(queue, file)) = queue.offset
<1>1. \A i \in (queue.offset + 1)..Len(file) : file[i] \in Lines
  BY ElementOfSeq DEF ReadTypes, IsQueue
<1>2. Len(Unread(queue, file)) = Len(file) - queue.offset
  <2>1. CASE queue.offset < Len(file)
    BY <1>1, <2>1, SubSeqProperties DEF ReadTypes, IsQueue, Unread
  <2>2. CASE queue.offset = Len(file)
    BY <2>2, SubSeqProperties DEF ReadTypes, IsQueue, Unread
  <2> QED
    BY <2>1, <2>2 DEF ReadTypes, IsQueue
<1> QED
  BY <1>2 DEF ReadTypes, IsQueue

-----------------------------------------------------------------------------
(* The inductive invariant of reading.                                     *)
IInv ==
    /\ ReadInv
    /\ StaleLinesAreIgnored
    /\ ~MayDelete => NoLineIsSkipped

(* Steps that do not touch what reading is about keep it.                  *)
LEMMA ElsewhereKeeps ==
    ASSUME IInv, UNCHANGED <<file, queue, size, taken, stale>>,
           emu' = "read" => emu = "read"
    PROVE  IInv'
  BY DEF IInv, ReadInv, ReadTypes, IsQueue, Whole, StaleLinesAreIgnored,
         NoLineIsSkipped

LEMMA WriteKeeps ==
    ASSUME IInv, NEW line \in Lines, WriteLine(line)
    PROVE  IInv'
<1>1. /\ file' \in Seq(Lines) /\ Len(file') = Len(file) + 1 /\ Len(file') <= MaxLines
      /\ DOMAIN file \subseteq DOMAIN file'
  BY ControlAssumption DEF IInv, ReadInv, ReadTypes, WriteLine
<1>2. UNCHANGED <<queue, size, taken, stale, emu>>
  BY DEF WriteLine, ghosts
<1>3. ReadInv'
  BY <1>1, <1>2 DEF IInv, ReadInv, ReadTypes, IsQueue, Whole
<1>4. ASSUME ~MayDelete
      PROVE  NoLineIsSkipped'
  <2>1. queue.ready => queue.offset <= Len(file)
    BY <1>4 DEF IInv, ReadInv, Whole
  <2> QED
    BY <1>1, <1>2, <1>4, <2>1 DEF IInv, ReadInv, ReadTypes, IsQueue, NoLineIsSkipped
<1> QED
  BY <1>2, <1>3, <1>4 DEF IInv, StaleLinesAreIgnored

LEMMA DeleteKeeps ==
    ASSUME IInv, DeleteFile
    PROVE  IInv'
<1>1. /\ MayDelete /\ file' = <<>> /\ stale' = {}
      /\ taken' = [i \in 1..MaxLines |-> 0]
      /\ UNCHANGED <<queue, size, emu>>
  BY DEF DeleteFile, Unheard
<1>2. ReadInv'
  BY <1>1, ControlAssumption DEF IInv, ReadInv, ReadTypes, IsQueue, Whole
<1> QED
  BY <1>1, <1>2 DEF IInv, StaleLinesAreIgnored

LEMMA ToggleBridgeKeeps ==
    ASSUME IInv, ToggleBridge
    PROVE  IInv'
<1>1. /\ queue' = Configured(~queue.on) /\ stale' = {} /\ emu # "read"
      /\ taken' = [i \in 1..MaxLines |-> 0]
      /\ UNCHANGED <<file, size, emu>>
  BY DEF ToggleBridge, Unheard
<1>2. IsQueue(queue') /\ queue'.offset = 0 /\ ~queue'.ready
  BY <1>1 DEF Configured, IsQueue, IInv, ReadInv, ReadTypes
<1>3. ReadInv'
  BY <1>1, <1>2 DEF IInv, ReadInv, ReadTypes, Whole
<1> QED
  BY <1>1, <1>2, <1>3 DEF IInv, StaleLinesAreIgnored, NoLineIsSkipped

LEMMA ClearKeeps ==
    ASSUME IInv, ClearQueue
    PROVE  IInv'
<1>1. /\ queue' = [queue EXCEPT !.pending = <<>>, !.mask = {}, !.left = 0, !.notes = <<>>]
      /\ UNCHANGED <<file, size, emu, taken, stale>>
  BY DEF ClearQueue, Cleared
<1>2. /\ IsQueue(queue') /\ queue'.on = queue.on
      /\ queue'.ready = queue.ready /\ queue'.offset = queue.offset
  BY <1>1 DEF IsQueue, IInv, ReadInv, ReadTypes
<1>3. ReadInv'
  BY <1>1, <1>2 DEF IInv, ReadInv, ReadTypes, Whole
<1> QED
  BY <1>1, <1>2, <1>3 DEF IInv, StaleLinesAreIgnored, NoLineIsSkipped

LEMMA PollKeeps ==
    ASSUME IInv, Poll
    PROVE  IInv'
<1> DEFINE n == Len(file)
<1>1. n \in Nat /\ n <= MaxLines /\ DOMAIN file = 1..n
  BY DEF IInv, ReadInv, ReadTypes
<1>2. /\ queue' = SizeTaken(queue, n)
      /\ size' = IF queue.on THEN n ELSE 0
      /\ stale' = IF queue.on /\ ~queue.ready THEN DOMAIN file ELSE stale
      /\ UNCHANGED <<file, taken>>
  BY DEF Poll
<1>3. IsQueue(queue)
  BY DEF IInv, ReadInv, ReadTypes
<1>4. /\ IsQueue(queue')
      /\ queue'.on = queue.on
      /\ queue'.ready = (queue.ready \/ queue.on)
      /\ queue'.offset = IF queue.on /\ (~queue.ready \/ n < queue.offset)
                         THEN IF queue.ready THEN 0 ELSE n
                         ELSE queue.offset
  BY <1>1, <1>2, <1>3, SizeTakenFields
<1> HIDE DEF n
<1>5. CASE queue.on /\ ~queue.ready
  <2>1. /\ queue'.ready /\ queue'.offset = n /\ size' = n /\ stale' = 1..n
        /\ \A i \in 1..MaxLines : taken[i] = 0
    BY <1>1, <1>2, <1>3, <1>4, <1>5 DEF IInv, ReadInv, ReadTypes, IsQueue
  <2>2. ReadTypes'
    BY <1>1, <1>2, <1>4, <2>1, ControlAssumption DEF IInv, ReadInv, ReadTypes
  <2>3. Len(file') = n /\ DOMAIN file' = 1..n
    BY <1>1, <1>2 DEF n
  <2>4. ReadInv'
    BY <1>1, <1>4, <1>5, <2>1, <2>2, <2>3 DEF ReadInv, Whole
  <2>5. StaleLinesAreIgnored'
    BY <1>1, <1>2, <2>1, ControlAssumption DEF StaleLinesAreIgnored
  <2>6. NoLineIsSkipped'
    BY <2>1 DEF NoLineIsSkipped
  <2> QED
    BY <2>4, <2>5, <2>6 DEF IInv
<1>6. CASE queue.on /\ queue.ready /\ ~Whole
  <2>1. stale' = {} /\ MayDelete
    BY <1>2, <1>6, ControlAssumption DEF Whole
  <2>2. queue'.ready
    BY <1>4, <1>6 
  <2>3. ReadInv'
    BY <1>1, <1>2, <1>4, <2>1, <2>2 DEF IInv, ReadInv, ReadTypes, Whole
  <2> QED
    BY <2>1, <2>3 DEF IInv, StaleLinesAreIgnored
<1>7. CASE queue.on /\ queue.ready /\ Whole
  <2>1. queue.offset <= n
    BY <1>7 DEF IInv, ReadInv, n
  <2>2. queue'.offset = queue.offset /\ queue'.ready /\ queue.offset \in Nat
    <3>1. queue.offset \in Nat /\ ~(n < queue.offset)
      BY <1>1, <1>3, <2>1 DEF IsQueue
    <3>2. ~(queue.on /\ (~queue.ready \/ n < queue.offset))
      BY <1>7, <3>1
    <3> QED
      BY <1>4, <1>7, <3>1, <3>2
  <2>3. size' = n /\ stale' = stale
    BY <1>2, <1>7
  <2>4. ReadInv'
    BY <1>1, <1>2, <1>4, <1>7, <2>1, <2>2, <2>3
       DEF IInv, ReadInv, ReadTypes, Whole, n
  <2> QED
    BY <1>2, <1>4, <1>7, <2>2, <2>3, <2>4 DEF IInv, StaleLinesAreIgnored, NoLineIsSkipped
<1>8. CASE ~queue.on
  <2>1. /\ queue'.offset = queue.offset /\ queue'.ready = queue.ready
        /\ ~queue'.on /\ stale' = stale /\ size' = 0
    BY <1>2, <1>3, <1>4, <1>8 DEF IsQueue
  <2>2. ReadInv'
    BY <1>1, <1>2, <1>4, <1>8, <2>1 DEF IInv, ReadInv, ReadTypes, Whole
  <2> QED
    BY <1>2, <2>1, <2>2 DEF IInv, StaleLinesAreIgnored, NoLineIsSkipped
<1> QED
  BY <1>3, <1>5, <1>6, <1>7, <1>8 DEF IsQueue

LEMMA ReadKeeps ==
    ASSUME IInv, ReadAndTick
    PROVE  IInv'
<1> DEFINE reads == Reads(queue, file, size)
           news == IF reads
                   THEN (Len(file) - Len(Unread(queue, file)) + 1)..Len(file)
                   ELSE {}
<1>1. /\ emu = "read" /\ emu' = "apply"
      /\ queue' = Ticked(LinesRead(queue, file, size))
      /\ taken' = [i \in DOMAIN taken |-> taken[i] + IF i \in news THEN 1 ELSE 0]
      /\ UNCHANGED <<file, size, stale>>
  BY DEF ReadAndTick
<1>2. ReadTypes
  BY DEF IInv, ReadInv
<1>3. /\ IsQueue(queue') /\ queue'.on = queue.on /\ queue'.ready = queue.ready
      /\ queue'.offset = IF reads THEN size ELSE queue.offset
  BY <1>1, <1>2, LinesReadFields, TickedFields DEF ReadTypes
<1>4. reads => queue.on /\ queue.ready
  BY DEF Reads
<1>5. taken' \in [1..MaxLines -> Nat]
  <2>1. \A i \in 1..MaxLines : taken[i] + (IF i \in news THEN 1 ELSE 0) \in Nat
    BY <1>2 DEF ReadTypes
  <2> HIDE DEF news
  <2> QED
    BY <1>1, <1>2, <2>1 DEF ReadTypes
<1>6. ReadTypes'
  BY <1>1, <1>2, <1>3, <1>5 DEF ReadTypes
<1>7. Whole' = Whole
  BY <1>1 DEF Whole
<1>8. ASSUME Whole, reads
      PROVE  /\ queue.offset <= size /\ size <= Len(file)
             /\ queue.offset \in Nat
             /\ news = (queue.offset + 1)..Len(file)
  <2>1. queue.offset <= size /\ size <= Len(file) /\ queue.offset <= Len(file)
    BY <1>1, <1>4, <1>8 DEF IInv, ReadInv
  <2> QED
    BY <1>2, <1>8, <2>1, LinesBehindOffset DEF ReadTypes, IsQueue
<1> HIDE DEF reads, news
<1>9. ASSUME ~reads
      PROVE  /\ queue'.offset = queue.offset
             /\ \A i \in 1..MaxLines : taken'[i] = taken[i]
  BY <1>1, <1>2, <1>3, <1>9 DEF ReadTypes, news
<1>10. ReadInv'
  <2>1. ~queue'.ready => queue'.offset = 0 /\ \A i \in 1..MaxLines : taken'[i] = 0
    BY <1>3, <1>4, <1>9 DEF IInv, ReadInv
  <2>2. stale' # {} => queue'.on /\ queue'.ready /\ stale' \subseteq 1..queue'.offset
    <3>1. CASE ~reads
      BY <1>1, <1>3, <1>9, <3>1 DEF IInv, ReadInv
    <3>2. CASE reads /\ stale # {}
      <4>1. stale \subseteq 1..queue.offset /\ 1..queue.offset \subseteq 1..size
        BY <1>2, <1>8, <3>2 DEF IInv, ReadInv, Whole, ReadTypes
      <4> QED
        BY <1>1, <1>3, <1>4, <3>2, <4>1
    <3> QED
      BY <1>1, <3>1, <3>2
  <2>3. Whole' => queue'.offset <= Len(file')
    BY <1>1, <1>3, <1>7, <1>8, <1>9 DEF IInv, ReadInv
  <2> QED
    BY <1>1, <1>6, <2>1, <2>2, <2>3 DEF ReadInv
<1>11. ASSUME NEW i \in 1..MaxLines
       PROVE  /\ i \notin news => taken'[i] = taken[i]
              /\ i \in news => taken'[i] > 0
              /\ taken[i] > 0 => taken'[i] > 0
  BY <1>1, <1>2, <1>11 DEF ReadTypes
<1>12. StaleLinesAreIgnored'
  <2> SUFFICES ASSUME NEW i \in stale
               PROVE  taken'[i] = 0
    BY <1>1 DEF StaleLinesAreIgnored
  <2>1. i \in 1..MaxLines /\ taken[i] = 0 /\ stale # {}
    BY <1>2 DEF ReadTypes, IInv, StaleLinesAreIgnored
  <2>2. i \in 1..queue.offset
    BY <2>1 DEF IInv, ReadInv
  <2>3. i \notin news
    BY <1>2, <1>8, <2>1, <2>2 DEF news, Whole, ReadTypes
  <2> QED
    BY <1>11, <2>1, <2>3
<1>13. ASSUME ~MayDelete
       PROVE  NoLineIsSkipped'
  <2> SUFFICES ASSUME queue'.on, queue'.ready, NEW i \in 1..queue'.offset,
                      i \in DOMAIN file \ stale
               PROVE  taken'[i] > 0
    BY <1>1 DEF NoLineIsSkipped
  <2>1. i \in 1..MaxLines /\ i \in 1..Len(file)
    BY <1>2, ControlAssumption DEF ReadTypes
  <2>2. CASE i \in 1..queue.offset
    <3>1. taken[i] > 0
      BY <1>3, <1>13, <2>2 DEF IInv, NoLineIsSkipped
    <3> QED
      BY <1>11, <2>1, <3>1
  <2>3. CASE i \notin 1..queue.offset
    <3>1. reads
      BY <1>9, <2>3
    <3>2. i \in news
      BY <1>2, <1>8, <1>13, <2>1, <2>3, <3>1 DEF Whole, ReadTypes
    <3> QED
      BY <1>11, <2>1, <3>2
  <2> QED
    BY <2>2, <2>3
<1> QED
  BY <1>10, <1>12, <1>13 DEF IInv

LEMMA InvariantHolds == Spec => []IInv
<1>1. Init => IInv
  <2> SUFFICES ASSUME Init
               PROVE  IInv
    OBVIOUS
  <2>1. PICK on \in BOOLEAN : queue = Configured(on)
    BY DEF Init
  <2>2. IsQueue(queue) /\ queue.offset = 0 /\ ~queue.ready
    BY <2>1 DEF Configured, IsQueue
  <2>3. /\ file = <<>> /\ size = 0 /\ stale = {} /\ emu = "poll"
        /\ taken = [i \in 1..MaxLines |-> 0]
    BY DEF Init
  <2>4. ReadInv
    BY <2>2, <2>3, ControlAssumption DEF ReadInv, ReadTypes
  <2> QED
    BY <2>2, <2>3, <2>4 DEF IInv, StaleLinesAreIgnored, NoLineIsSkipped
<1>2. ASSUME IInv, [Next]_vars
      PROVE  IInv'
  <2>1. CASE \E line \in Lines : WriteLine(line)
    BY <1>2, <2>1, WriteKeeps
  <2>2. CASE DeleteFile
    BY <1>2, <2>2, DeleteKeeps
  <2>3. CASE Poll
    BY <1>2, <2>3, PollKeeps
  <2>4. CASE ReadAndTick
    BY <1>2, <2>4, ReadKeeps
  <2>5. CASE ToggleBridge
    BY <1>2, <2>5, ToggleBridgeKeeps
  <2>6. CASE ClearQueue
    BY <1>2, <2>6, ClearKeeps
  <2>7. CASE Apply \/ Check \/ RunFrame \/ HitPauses \/ HitAnnounces
    <3>1. UNCHANGED <<file, queue, size, taken, stale>> /\ emu' # "read"
      BY <2>7 DEF Apply, Check, RunFrame, HitPauses, HitAnnounces, ghosts
    <3> QED
      BY <1>2, <3>1, ElsewhereKeeps
  <2>8. CASE \/ LoadPaused \/ TakeReason \/ SyncThreadState \/ EventsDone
             \/ TogglePause \/ \E b \in Buttons : Key(b)
    <3>1. UNCHANGED <<file, queue, size, taken, stale, emu>>
      BY <2>8 DEF LoadPaused, TakeReason, SyncThreadState, EventsDone, TogglePause,
                  Key, ghosts
    <3> QED
      BY <1>2, <3>1, ElsewhereKeeps
  <2>9. CASE UNCHANGED vars
    BY <1>2, <2>9, ElsewhereKeeps DEF vars, ghosts
  <2> QED
    BY <1>2, <2>1, <2>2, <2>3, <2>4, <2>5, <2>6, <2>7, <2>8, <2>9
       DEF Next, Worker, UiLoop, User, Others
<1> QED
  BY <1>1, <1>2, PTL DEF Spec

(* Lines that were there when the bridge began to listen are never read,   *)
(* whatever is appended, deleted or toggled                                *)
(* (runlab_control_queue.cpp:235-246, 289-317).                            *)
THEOREM StaleIgnored == Spec => []StaleLinesAreIgnored
<1>1. IInv => StaleLinesAreIgnored
  BY DEF IInv
<1> QED
  BY <1>1, InvariantHolds, PTL

(* While nobody deletes the file, every line appended after the bridge     *)
(* began to listen is read, though the client writes between the two       *)
(* halves of a poll (runlab_control_queue.cpp:306-343).                    *)
THEOREM NothingIsSkipped ==
    ASSUME ~MayDelete
    PROVE  Spec => []NoLineIsSkipped
<1>1. IInv => NoLineIsSkipped
  BY DEF IInv
<1> QED
  BY <1>1, InvariantHolds, PTL
=============================================================================
