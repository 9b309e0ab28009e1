---------------------------- MODULE NetplaySession ----------------------------
(***************************************************************************)
(* The operations of gb::frontend::NetplaySession                          *)
(* (src/app/frontend/realtime/netplay_session.cpp): the local input delay  *)
(* line, the window of recent frames with the state each started from, the *)
(* authoritative inputs that arrived, and the re-simulation of a suffix of *)
(* the window; and those of the UDP transport the session's inputs travel  *)
(* by (link_transport.cpp).  One operator per member function; the threads *)
(* and the network that call them are in Netplay.                          *)
(*                                                                         *)
(* A joypad mask is the set of pressed buttons and `|' is union.  The      *)
(* state of the emulated machine is the function from the frames run so    *)
(* far to the combined mask each ran with, and the marks: what else a      *)
(* frame began with, the joypad interrupt and what the user wrote.  The    *)
(* core is deterministic, so machines equal in both are equal.             *)
(***************************************************************************)
EXTENDS Naturals, Sequences, FiniteSets

CONSTANTS Buttons,       \* the buttons of the joypad
          HistoryLimit   \* NetplaySession::historyLimit_ (180 in the program)

ASSUME HistoryLimitAssumption == HistoryLimit \in Nat \ {0}

Mask == SUBSET Buttons

(* std::unordered_map and std::deque are functions on finite sets of       *)
(* frame numbers.                                                          *)
NoFrames == [f \in {} |-> {}]

(* The machine after `n' frames; a SaveState is such a value.              *)
Before(state, n) == [f \in 0..(n - 1) |-> state[f]]

RunFrame(state, n, mask) == [f \in 0..n |-> IF f = n THEN mask ELSE state[f]]

(* setButton, for each button of the mask that frame n begins with: one    *)
(* that was not down requests the joypad interrupt.                        *)
Edge(down, mask, n) == IF mask \subseteq down THEN {} ELSE {<<n, "interrupt">>}

(* frameChecksum: a hash of the picture, PC and SP, which differs at most   *)
(* where the machines do; here it differs wherever they do.                *)
FrameChecksum(state, marks) == [run |-> state, marks |-> marks]

-----------------------------------------------------------------------------
(* delayLocalInput: resize the line to `delay' entries (neutral entries    *)
(* enter at the back, surplus ones leave at the front), then shift.        *)
(* Mutant: shrinking drops the newest entries.                             *)
ResizedFromBack(line, delay) ==
    IF Len(line) >= delay
    THEN SubSeq(line, 1, delay)
    ELSE line \o [i \in 1..(delay - Len(line)) |-> {}]

Resized(line, delay) ==
    IF Len(line) >= delay
    THEN SubSeq(line, Len(line) - delay + 1, Len(line))
    ELSE line \o [i \in 1..(delay - Len(line)) |-> {}]

Shifted(line, input, delay) == Append(Resized(line, delay), input)

DelayedInput(line, input, delay) ==
    IF delay = 0 THEN input ELSE Head(Shifted(line, input, delay))

DelayLineAfter(line, input, delay) ==
    IF delay = 0 THEN << >> ELSE Tail(Shifted(line, input, delay))

-----------------------------------------------------------------------------
(* trimHistory, trimChecksums: only the newest HistoryLimit frames stay.   *)
Newest(frames) ==
    {f \in frames : Cardinality({g \in frames : g > f}) < HistoryLimit}

(* The frames it leaves of the frames 0..n-1, recorded in order.           *)
Window(n) == {f \in 0..(n - 1) : f + HistoryLimit >= n}

Keep(map, frames) == [f \in DOMAIN map \cap frames |-> map[f]]

Drop(map, frames) == [f \in DOMAIN map \ frames |-> map[f]]

Put(map, frame, value) ==
    [f \in DOMAIN map \cup {frame} |-> IF f = frame THEN value ELSE map[f]]

(* recordFrame, and recordChecksum.                                        *)
RecordIn(map, frame, value) ==
    LET all == Put(map, frame, value) IN Keep(all, Newest(DOMAIN all))

(* trimHistory also erases the authoritative inputs of the frames it pops. *)
AuthAfterRecord(auth, hist, frame) ==
    LET frames == DOMAIN hist \cup {frame}
    IN  Drop(auth, frames \ Newest(frames))

(* acceptAuthoritativeInput, applied to every entry of `late'.             *)
AcceptAll(auth, late) ==
    [f \in DOMAIN auth \cup DOMAIN late |->
        IF f \in DOMAIN late THEN late[f] ELSE auth[f]]

(* The frames for which acceptAuthoritativeInput returned a candidate.     *)
Mispredicted(hist, late) ==
    {f \in DOMAIN hist \cap DOMAIN late :
        hist[f].predicted /\ hist[f].remote # late[f]}

(* Mutant: the last candidate wins.                                        *)
LatestOf(frames) == CHOOSE f \in frames : \A g \in frames : f >= g

Earliest(frames) == CHOOSE f \in frames : \A g \in frames : f <= g

(* resimulateFrom: the remote input each record runs with the second time, *)
(* the state that results, and the refreshed records.                      *)
(* Mutant: a replayed record counts as confirmed.                          *)
ReplayedRecord(rec, auth, f) ==
    IF f \in DOMAIN auth
    THEN [rec EXCEPT !.remote = auth[f], !.predicted = FALSE]
    ELSE [rec EXCEPT !.predicted = FALSE]

CorrectedRecord(rec, auth, f) ==
    IF f \in DOMAIN auth
    THEN [rec EXCEPT !.remote = auth[f], !.predicted = FALSE]
    ELSE rec

Resimulated(state, hist, auth, from) ==
    [f \in DOMAIN state |->
        IF f \in DOMAIN hist /\ f >= from
        THEN LET rec == CorrectedRecord(hist[f], auth, f)
             IN  rec.local \cup rec.remote
        ELSE hist[from].pre[f]]

(* The marks of the machine when it has replayed the frames before n: what *)
(* its saved state holds, and the interrupts of the masks replayed.  What  *)
(* was pressed or written between the frames since is lost.                *)
MarksBefore(hist, state, from, n) ==
    hist[from].marks \cup
        UNION {Edge(IF g = from THEN hist[from].pad ELSE state[g - 1], state[g], g) :
                  g \in from..(n - 1)}

(* Mutant: the replay keeps the states the records had.                    *)
StaleHistory(hist, auth, from, state) ==
    [f \in DOMAIN hist |->
        IF f >= from THEN CorrectedRecord(hist[f], auth, f) ELSE hist[f]]

RefreshedHistory(hist, auth, from, state) ==
    [f \in DOMAIN hist |->
        IF f >= from
        THEN [CorrectedRecord(hist[f], auth, f) EXCEPT
                 !.pre = Before(state, f),
                 !.pad = IF f = from THEN @ ELSE state[f - 1],
                 !.marks = MarksBefore(hist, state, from, f)]
        ELSE hist[f]]

-----------------------------------------------------------------------------
(* The operations of gb::frontend::UdpLinkTransport on the maps it keeps:  *)
(* what drainIncoming does with the datagrams that wait in the socket, and *)
(* what the callers take out.  UDP may lose, duplicate, delay and reorder: *)
(* `sent' is the set of datagrams under way to this end, a drain returns   *)
(* any part of it, and a datagram it never returns is lost.                *)

(* What one drain may leave behind: a later datagram overwrites an earlier *)
(* one of the same frame (netplayInputs_[packet.frame] = packet.value), so *)
(* the last one of each frame is all that can be seen.  A drain returns at *)
(* most `most' frames: the others are still under way.                     *)
Drains(sent, most) ==
    {batch \in SUBSET sent :
        /\ Cardinality(batch) <= most
        /\ \A a, b \in batch : a[1] = b[1] => a = b}

(* What the network still holds after a drain: all of it when it repeats   *)
(* datagrams, the rest when it does not.                                   *)
Undrained(sent, batch, repeats) == IF repeats THEN sent ELSE sent \ batch

Merge(map, batch) ==
    [f \in DOMAIN map \cup {d[1] : d \in batch} |->
        IF \E d \in batch : d[1] = f
        THEN (CHOOSE d \in batch : d[1] = f)[2]
        ELSE map[f]]

(* Mutant: the datagram carries the frame counter's next value.            *)
SendNext(sent, known, frame, value) ==
    IF known THEN sent \cup {<<frame + 1, value>>} ELSE sent

(* sendPacket: nothing leaves while the remote address is not known.       *)
Send(sent, known, frame, value) ==
    IF known THEN sent \cup {<<frame, value>>} ELSE sent

(* exchangeNetplayInput, after its send and its drain: the input that      *)
(* arrived for this frame, or else the last one an exchange returned.      *)
Arrived(inputs, frame) == frame \in DOMAIN inputs

ExchangedInput(inputs, last, frame) ==
    IF Arrived(inputs, frame) THEN inputs[frame] ELSE last

Erase(map, frame) == [f \in DOMAIN map \ {frame} |-> map[f]]
=============================================================================
