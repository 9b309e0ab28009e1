------------------------------- MODULE Netplay --------------------------------
(***************************************************************************)
(* Two emulators joined by --netplay-host / --netplay-connect: the netplay *)
(* part of the emulation worker's frame (src/app/frontend/realtime.cpp),   *)
(* on the session and the UDP transport of NetplaySession.                 *)
(*                                                                         *)
(* The worker holds gbMutex during a frame, so the user's keys act between *)
(* frames; the peer runs at any time, in particular between the exchange   *)
(* that begins a frame and the pump that ends it.                          *)
(***************************************************************************)
EXTENDS NetplaySession

CONSTANTS Host, Client,  \* the two ends
          MaxDelay,      \* largest --netplay-delay (10 in the program)
          MaxFrame,      \* bound: frames each end runs
          MaxKeys,       \* bound: what the users do in a behaviour
          MaxEdits,      \* bound: an edit is among the first MaxEdits of it
          MaxInputs,     \* bound: input datagrams one drain returns
          MaxSums,       \* bound: checksum datagrams one drain returns
          Repeats        \* whether the network repeats datagrams

ASSUME PeersAssumption == Host # Client
ASSUME BoundsAssumption ==
    /\ MaxDelay \in Nat /\ MaxFrame \in Nat /\ MaxKeys \in Nat
    /\ MaxEdits \in Nat /\ MaxInputs \in Nat /\ MaxSums \in Nat /\ Repeats \in BOOLEAN

Peers == {Host, Client}
Other(p) == IF p = Host THEN Client ELSE Host

VARIABLES
    frame,       \* emulatedFrameCounter
    pad,         \* the joypad of the GameBoy: its pressed buttons
    paused,      \* pausedAtomic
    delay,       \* netplayDelayAtomic
    delayLine,   \* NetplaySession::localInputDelayQueue_
    machine,     \* the GameBoy: the mask each frame ran with
    marks,       \* the GameBoy: what else its frames began with
    running,     \* the worker is between the two halves of a frame
    current,     \* netplayFrameRecord
    hist,        \* NetplaySession::history_
    auth,        \* NetplaySession::authoritativeInputs_
    sums,        \* NetplaySession::checksums_
    inputs,      \* UdpLinkTransport::netplayInputs_
    peerSums,    \* UdpLinkTransport::netplayChecksums_
    lastRemote,  \* UdpLinkTransport::lastRemoteInput_
    known,       \* UdpLinkTransport::remoteKnown_
    inputNet,    \* the input datagrams under way to each end
    sumNet,      \* the checksum datagrams under way to each end
    keys,        \* events so far (bounded by MaxKeys)
    pressed,     \* history variable: the buttons each end's user has pressed
    sampled,     \* history variable: the joypad each frame sampled
    since,       \* history variable: the frame at which the delay last changed,
                 \* and the one at which it last grew
    applied,     \* history variable: the local mask of every frame begun
    guess,       \* history variable: the remote mask each frame first ran with
    confirmed,   \* history variable: frames whose remote input is the peer's
    desync       \* history variable: noteDesync has been called

session   == <<delayLine, hist, auth, sums>>
transport == <<inputs, peerSums, lastRemote, known, inputNet, sumNet>>
ghosts    == <<pressed, sampled, since, applied, guess, confirmed, desync>>
vars == <<frame, pad, paused, delay, machine, marks, running, current, keys,
          session, transport, ghosts>>

NoRecord == [local |-> {}, remote |-> {}, predicted |-> FALSE,
             pre |-> NoFrames, pad |-> {}, marks |-> {}]

Init ==
    \E d \in 0..MaxDelay :
    /\ frame = [p \in Peers |-> 0]
    /\ pad = [p \in Peers |-> {}]
    /\ paused = [p \in Peers |-> FALSE]
    /\ delay = [p \in Peers |-> d]
    /\ delayLine = [p \in Peers |-> [i \in 1..d |-> {}]]
    /\ machine = [p \in Peers |-> NoFrames]
    /\ marks = [p \in Peers |-> {}]
    /\ running = [p \in Peers |-> FALSE]
    /\ current = [p \in Peers |-> NoRecord]
    /\ hist = [p \in Peers |-> NoFrames]
    /\ auth = [p \in Peers |-> NoFrames]
    /\ sums = [p \in Peers |-> NoFrames]
    /\ inputs = [p \in Peers |-> NoFrames]
    /\ peerSums = [p \in Peers |-> NoFrames]
    /\ lastRemote = [p \in Peers |-> {}]
    /\ known = [p \in Peers |-> p = Client]
    /\ inputNet = [p \in Peers |-> {}]
    /\ sumNet = [p \in Peers |-> {}]
    /\ keys = 0
    /\ pressed = {}
    /\ sampled = [p \in Peers |-> NoFrames]
    /\ since = [p \in Peers |-> [change |-> 0, growth |-> 0]]
    /\ applied = [p \in Peers |-> NoFrames]
    /\ guess = [p \in Peers |-> NoFrames]
    /\ confirmed = [p \in Peers |-> {}]
    /\ desync = [p \in Peers |-> FALSE]

-----------------------------------------------------------------------------
(* SDL_KEYDOWN / SDL_KEYUP under gbMutex: one edge of one button, at once  *)
(* in the joypad, with its interrupt.                                      *)
KeyEvent(p, b) ==
    /\ keys < MaxKeys /\ ~running[p] /\ frame[p] < MaxFrame
    /\ \E down \in BOOLEAN :
         /\ pad' = [pad EXCEPT ![p] = IF down THEN @ \cup {b} ELSE @ \ {b}]
         /\ marks' = [marks EXCEPT ![p] =
                        IF down THEN @ \cup Edge(pad[p], {b}, frame[p]) ELSE @]
         /\ pressed' = IF down THEN pressed \cup {<<p, b>>} ELSE pressed
    /\ keys' = keys + 1
    /\ UNCHANGED <<frame, paused, delay, machine, running, current, session,
                   transport, sampled, since, applied, guess, confirmed, desync>>

(* What one end alone writes into its machine between two frames: an edit  *)
(* of the memory, a frozen address (1851), a state loaded from a slot      *)
(* (976), a step of the timeline (3247), a cheat that the peer has not.    *)
WriteMemory(p) ==
    /\ keys < MaxEdits /\ ~running[p] /\ frame[p] < MaxFrame
    /\ marks' = [marks EXCEPT ![p] = @ \cup {<<frame[p], p>>}]
    /\ keys' = keys + 1
    /\ UNCHANGED <<frame, pad, paused, delay, machine, running, current, session,
                   transport, ghosts>>

(* The menu entries DELAY NETPLAY - and +: one step, clamped.              *)
ChangeDelay(p) ==
    /\ keys < MaxKeys /\ frame[p] < MaxFrame
    /\ \E d \in 0..MaxDelay :
         /\ d = delay[p] + 1 \/ d + 1 = delay[p]
         /\ delay' = [delay EXCEPT ![p] = d]
         /\ LET next == IF running[p] THEN frame[p] + 1 ELSE frame[p]
            IN  since' = [since EXCEPT ![p] =
                            [change |-> next,
                             growth |-> IF d > delay[p] THEN next ELSE @.growth]]
    /\ keys' = keys + 1
    /\ UNCHANGED <<frame, pad, paused, machine, marks, running, current, session,
                   transport, pressed, sampled, applied, guess, confirmed, desync>>

(* The user's pause toggle.                                                *)
TogglePause(p) ==
    /\ keys < MaxKeys
    /\ paused' = [paused EXCEPT ![p] = ~@]
    /\ keys' = keys + 1
    /\ UNCHANGED <<frame, pad, delay, machine, marks, running, current, session,
                   transport, ghosts>>

(* The frame up to the start of runOneFrameLocked: delay the local input,  *)
(* send it, drain the socket into inArr and sumArr, choose the remote      *)
(* input, record the state and set the joypad.                             *)
BeginWith(p, ins, chs) ==
    LET f      == frame[p]
        inArr  == Merge(inputs[p], ins)
        local  == DelayedInput(delayLine[p], pad[p], delay[p])
        known0 == f \in DOMAIN auth[p]
        remote == IF known0 THEN auth[p][f]
                  ELSE ExchangedInput(inArr, lastRemote[p], f)
    IN
    /\ delayLine' = [delayLine EXCEPT
                        ![p] = DelayLineAfter(@, pad[p], delay[p])]
    /\ inputNet' = [inputNet EXCEPT
                        ![Other(p)] = Send(@, known[p], f, local),
                        ![p] = Undrained(@, ins, Repeats)]
    /\ sumNet' = [sumNet EXCEPT ![p] = Undrained(@, chs, Repeats)]
    /\ known' = [known EXCEPT ![p] = @ \/ ins # {} \/ chs # {}]
    /\ inputs' = [inputs EXCEPT ![p] = Erase(inArr, f)]
    /\ peerSums' = [peerSums EXCEPT ![p] = Merge(@, chs)]
    /\ lastRemote' = [lastRemote EXCEPT
                        ![p] = ExchangedInput(inArr, lastRemote[p], f)]
    /\ auth' = [auth EXCEPT ![p] = Erase(@, f)]
    /\ current' = [current EXCEPT
                     ![p] = [local |-> local, remote |-> remote,
                             predicted |-> ~known0 /\ ~Arrived(inArr, f),
                             pre |-> machine[p], pad |-> pad[p],
                             marks |-> marks[p]]]
    /\ pad' = [pad EXCEPT ![p] = local \cup remote]
    /\ marks' = [marks EXCEPT ![p] = @ \cup Edge(pad[p], local \cup remote, f)]
    /\ running' = [running EXCEPT ![p] = TRUE]
    /\ sampled' = [sampled EXCEPT ![p] = Put(@, f, pad[p])]
    /\ applied' = [applied EXCEPT ![p] = Put(@, f, local)]
    /\ guess' = [guess EXCEPT ![p] = Put(@, f, remote)]

(* Mutant: a lockstep that waits for the peer's input.                     *)
BeginWhenArrived(p) ==
    /\ ~running[p] /\ ~paused[p] /\ frame[p] < MaxFrame
    /\ \E ins \in Drains(inputNet[p], MaxInputs) :
         /\ Arrived(Merge(inputs[p], ins), frame[p])
         /\ BeginWith(p, ins, {})
    /\ UNCHANGED <<frame, paused, delay, machine, keys, hist, sums, pressed, since,
                   confirmed, desync>>

BeginFrame(p) ==
    /\ ~running[p] /\ ~paused[p] /\ frame[p] < MaxFrame
    /\ \E ins \in Drains(inputNet[p], MaxInputs),
          chs \in Drains(sumNet[p], MaxSums) : BeginWith(p, ins, chs)
    /\ UNCHANGED <<frame, paused, delay, machine, keys, hist, sums, pressed, since,
                   confirmed, desync>>

(* The rest of the frame: run it, send and record its checksum, record it, *)
(* drain the socket again, compare the checksums that arrived, accept the  *)
(* late inputs and re-simulate from the earliest frame that ran with a     *)
(* wrong prediction.  The checksums are compared before the late inputs    *)
(* are looked at.                                                          *)
EndWith(p, ins, chs) ==
    LET f       == frame[p]
        inArr   == Merge(inputs[p], ins)
        sumArr  == Merge(peerSums[p], chs)
        ran     == RunFrame(machine[p], f, pad[p])
        sum     == FrameChecksum(ran, marks[p])
        sums1   == RecordIn(sums[p], f, sum)
        hist1   == RecordIn(hist[p], f, current[p])
        auth1   == AuthAfterRecord(auth[p], hist[p], f)
        matched == DOMAIN sums1 \cap DOMAIN sumArr
        alarm   == \E g \in matched : sums1[g] # sumArr[g]
        auth2   == AcceptAll(auth1, inArr)
        wrong   == Mispredicted(hist1, inArr)
        from    == Earliest(wrong)
        redone  == {g \in DOMAIN hist1 : g >= from}
        ran2    == Resimulated(ran, hist1, auth2, from)
        hist2   == IF wrong = {} THEN hist1
                   ELSE RefreshedHistory(hist1, auth2, from, ran2)
        sumOf   == [g \in redone |->
                      FrameChecksum(Before(ran2, g + 1),
                                    MarksBefore(hist1, ran2, from, g + 1))]
        sums2   == IF wrong = {} THEN sums1
                   ELSE [g \in DOMAIN sums1 \cup redone |->
                            IF g \in redone THEN sumOf[g] ELSE sums1[g]]
        again   == IF wrong = {} THEN {} ELSE {<<g, sumOf[g]>> : g \in redone}
        known1  == known[p] \/ ins # {} \/ chs # {}
    IN
    /\ frame' = [frame EXCEPT ![p] = f + 1]
    /\ machine' = [machine EXCEPT ![p] = IF wrong = {} THEN ran ELSE ran2]
    /\ marks' = [marks EXCEPT ![p] = IF wrong = {} THEN @
                                     ELSE MarksBefore(hist1, ran2, from, f + 1)]
    /\ pad' = [pad EXCEPT ![p] = IF wrong = {} THEN @ ELSE ran2[f]]
    /\ hist' = [hist EXCEPT ![p] = hist2]
    /\ sums' = [sums EXCEPT ![p] = Keep(sums2, Newest(DOMAIN sums2))]
    /\ auth' = [auth EXCEPT ![p] = auth2]
    /\ inputs' = [inputs EXCEPT ![p] = NoFrames]
    /\ peerSums' = [peerSums EXCEPT ![p] = Drop(sumArr, matched)]
    /\ known' = [known EXCEPT ![p] = known1]
    /\ sumNet' = [sumNet EXCEPT
                    ![Other(p)] = Send(@, known[p], f, sum)
                                  \cup (IF known1 THEN again ELSE {}),
                    ![p] = Undrained(@, chs, Repeats)]
    /\ inputNet' = [inputNet EXCEPT ![p] = Undrained(@, ins, Repeats)]
    /\ paused' = [paused EXCEPT ![p] = @ \/ alarm]
    /\ desync' = [desync EXCEPT ![p] = @ \/ alarm]
    /\ confirmed' = [confirmed EXCEPT ![p] = @ \cup
                        {g \in DOMAIN hist2 :
                            ~hist2[g].predicted \/ g \in DOMAIN auth2}]
    /\ running' = [running EXCEPT ![p] = FALSE]
    /\ current' = [current EXCEPT ![p] = NoRecord]

EndFrame(p) ==
    /\ running[p]
    /\ \E ins \in Drains(inputNet[p], MaxInputs),
          chs \in Drains(sumNet[p], MaxSums) : EndWith(p, ins, chs)
    /\ UNCHANGED <<delay, keys, delayLine, lastRemote, pressed, sampled, since,
                   applied, guess>>

Next ==
    \E p \in Peers :
        \/ \E b \in Buttons : KeyEvent(p, b)
        \/ WriteMemory(p)
        \/ ChangeDelay(p)
        \/ TogglePause(p)
        \/ BeginFrame(p)
        \/ EndFrame(p)

Spec == Init /\ [][Next]_vars
-----------------------------------------------------------------------------
IsMaskMap(m) == DOMAIN m \subseteq Nat /\ \A f \in DOMAIN m : m[f] \in Mask

IsRecord(r) ==
    /\ r = [local |-> r.local, remote |-> r.remote,
            predicted |-> r.predicted, pre |-> r.pre,
            pad |-> r.pad, marks |-> r.marks]
    /\ r.local \in Mask /\ r.remote \in Mask /\ r.predicted \in BOOLEAN

(* Every variable has its type: masks are sets of buttons, the maps of the *)
(* session and of the transport are maps from frame numbers.               *)
TypeOK ==
    /\ frame \in [Peers -> Nat]
    /\ pad \in [Peers -> Mask]
    /\ lastRemote \in [Peers -> Mask]
    /\ delay \in [Peers -> 0..MaxDelay]
    /\ delayLine \in [Peers -> Seq(Mask)]
    /\ paused \in [Peers -> BOOLEAN] /\ running \in [Peers -> BOOLEAN]
    /\ known \in [Peers -> BOOLEAN] /\ desync \in [Peers -> BOOLEAN]
    /\ keys \in Nat
    /\ DOMAIN machine = Peers /\ DOMAIN marks = Peers
    /\ DOMAIN current = Peers /\ DOMAIN hist = Peers
    /\ DOMAIN auth = Peers /\ DOMAIN sums = Peers /\ DOMAIN inputs = Peers
    /\ DOMAIN peerSums = Peers /\ DOMAIN inputNet = Peers /\ DOMAIN sumNet = Peers
    /\ DOMAIN applied = Peers /\ DOMAIN guess = Peers /\ DOMAIN confirmed = Peers
    /\ \A p \in Peers :
        /\ IsMaskMap(machine[p]) /\ DOMAIN machine[p] = 0..(frame[p] - 1)
        /\ IsMaskMap(applied[p])
        /\ DOMAIN applied[p] = 0..(IF running[p] THEN frame[p] ELSE frame[p] - 1)
        /\ IsMaskMap(auth[p]) /\ IsMaskMap(inputs[p])
        /\ IsRecord(current[p])
        /\ DOMAIN hist[p] \subseteq 0..(frame[p] - 1)
        /\ \A f \in DOMAIN hist[p] : IsRecord(hist[p][f])
        /\ confirmed[p] \subseteq 0..(frame[p] - 1)

(* What a record that is not `predicted' claims is what the peer really    *)
(* applied on that frame, however the datagrams were lost, repeated or     *)
(* reordered (realtime.cpp:1747-1773, netplay_session.cpp:84-90).          *)
ConfirmedInputIsPeers ==
    \A p \in Peers : \A f \in DOMAIN hist[p] :
        ~hist[p][f].predicted =>
            /\ f \in DOMAIN applied[Other(p)]
            /\ hist[p][f].remote = applied[Other(p)][f]

(* No frame of the window keeps a remote input that the session knows to   *)
(* be wrong once the frame has ended: a late input that contradicts a      *)
(* prediction is always acted upon (realtime.cpp:1813-1848).               *)
NoKnownMisprediction ==
    \A p \in Peers : \A f \in DOMAIN hist[p] \cap DOMAIN auth[p] :
        hist[p][f].remote = auth[p][f]

(* The machine is always the replay of the window: each frame ran with the *)
(* inputs its record holds, and each record holds the state its frame      *)
(* started from, after any number of rollbacks (netplay_session.cpp:83-94).*)
MachineIsReplayOfHistory ==
    \A p \in Peers : \A f \in DOMAIN hist[p] :
        /\ machine[p][f] = hist[p][f].local \cup hist[p][f].remote
        /\ hist[p][f].pre = Before(machine[p], f)

(* The window and the checksums are the last HistoryLimit frames, with no  *)
(* hole: a rollback finds its record and everything after it.              *)
WindowIsContiguous ==
    \A p \in Peers :
        DOMAIN hist[p] = Window(frame[p]) /\ DOMAIN sums[p] = Window(frame[p])

(* The promise of netplay: where both ends know the peer's input of a      *)
(* frame, both machines ran that frame with the same mask.                 *)
ConfirmedFramesAgree ==
    \A f \in confirmed[Host] \cap confirmed[Client] :
        machine[Host][f] = machine[Client][f]

(* The interrupts that the masks a machine ran with account for.           *)
Edges(run) ==
    {<<f, "interrupt">> : f \in
        {g \in DOMAIN run : ~(run[g] \subseteq (IF g = 0 THEN {} ELSE run[g - 1]))}}

MarksUpTo(p, n) == {k \in marks[p] : k[1] < n}

SomeMisprediction ==
    \E p \in Peers : \E f \in DOMAIN guess[p] \cap DOMAIN applied[Other(p)] :
        guess[p][f] # applied[Other(p)][f]

SomeStray == \E p \in Peers : MarksUpTo(p, frame[p]) # Edges(machine[p])

(* NETPLAY DESYNC always has a cause in a machine: a frame first ran with  *)
(* a remote mask the peer did not apply, or an end's machine holds what    *)
(* its masks do not account for, a write of its own user or an interrupt   *)
(* of a key event (joypad.cpp:18) with no edge in the masks.  Lost, late   *)
(* or reordered checksums alone never raise it (realtime.cpp:1799-1812).   *)
DesyncHasACause ==
    (\E p \in Peers : desync[p]) => SomeMisprediction \/ SomeStray

(* The delay is exact: the mask applied is the joypad sampled `delay'      *)
(* frames before.  After the user shrinks the delay it is so at once, and  *)
(* after he lets it grow as soon as that many frames have been sampled     *)
(* (netplay_session.cpp:17-32).                                            *)
DelayIsExact ==
    \A p \in Peers : \A f \in DOMAIN applied[p] :
        f >= since[p].change /\ f >= since[p].growth + delay[p] =>
            applied[p][f] = sampled[p][f - delay[p]]

(* Netplay implements its promise: an end begins its frames one after the  *)
(* other, and once the session knows the peer's input of a frame, no later *)
(* rollback, datagram or trim changes what that frame was played with,     *)
(* which is what both ends applied.                                        *)
Promise == INSTANCE NetplayPromise WITH
               played <- [p \in Peers |-> [f \in confirmed[p] |-> machine[p][f]]]

KeepsPromise == Promise!Spec

(* The worker never waits for the peer: as long as it is scheduled and the *)
(* user and the alarm leave it running, a frame that can begin does, with  *)
(* a prediction if the peer is silent (realtime.cpp:1762, 1779-1780).      *)
FairSpec ==
    /\ Spec
    /\ \A p \in Peers : WF_vars(BeginFrame(p)) /\ WF_vars(EndFrame(p))

NeverWaitsForPeer ==
    \A p \in Peers : \A n \in 0..(MaxFrame - 1) :
        frame[p] = n ~> (frame[p] > n \/ paused[p])
-----------------------------------------------------------------------------
(* "envia input local do frame", says link_transport.hpp:35, which the code *)
(* does not keep: an end sends no button its own user never pressed.       *)
OnlyLocalButtonsAreSent ==
    \A p \in Peers : \A d \in inputNet[p] :
        \A b \in d[2] : <<Other(p), b>> \in pressed
=============================================================================
