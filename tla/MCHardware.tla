------------------------------ MODULE MCHardware ------------------------------
(***************************************************************************)
(* The two consoles.  The parts of the Game Boy, each with the programs it *)
(* is given: one of them runs in a behaviour, the others keep their first  *)
(* state.  Then both consoles; one of them runs and the other keeps its    *)
(* first state.                                                            *)
(***************************************************************************)
EXTENDS GbMachine, MCAdvance

VARIABLE part   \* "game", "sound" or "cartridge"

(* Bytes of a program from an address on, in bank 0.                       *)
At(a, bytes) == [cell \in {<<0, a + i - 1>> : i \in 1..Len(bytes)} |-> bytes[cell[2] - a + 1]]

Program(rom) ==
    [rom |-> rom, boot |-> <<>>, banks |-> 2, type |-> 0, ram |-> 0,
     colour |-> FALSE, precise |-> TRUE, cable |-> "off",
     buttons |-> {}, versions |-> {0}, frames |-> 3]

(* A handler that adds one to the byte at 0xFF00 + cell, and its vector.   *)
Counting(vector, cell) ==
    At(vector, <<\hF5, \hF0, cell, \h3C, \hE0, cell, \hF1, \hD9>>)

(* LD A,value  LDH (register),A                                            *)
Sets(register, value) == <<\h3E, value, \hE0, register>>

(* Every 8 counts of TIMA a handler counts; the program counts in B.       *)
TimerProgram ==
    Program(Counting(\h50, \h80)
            @@ At(\h100, Sets(\h06, 248) \o Sets(\h05, 248) \o Sets(\h0F, 0) \o Sets(\h07, 5)
                         \o Sets(\hFF, 4) \o <<\hFB, \h04, \h18, \hFD>>))

(* The program sleeps until a VBlank, a button or the end of a transfer.   *)
SleepProgram(cable, precise) ==
    [Program(Counting(\h40, \h81) @@ Counting(\h58, \h82) @@ Counting(\h60, \h83)
             @@ At(\h100, Sets(\h0F, 0) \o Sets(\h01, 90) \o Sets(\h02, 129) \o Sets(\hFF, 25)
                          \o <<\hFB, \h76, \h00, \h18, \hFC>>))
        EXCEPT !.cable = cable, !.precise = precise, !.buttons = {"A"},
               !.versions = IF precise THEN {2, 4} ELSE {0}, !.frames = 2]

(* On the colour console, at double speed: two blocks to video memory, one *)
(* at each HBlank, and a page to OAM.                                      *)
ColourProgram ==
    [Program(At(\h100, Sets(\h4D, 1) \o <<\h10, \h00>> \o Sets(\h46, 1) \o Sets(\h51, \h01)
                       \o Sets(\h52, 0) \o Sets(\h53, 0) \o Sets(\h54, 0) \o Sets(\h55, \h81)
                       \o <<\h18, \hFE>>))
        EXCEPT !.colour = TRUE, !.frames = 2]

(* The interrupts are off and one is pending: every HALT is the halt bug,  *)
(* and some frames end between the HALT and the byte it repeats.           *)
HaltBugProgram ==
    [Program(At(\h100, Sets(\hFF, 1) \o <<0, 0, 0, 0, \h76, \h04, \h18, \hFC>>))
        EXCEPT !.versions = {0, 4}]

(* On the colour console, two blocks to video memory that are asked for    *)
(* as the second frame begins, before its first HBlank.                    *)
LateHdmaProgram ==
    [Program(At(\h100, Sets(\h51, \h01) \o Sets(\h52, 0) \o Sets(\h53, 0) \o Sets(\h54, 0)
                       \o <<\h06, 20, \h05, \h20, \hFD>> \o Sets(\h55, \h81) \o <<\h18, \hFE>>))
        EXCEPT !.colour = TRUE, !.versions = {0, 4}]

ThePrograms ==
    {TimerProgram, ColourProgram, HaltBugProgram, LateHdmaProgram}
    \cup {SleepProgram(c, p) : c \in {"off", "loopback"}, p \in BOOLEAN}

TheTimaPeriods == [s \in 0..3 |-> CASE s = 0 -> 1024 [] s = 1 -> 16 [] s = 2 -> 64 [] s = 3 -> 256]
TheFullLength == <<2, 2, 3, 2>>
TheColumns == 0..1

-----------------------------------------------------------------------------
(* What a game writes to the registers and the RAM of its cartridge.       *)
RegisterWrites ==
    {<<\h0000, 0>>, <<\h0000, 10>>, <<\h2000, 0>>, <<\h2000, 35>>, <<\h3000, 1>>,
     <<\h4000, 0>>, <<\h4000, 1>>, <<\h6000, 0>>, <<\h6000, 1>>, <<\hA000, 90>>}

APak(type, header) ==
    [type |-> type, banks |-> 64, ram |-> header, writes |-> RegisterWrites,
     probes |-> {0, \h4000, \hA000}, keeps |-> FALSE, times |-> {}]

(* An MBC3 that is only asked for its clock, which it may halt.           *)
ClockPak ==
    [APak(16, \h2000) EXCEPT
        !.writes = {<<\h0000, 10>>, <<\h4000, 12>>, <<\hA000, 0>>, <<\hA000, 64>>},
        !.probes = {\hA000}, !.keeps = TRUE, !.times = {1, 8}]

ThePaks == {ClockPak} \cup {APak(t, \h4000) : t \in {3, 13, 16, 27, 252, 254}}
                      \cup {APak(t, 0) : t \in {6, 34}} \cup {APak(9, \h2000)}

TheSoundWrites ==
    {<<\hFF10, \h11>>, <<\hFF11, 63>>, <<\hFF12, 0>>, <<\hFF12, \hF0>>, <<\hFF14, \hC7>>, <<\hFF14, \h80>>, <<\hFF1A, 0>>, <<\hFF1A, \h80>>, <<\hFF1E, \hC0>>,
     <<\hFF26, 0>>, <<\hFF26, \h80>>}
TheSoundCycles == {256}

-----------------------------------------------------------------------------
HardwareInit ==
    /\ part \in {"game", "sound", "cartridge"}
    /\ MachineInit /\ SoundInit /\ CartInit
    /\ part # "game" => program = TimerProgram
    /\ part # "cartridge" => played = ClockPak

HardwareNext ==
    \/ /\ part = "game" /\ MachineNext
       /\ UNCHANGED <<part, apu, cartVars>>
    \/ /\ part = "sound" /\ SoundNext
       /\ UNCHANGED <<part, machineVars, cartVars>>
    \/ /\ part = "cartridge" /\ CartNext
       /\ UNCHANGED <<part, machineVars, apu>>

-----------------------------------------------------------------------------
VARIABLE console   \* "gb" or "gba"

gbVars == <<part, apu, cartVars, machineVars>>
advanceVars == <<mcVars, saveVars, gbaVars, audio>>

ConsolesInit ==
    /\ console \in {"gb", "gba"}
    /\ HardwareInit
    /\ console = "gba" => part = "sound"
    /\ AdvanceInit
    /\ console = "gb" => /\ gbaPart = "save" /\ chip.kind = "sram"

ConsolesNext ==
    \/ console = "gb" /\ HardwareNext /\ UNCHANGED <<console, advanceVars>>
    \/ console = "gba" /\ AdvanceNext /\ UNCHANGED <<console, gbVars>>
=============================================================================
