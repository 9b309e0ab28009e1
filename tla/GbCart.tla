-------------------------------- MODULE GbCart --------------------------------
(***************************************************************************)
(* The cartridge (src/core/cartridge.cpp and cartridge/mappers): which     *)
(* bank of the ROM or of the RAM an address means, for each kind of        *)
(* mapper, what a write to the ROM's addresses selects, the clock of the   *)
(* MBC3, and what of all this a saved state keeps.                         *)
(*                                                                         *)
(* A ROM read is answered by its place <<"rom", bank, offset>>, a RAM cell *)
(* by its contents; None stands for the 0xFF of an address nobody answers. *)
(***************************************************************************)
EXTENDS Integers, TLC

CONSTANTS None,       \* what nobody answers; the state that was not kept
          RomBankSize, RamBankSize,     \* 0x4000, 0x2000
          Minute, Hour, Day,            \* 60, 60, 24
          Paks        \* cartridges that are played: [type, banks, ram, writes, probes, keeps,
                      \* times]: the pairs <<address, value>> that the game writes, the
                      \* addresses that are compared, whether states and files are kept,
                      \* and what the host's clock shows when time passes (a bound)

ASSUME CartAssumption ==
    /\ {RomBankSize, RamBankSize, Minute, Hour, Day} \subseteq Nat \ {0}
    /\ \A p \in Paks : p.banks \in Nat \ {0} /\ p.writes \subseteq Nat \X (0..255) /\ p.times \subseteq Nat

Days == 512

RomEnd   == 2 * RomBankSize             \* 0x8000
RamStart == 2 * RomBankSize + RamBankSize
RamEnd   == RamStart + RamBankSize

(* Cartridge::loadFromFile: the type byte of the header chooses the mapper.*)
MapperOf(type) ==
    CASE type \in {0, 8, 9}  -> "none"
      [] type \in 1..3       -> "mbc1"
      [] type \in 11..13     -> "mmm01"
      [] type \in {5, 6}     -> "mbc2"
      [] type \in 15..19     -> "mbc3"
      [] type = 254          -> "huc3"
      [] type = 255          -> "mbc1"    \* HuC1
      [] type = 34           -> "mbc7"
      [] type = 252          -> "camera"
      [] type \in 25..30     -> "mbc5"
      [] OTHER               -> "none"

HasBattery(type) == type \in {6, 3, 9, 15, 16, 19, 27, 30, 13, 34, 252, 254, 255}
HasRtc(type)     == type \in {15, 16, 254}

(* The RAM of the header, or what a mapper has inside.                     *)
RamSize(type, header) ==
    CASE header # 0 -> header
      [] header = 0 /\ type \in {5, 6, 34} -> 512
      [] header = 0 /\ type = 252 -> RamBankSize
      [] OTHER -> 0

NewRtc == [seconds |-> 0, minutes |-> 0, hours |-> 0, day |-> 0,
           halted |-> FALSE, carry |-> FALSE]

NewCart(type, romBanks, header, now) ==
    [kind |-> MapperOf(type), type |-> type, banks |-> romBanks,
     size |-> RamSize(type, header), ram |-> <<>>,
     on |-> FALSE, low |-> 1, high |-> 0, sel |-> 0, mode |-> 0,
     base |-> 0, locked |-> FALSE, camera |-> FALSE,
     arm |-> 0, latched |-> FALSE, rtc |-> NewRtc, shadow |-> NewRtc, last |-> now,
     huc |-> FALSE, command |-> 0, value |-> 0]

RamBanks(c) ==
    IF c.size = 0 THEN 0 ELSE IF c.size < RamBankSize THEN 1 ELSE c.size \div RamBankSize

-----------------------------------------------------------------------------
(* The ROM bank that each half of the ROM's addresses means.               *)
LowerBank(c) ==
    CASE c.kind = "mbc1" /\ c.mode = 1  -> (c.high * 32) % c.banks
      [] c.kind = "mmm01" /\ c.mode = 1 -> (c.base + c.high * 32) % c.banks
      [] c.kind = "mmm01" /\ c.mode = 0 -> c.base
      [] OTHER -> 0

OneIfZero(v) == IF v = 0 THEN 1 ELSE v

UpperBank(c) ==
    CASE c.kind = "none" -> 1
      [] c.kind = "mbc1" -> OneIfZero((c.low + c.high * 32) % c.banks)
      [] c.kind \in {"mbc2", "mbc3", "huc3"} -> c.low % c.banks
      [] c.kind = "mbc5" -> (c.low + c.high * 256) % c.banks
      [] c.kind \in {"mbc7", "camera"} -> OneIfZero(c.low + c.high * 256) % c.banks
      [] c.kind = "mmm01" ->
           LET b == (c.base + c.low + c.high * 32) % c.banks
           IN  IF b = c.base THEN (b + 1) % c.banks ELSE b

RomAt(c, bank, offset) == IF bank < c.banks THEN <<"rom", bank, offset>> ELSE None

(* The bank of RAM, for the mappers that have banks of it.                 *)
RamBank(c) ==
    LET n == RamBanks(c)
    IN  CASE c.kind \in {"mbc1", "mmm01"} -> IF c.mode = 1 /\ n > 0 THEN c.high % n ELSE 0
          [] c.kind \in {"mbc3", "huc3", "mbc5", "camera"} -> IF n = 0 THEN 0 ELSE c.sel % n
          [] OTHER -> 0

Cell(c, offset) == RamBank(c) * RamBankSize + offset
Stored(c, i) == IF i \in DOMAIN c.ram THEN c.ram[i] ELSE 0

RamAt(c, i) == IF i < c.size THEN Stored(c, i) ELSE None
RamPut(c, i, value) == IF i < c.size THEN [c EXCEPT !.ram = (i :> value) @@ @] ELSE c

-----------------------------------------------------------------------------
(* updateRtc: what has passed since the clock was last looked at is added, *)
(* or dropped while the clock is halted; a clock that was set back only    *)
(* moves the mark.                                                         *)
Passed(r, seconds) ==
    LET total == r.seconds + Minute * (r.minutes + Hour * (r.hours + Day * r.day)) + seconds
        days  == total \div (Minute * Hour * Day)
    IN  [seconds |-> total % Minute, minutes |-> (total \div Minute) % Hour,
         hours |-> (total \div (Minute * Hour)) % Day, day |-> days % Days,
         halted |-> r.halted, carry |-> r.carry \/ days >= Days]

(* Mutant: the mark stays when the clock is brought up to date.            *)
RtcKeepsMark(c, now) ==
    IF c.kind \notin {"mbc3", "huc3"} THEN c
    ELSE [c EXCEPT !.rtc = IF now <= c.last \/ @.halted THEN @ ELSE Passed(@, now - c.last)]

RtcUpdated(c, now) ==
    IF c.kind \notin {"mbc3", "huc3"} THEN c
    ELSE [c EXCEPT !.last = now,
                   !.rtc = IF now <= c.last \/ @.halted THEN @ ELSE Passed(@, now - c.last)]

RtcRead(r, sel) ==
    CASE sel = 8 -> r.seconds [] sel = 9 -> r.minutes [] sel = 10 -> r.hours
      [] sel = 11 -> r.day % 256
      [] sel = 12 -> (r.day \div 256) + (IF r.halted THEN 64 ELSE 0) + IF r.carry THEN 128 ELSE 0

RtcWritten(r, sel, value) ==
    CASE sel = 8  -> [r EXCEPT !.seconds = value % Minute]
      [] sel = 9  -> [r EXCEPT !.minutes = value % Hour]
      [] sel = 10 -> [r EXCEPT !.hours = value % Day]
      [] sel = 11 -> [r EXCEPT !.day = 256 * (@ \div 256) + value]
      [] sel = 12 -> [r EXCEPT !.day = (@ % 256) + 256 * (value % 2),
                               !.halted = ((value \div 64) % 2 = 1), !.carry = (value >= 128)]

-----------------------------------------------------------------------------
(* The read of an address of the RAM, and the write to it.                 *)
InHuC3(c) == c.kind = "huc3" /\ c.huc

ExtRead(c, offset) ==
    CASE InHuC3(c) /\ c.command = 11 -> c.value
      [] InHuC3(c) /\ c.command = 12 -> 1
      [] c.kind = "none" -> RamAt(c, offset)
      [] ~(InHuC3(c) /\ c.command \in {11, 12}) /\ c.kind # "none" /\ ~c.on -> None
      [] c.kind = "mbc2" /\ c.on /\ c.size > 0 -> 240 + (Stored(c, offset % 512) % 16)
      [] c.kind \in {"mbc3", "huc3"} /\ c.on /\ c.sel \in 8..12 ->
           RtcRead(IF c.latched THEN c.shadow ELSE c.rtc, c.sel)
      [] c.kind \in {"mbc3", "huc3"} /\ c.on /\ c.sel \in (4..7) \cup (13..15) -> None
      [] c.kind = "camera" /\ c.on /\ c.camera /\ offset < 128 -> None  \* its registers
      [] c.kind = "mbc7" /\ c.on /\ offset < 128 -> None                \* its sensor
      [] c.kind = "mbc7" /\ c.on /\ offset >= 128 -> Stored(c, (offset - 128) % 512)
      [] OTHER -> RamAt(c, Cell(c, offset))

ExtWritten(c, offset, value) ==
    CASE InHuC3(c) /\ c.command = 10 -> [c EXCEPT !.value = value % 16]
      [] c.kind = "none" -> RamPut(c, offset, value)
      [] ~(InHuC3(c) /\ c.command = 10) /\ c.kind # "none" /\ ~c.on -> c
      [] c.kind = "mbc2" /\ c.on /\ c.size > 0 -> RamPut(c, offset % 512, value % 16)
      [] c.kind \in {"mbc3", "huc3"} /\ c.on /\ c.sel \in 8..12 ->
           [c EXCEPT !.rtc = RtcWritten(@, c.sel, value)]
      [] c.kind \in {"mbc3", "huc3"} /\ c.on /\ c.sel \in (4..7) \cup (13..15) -> c
      [] c.kind = "camera" /\ c.on /\ c.camera /\ offset < 128 -> c
      [] c.kind = "mbc7" /\ c.on /\ offset < 128 -> c
      [] c.kind = "mbc7" /\ c.on /\ offset >= 128 ->
           RamPut(c, (c.sel % 2) * 256 + ((offset - 128) % 256), value)
      [] OTHER -> RamPut(c, Cell(c, offset), value)

-----------------------------------------------------------------------------
(* A write to the ROM's addresses: each quarter of them is a register.     *)
Enabling(value) == value % 16 = 10
Quarter(address) == (2 * address) \div RomBankSize

Enabled(c, value) ==
    IF c.kind = "huc3" /\ (value \div 16) = 1
    THEN [c EXCEPT !.huc = TRUE, !.command = value % 16]
    ELSE [c EXCEPT !.on = Enabling(value),
                   !.locked = (@ \/ (c.kind = "mmm01" /\ Enabling(value))),
                   !.huc = (@ /\ value # 0),
                   !.command = IF value = 0 THEN 0 ELSE @]

(* MBC5, MBC7 and the camera have the ninth bit in the upper half.         *)
BankWritten(c, address, value) ==
    CASE c.kind = "mbc1" -> [c EXCEPT !.low = OneIfZero(value % 32)]
      [] c.kind = "mmm01" /\ ~c.locked -> [c EXCEPT !.base = (value % 32) % c.banks]
      [] c.kind = "mmm01" /\ c.locked  -> [c EXCEPT !.low = OneIfZero(value % 32)]
      [] c.kind \in {"mbc3", "huc3"} -> [c EXCEPT !.low = OneIfZero(value % 128)]
      [] c.kind \in {"mbc5", "mbc7", "camera"} ->
           IF 4 * address < 3 * RomBankSize THEN [c EXCEPT !.low = value]
           ELSE [c EXCEPT !.high = value % 2]
      [] OTHER -> c

SelectWritten(c, value) ==
    CASE c.kind \in {"mbc1", "mmm01"} -> [c EXCEPT !.high = value % 4]
      [] c.kind \in {"mbc3", "huc3", "mbc5", "mbc7"} -> [c EXCEPT !.sel = value % 16]
      [] c.kind = "camera" ->
           [c EXCEPT !.sel = value % 16, !.camera = ((value \div 16) % 2 = 1)]
      [] OTHER -> c

(* The MBC3 latches its clock at an edge from 0 to 1.                      *)
ModeWritten(c, value) ==
    CASE c.kind \in {"mbc1", "mmm01"} -> [c EXCEPT !.mode = value % 2]
      [] c.kind \in {"mbc3", "huc3"} ->
           LET edge == c.arm = 0 /\ value % 2 = 1
           IN  [c EXCEPT !.arm = value % 2, !.latched = (@ \/ edge),
                         !.shadow = IF edge THEN c.rtc ELSE @]
      [] OTHER -> c

(* The MBC2 tells its two registers apart by a bit of the address.         *)
Mbc2Written(c, address, value) ==
    IF (address \div 256) % 2 = 0 THEN [c EXCEPT !.on = Enabling(value)]
    ELSE [c EXCEPT !.low = OneIfZero(value % 16)]

RegisterWritten(c, address, value) ==
    CASE c.kind = "none" -> c
      [] c.kind = "mbc2" /\ Quarter(address) <= 1 -> Mbc2Written(c, address, value)
      [] c.kind \notin {"none", "mbc2"} /\ Quarter(address) = 0 -> Enabled(c, value)
      [] c.kind \notin {"none", "mbc2"} /\ Quarter(address) = 1 -> BankWritten(c, address, value)
      [] c.kind \notin {"none", "mbc2"} /\ Quarter(address) = 2 -> SelectWritten(c, value)
      [] c.kind \notin {"none", "mbc2"} /\ Quarter(address) = 3 -> ModeWritten(c, value)
      [] OTHER -> c

-----------------------------------------------------------------------------
(* Cartridge::read and Cartridge::write, at a second of the host's clock.  *)
CartRead(c0, address, now) ==
    LET c == RtcUpdated(c0, now)
    IN  CASE address < RomBankSize -> RomAt(c, LowerBank(c), address)
          [] address \in RomBankSize..(RomEnd - 1) -> RomAt(c, UpperBank(c), address - RomBankSize)
          [] address \in RamStart..(RamEnd - 1) -> ExtRead(c, address - RamStart)

CartWritten(c0, address, value, now) ==
    LET c == RtcUpdated(c0, now)
    IN  IF address < RomEnd THEN RegisterWritten(c, address, value)
        ELSE ExtWritten(c, address - RamStart, value)

(* Mutant: the state of an MBC1 leaves out the mode.                       *)
CartSavedWithoutMode(c) ==
    [c EXCEPT !.mode = IF c.kind = "mbc1" THEN 0 ELSE @]

(* Mapper::state of each kind: the registers it has, one by one.           *)
CartSaved(c) ==
    LET keeps(kinds, value, otherwise) == IF c.kind \in kinds THEN value ELSE otherwise
        clock == {"mbc3", "huc3"}
        all == {"mbc1", "mbc2", "mbc3", "huc3", "mbc5", "mbc7", "mmm01", "camera"}
    IN  [type |-> c.type, ram |-> c.ram, size |-> c.size,
         on |-> keeps(all, c.on, FALSE), low |-> keeps(all, c.low, 1),
         high |-> keeps({"mbc1", "mmm01", "mbc5", "mbc7", "camera"}, c.high, 0),
         sel |-> keeps(clock \cup {"mbc5", "mbc7", "camera"}, c.sel, 0),
         mode |-> keeps({"mbc1", "mmm01"}, c.mode, 0),
         base |-> keeps({"mmm01"}, c.base % 32, 0), locked |-> keeps({"mmm01"}, c.locked, FALSE),
         camera |-> keeps({"camera"}, c.camera, FALSE),
         arm |-> keeps(clock, c.arm, 0), latched |-> keeps(clock, c.latched, FALSE),
         rtc |-> keeps(clock, c.rtc, NewRtc), shadow |-> keeps(clock, c.shadow, NewRtc),
         last |-> c.last,
         huc |-> keeps({"huc3"}, c.huc, FALSE), command |-> keeps({"huc3"}, c.command, 0),
         value |-> keeps({"huc3"}, c.value, 0)]

(* Cartridge::loadState: nothing of another type's state is taken, a RAM   *)
(* of another size is left; the clock is brought up to date.               *)
CartLoaded(c, s, now) ==
    IF s.type # c.type THEN c
    ELSE RtcUpdated([kind |-> c.kind, type |-> c.type, banks |-> c.banks, size |-> c.size,
        ram |-> IF s.size = c.size THEN s.ram ELSE c.ram,
        on |-> s.on, low |-> s.low, high |-> s.high, sel |-> s.sel, mode |-> s.mode,
        base |-> s.base, locked |-> s.locked, camera |-> s.camera, arm |-> s.arm,
        latched |-> s.latched, rtc |-> s.rtc, shadow |-> s.shadow, last |-> s.last,
        huc |-> s.huc, command |-> s.command, value |-> s.value], now)

-----------------------------------------------------------------------------
(* The cartridge alone: a game that writes its registers and its RAM in    *)
(* any order while time passes, states of the game that are kept and taken *)
(* back, and the files of the battery and of the clock, which are read     *)
(* when the game is loaded again.                                          *)
VARIABLES played,  \* a member of Paks
          pak,     \* the cartridge
          clock,   \* seconds of the host's clock
          kept,    \* the state that was kept, or None
          files,   \* what was written to the files, or None
          due      \* what the clock of the cartridge should show

cartVars == <<played, pak, clock, kept, files, due>>

Fresh == NewCart(played.type, played.banks, played.ram, clock)

CartInit ==
    /\ played \in Paks /\ clock = 0
    /\ pak = Fresh
    /\ kept = None /\ files = None /\ due = 0

WriteCart(address, value) ==
    /\ pak' = CartWritten(pak, address, value, clock)
    /\ UNCHANGED <<played, clock, kept, files, due>>

(* The host's clock is seen to show the next of its times.                 *)
TimePasses ==
    /\ \E t \in played.times :
        /\ t > clock /\ \A u \in played.times : u > clock => t <= u
        /\ clock' = t
        /\ due' = IF pak.rtc.halted THEN due ELSE due + (t - clock)
    /\ UNCHANGED <<played, pak, kept, files>>

(* What the clock should show when a state is taken back.                  *)
Caught(k) == IF k.cart.rtc.halted THEN k.due ELSE k.due + clock - k.at

KeepState ==
    /\ played.keeps /\ kept = None
    /\ kept' = [cart |-> CartSaved(pak), due |-> due, at |-> clock]
    /\ UNCHANGED <<played, pak, clock, files, due>>

TakeState ==
    /\ kept # None
    /\ pak' = CartLoaded(pak, kept.cart, clock)
    /\ due' = Caught(kept)
    /\ UNCHANGED <<played, clock, kept, files>>

(* saveRamToFile and saveRtcToFile; the latter holds the mapper's state.   *)
SaveFiles ==
    /\ played.keeps /\ files = None
    /\ files' = [cart |-> CartSaved(pak), due |-> due, at |-> clock]
    /\ UNCHANGED <<played, pak, clock, kept, due>>

(* loadRom, then loadRamFromFile and loadRtcFromFile, whether or not the   *)
(* last game ended in order: without a file the clock starts from 0.       *)
WithRam(c, s) == [c EXCEPT !.ram = s.ram]
PowerOn ==
    /\ played.keeps /\ kept' = None
    /\ LET read == files # None
           clocked == read /\ HasRtc(played.type)
           c == IF clocked THEN CartLoaded(Fresh, [files.cart EXCEPT !.ram = <<>>], clock)
                ELSE Fresh
       IN  /\ pak' = IF read THEN WithRam(c, files.cart) ELSE c
           /\ due' = IF clocked THEN Caught(files) ELSE 0
    /\ UNCHANGED <<played, clock, files>>

CartNext ==
    \/ \E w \in played.writes : WriteCart(w[1], w[2])
    \/ TimePasses \/ KeepState \/ TakeState \/ SaveFiles \/ PowerOn

CartSpec == CartInit /\ [][CartNext]_cartVars

(* The clock of the cartridge, when it is looked at, shows the time that   *)
(* passed while it was not halted, across the states that were taken back  *)
(* and the power that was off.                                             *)
Shown(c) ==
    LET r == RtcUpdated(c, clock).rtc
    IN  r.seconds + Minute * (r.minutes + Hour * (r.hours + Day * r.day))

RtcKeepsTime == HasRtc(played.type) => Shown(pak) = due

(* A state that is loaded into a fresh cartridge answers every address as  *)
(* the cartridge did that it was taken from.                               *)
CartStateSurvives ==
    \A a \in played.probes :
        CartRead(CartLoaded(Fresh, CartSaved(pak), clock), a, clock) = CartRead(pak, a, clock)
=============================================================================
