------------------------------ MODULE GbaBackup -------------------------------
(***************************************************************************)
(* The memory a Game Boy Advance cartridge keeps (src/core/gba/memory.cpp, *)
(* with the checks of system.cpp when it is loaded): SRAM, the command     *)
(* machine of the flash chips, whose bytes are integers, and the serial    *)
(* EEPROM, whose words are tuples of EepromBits bits.  A record; a file is *)
(* the tuple of its cells.                                                 *)
(***************************************************************************)
EXTENDS Integers, Sequences, Bitwise, TLC

LOCAL INSTANCE SequencesExt

CONSTANTS BankSize,      \* cells of SRAM, and of a bank of flash (32 KiB, 64 KiB)
          SectorSize,    \* cells of a flash sector (4 KiB)
          UnlockA,       \* 0x5555
          UnlockB,       \* 0x2AAA
          EepromBits,    \* bits of an EEPROM word (64)
          ShortAddress,  \* bits of an address of the small EEPROM (6)
          LongAddress,   \* bits of an address of the large one (14)
          LongestCommand \* bits after which a command is given up (96)

ASSUME GbaBackupAssumption ==
    /\ SectorSize \in 1..BankSize /\ UnlockA \in 0..BankSize - 1 /\ UnlockB \in 0..BankSize - 1
    /\ EepromBits \in Nat \ {0} /\ 0 < ShortAddress /\ ShortAddress < LongAddress
    /\ LongestCommand >= 2 + LongAddress + EepromBits + 1

Kinds == {"none", "sram", "flash64", "flash128", "eeprom"}
Blank == 255
BlankWord == [i \in 1..EepromBits |-> 1]
IsFlash(b) == b.kind \in {"flash64", "flash128"}
IsEeprom(b) == b.kind = "eeprom"

(* backupStorageSize, with the value that fills it                         *)
BlankStorage(kind) ==
    CASE kind = "none" -> <<>>
      [] kind \in {"sram", "flash64"} -> [i \in 1..BankSize |-> Blank]
      [] kind = "flash128" -> [i \in 1..2 * BankSize |-> Blank]
      [] kind = "eeprom" -> [i \in 1..2 ^ LongAddress |-> BlankWord]

AllCells(data, value) == \A i \in DOMAIN data : data[i] = value
CommandSizes == {ShortAddress, LongAddress}

(* effectiveEepromAddressBits: the profile's, the last that was seen, or   *)
(* what the size of the ROM suggests.                                      *)
AddressBits(b) ==
    IF b.forced \in CommandSizes THEN b.forced
    ELSE IF b.address \in CommandSizes THEN b.address
    ELSE IF b.bigRom THEN LongAddress ELSE ShortAddress

(* resetBackupState                                                        *)
BackupReset(b) ==
    [b EXCEPT !.address = IF IsEeprom(b) THEN AddressBits(b) ELSE 0,
              !.written = <<>>, !.reading = <<>>, !.expected = 0,
              !.stage = "ready", !.idMode = FALSE, !.bank = 0]

(* loadRom, configureBackupBehavior and setFlashCompatibilityMode          *)
CompatibilitySet(b, compat) ==
    [b EXCEPT !.compat = compat,
              !.data = IF compat /\ IsFlash(b) /\ AllCells(@, Blank) THEN [i \in DOMAIN @ |-> 0] ELSE @]

NewBackup(kind, forced, strict, bigRom, compat) ==
    CompatibilitySet(
        BackupReset([kind |-> kind, data |-> BlankStorage(kind), dirty |-> FALSE,
                     forced |-> IF forced \in CommandSizes THEN forced ELSE 0,
                     strict |-> strict, bigRom |-> bigRom, compat |-> FALSE,
                     address |-> 0, written |-> <<>>, reading |-> <<>>, expected |-> 0,
                     stage |-> "ready", idMode |-> FALSE, bank |-> 0]), compat)

(* backupPersistSizeBytes, saveBackupToFile and loadBackupFromFile         *)
PersistSize(b) == IF IsEeprom(b) THEN 2 ^ AddressBits(b) ELSE Len(b.data)

BackupFile(b) == SubSeq(b.data, 1, PersistSize(b))

FileRefused(b, file) ==
    \/ b.data = <<>> \/ file = <<>>
    \/ b.strict /\ Len(file) # PersistSize(b)

FileAddressBits(file) ==
    IF Len(file) >= 2 ^ LongAddress THEN LongAddress ELSE IF Len(file) >= 2 ^ ShortAddress THEN ShortAddress ELSE 0

BackupLoaded(b, file) ==
    LET blank  == BlankStorage(b.kind)
        copied == [i \in DOMAIN blank |-> IF i <= Len(file) THEN file[i] ELSE blank[i]]
        mended == IF IsFlash(b) /\ ~b.compat /\ AllCells(copied, 0) THEN blank
                  ELSE IF IsFlash(b) /\ b.compat /\ AllCells(copied, Blank) THEN [i \in DOMAIN blank |-> 0]
                  ELSE copied
        loaded == [BackupReset(b) EXCEPT !.data = mended, !.dirty = FALSE]
    IN  IF FileRefused(b, file) THEN b
        ELSE IF IsEeprom(b) /\ b.forced = 0 /\ FileAddressBits(file) # 0
             THEN [loaded EXCEPT !.address = FileAddressBits(file)]
        ELSE loaded

-----------------------------------------------------------------------------
(* SRAM, and the flash of the compatibility mode, are plain memory.        *)
CellPut(b, i, value) == IF b.data[i] = value THEN b ELSE [b EXCEPT !.data[i] = value, !.dirty = TRUE]

PlainWritten(b, a, value) == CellPut(b, (a % Len(b.data)) + 1, value)

(* programFlashByte, eraseFlashSector, eraseFlashChip: programming clears  *)
(* bits, erasing sets them.                                                *)
FlashIndex(b, a) == (a + (IF b.kind = "flash128" THEN b.bank * BankSize ELSE 0)) % Len(b.data)

FlashProgrammed(b, a, value) == LET i == FlashIndex(b, a) + 1 IN CellPut(b, i, b.data[i] & value)

(* Mutant: a sector is always the first bank's.                            *)
SectorErasedInFirstBank(b, a) ==
    LET first == (a \div SectorSize) * SectorSize
    IN  [b EXCEPT !.data = [i \in DOMAIN @ |-> IF i - 1 \in first .. first + SectorSize - 1 THEN Blank ELSE @[i]],
                  !.dirty = TRUE]

SectorErased(b, a) ==
    LET first == FlashIndex(b, (a \div SectorSize) * SectorSize)
    IN  [b EXCEPT !.data = [i \in DOMAIN @ |-> IF i - 1 \in first .. first + SectorSize - 1 THEN Blank ELSE @[i]],
                  !.dirty = TRUE]

ChipErased(b) == [b EXCEPT !.data = BlankStorage(b.kind), !.dirty = TRUE]

(* handleFlashCommandWrite: the stage after the write, and its effect.  The*)
(* byte that resets the chip does so at every stage, also where it is the  *)
(* value to be programmed.                                                 *)
FlashReset == 240

NextStage(b, a, value) ==
    LET on(stage, address, byte, next) == IF b.stage = stage /\ a = address /\ value = byte THEN {next} ELSE {}
        next == on("ready", UnlockA, 170, "unlock1") \cup on("unlock1", UnlockB, 85, "unlock2")
                \cup on("unlock2", UnlockA, 160, "program") \cup on("unlock2", UnlockA, 128, "erase1")
                \cup on("unlock2", UnlockA, 176, "bank")
                \cup on("erase1", UnlockA, 170, "erase2") \cup on("erase2", UnlockB, 85, "erase")
    IN  IF next = {} THEN "ready" ELSE CHOOSE s \in next : TRUE

FlashWritten(b, a, value) ==
    LET done == CASE b.stage = "unlock2" /\ a = UnlockA /\ value = 144 -> [b EXCEPT !.idMode = TRUE]
                  [] b.stage = "program" -> FlashProgrammed(b, a, value)
                  [] b.stage = "erase" /\ a = UnlockA /\ value = 16 -> ChipErased(b)
                  [] b.stage = "erase" /\ value = 48 -> SectorErased(b, a)
                  [] b.stage = "bank" /\ b.kind = "flash128" /\ a = 0 -> [b EXCEPT !.bank = value % 2]
                  [] OTHER -> b
    IN  IF value = FlashReset THEN [b EXCEPT !.idMode = FALSE, !.stage = "ready"]
        ELSE [done EXCEPT !.stage = NextStage(b, a, value)]

(* writeBackup8 and readBackup8                                            *)
BackupWritten(b, a, value) ==
    IF b.kind \in {"none", "eeprom"} THEN b
    ELSE IF IsFlash(b) /\ ~b.compat THEN FlashWritten(b, a, value)
    ELSE PlainWritten(b, a, value)

BackupRead(b, a, ids) ==
    IF b.kind \in {"none", "eeprom"} THEN Blank
    ELSE IF IsFlash(b) /\ ~b.compat
         THEN IF b.idMode THEN (IF a \in DOMAIN ids THEN ids[a] ELSE Blank) ELSE b.data[FlashIndex(b, a) + 1]
    ELSE b.data[(a % Len(b.data)) + 1]

-----------------------------------------------------------------------------
(* handleEepromWriteBit and maybeCommitEepromCommand.  A transfer by DMA   *)
(* tells how many bits come; without it the command ends as soon as it has *)
(* one of the two lengths, the one of the address size in use first.       *)
AddressOf(bits, size) == FoldLeft(LAMBDA n, bit : 2 * n + bit, 0, SubSeq(bits, 3, 2 + size))
BlockOf(bits, size) == (AddressOf(bits, size) % 2 ^ size) + 1

ReadLength(size) == 2 + size + 1
WriteLength(size) == 2 + size + EepromBits + 1

BlockRead(b, bits, size) ==
    [b EXCEPT !.address = size, !.written = <<>>,
              !.reading = <<0, 0, 0, 0>> \o b.data[BlockOf(bits, size)]]

BlockWritten(b, bits, size) ==
    [CellPut(b, BlockOf(bits, size), SubSeq(bits, 3 + size, 2 + size + EepromBits))
        EXCEPT !.address = size, !.written = <<>>]

Committed(b, bits, size) ==
    IF bits[1] = 1 /\ bits[2] = 1 THEN BlockRead(b, bits, size) ELSE BlockWritten(b, bits, size)

CommandLength(bits, size) == IF bits[2] = 1 THEN ReadLength(size) ELSE WriteLength(size)

EepromBitWritten(b, bit) ==
    LET bits  == Append(b.written, bit)
        grown == [b EXCEPT !.written = bits]
        gone  == [b EXCEPT !.written = <<>>]
        fits  == {size \in CommandSizes : Len(bits) >= 2 /\ Len(bits) = CommandLength(bits, size)}
    IN  IF Len(bits) < (IF b.expected > 0 THEN b.expected ELSE 2) THEN grown
        ELSE IF bits[1] # 1 THEN gone
        ELSE IF (b.expected = 0 \/ Len(bits) = b.expected) /\ fits # {}
             THEN Committed(b, bits, CHOOSE size \in fits : TRUE)
        ELSE IF b.expected > 0 \/ Len(bits) > LongestCommand THEN gone ELSE grown

(* readEepromBit, and the transfers by DMA that carry a command.           *)
EepromBitRead(b) ==
    [b |-> IF b.reading = <<>> THEN b ELSE [b EXCEPT !.reading = Tail(@)],
     bit |-> IF b.reading = <<>> THEN 1 ELSE Head(b.reading)]

EepromTransfer(b, bits) ==
    [FoldLeft(EepromBitWritten, [b EXCEPT !.expected = Len(bits)], bits) EXCEPT !.expected = 0]

-----------------------------------------------------------------------------
(* A game and the memory of its cartridge: it sends the commands of the    *)
(* chip it has, a byte at a time, and the console may be switched off      *)
(* between two of them, when the memory goes to its file and comes back    *)
(* (System::saveBackupToFile, loadRomFromFile, loadBackupFromFile).        *)
CONSTANTS Chips,    \* [kind, address]: the chip, and the bits of its addresses if it is an EEPROM
          Values,   \* what a game writes
          MaxCommands

VARIABLES chip, backup,
          stream,   \* the bytes of the command that are still to come
          after,    \* what the memory will hold when they have come
          want,     \* what the last complete command left, by cell
          bank,     \* the bank of flash the game chose
          commands

saveVars == <<chip, backup, stream, after, want, bank, commands>>

SwitchedOn(c) == NewBackup(c.kind, c.forced, c.strict, FALSE, FALSE)

SaveInit ==
    /\ chip \in Chips /\ backup = SwitchedOn(chip)
    /\ stream = <<>> /\ want = backup.data /\ after = want /\ bank = 0 /\ commands = 0

Unlocked(command) == <<<<UnlockA, 170>>, <<UnlockB, 85>>, <<UnlockA, command>>>>

Sends(bytes, content) ==
    /\ stream = <<>> /\ commands < MaxCommands
    /\ stream' = bytes /\ after' = content /\ commands' = commands + 1
    /\ UNCHANGED <<chip, backup, want>>

FlashCell(a) == bank * BankSize + a + 1

PutsByte(a, v) ==
    /\ chip.kind = "sram" /\ Sends(<<<<a, v>>>>, [want EXCEPT ![a + 1] = v]) /\ UNCHANGED bank

(* A cell takes any value but the one the chip is reset by.                *)
ProgramsByte(a, v) ==
    /\ IsFlash(backup)
    /\ Sends(Append(Unlocked(160), <<a, v>>),
             [want EXCEPT ![FlashCell(a)] = IF v = FlashReset THEN @ ELSE @ & v])
    /\ UNCHANGED bank

ErasesSector(a) ==
    /\ IsFlash(backup)
    /\ Sends(Unlocked(128) \o <<<<UnlockA, 170>>, <<UnlockB, 85>>, <<a, 48>>>>,
             [i \in DOMAIN want |->
                IF (i - 1) \div SectorSize = (FlashCell(a) - 1) \div SectorSize THEN Blank ELSE want[i]])
    /\ UNCHANGED bank

ErasesChip ==
    /\ IsFlash(backup)
    /\ Sends(Unlocked(128) \o <<<<UnlockA, 170>>, <<UnlockB, 85>>, <<UnlockA, 16>>>>, BlankStorage(chip.kind))
    /\ UNCHANGED bank

ChoosesBank(k) ==
    /\ chip.kind = "flash128" /\ Sends(Append(Unlocked(176), <<0, k>>), want) /\ bank' = k

(* The next byte of the command reaches the chip.                          *)
ByteArrives ==
    /\ stream # <<>>
    /\ backup' = BackupWritten(backup, Head(stream)[1], Head(stream)[2])
    /\ stream' = Tail(stream)
    /\ want' = IF Tail(stream) = <<>> THEN after ELSE want
    /\ UNCHANGED <<chip, after, bank, commands>>

(* The bits of an address, the highest first.                              *)
AddressBitsOf(a) == [i \in 1..chip.address |-> (a \div 2 ^ (chip.address - i)) % 2]

WritesBlock(a, word) ==
    /\ chip.kind = "eeprom" /\ commands < MaxCommands
    /\ backup' = EepromTransfer(backup, <<1, 0>> \o AddressBitsOf(a) \o word \o <<0>>)
    /\ want' = [want EXCEPT ![a + 1] = word]
    /\ after' = want' /\ commands' = commands + 1 /\ UNCHANGED <<chip, stream, bank>>

(* Off and on, in the middle of a command or not.                          *)
Restarted(b) == BackupLoaded(SwitchedOn(chip), BackupFile(b))

SwitchedOff ==
    /\ backup' = Restarted(backup) /\ stream' = <<>> /\ after' = want /\ bank' = 0
    /\ UNCHANGED <<chip, want, commands>>

Addresses == 0 .. BankSize - 1

SaveNext ==
    \/ \E a \in Addresses, v \in Values : PutsByte(a, v) \/ ProgramsByte(a, v)
    \/ \E a \in Addresses : ErasesSector(a)
    \/ ErasesChip
    \/ \E k \in {0, 1} : ChoosesBank(k)
    \/ ByteArrives
    \/ \E a \in 0 .. (2 ^ chip.address) - 1, bit \in {0, 1} : WritesBlock(a, [i \in 1..EepromBits |-> bit])
    \/ SwitchedOff

-----------------------------------------------------------------------------
(* Between two commands the chip holds exactly what the game wrote to it,  *)
(* whatever came before: a command cut short by the switch changes no cell,*)
(* and the next one is understood (readEepromBit and readBackup8 agree).   *)
(* The exception is a flash cell that was to be programmed with the byte   *)
(* of the reset, which stays what it was (handleFlashCommandWrite).        *)
ReadBack(b, a) ==
    IF chip.kind = "eeprom"
    THEN SubSeq(EepromTransfer(b, <<1, 1>> \o AddressBitsOf(a) \o <<0>>).reading, 5, 4 + EepromBits)
    ELSE BackupRead(b, a, <<>>)

BackupKeepsWrites ==
    stream = <<>> =>
        IF chip.kind = "eeprom"
        THEN \A a \in 0 .. (2 ^ chip.address) - 1 : ReadBack(backup, a) = want[a + 1]
        ELSE \A a \in Addresses : ReadBack(backup, a) = want[FlashCell(a)]
=============================================================================
