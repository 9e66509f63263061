------------------------------- MODULE Mapper -------------------------------
(***************************************************************************)
(* The cartridge header and the mappers (cartridge.cpp: parse_header,       *)
(* configure_mapper, reset_mapper, read_bus, write, effective_rom_offset,   *)
(* effective_ram_offset, read_external_ram, write_external_ram): which byte *)
(* of which image a bus access reaches.  The bytes themselves are left out, *)
(* and what the clock registers hold is module Rtc.                         *)
(***************************************************************************)
EXTENDS Integers

CONSTANTS
  Images,         \* the ROMs that a cartridge is made of
  Reloads,        \* those that can be loaded later
  ProgramReads,   \* addresses that are read
  ProgramWrites   \* the values that are written to each address

VARIABLES
  image,          \* the ROM: its size, its header's bytes, its logos
  regs,           \* the registers of all the mappers
  persistent_dirty,
  bus,            \* what the last bus access reached
  asked           \* history: the last value written to each register

vars == <<image, regs, persistent_dirty, bus, asked>>

Byte == 0 .. 255
RomBankSize == 16384
RamBankSize == 8192
SubRomSize == 262144

\* logos: the quarters of a multicart's ROM whose logo is that of the first.
Image == [type : Byte, ramCode : Byte, romSize : Nat \ {0}, logos : SUBSET (1 .. 3)]
NoImage == [type |-> 0, ramCode |-> 0, romSize |-> 0, logos |-> {}]

ASSUME MapperAssumption ==
  /\ Images \subseteq {i \in Image : i.romSize >= 336}
  /\ Reloads \subseteq Images
  /\ ProgramReads \subseteq Nat /\ DOMAIN ProgramWrites \subseteq Nat
  /\ \A address \in DOMAIN ProgramWrites : ProgramWrites[address] \subseteq Byte

-----------------------------------------------------------------------------
(* The header. *)

Mapper(i) ==
  CASE i.type \in {0, 8, 9} -> "RomOnly"
    [] i.type \in {1, 2, 3} -> "Mbc1"
    [] i.type \in {5, 6} -> "Mbc2"
    [] i.type \in 15 .. 19 -> "Mbc3"
    [] i.type \in 25 .. 30 -> "Mbc5"
    [] OTHER -> "Unknown"

HasRam(i) == i.type \in {2, 3, 5, 6, 8, 9, 16, 18, 19, 26, 27, 29, 30}
HasBattery(i) == i.type \in {3, 6, 9, 15, 16, 19, 27, 30}
HasTimer(i) == i.type \in {15, 16}
HasRumble(i) == i.type \in {28, 29, 30}

HasMulticartLayout(i) ==
  /\ Mapper(i) = "Mbc1"
  /\ i.romSize >= 4 * SubRomSize
  /\ \E n \in i.logos : n * SubRomSize + 308 <= i.romSize

HeaderRamSize(i) ==
  CASE i.ramCode = 2 -> RamBankSize
    [] i.ramCode = 3 -> 4 * RamBankSize
    [] i.ramCode = 4 -> 16 * RamBankSize
    [] i.ramCode = 5 -> 8 * RamBankSize
    [] OTHER -> 0

RamSize(i) == IF HasRam(i) /\ Mapper(i) # "Mbc2" THEN HeaderRamSize(i) ELSE 0

Mbc30(i) ==
  Mapper(i) = "Mbc3" /\ (i.romSize > 128 * RomBankSize \/ HeaderRamSize(i) > 4 * RamBankSize)

FreshRegs ==
  [ ram_enabled |-> FALSE, rom_bank |-> 1, ram_bank |-> 0, rtc_register_select |-> 0,
    lower_rom_bank_bits |-> 1, upper_bank_bits |-> 0, banking_mode |-> 0,
    mbc5_rom_bank |-> 1, mbc5_ram_bank |-> 0, rumble_enabled |-> FALSE,
    latch_armed |-> FALSE ]

-----------------------------------------------------------------------------
(* Writes to the mapper's registers. *)

ZeroIsOne(bank) == IF bank = 0 THEN 1 ELSE bank

EnableRam(r, value) == [r EXCEPT !.ram_enabled = value % 16 = 10]

WriteMbc1(r, address, value) ==
  IF address <= 8191 THEN EnableRam(r, value)
  ELSE IF address <= 16383 THEN [r EXCEPT !.lower_rom_bank_bits = value % 32]
  ELSE IF address <= 24575 THEN [r EXCEPT !.upper_bank_bits = value % 4]
  ELSE [r EXCEPT !.banking_mode = value % 2]

WriteMbc2(r, address, value) ==
  IF address > 16383 THEN r
  ELSE IF (address \div 256) % 2 = 0 THEN EnableRam(r, value)
  ELSE [r EXCEPT !.rom_bank = ZeroIsOne(value % 16)]

SelectRamOrClock(r, value) ==
  [r EXCEPT !.rtc_register_select = value, !.ram_bank = IF value <= 7 THEN value ELSE @]

SelectRom(i, r, value) ==
  [r EXCEPT !.rom_bank = ZeroIsOne(value % IF Mbc30(i) THEN 256 ELSE 128)]

ArmLatch(r, value) == [r EXCEPT !.latch_armed = value = 0]

Latches(i, r, address, value) ==
  Mapper(i) = "Mbc3" /\ address > 24575 /\ value = 1 /\ r.latch_armed

WriteMbc3(i, r, address, value) ==
  IF address <= 8191 THEN EnableRam(r, value)
  ELSE IF address <= 16383 THEN SelectRom(i, r, value)
  ELSE IF address <= 24575 THEN SelectRamOrClock(r, value)
  ELSE ArmLatch(r, value)

\* Mutant: the ninth bit of the bank clears the other eight.
SetHighBankAlone(r, value) == [r EXCEPT !.mbc5_rom_bank = (value % 2) * 256]

SetLowBank(r, value) == [r EXCEPT !.mbc5_rom_bank = ((@ \div 256) * 256) + value]
SetHighBank(r, value) == [r EXCEPT !.mbc5_rom_bank = ((value % 2) * 256) + (@ % 256)]

SetRamBank(i, r, value) ==
  IF HasRumble(i)
  THEN [r EXCEPT !.rumble_enabled = (value \div 8) % 2 = 1, !.mbc5_ram_bank = value % 8]
  ELSE [r EXCEPT !.mbc5_ram_bank = value % 16]

WriteMbc5(i, r, address, value) ==
  IF address <= 8191 THEN EnableRam(r, value)
  ELSE IF address <= 12287 THEN SetLowBank(r, value)
  ELSE IF address <= 16383 THEN SetHighBank(r, value)
  ELSE IF address <= 24575 THEN SetRamBank(i, r, value)
  ELSE r

WriteRegister(i, r, address, value) ==
  CASE Mapper(i) = "Mbc1" -> WriteMbc1(r, address, value)
    [] Mapper(i) = "Mbc2" -> WriteMbc2(r, address, value)
    [] Mapper(i) = "Mbc3" -> WriteMbc3(i, r, address, value)
    [] Mapper(i) = "Mbc5" -> WriteMbc5(i, r, address, value)
    [] OTHER -> r

-----------------------------------------------------------------------------
(* Which byte an address reaches. *)

InRom(address) == address <= 32767
InRam(address) == address >= 40960 /\ address <= 49151

UpperUnit(i) == IF HasMulticartLayout(i) THEN 16 ELSE 32

RomBank(i, r, address) ==
  IF address >= RomBankSize
  THEN CASE Mapper(i) = "Mbc1" ->
              (r.upper_bank_bits * UpperUnit(i)) + (ZeroIsOne(r.lower_rom_bank_bits) % UpperUnit(i))
         [] Mapper(i) \in {"Mbc2", "Mbc3"} -> r.rom_bank
         [] Mapper(i) = "Mbc5" -> r.mbc5_rom_bank
         [] OTHER -> 0
  ELSE IF Mapper(i) = "Mbc1" /\ r.banking_mode # 0
       THEN r.upper_bank_bits * UpperUnit(i) ELSE 0

BankCount(i) == (i.romSize + RomBankSize - 1) \div RomBankSize

EffectiveRomOffset(i, r, address) ==
  CASE i.romSize = 0 -> 0
    [] i.romSize # 0 /\ Mapper(i) = "RomOnly" -> address
    [] i.romSize # 0 /\ Mapper(i) = "Unknown" -> i.romSize
    [] OTHER -> (RomBank(i, r, address) % BankCount(i)) * RomBankSize + (address % RomBankSize)

RamBank(i, r) ==
  CASE Mapper(i) = "Mbc1" -> IF r.banking_mode # 0 THEN r.upper_bank_bits ELSE 0
    [] Mapper(i) = "Mbc3" -> r.ram_bank % IF Mbc30(i) THEN 8 ELSE 4
    [] Mapper(i) = "Mbc5" -> r.mbc5_ram_bank
    [] OTHER -> 0

\* Mutant: a bank that the RAM does not have is not wrapped.
EffectiveRamOffsetUnwrapped(i, r, address) == RamBank(i, r) * RamBankSize + (address - 40960)

EffectiveRamOffset(i, r, address) ==
  (RamBank(i, r) * RamBankSize + (address - 40960)) % RamSize(i)

At(kind, n) == [kind |-> kind, at |-> n]
OpenBus == At("open", 0)     \* the bus keeps what it held
Ones == At("ones", 0)        \* the cartridge drives 0xFF
Nothing == At("nothing", 0)  \* a write that reaches no byte

Access(access, address, byte) == [access |-> access, address |-> address, byte |-> byte]
Idle == Access("none", 0, Nothing)

RamByte(i, r, address) == At("ram", EffectiveRamOffset(i, r, address))
Nibble(address) == At("nibble", (address - 40960) % 512)
Clock(r) == At("clock", r.rtc_register_select)

ClockSelected(r) == r.rtc_register_select \in 8 .. 12

ReadExternal(i, r, address) ==
  CASE Mapper(i) = "RomOnly" -> IF RamSize(i) = 0 THEN OpenBus ELSE RamByte(i, r, address)
    [] Mapper(i) = "Mbc2" -> IF r.ram_enabled THEN Nibble(address) ELSE Ones
    [] Mapper(i) = "Mbc3" ->
         IF ~r.ram_enabled THEN IF HasRam(i) \/ HasTimer(i) THEN Ones ELSE OpenBus
         ELSE IF ClockSelected(r) THEN IF HasTimer(i) THEN Clock(r) ELSE OpenBus
         ELSE IF r.rtc_register_select > 7 \/ RamSize(i) = 0 THEN OpenBus
         ELSE IF HasTimer(i) /\ ~Mbc30(i) /\ r.rtc_register_select > 3 THEN Ones
         ELSE RamByte(i, r, address)
    [] Mapper(i) \in {"Mbc1", "Mbc5"} ->
         IF ~r.ram_enabled THEN IF HasRam(i) THEN Ones ELSE OpenBus
         ELSE IF RamSize(i) = 0 THEN OpenBus
         ELSE RamByte(i, r, address)
    [] OTHER -> OpenBus

\* Mutant: a write to a bank that the cartridge lacks wraps into one it has.
WriteExternalWrapped(i, r, address) ==
  CASE Mapper(i) = "RomOnly" /\ RamSize(i) # 0 -> RamByte(i, r, address)
    [] Mapper(i) = "Mbc2" /\ r.ram_enabled -> Nibble(address)
    [] Mapper(i) = "Mbc3" /\ r.ram_enabled /\ ClockSelected(r) /\ HasTimer(i) -> Clock(r)
    [] /\ Mapper(i) = "Mbc3" /\ r.ram_enabled /\ r.rtc_register_select <= 7
       /\ RamSize(i) # 0 -> RamByte(i, r, address)
    [] Mapper(i) \in {"Mbc1", "Mbc5"} /\ r.ram_enabled /\ RamSize(i) # 0 -> RamByte(i, r, address)
    [] OTHER -> Nothing

WriteExternal(i, r, address) ==
  CASE Mapper(i) = "RomOnly" /\ RamSize(i) # 0 -> RamByte(i, r, address)
    [] Mapper(i) = "Mbc2" /\ r.ram_enabled -> Nibble(address)
    [] Mapper(i) = "Mbc3" /\ r.ram_enabled /\ ClockSelected(r) /\ HasTimer(i) -> Clock(r)
    [] /\ Mapper(i) = "Mbc3" /\ r.ram_enabled /\ r.rtc_register_select <= 7
       /\ ~HasTimer(i) \/ Mbc30(i) \/ r.rtc_register_select <= 3
       /\ RamSize(i) # 0 -> RamByte(i, r, address)
    [] Mapper(i) \in {"Mbc1", "Mbc5"} /\ r.ram_enabled /\ RamSize(i) # 0 -> RamByte(i, r, address)
    [] OTHER -> Nothing

ReadBus(i, r, address) ==
  LET offset == EffectiveRomOffset(i, r, address) IN
  CASE i = NoImage -> OpenBus
    [] i # NoImage /\ InRom(address) -> IF offset < i.romSize THEN At("rom", offset) ELSE OpenBus
    [] i # NoImage /\ InRam(address) -> ReadExternal(i, r, address)
    [] OTHER -> OpenBus

-----------------------------------------------------------------------------
(* The steps. *)

\* What module BankSwitch calls the register that an address belongs to.
Chip == INSTANCE BankSwitch

\* sync_rtc, which marks the cartridge dirty when the clock has moved (module Rtc).
SyncRtc == persistent_dirty' \in {persistent_dirty, persistent_dirty \/ HasTimer(image)}

Read(address) ==
  /\ bus' = Access("read", address, ReadBus(image, regs, address))
  /\ IF bus'.byte.kind = "clock" THEN SyncRtc ELSE UNCHANGED persistent_dirty
  /\ UNCHANGED <<image, regs, asked>>

WriteToRam(address, value) ==
  /\ image # NoImage /\ InRam(address)
  /\ LET byte == WriteExternal(image, regs, address) IN
       bus' = IF byte = Nothing THEN Idle ELSE Access("write", address, byte)
  /\ IF bus' # Idle /\ HasBattery(image) THEN persistent_dirty' = TRUE ELSE SyncRtc
  /\ UNCHANGED <<image, regs, asked>>

WriteToMapper(address, value) ==
  /\ image # NoImage /\ InRom(address)
  /\ regs' = WriteRegister(image, regs, address, value)
  /\ asked' = Chip!Asked(image, asked, address, value)
  /\ bus' = Idle
  /\ IF Latches(image, regs, address, value) THEN SyncRtc ELSE UNCHANGED persistent_dirty
  /\ UNCHANGED image

WriteElsewhere(address) ==
  /\ image # NoImage => ~InRom(address) /\ ~InRam(address)
  /\ bus' = Idle
  /\ UNCHANGED <<image, regs, persistent_dirty, asked>>

\* GameBoy::reset
ResetMapper ==
  /\ regs' = FreshRegs /\ asked' = Chip!NothingAsked
  /\ bus' = Idle
  /\ UNCHANGED <<image, persistent_dirty>>

LoadRom(i) ==
  /\ image' = i
  /\ regs' = FreshRegs /\ asked' = Chip!NothingAsked
  /\ persistent_dirty' = FALSE
  /\ bus' = Idle

\* take_battery_ram and load_battery_ram leave the cartridge clean.
SaveOrRestoreRam ==
  /\ persistent_dirty /\ persistent_dirty' = FALSE
  /\ bus' = Idle
  /\ UNCHANGED <<image, regs, asked>>

Init ==
  /\ image \in Images \union {NoImage}
  /\ regs = FreshRegs
  /\ persistent_dirty = FALSE
  /\ bus = Idle
  /\ asked = Chip!NothingAsked

Next ==
  \/ \E address \in ProgramReads : Read(address)
  \/ \E address \in DOMAIN ProgramWrites : \E value \in ProgramWrites[address] :
       \/ WriteToRam(address, value)
       \/ WriteToMapper(address, value)
       \/ WriteElsewhere(address)
  \/ ResetMapper
  \/ \E i \in Reloads : LoadRom(i)
  \/ SaveOrRestoreRam

Spec == Init /\ [][Next]_vars
-----------------------------------------------------------------------------
(* Properties. *)

ExternalAddresses == {address \in ProgramReads : InRam(address)}
RomAddresses == {address \in ProgramReads : InRom(address)}

Regs ==
  [ ram_enabled : BOOLEAN, rom_bank : 1 .. 255, ram_bank : 0 .. 7,
    rtc_register_select : Byte, lower_rom_bank_bits : 0 .. 31, upper_bank_bits : 0 .. 3,
    banking_mode : 0 .. 1, mbc5_rom_bank : 0 .. 511, mbc5_ram_bank : 0 .. 15,
    rumble_enabled : BOOLEAN, latch_armed : BOOLEAN ]

\* Registers hold only what their width admits; in particular no mapper but the
\* MBC5 and the multicart MBC1 ever switches bank 0 into 0x4000-0x7FFF.
TypeOK ==
  /\ image \in Image \union {NoImage}
  /\ regs \in Regs
  /\ persistent_dirty \in BOOLEAN

\* Whatever the header says and whatever was written to the registers, an access
\* stays inside the image: the RAM's offset is used as an index unchecked, and a
\* banked ROM of whole banks answers every read.
OffsetsStayInside ==
  /\ \A address \in ExternalAddresses :
       LET byte == WriteExternal(image, regs, address) IN
       /\ byte.kind = "ram" => byte.at \in 0 .. RamSize(image) - 1
       /\ byte.kind = "nibble" => byte.at \in 0 .. 511
  /\ image.romSize % RomBankSize = 0 /\ Mapper(image) \notin {"RomOnly", "Unknown"} =>
       \A address \in RomAddresses : EffectiveRomOffset(image, regs, address) < image.romSize

\* The two handlers of 0xA000-0xBFFF decide separately whether a byte is there:
\* a write reaches one exactly where a read shows it, and the same one.
StoresCanBeReadBack ==
  image # NoImage =>
    \A address \in ExternalAddresses :
      LET read == ReadExternal(image, regs, address)
          write == WriteExternal(image, regs, address)
      IN  IF read.kind \in {"ones", "open"} THEN write = Nothing ELSE write = read

\* Mapper implements BankSwitch: after any series of writes each access reaches
\* the byte that the last value of each register asks for, and no other.
ImplementsBankSwitch == Chip!Spec
=============================================================================
