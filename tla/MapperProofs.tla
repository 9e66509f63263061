---------------------------- MODULE MapperProofs ----------------------------
(***************************************************************************)
(* Proofs about module Mapper for every header, every size of the ROM and   *)
(* every series of writes.  Registers keep to their width, and with them no *)
(* access leaves the ROM or RAM image; the two handlers of 0xA000-0xBFFF    *)
(* agree on where there is a byte; and Mapper implements BankSwitch, which  *)
(* is proved mapper by mapper: what a write makes of the registers, then    *)
(* the byte of the ROM, then the byte of the RAM.                           *)
(***************************************************************************)
EXTENDS Mapper, TLAPS

-----------------------------------------------------------------------------
\* One register at a time.
LEMMA FlagUpdate ==
  ASSUME NEW r \in Regs, NEW flag \in BOOLEAN
  PROVE  /\ [r EXCEPT !.ram_enabled = flag] \in Regs
         /\ [r EXCEPT !.rumble_enabled = flag] \in Regs
         /\ [r EXCEPT !.latch_armed = flag] \in Regs
BY DEF Regs

LEMMA EnableUpdate ==
  ASSUME NEW r \in Regs, NEW value \in Byte
  PROVE  EnableRam(r, value) \in Regs
<1> DEFINE flag == value % 16 = 10
<1>1. flag \in BOOLEAN
  OBVIOUS
<1>2. EnableRam(r, value) = [r EXCEPT !.ram_enabled = flag]
  BY DEF EnableRam
<1> HIDE DEF flag
<1>3. [r EXCEPT !.ram_enabled = flag] \in Regs
  BY <1>1, FlagUpdate
<1> QED BY <1>2, <1>3

LEMMA RegsFields ==
  ASSUME NEW r \in Regs
  PROVE  /\ r.rom_bank \in Nat /\ r.ram_bank \in Nat
         /\ r.lower_rom_bank_bits \in Nat /\ r.upper_bank_bits \in Nat
         /\ r.mbc5_rom_bank \in 0 .. 511 /\ r.mbc5_ram_bank \in Nat
BY DEF Regs

LEMMA Mbc1Update ==
  ASSUME NEW r \in Regs, NEW address \in Nat, NEW value \in Byte
  PROVE  WriteMbc1(r, address, value) \in Regs
<1>1. value % 32 \in 0 .. 31 /\ value % 4 \in 0 .. 3 /\ value % 2 \in 0 .. 1
  BY DEF Byte
<1>2. [r EXCEPT !.lower_rom_bank_bits = value % 32] \in Regs
  BY <1>1 DEF Regs
<1>3. [r EXCEPT !.upper_bank_bits = value % 4] \in Regs
  BY <1>1 DEF Regs
<1>4. [r EXCEPT !.banking_mode = value % 2] \in Regs
  BY <1>1 DEF Regs
<1> QED BY <1>2, <1>3, <1>4, EnableUpdate DEF WriteMbc1

LEMMA Mbc2Update ==
  ASSUME NEW r \in Regs, NEW address \in Nat, NEW value \in Byte
  PROVE  WriteMbc2(r, address, value) \in Regs
<1>1. ZeroIsOne(value % 16) \in 1 .. 255
  BY DEF Byte, ZeroIsOne
<1>2. [r EXCEPT !.rom_bank = ZeroIsOne(value % 16)] \in Regs
  BY <1>1 DEF Regs
<1> QED BY <1>2, EnableUpdate DEF WriteMbc2

LEMMA SelectUpdate ==
  ASSUME NEW r \in Regs, NEW value \in Byte
  PROVE  SelectRamOrClock(r, value) \in Regs
<1> DEFINE s == [r EXCEPT !.rtc_register_select = value]
           bank == IF value <= 7 THEN value ELSE r.ram_bank
<1>1. s \in Regs /\ bank \in 0 .. 7
  BY DEF Regs, Byte
<1>2. SelectRamOrClock(r, value) = [s EXCEPT !.ram_bank = bank]
  BY DEF SelectRamOrClock, Regs
<1> HIDE DEF s, bank
<1>3. [s EXCEPT !.ram_bank = bank] \in Regs
  BY <1>1 DEF Regs
<1> QED BY <1>2, <1>3

LEMMA SelectRomUpdate ==
  ASSUME NEW i, NEW r \in Regs, NEW value \in Byte
  PROVE  SelectRom(i, r, value) \in Regs
<1> DEFINE bank == ZeroIsOne(value % IF Mbc30(i) THEN 256 ELSE 128)
<1>1. bank \in 1 .. 255
  <2>1. value % 256 \in 0 .. 255 /\ value % 128 \in 0 .. 127
    BY DEF Byte
  <2> QED BY <2>1 DEF ZeroIsOne
<1>2. SelectRom(i, r, value) = [r EXCEPT !.rom_bank = bank]
  BY Zenon DEF SelectRom
<1> HIDE DEF bank
<1>3. [r EXCEPT !.rom_bank = bank] \in Regs
  BY <1>1 DEF Regs
<1> QED BY <1>2, <1>3

LEMMA LatchUpdate ==
  ASSUME NEW r \in Regs, NEW value \in Byte
  PROVE  ArmLatch(r, value) \in Regs
<1> DEFINE flag == value = 0
<1>1. flag \in BOOLEAN
  OBVIOUS
<1>2. ArmLatch(r, value) = [r EXCEPT !.latch_armed = flag]
  BY Zenon DEF ArmLatch
<1> HIDE DEF flag
<1> QED BY <1>1, <1>2, FlagUpdate, Zenon

LEMMA Mbc3Update ==
  ASSUME NEW i, NEW r \in Regs, NEW address \in Nat, NEW value \in Byte
  PROVE  WriteMbc3(i, r, address, value) \in Regs
BY EnableUpdate, SelectUpdate, SelectRomUpdate, LatchUpdate DEF WriteMbc3

LEMMA SetBankUpdate ==
  ASSUME NEW r \in Regs, NEW value \in Byte
  PROVE  SetLowBank(r, value) \in Regs /\ SetHighBank(r, value) \in Regs
<1> DEFINE low == ((r.mbc5_rom_bank \div 256) * 256) + value
           high == ((value % 2) * 256) + (r.mbc5_rom_bank % 256)
<1>1. low \in 0 .. 511 /\ high \in 0 .. 511
  <2> DEFINE old == r.mbc5_rom_bank
  <2>1. old \in 0 .. 511
    BY RegsFields
  <2> HIDE DEF old
  <2>2. old \div 256 \in 0 .. 1 /\ old % 256 \in 0 .. 255
    BY <2>1
  <2>3. value % 2 \in 0 .. 1 /\ value \in 0 .. 255
    BY DEF Byte
  <2>4. ((old \div 256) * 256) + value \in 0 .. 511
    BY <2>2, <2>3
  <2>5. ((value % 2) * 256) + (old % 256) \in 0 .. 511
    BY <2>2, <2>3
  <2> QED BY <2>4, <2>5 DEF old
<1>2. /\ SetLowBank(r, value) = [r EXCEPT !.mbc5_rom_bank = low]
      /\ SetHighBank(r, value) = [r EXCEPT !.mbc5_rom_bank = high]
  BY Zenon DEF SetLowBank, SetHighBank
<1> HIDE DEF low, high
<1>3. [r EXCEPT !.mbc5_rom_bank = low] \in Regs /\ [r EXCEPT !.mbc5_rom_bank = high] \in Regs
  BY <1>1 DEF Regs
<1> QED BY <1>2, <1>3, Zenon

LEMMA RamBankUpdate ==
  ASSUME NEW i, NEW r \in Regs, NEW value \in Byte
  PROVE  SetRamBank(i, r, value) \in Regs
<1> DEFINE flag == (value \div 8) % 2 = 1
           s == [r EXCEPT !.rumble_enabled = flag]
<1>1. value % 8 \in 0 .. 15 /\ value % 16 \in 0 .. 15
  BY DEF Byte
<1>2. flag \in BOOLEAN
  OBVIOUS
<1>3. \/ SetRamBank(i, r, value) = [s EXCEPT !.mbc5_ram_bank = value % 8]
      \/ SetRamBank(i, r, value) = [r EXCEPT !.mbc5_ram_bank = value % 16]
  BY Zenon DEF SetRamBank
<1> HIDE DEF flag
<1>4. s \in Regs
  BY <1>2, FlagUpdate, Zenon
<1> HIDE DEF s
<1>5. [s EXCEPT !.mbc5_ram_bank = value % 8] \in Regs
  BY <1>1, <1>4 DEF Regs
<1>6. [r EXCEPT !.mbc5_ram_bank = value % 16] \in Regs
  BY <1>1 DEF Regs
<1> QED BY <1>3, <1>5, <1>6, Zenon

LEMMA Mbc5Update ==
  ASSUME NEW i, NEW r \in Regs, NEW address \in Nat, NEW value \in Byte
  PROVE  WriteMbc5(i, r, address, value) \in Regs
BY EnableUpdate, SetBankUpdate, RamBankUpdate DEF WriteMbc5

LEMMA RegisterUpdate ==
  ASSUME NEW i, NEW r \in Regs, NEW address \in Nat, NEW value \in Byte
  PROVE  WriteRegister(i, r, address, value) \in Regs
BY Mbc1Update, Mbc2Update, Mbc3Update, Mbc5Update DEF WriteRegister

LEMMA FreshIsOK == FreshRegs \in Regs
BY DEF FreshRegs, Regs, Byte

-----------------------------------------------------------------------------
\* What the constants are assumed to be.
LEMMA ImagesOK == ASSUME NEW i \in Images PROVE i \in Image
<1>1. Images \subseteq {x \in Image : x.romSize >= 336}
  BY MapperAssumption
<1> QED BY <1>1

LEMMA WritesOK ==
  ASSUME NEW address \in DOMAIN ProgramWrites, NEW value \in ProgramWrites[address]
  PROVE  address \in Nat /\ value \in Byte
<1>1. DOMAIN ProgramWrites \subseteq Nat
  BY MapperAssumption
<1>2. \A a \in DOMAIN ProgramWrites : ProgramWrites[a] \subseteq Byte
  BY MapperAssumption
<1> QED BY <1>1, <1>2

\* Registers hold what their width admits, for every cartridge and every series
\* of writes (write, reset_mapper, load_rom).
THEOREM TypeCorrect == Spec => []TypeOK
<1>1. Init => TypeOK
  BY ImagesOK, FreshIsOK DEF Init, TypeOK
<1>2. TypeOK /\ [Next]_vars => TypeOK'
  <2> SUFFICES ASSUME TypeOK, [Next]_vars PROVE TypeOK'
    OBVIOUS
  <2>1. ASSUME NEW address \in ProgramReads, Read(address) PROVE TypeOK'
    BY <2>1 DEF Read, SyncRtc, TypeOK
  <2>2. ASSUME NEW address, NEW value, WriteToRam(address, value) PROVE TypeOK'
    BY <2>2 DEF WriteToRam, SyncRtc, TypeOK
  <2>3. ASSUME NEW address \in Nat, NEW value \in Byte, WriteToMapper(address, value)
        PROVE  TypeOK'
    <3>1. /\ regs' = WriteRegister(image, regs, address, value)
          /\ UNCHANGED image
          /\ UNCHANGED persistent_dirty \/ SyncRtc
      BY <2>3 DEF WriteToMapper
    <3>2. regs \in Regs
      BY DEF TypeOK
    <3>3. regs' \in Regs
      BY <3>1, <3>2, RegisterUpdate
    <3> QED BY <3>1, <3>3 DEF SyncRtc, TypeOK
  <2>4. ASSUME NEW address, WriteElsewhere(address) PROVE TypeOK'
    BY <2>4 DEF WriteElsewhere, TypeOK
  <2>5. CASE ResetMapper
    BY <2>5, FreshIsOK DEF ResetMapper, TypeOK
  <2>6. ASSUME NEW i \in Reloads, LoadRom(i) PROVE TypeOK'
    <3>1. i \in Images
      BY MapperAssumption
    <3>2. i \in Image
      BY <3>1, ImagesOK
    <3> QED BY <2>6, <3>2, FreshIsOK DEF LoadRom, TypeOK
  <2>7. CASE SaveOrRestoreRam
    BY <2>7 DEF SaveOrRestoreRam, TypeOK
  <2>8. CASE UNCHANGED vars
    BY <2>8 DEF vars, TypeOK
  <2>9. CASE \E address \in DOMAIN ProgramWrites : \E value \in ProgramWrites[address] :
               \/ WriteToRam(address, value)
               \/ WriteToMapper(address, value)
               \/ WriteElsewhere(address)
    BY <2>2, <2>3, <2>4, <2>9, WritesOK
  <2> QED BY <2>1, <2>5, <2>6, <2>7, <2>8, <2>9 DEF Next
<1> QED BY <1>1, <1>2, PTL DEF Spec

-----------------------------------------------------------------------------
\* A RAM is a whole number of banks, and one that is not empty has one at least.
LEMMA RamSizes ==
  ASSUME NEW i
  PROVE  RamSize(i) \in {0, 8192, 32768, 65536, 131072}
BY DEF RamSize, HeaderRamSize, RamBankSize

LEMMA RamOffsetInside ==
  ASSUME NEW i, NEW r \in Regs, RamSize(i) # 0, NEW address \in Nat, InRam(address)
  PROVE  EffectiveRamOffset(i, r, address) \in 0 .. RamSize(i) - 1
<1>1. RamBank(i, r) \in Nat
  <2>1. r.upper_bank_bits \in Nat /\ r.mbc5_ram_bank \in Nat
    BY RegsFields
  <2>2. r.ram_bank % 8 \in Nat /\ r.ram_bank % 4 \in Nat
    BY RegsFields
  <2> QED BY <2>1, <2>2 DEF RamBank
<1> DEFINE wide == RamBank(i, r) * RamBankSize + (address - 40960)
<1>2. wide \in Nat
  BY <1>1 DEF RamBankSize, InRam
<1>3. EffectiveRamOffset(i, r, address) = wide % RamSize(i)
  BY DEF EffectiveRamOffset
<1> HIDE DEF wide
<1>4. RamSize(i) \in Nat \ {0}
  BY RamSizes
<1> QED BY <1>2, <1>3, <1>4

LEMMA RamByteInside ==
  ASSUME NEW i, NEW r \in Regs, NEW address \in Nat, InRam(address)
  PROVE  LET byte == WriteExternal(i, r, address) IN
         /\ byte.kind = "ram" => byte.at \in 0 .. RamSize(i) - 1
         /\ byte.kind = "nibble" => byte.at \in 0 .. 511
<1> DEFINE byte == WriteExternal(i, r, address)
<1>1. \/ RamSize(i) # 0 /\ byte = RamByte(i, r, address)
      \/ byte = Nibble(address)
      \/ byte = Clock(r)
      \/ byte = Nothing
  BY DEF WriteExternal
<1>2. CASE RamSize(i) # 0 /\ byte = RamByte(i, r, address)
  <2>1. byte.at = EffectiveRamOffset(i, r, address) /\ byte.kind = "ram"
    BY <1>2 DEF RamByte, At
  <2> QED BY <1>2, <2>1, RamOffsetInside
<1>3. CASE byte = Nibble(address)
  <2>1. byte.at = (address - 40960) % 512 /\ byte.kind = "nibble"
    BY <1>3 DEF Nibble, At
  <2>2. (address - 40960) % 512 \in 0 .. 511
    BY DEF InRam
  <2> QED BY <2>1, <2>2
<1>4. CASE byte = Clock(r) \/ byte = Nothing
  BY <1>4 DEF Clock, Nothing, At
<1> HIDE DEF byte
<1> QED BY <1>1, <1>2, <1>3, <1>4 DEF byte

\* The modulus of effective_rom_offset is what keeps a bank inside the ROM.
LEMMA RomOffsetInside ==
  ASSUME NEW i, i.romSize \in Nat \ {0}, i.romSize % RomBankSize = 0,
         Mapper(i) \notin {"RomOnly", "Unknown"},
         NEW r \in Regs, NEW address \in Nat
  PROVE  EffectiveRomOffset(i, r, address) < i.romSize
<1> DEFINE bank == RomBank(i, r, address)
           count == BankCount(i)
           inner == address % RomBankSize
<1>1. bank \in Nat
  <2>1. /\ r.upper_bank_bits \in Nat /\ r.rom_bank \in Nat /\ r.mbc5_rom_bank \in Nat
        /\ r.lower_rom_bank_bits \in Nat
    BY RegsFields
  <2>2. UpperUnit(i) \in {16, 32}
    BY DEF UpperUnit
  <2>3. r.upper_bank_bits * UpperUnit(i) \in Nat
    BY <2>1, <2>2
  <2>4. ZeroIsOne(r.lower_rom_bank_bits) \in Nat
    BY <2>1 DEF ZeroIsOne
  <2>5. ZeroIsOne(r.lower_rom_bank_bits) % UpperUnit(i) \in Nat
    BY <2>2, <2>4
  <2>6. (r.upper_bank_bits * UpperUnit(i)) + (ZeroIsOne(r.lower_rom_bank_bits) % UpperUnit(i)) \in Nat
    BY <2>3, <2>5
  <2> QED BY <2>1, <2>3, <2>6 DEF RomBank
<1>2. count \in Nat \ {0} /\ i.romSize = count * 16384
  BY DEF BankCount, RomBankSize
<1>3. bank % count \in 0 .. count - 1
  BY <1>1, <1>2
<1>4. inner \in Nat /\ inner < 16384
  BY DEF RomBankSize
<1>5. EffectiveRomOffset(i, r, address) = (bank % count) * 16384 + inner
  BY DEF EffectiveRomOffset, RomBankSize
<1> HIDE DEF bank, count, inner
<1> QED BY <1>2, <1>3, <1>4, <1>5

\* No access leaves the images, whatever the header says and the program writes
\* (effective_rom_offset, effective_ram_offset and the index of the nibbles).
THEOREM OffsetsAreInside == Spec => []OffsetsStayInside
<1>1. TypeOK => OffsetsStayInside
  <2> SUFFICES ASSUME TypeOK PROVE OffsetsStayInside
    OBVIOUS
  <2>1. regs \in Regs
    BY DEF TypeOK
  <2>2. ASSUME NEW address \in ExternalAddresses
        PROVE  LET byte == WriteExternal(image, regs, address) IN
               /\ byte.kind = "ram" => byte.at \in 0 .. RamSize(image) - 1
               /\ byte.kind = "nibble" => byte.at \in 0 .. 511
    <3>1. address \in Nat /\ InRam(address)
      BY MapperAssumption DEF ExternalAddresses
    <3> QED BY <2>1, <3>1, RamByteInside
  <2>3. ASSUME image.romSize % RomBankSize = 0, Mapper(image) \notin {"RomOnly", "Unknown"},
               NEW address \in RomAddresses
        PROVE  EffectiveRomOffset(image, regs, address) < image.romSize
    <3>1. image # NoImage
      BY <2>3 DEF NoImage, Mapper
    <3>2. image.romSize \in Nat \ {0}
      BY <3>1 DEF TypeOK, Image
    <3>3. address \in Nat
      BY MapperAssumption DEF RomAddresses
    <3> QED BY <2>1, <2>3, <3>2, <3>3, RomOffsetInside
  <2> QED BY <2>2, <2>3 DEF OffsetsStayInside
<1> QED BY <1>1, TypeCorrect, PTL

-----------------------------------------------------------------------------
\* Wherever read_external_ram shows a byte, write_external_ram reaches the same
\* one, and where it shows none a write is lost.
THEOREM StoresAreReadBack == Spec => []StoresCanBeReadBack
<1>1. TypeOK => StoresCanBeReadBack
  <2> SUFFICES ASSUME TypeOK, NEW address \in ExternalAddresses
               PROVE  LET read == ReadExternal(image, regs, address)
                          write == WriteExternal(image, regs, address)
                      IN  IF read.kind \in {"ones", "open"} THEN write = Nothing ELSE write = read
    BY DEF StoresCanBeReadBack
  <2> DEFINE read == ReadExternal(image, regs, address)
             write == WriteExternal(image, regs, address)
  <2>1. /\ OpenBus.kind = "open" /\ Ones.kind = "ones"
        /\ RamByte(image, regs, address).kind = "ram"
        /\ Nibble(address).kind = "nibble" /\ Clock(regs).kind = "clock"
    BY DEF OpenBus, Ones, RamByte, Nibble, Clock, At
  <2>2. \/ read \in {OpenBus, Ones} /\ write = Nothing
        \/ /\ read \in {RamByte(image, regs, address), Nibble(address), Clock(regs)}
           /\ write = read
    <3>1. CASE Mapper(image) = "RomOnly"
      BY <3>1 DEF ReadExternal, WriteExternal
    <3>2. CASE Mapper(image) = "Mbc2"
      BY <3>2 DEF ReadExternal, WriteExternal
    <3>3. CASE Mapper(image) = "Mbc3"
      <4>1. regs.rtc_register_select \in Nat
        BY DEF TypeOK, Regs, Byte
      <4>2. CASE ~regs.ram_enabled
        BY <3>3, <4>2 DEF ReadExternal, WriteExternal
      <4>3. CASE regs.ram_enabled /\ ClockSelected(regs)
        BY <3>3, <4>1, <4>3 DEF ReadExternal, WriteExternal, ClockSelected
      <4>4. CASE regs.ram_enabled /\ ~ClockSelected(regs)
        BY <3>3, <4>1, <4>4 DEF ReadExternal, WriteExternal
      <4> QED BY <4>2, <4>3, <4>4
    <3>4. CASE Mapper(image) \in {"Mbc1", "Mbc5"}
      BY <3>4 DEF ReadExternal, WriteExternal
    <3>5. CASE Mapper(image) \notin {"RomOnly", "Mbc1", "Mbc2", "Mbc3", "Mbc5"}
      BY <3>5 DEF ReadExternal, WriteExternal
    <3> QED BY <3>1, <3>2, <3>3, <3>4, <3>5
  <2> HIDE DEF read, write
  <2>3. IF read.kind \in {"ones", "open"} THEN write = Nothing ELSE write = read
    BY <2>1, <2>2
  <2> QED BY <2>3 DEF read, write
<1> QED BY <1>1, TypeCorrect, PTL

-----------------------------------------------------------------------------
(* Mapper implements BankSwitch.  The inductive invariant says what each mapper  *)
(* has made of the values that the program asked for: the part of the last value *)
(* that its register keeps.                                                      *)

Values ==
  [ enable : Byte, bank : Byte, highBank : Byte, ramBank : Byte, mode : Byte, none : {0} ]

EnableFollows(r, a) == r.ram_enabled = (a.enable % 16 = 10)

Mbc1Follows(r, a) ==
  /\ r.lower_rom_bank_bits = a.bank % 32
  /\ r.upper_bank_bits = a.ramBank % 4
  /\ r.banking_mode = a.mode % 2

Mbc2Follows(r, a) == r.rom_bank = ZeroIsOne(a.bank % 16)

\* A value above 7 selects a clock register and leaves the RAM's bank alone.
Mbc3Follows(i, r, a) ==
  /\ r.rom_bank = ZeroIsOne(IF Mbc30(i) THEN a.bank % 256 ELSE a.bank % 128)
  /\ r.rtc_register_select = a.ramBank
  /\ a.ramBank <= 7 => r.ram_bank = a.ramBank

Mbc5Follows(i, r, a) ==
  /\ r.mbc5_rom_bank = (a.highBank % 2) * 256 + a.bank
  /\ r.mbc5_ram_bank = IF HasRumble(i) THEN a.ramBank % 8 ELSE a.ramBank % 16

Follows(i, r, a) ==
  /\ a \in Values
  /\ EnableFollows(r, a)
  /\ Mapper(i) = "Mbc1" => Mbc1Follows(r, a)
  /\ Mapper(i) = "Mbc2" => Mbc2Follows(r, a)
  /\ Mapper(i) = "Mbc3" => Mbc3Follows(i, r, a)
  /\ Mapper(i) = "Mbc5" => Mbc5Follows(i, r, a)
  /\ Mapper(i) \in {"RomOnly", "Unknown"} => a.enable = 0

FollowInv == TypeOK /\ Follows(image, regs, asked)

LEMMA MapperTypes ==
  ASSUME NEW i, i.type \in Byte
  PROVE  /\ Mapper(i) = "RomOnly" <=> i.type \in Chip!Plain
         /\ Mapper(i) = "Mbc1" <=> i.type \in Chip!Mbc1
         /\ Mapper(i) = "Mbc2" <=> i.type \in Chip!Mbc2
         /\ Mapper(i) = "Mbc3" <=> i.type \in Chip!Mbc3
         /\ Mapper(i) = "Mbc5" <=> i.type \in Chip!Mbc5
         /\ Mapper(i) \in {"RomOnly", "Mbc1", "Mbc2", "Mbc3", "Mbc5", "Unknown"}
BY DEF Mapper, Byte, Chip!Plain, Chip!Mbc1, Chip!Mbc2, Chip!Mbc3, Chip!Mbc5

\* The register that each mapper has at an address.
LEMMA Registers ==
  ASSUME NEW i, i.type \in Byte, NEW address \in Nat, InRom(address)
  PROVE  LET register == Chip!Register(i, address) IN
         /\ Mapper(i) = "Mbc1" =>
              register = IF address <= 8191 THEN "enable"
                         ELSE IF address <= 16383 THEN "bank"
                         ELSE IF address <= 24575 THEN "ramBank" ELSE "mode"
         /\ Mapper(i) = "Mbc2" =>
              register = IF address > 16383 THEN "none"
                         ELSE IF (address \div 256) % 2 = 0 THEN "enable" ELSE "bank"
         /\ Mapper(i) = "Mbc3" =>
              register = IF address <= 8191 THEN "enable"
                         ELSE IF address <= 16383 THEN "bank"
                         ELSE IF address <= 24575 THEN "ramBank" ELSE "none"
         /\ Mapper(i) = "Mbc5" =>
              register = IF address <= 8191 THEN "enable"
                         ELSE IF address <= 12287 THEN "bank"
                         ELSE IF address <= 16383 THEN "highBank"
                         ELSE IF address <= 24575 THEN "ramBank" ELSE "none"
         /\ Mapper(i) \in {"RomOnly", "Unknown"} => register = "none"
<1> DEFINE register == Chip!Register(i, address)
           bit == (address \div 256) % 2 = 0
<1>1. /\ Mapper(i) = "Mbc1" <=> i.type \in Chip!Mbc1
      /\ Mapper(i) = "Mbc2" <=> i.type \in Chip!Mbc2
      /\ Mapper(i) = "Mbc3" <=> i.type \in Chip!Mbc3
      /\ Mapper(i) = "Mbc5" <=> i.type \in Chip!Mbc5
  BY MapperTypes
<1>2. CASE Mapper(i) = "Mbc1"
  <2>1. i.type \in Chip!Mbc1 /\ i.type \notin Chip!Mbc2 /\ i.type \notin Chip!Mbc5
    BY <1>1, <1>2
  <2> QED
    BY <1>2, <2>1 DEF Chip!Register
<1>3. CASE Mapper(i) = "Mbc2"
  <2>1. i.type \in Chip!Mbc2 /\ i.type \notin Chip!Mbc1 \union Chip!Mbc3 \union Chip!Mbc5
    BY <1>1, <1>3
  <2>2. register = IF address >= 16384 THEN "none" ELSE IF bit THEN "enable" ELSE "bank"
    BY <2>1 DEF Chip!Register
  <2> HIDE DEF bit
  <2> QED
    BY <1>3, <2>2 DEF bit
<1>4. CASE Mapper(i) = "Mbc3"
  <2>1. /\ i.type \in Chip!Mbc3 /\ i.type \notin Chip!Mbc2 /\ i.type \notin Chip!Mbc5
        /\ i.type \notin Chip!Mbc1
    BY <1>1, <1>4
  <2> QED
    BY <1>4, <2>1 DEF Chip!Register
<1>5. CASE Mapper(i) = "Mbc5"
  <2>1. i.type \in Chip!Mbc5 /\ i.type \notin Chip!Mbc2 /\ i.type \notin Chip!Mbc1
    BY <1>1, <1>5
  <2> QED
    BY <1>5, <2>1 DEF Chip!Register
<1>6. CASE Mapper(i) \in {"RomOnly", "Unknown"}
  <2>1. i.type \notin Chip!Mbc1 \union Chip!Mbc2 \union Chip!Mbc3 \union Chip!Mbc5
    BY <1>1, <1>6
  <2> QED
    BY <1>6, <2>1 DEF Chip!Register
<1> QED
  BY <1>2, <1>3, <1>4, <1>5, <1>6

\* A write is remembered as the last value of its register and of no other.
Remembered(register, a, b, value) ==
  /\ register = "none" => b = a
  /\ register \in {"enable", "bank", "highBank", "ramBank", "mode"} =>
       /\ b \in Values
       /\ b.enable = IF register = "enable" THEN value ELSE a.enable
       /\ b.bank = IF register = "bank" THEN value ELSE a.bank
       /\ b.highBank = IF register = "highBank" THEN value ELSE a.highBank
       /\ b.ramBank = IF register = "ramBank" THEN value ELSE a.ramBank
       /\ b.mode = IF register = "mode" THEN value ELSE a.mode

LEMMA AskedIsRemembered ==
  ASSUME NEW i, NEW address, NEW a \in Values, NEW value \in Byte
  PROVE  Remembered(Chip!Register(i, address), a, Chip!Asked(i, a, address, value), value)
<1> DEFINE register == Chip!Register(i, address)
           b == Chip!Asked(i, a, address, value)
<1>1. b = IF register = "none" THEN a ELSE [a EXCEPT ![register] = value]
  BY DEF Chip!Asked
<1> HIDE DEF register, b
<1>2. CASE register \in {"enable", "bank", "highBank", "ramBank", "mode"}
  <2>1. b = [a EXCEPT ![register] = value]
    BY <1>1, <1>2
  <2>2. Remembered(register, a, b, value)
    BY <1>2, <2>1 DEF Values, Remembered
  <2> QED
    BY <2>2 DEF register, b
<1>3. CASE register \notin {"enable", "bank", "highBank", "ramBank", "mode"}
  <2>1. Remembered(register, a, b, value)
    BY <1>1, <1>3 DEF Remembered
  <2> QED
    BY <2>1 DEF register, b
<1> QED
  BY <1>2, <1>3

\* The first register, which all mappers have, and the ones it leaves alone.
LEMMA EnableFields ==
  ASSUME NEW r \in Regs, NEW value \in Byte
  PROVE  LET s == EnableRam(r, value) IN
         /\ s.ram_enabled = (value % 16 = 10)
         /\ s.rom_bank = r.rom_bank /\ s.ram_bank = r.ram_bank
         /\ s.rtc_register_select = r.rtc_register_select
         /\ s.lower_rom_bank_bits = r.lower_rom_bank_bits
         /\ s.upper_bank_bits = r.upper_bank_bits /\ s.banking_mode = r.banking_mode
         /\ s.mbc5_rom_bank = r.mbc5_rom_bank /\ s.mbc5_ram_bank = r.mbc5_ram_bank
<1> DEFINE flag == value % 16 = 10
           s == [r EXCEPT !.ram_enabled = flag]
<1>1. EnableRam(r, value) = s
  BY DEF EnableRam
<1> HIDE DEF flag
<1>2. /\ s.ram_enabled = flag
      /\ s.rom_bank = r.rom_bank /\ s.ram_bank = r.ram_bank
      /\ s.rtc_register_select = r.rtc_register_select
      /\ s.lower_rom_bank_bits = r.lower_rom_bank_bits
      /\ s.upper_bank_bits = r.upper_bank_bits /\ s.banking_mode = r.banking_mode
      /\ s.mbc5_rom_bank = r.mbc5_rom_bank /\ s.mbc5_ram_bank = r.mbc5_ram_bank
  BY DEF Regs
<1> HIDE DEF s
<1> QED
  BY <1>1, <1>2, Zenon DEF flag

LEMMA EnableKeepsFollowing ==
  ASSUME NEW r, NEW s, NEW a, NEW b, EnableFollows(r, a),
         s.ram_enabled = r.ram_enabled, b.enable = a.enable
  PROVE  EnableFollows(s, b)
BY Zenon DEF EnableFollows

LEMMA Mbc1WriteFollows ==
  ASSUME NEW i, i.type \in Byte, Mapper(i) = "Mbc1", NEW r \in Regs, NEW a,
         Follows(i, r, a), NEW address \in Nat, InRom(address), NEW value \in Byte
  PROVE  Follows(i, WriteMbc1(r, address, value), Chip!Asked(i, a, address, value))
<1> DEFINE register == Chip!Register(i, address)
           b == Chip!Asked(i, a, address, value)
           s == WriteMbc1(r, address, value)
<1>1. a \in Values /\ EnableFollows(r, a) /\ Mbc1Follows(r, a)
  BY DEF Follows
<1>2. register = IF address <= 8191 THEN "enable"
                 ELSE IF address <= 16383 THEN "bank"
                 ELSE IF address <= 24575 THEN "ramBank" ELSE "mode"
  BY Registers
<1>3. Remembered(register, a, b, value)
  BY <1>1, AskedIsRemembered
<1> HIDE DEF register, b
<1>4. /\ b \in Values
      /\ b.enable = IF register = "enable" THEN value ELSE a.enable
      /\ b.bank = IF register = "bank" THEN value ELSE a.bank
      /\ b.ramBank = IF register = "ramBank" THEN value ELSE a.ramBank
      /\ b.mode = IF register = "mode" THEN value ELSE a.mode
  BY <1>2, <1>3 DEF Remembered
<1>5. s = IF register = "enable" THEN EnableRam(r, value)
          ELSE IF register = "bank" THEN [r EXCEPT !.lower_rom_bank_bits = value % 32]
          ELSE IF register = "ramBank" THEN [r EXCEPT !.upper_bank_bits = value % 4]
          ELSE [r EXCEPT !.banking_mode = value % 2]
  BY <1>2 DEF WriteMbc1
<1> HIDE DEF s
<1>6. EnableFollows(s, b) /\ Mbc1Follows(s, b)
  <2>1. CASE register = "enable"
    <3>1. s = EnableRam(r, value) /\ b.enable = value
      BY <1>4, <1>5, <2>1
    <3>2. EnableFollows(s, b)
      BY <3>1, EnableFields, Zenon DEF EnableFollows
    <3>3. Mbc1Follows(s, b)
      BY <1>1, <1>4, <2>1, <3>1, EnableFields DEF Mbc1Follows
    <3> QED
      BY <3>2, <3>3
  <2>2. CASE register = "bank"
    <3>1. /\ s.ram_enabled = r.ram_enabled /\ s.lower_rom_bank_bits = value % 32
          /\ s.upper_bank_bits = r.upper_bank_bits /\ s.banking_mode = r.banking_mode
      BY <1>5, <2>2 DEF Regs
    <3>2. EnableFollows(s, b)
      BY <1>1, <1>4, <2>2, <3>1, EnableKeepsFollowing
    <3> QED
      BY <1>1, <1>4, <2>2, <3>1, <3>2 DEF Mbc1Follows
  <2>3. CASE register = "ramBank"
    <3>1. /\ s.ram_enabled = r.ram_enabled /\ s.upper_bank_bits = value % 4
          /\ s.lower_rom_bank_bits = r.lower_rom_bank_bits
          /\ s.banking_mode = r.banking_mode
      BY <1>5, <2>3 DEF Regs
    <3>2. EnableFollows(s, b)
      BY <1>1, <1>4, <2>3, <3>1, EnableKeepsFollowing
    <3> QED
      BY <1>1, <1>4, <2>3, <3>1, <3>2 DEF Mbc1Follows
  <2>4. CASE register = "mode"
    <3>1. /\ s.ram_enabled = r.ram_enabled /\ s.banking_mode = value % 2
          /\ s.lower_rom_bank_bits = r.lower_rom_bank_bits
          /\ s.upper_bank_bits = r.upper_bank_bits
      BY <1>5, <2>4 DEF Regs
    <3>2. EnableFollows(s, b)
      BY <1>1, <1>4, <2>4, <3>1, EnableKeepsFollowing
    <3> QED
      BY <1>1, <1>4, <2>4, <3>1, <3>2 DEF Mbc1Follows
  <2> QED
    BY <1>2, <2>1, <2>2, <2>3, <2>4
<1> QED
  BY <1>4, <1>6 DEF Follows, b, s

LEMMA Mbc2WriteFollows ==
  ASSUME NEW i, i.type \in Byte, Mapper(i) = "Mbc2", NEW r \in Regs, NEW a,
         Follows(i, r, a), NEW address \in Nat, InRom(address), NEW value \in Byte
  PROVE  Follows(i, WriteMbc2(r, address, value), Chip!Asked(i, a, address, value))
<1> DEFINE register == Chip!Register(i, address)
           bit == (address \div 256) % 2 = 0
           b == Chip!Asked(i, a, address, value)
           s == WriteMbc2(r, address, value)
<1>1. a \in Values /\ EnableFollows(r, a) /\ Mbc2Follows(r, a)
  BY DEF Follows
<1>2. register = IF address > 16383 THEN "none" ELSE IF bit THEN "enable" ELSE "bank"
  BY Registers
<1>3. Remembered(register, a, b, value)
  BY <1>1, AskedIsRemembered
<1>4. s = IF address > 16383 THEN r ELSE IF bit THEN EnableRam(r, value)
          ELSE [r EXCEPT !.rom_bank = ZeroIsOne(value % 16)]
  BY DEF WriteMbc2
<1> HIDE DEF register, b, s, bit
<1>5. CASE register = "none"
  <2>1. s = r /\ b = a
    BY <1>2, <1>3, <1>4, <1>5 DEF Remembered
  <2> QED
    BY <2>1 DEF b, s
<1>6. CASE register = "enable"
  <2>1. s = EnableRam(r, value)
    BY <1>2, <1>4, <1>6
  <2>2. b \in Values /\ b.enable = value /\ b.bank = a.bank
    BY <1>3, <1>6 DEF Remembered
  <2>3. EnableFollows(s, b)
    BY <2>1, <2>2, EnableFields, Zenon DEF EnableFollows
  <2>4. Mbc2Follows(s, b)
    BY <1>1, <2>1, <2>2, EnableFields DEF Mbc2Follows
  <2> QED
    BY <2>2, <2>3, <2>4 DEF Follows, b, s
<1>7. CASE register = "bank"
  <2>1. s = [r EXCEPT !.rom_bank = ZeroIsOne(value % 16)]
    BY <1>2, <1>4, <1>7
  <2>2. b \in Values /\ b.enable = a.enable /\ b.bank = value
    BY <1>3, <1>7 DEF Remembered
  <2>3. s.rom_bank = ZeroIsOne(value % 16) /\ s.ram_enabled = r.ram_enabled
    BY <2>1 DEF Regs
  <2>4. EnableFollows(s, b)
    BY <1>1, <2>2, <2>3, EnableKeepsFollowing
  <2>5. Mbc2Follows(s, b)
    BY <2>2, <2>3 DEF Mbc2Follows
  <2> QED
    BY <2>2, <2>4, <2>5 DEF Follows, b, s
<1> QED
  BY <1>2, <1>5, <1>6, <1>7

LEMMA Mbc3WriteFollows ==
  ASSUME NEW i, i.type \in Byte, Mapper(i) = "Mbc3", NEW r \in Regs, NEW a,
         Follows(i, r, a), NEW address \in Nat, InRom(address), NEW value \in Byte
  PROVE  Follows(i, WriteMbc3(i, r, address, value), Chip!Asked(i, a, address, value))
<1> DEFINE register == Chip!Register(i, address)
           b == Chip!Asked(i, a, address, value)
           s == WriteMbc3(i, r, address, value)
<1>1. a \in Values /\ EnableFollows(r, a) /\ Mbc3Follows(i, r, a)
  BY DEF Follows
<1>2. register = IF address <= 8191 THEN "enable"
                 ELSE IF address <= 16383 THEN "bank"
                 ELSE IF address <= 24575 THEN "ramBank" ELSE "none"
  BY Registers
<1>3. Remembered(register, a, b, value)
  BY <1>1, AskedIsRemembered
<1> HIDE DEF register, b
<1>4. s = IF register = "enable" THEN EnableRam(r, value)
          ELSE IF register = "bank" THEN SelectRom(i, r, value)
          ELSE IF register = "ramBank" THEN SelectRamOrClock(r, value)
          ELSE ArmLatch(r, value)
  BY <1>2 DEF WriteMbc3
<1> HIDE DEF s
<1>5. CASE register = "enable"
  <2>1. s = EnableRam(r, value)
    BY <1>4, <1>5
  <2>2. b \in Values /\ b.enable = value /\ b.bank = a.bank /\ b.ramBank = a.ramBank
    BY <1>3, <1>5 DEF Remembered
  <2>3. EnableFollows(s, b)
    BY <2>1, <2>2, EnableFields, Zenon DEF EnableFollows
  <2>4. Mbc3Follows(i, s, b)
    BY <1>1, <2>1, <2>2, EnableFields DEF Mbc3Follows
  <2> QED
    BY <2>2, <2>3, <2>4 DEF Follows, b, s
<1>6. CASE register = "bank"
  <2> DEFINE bank == ZeroIsOne(value % IF Mbc30(i) THEN 256 ELSE 128)
  <2>1. s = [r EXCEPT !.rom_bank = bank]
    BY <1>4, <1>6 DEF SelectRom
  <2>2. b \in Values /\ b.enable = a.enable /\ b.bank = value /\ b.ramBank = a.ramBank
    BY <1>3, <1>6 DEF Remembered
  <2>3. bank = ZeroIsOne(IF Mbc30(i) THEN value % 256 ELSE value % 128)
    BY Zenon
  <2> HIDE DEF bank
  <2>4. /\ s.rom_bank = bank /\ s.ram_enabled = r.ram_enabled
        /\ s.rtc_register_select = r.rtc_register_select /\ s.ram_bank = r.ram_bank
    BY <2>1 DEF Regs
  <2>5. EnableFollows(s, b)
    BY <1>1, <2>2, <2>4, EnableKeepsFollowing
  <2>6. Mbc3Follows(i, s, b)
    BY <1>1, <2>2, <2>3, <2>4 DEF Mbc3Follows
  <2> QED
    BY <2>2, <2>5, <2>6 DEF Follows, b, s
<1>7. CASE register = "ramBank"
  <2> DEFINE bank == IF value <= 7 THEN value ELSE r.ram_bank
             t == [r EXCEPT !.rtc_register_select = value]
  <2>1. s = [t EXCEPT !.ram_bank = bank]
    BY <1>4, <1>7 DEF SelectRamOrClock, Regs
  <2>2. b \in Values /\ b.enable = a.enable /\ b.bank = a.bank /\ b.ramBank = value
    BY <1>3, <1>7 DEF Remembered
  <2>3. value <= 7 => bank = value
    OBVIOUS
  <2> HIDE DEF bank
  <2>4. /\ s.rom_bank = r.rom_bank /\ s.ram_enabled = r.ram_enabled
        /\ s.rtc_register_select = value /\ s.ram_bank = bank
    BY <2>1 DEF Regs
  <2>5. EnableFollows(s, b)
    BY <1>1, <2>2, <2>4, EnableKeepsFollowing
  <2>6. Mbc3Follows(i, s, b)
    BY <1>1, <2>2, <2>3, <2>4 DEF Mbc3Follows
  <2> QED
    BY <2>2, <2>5, <2>6 DEF Follows, b, s
<1>8. CASE register = "none"
  <2> DEFINE flag == value = 0
  <2>1. s = [r EXCEPT !.latch_armed = flag]
    BY <1>4, <1>8 DEF ArmLatch
  <2>2. b = a
    BY <1>3, <1>8 DEF Remembered
  <2> HIDE DEF flag
  <2>3. /\ s.rom_bank = r.rom_bank /\ s.ram_enabled = r.ram_enabled
        /\ s.rtc_register_select = r.rtc_register_select /\ s.ram_bank = r.ram_bank
    BY <2>1 DEF Regs
  <2>4. EnableFollows(s, b)
    BY <1>1, <2>2, <2>3, EnableKeepsFollowing
  <2>5. Mbc3Follows(i, s, b)
    BY <1>1, <2>2, <2>3 DEF Mbc3Follows
  <2> QED
    BY <1>1, <2>2, <2>4, <2>5 DEF Follows, b, s
<1> QED
  BY <1>2, <1>5, <1>6, <1>7, <1>8

\* The two halves of the MBC5's bank number do not disturb one another.
LEMMA Halves ==
  ASSUME NEW high \in Byte, NEW low \in Byte, NEW value \in Byte
  PROVE  LET old == (high % 2) * 256 + low IN
         /\ ((old \div 256) * 256) + value = (high % 2) * 256 + value
         /\ ((value % 2) * 256) + (old % 256) = (value % 2) * 256 + low
<1> DEFINE bit == high % 2
           old == bit * 256 + low
<1>1. bit \in {0, 1} /\ low \in 0 .. 255
  BY DEF Byte
<1> HIDE DEF bit
<1>2. old \div 256 = bit /\ old % 256 = low
  BY <1>1
<1> HIDE DEF old
<1>3. /\ ((old \div 256) * 256) + value = bit * 256 + value
      /\ ((value % 2) * 256) + (old % 256) = (value % 2) * 256 + low
  BY <1>2
<1> QED
  BY <1>3 DEF bit, old

LEMMA Mbc5WriteFollows ==
  ASSUME NEW i, i.type \in Byte, Mapper(i) = "Mbc5", NEW r \in Regs, NEW a,
         Follows(i, r, a), NEW address \in Nat, InRom(address), NEW value \in Byte
  PROVE  Follows(i, WriteMbc5(i, r, address, value), Chip!Asked(i, a, address, value))
<1> DEFINE register == Chip!Register(i, address)
           b == Chip!Asked(i, a, address, value)
           s == WriteMbc5(i, r, address, value)
<1>1. a \in Values /\ EnableFollows(r, a) /\ Mbc5Follows(i, r, a)
  BY DEF Follows
<1>2. register = IF address <= 8191 THEN "enable"
                 ELSE IF address <= 12287 THEN "bank"
                 ELSE IF address <= 16383 THEN "highBank"
                 ELSE IF address <= 24575 THEN "ramBank" ELSE "none"
  BY Registers
<1>3. Remembered(register, a, b, value)
  BY <1>1, AskedIsRemembered
<1> HIDE DEF register, b
<1>4. s = IF register = "enable" THEN EnableRam(r, value)
          ELSE IF register = "bank" THEN SetLowBank(r, value)
          ELSE IF register = "highBank" THEN SetHighBank(r, value)
          ELSE IF register = "ramBank" THEN SetRamBank(i, r, value)
          ELSE r
  BY <1>2 DEF WriteMbc5
<1> HIDE DEF s
<1>5. r.mbc5_rom_bank = (a.highBank % 2) * 256 + a.bank
      /\ a.highBank \in Byte /\ a.bank \in Byte
  BY <1>1 DEF Mbc5Follows, Values
<1>6. CASE register = "enable"
  <2>1. s = EnableRam(r, value)
    BY <1>4, <1>6
  <2>2. /\ b \in Values /\ b.enable = value /\ b.bank = a.bank
        /\ b.highBank = a.highBank /\ b.ramBank = a.ramBank
    BY <1>3, <1>6 DEF Remembered
  <2>3. EnableFollows(s, b)
    BY <2>1, <2>2, EnableFields, Zenon DEF EnableFollows
  <2>4. Mbc5Follows(i, s, b)
    BY <1>1, <2>1, <2>2, EnableFields DEF Mbc5Follows
  <2> QED
    BY <2>2, <2>3, <2>4 DEF Follows, b, s
<1>7. CASE register = "bank" \/ register = "highBank"
  <2> DEFINE low == ((r.mbc5_rom_bank \div 256) * 256) + value
             high == ((value % 2) * 256) + (r.mbc5_rom_bank % 256)
             bank == IF register = "bank" THEN low ELSE high
  <2>1. s = [r EXCEPT !.mbc5_rom_bank = bank]
    BY <1>4, <1>7 DEF SetLowBank, SetHighBank
  <2>2. /\ b \in Values /\ b.enable = a.enable /\ b.ramBank = a.ramBank
        /\ b.bank = IF register = "bank" THEN value ELSE a.bank
        /\ b.highBank = IF register = "bank" THEN a.highBank ELSE value
    BY <1>3, <1>7 DEF Remembered
  <2>3. /\ low = (a.highBank % 2) * 256 + value
        /\ high = (value % 2) * 256 + a.bank
    <3> DEFINE old == (a.highBank % 2) * 256 + a.bank
    <3>1. /\ ((old \div 256) * 256) + value = (a.highBank % 2) * 256 + value
          /\ ((value % 2) * 256) + (old % 256) = (value % 2) * 256 + a.bank
      BY <1>5, Halves
    <3>2. r.mbc5_rom_bank = old
      BY <1>5
    <3> HIDE DEF old
    <3> QED
      BY <3>1, <3>2
  <2> HIDE DEF low, high
  <2>4. bank = (b.highBank % 2) * 256 + b.bank
    BY <2>2, <2>3
  <2> HIDE DEF bank
  <2>5. /\ s.mbc5_rom_bank = bank /\ s.ram_enabled = r.ram_enabled
        /\ s.mbc5_ram_bank = r.mbc5_ram_bank
    BY <2>1 DEF Regs
  <2>6. EnableFollows(s, b)
    BY <1>1, <2>2, <2>5, EnableKeepsFollowing
  <2>7. Mbc5Follows(i, s, b)
    BY <1>1, <2>2, <2>4, <2>5, Zenon DEF Mbc5Follows
  <2> QED
    BY <2>2, <2>6, <2>7 DEF Follows, b, s
<1>8. CASE register = "ramBank"
  <2> DEFINE flag == (value \div 8) % 2 = 1
             bank == IF HasRumble(i) THEN value % 8 ELSE value % 16
             t == [r EXCEPT !.rumble_enabled = flag]
  <2>1. s = IF HasRumble(i) THEN [t EXCEPT !.mbc5_ram_bank = bank]
                            ELSE [r EXCEPT !.mbc5_ram_bank = bank]
    BY <1>4, <1>8 DEF SetRamBank, Regs
  <2>2. /\ b \in Values /\ b.enable = a.enable /\ b.bank = a.bank
        /\ b.highBank = a.highBank /\ b.ramBank = value
    BY <1>3, <1>8 DEF Remembered
  <2> HIDE DEF flag
  <2>3. bank = IF HasRumble(i) THEN b.ramBank % 8 ELSE b.ramBank % 16
    BY <2>2
  <2> HIDE DEF bank
  <2>4. /\ s.mbc5_rom_bank = r.mbc5_rom_bank /\ s.ram_enabled = r.ram_enabled
        /\ s.mbc5_ram_bank = bank
    BY <2>1 DEF Regs
  <2>5. EnableFollows(s, b)
    BY <1>1, <2>2, <2>4, EnableKeepsFollowing
  <2>6. Mbc5Follows(i, s, b)
    BY <1>1, <2>2, <2>3, <2>4, Zenon DEF Mbc5Follows
  <2> QED
    BY <2>2, <2>5, <2>6 DEF Follows, b, s
<1>9. CASE register = "none"
  BY <1>3, <1>4, <1>9 DEF b, s, Remembered
<1> QED
  BY <1>2, <1>6, <1>7, <1>8, <1>9

LEMMA WriteFollows ==
  ASSUME NEW i, i.type \in Byte, NEW r \in Regs, NEW a, Follows(i, r, a),
         NEW address \in Nat, InRom(address), NEW value \in Byte
  PROVE  Follows(i, WriteRegister(i, r, address, value), Chip!Asked(i, a, address, value))
<1>1. CASE Mapper(i) = "Mbc1"
  BY <1>1, Mbc1WriteFollows DEF WriteRegister
<1>2. CASE Mapper(i) = "Mbc2"
  BY <1>2, Mbc2WriteFollows DEF WriteRegister
<1>3. CASE Mapper(i) = "Mbc3"
  BY <1>3, Mbc3WriteFollows DEF WriteRegister
<1>4. CASE Mapper(i) = "Mbc5"
  BY <1>4, Mbc5WriteFollows DEF WriteRegister
<1>5. CASE Mapper(i) \in {"RomOnly", "Unknown"}
  <2>1. Chip!Asked(i, a, address, value) = a
    BY <1>5, Registers DEF Chip!Asked
  <2>2. WriteRegister(i, r, address, value) = r
    BY <1>5 DEF WriteRegister
  <2> QED
    BY <2>1, <2>2
<1> QED
  BY <1>1, <1>2, <1>3, <1>4, <1>5, MapperTypes

LEMMA FreshFollows ==
  ASSUME NEW i
  PROVE  Follows(i, FreshRegs, Chip!NothingAsked)
<1> DEFINE a == Chip!NothingAsked
<1>1. /\ a \in Values /\ a.enable = 0 /\ a.bank = 1 /\ a.highBank = 0 /\ a.ramBank = 0
      /\ a.mode = 0
  BY DEF Chip!NothingAsked, Values, Byte
<1>2. /\ FreshRegs.ram_enabled = FALSE /\ FreshRegs.rom_bank = 1
      /\ FreshRegs.ram_bank = 0 /\ FreshRegs.rtc_register_select = 0
      /\ FreshRegs.lower_rom_bank_bits = 1 /\ FreshRegs.upper_bank_bits = 0
      /\ FreshRegs.banking_mode = 0 /\ FreshRegs.mbc5_rom_bank = 1
      /\ FreshRegs.mbc5_ram_bank = 0
  BY DEF FreshRegs
<1> HIDE DEF a
<1>3. EnableFollows(FreshRegs, a)
  <2>1. ~(a.enable % 16 = 10)
    BY <1>1
  <2> QED
    BY <1>2, <2>1, Zenon DEF EnableFollows
<1>4. Mbc1Follows(FreshRegs, a) /\ Mbc2Follows(FreshRegs, a)
  BY <1>1, <1>2 DEF Mbc1Follows, Mbc2Follows, ZeroIsOne
<1>5. Mbc3Follows(i, FreshRegs, a) /\ Mbc5Follows(i, FreshRegs, a)
  BY <1>1, <1>2 DEF Mbc3Follows, Mbc5Follows, ZeroIsOne
<1> QED
  BY <1>1, <1>3, <1>4, <1>5 DEF Follows, a

-----------------------------------------------------------------------------
(* The byte of the ROM that an address reaches. *)

LEMMA SameSizes ==
  ASSUME NEW i \in Image
  PROVE  /\ BankCount(i) = Chip!RomBanks(i)
         /\ Mapper(i) = "Mbc3" => (Mbc30(i) <=> Chip!Large(i))
         /\ Mapper(i) = "Mbc1" => (HasMulticartLayout(i) <=> Chip!Multicart(i))
<1>1. i.romSize \in Nat
  BY DEF Image
<1>2. BankCount(i) = Chip!RomBanks(i)
  BY <1>1 DEF BankCount, Chip!RomBanks, RomBankSize
<1>3. HeaderRamSize(i) > 32768 <=> i.ramCode \in {4, 5}
  BY DEF HeaderRamSize, RamBankSize
<1>4. Mapper(i) = "Mbc3" => (Mbc30(i) <=> Chip!Large(i))
  BY <1>1, <1>3 DEF Mbc30, Chip!Large, RomBankSize, RamBankSize
<1>5. Mapper(i) = "Mbc1" => (HasMulticartLayout(i) <=> Chip!Multicart(i))
  BY <1>1 DEF HasMulticartLayout, Chip!Multicart, SubRomSize
<1> QED
  BY <1>2, <1>4, <1>5

LEMMA Mbc1Banks ==
  ASSUME NEW i \in Image, Mapper(i) = "Mbc1", NEW r \in Regs, NEW a, Follows(i, r, a),
         NEW address \in Nat
  PROVE  RomBank(i, r, address)
           = IF address < 16384 THEN Chip!FixedBank(i, a) ELSE Chip!SwitchedBank(i, a)
<1> DEFINE low == IF a.bank % 32 = 0 THEN 1 ELSE a.bank % 32
           high == a.ramBank % 4
<1>1. a \in Values /\ Mbc1Follows(r, a)
  BY DEF Follows
<1>2. low \in 1 .. 31 /\ high \in 0 .. 3 /\ a.mode % 2 \in {0, 1}
  BY <1>1 DEF Values, Byte
<1>3. /\ ZeroIsOne(r.lower_rom_bank_bits) = low /\ r.upper_bank_bits = high
      /\ r.banking_mode = a.mode % 2
  BY <1>1 DEF Mbc1Follows, ZeroIsOne
<1>4. /\ UpperUnit(i) = IF Chip!Multicart(i) THEN 16 ELSE 32
      /\ i.type \in Chip!Mbc1
      /\ i.type \notin Chip!Mbc2 /\ i.type \notin Chip!Mbc3 /\ i.type \notin Chip!Mbc5
  BY SameSizes, MapperTypes DEF UpperUnit, Image
<1>5. Chip!FixedBank(i, a) = IF a.mode % 2 = 1 THEN high * UpperUnit(i) ELSE 0
  <2>1. Chip!FixedBank(i, a)
          = IF a.mode % 2 = 1 THEN high * IF Chip!Multicart(i) THEN 16 ELSE 32 ELSE 0
    BY <1>4 DEF Chip!FixedBank
  <2> QED
    BY <1>4, <2>1
<1>6. Chip!SwitchedBank(i, a) = IF Chip!Multicart(i) THEN (high * 16) + (low % 16)
                                                    ELSE high * 32 + low
  BY <1>4 DEF Chip!SwitchedBank
<1>7. RomBank(i, r, address)
        = IF address >= 16384 THEN (high * UpperUnit(i)) + (low % UpperUnit(i))
          ELSE IF a.mode % 2 # 0 THEN high * UpperUnit(i) ELSE 0
  BY <1>3 DEF RomBank, RomBankSize
<1> HIDE DEF low, high
<1>8. low % 32 = low
  BY <1>2
<1> DEFINE mode == a.mode % 2
           multicart == Chip!Multicart(i)
<1> HIDE DEF mode, multicart
<1>9. CASE address < 16384
  BY <1>2, <1>5, <1>7, <1>9 DEF mode
<1>10. CASE address >= 16384
  BY <1>4, <1>6, <1>7, <1>8, <1>10 DEF multicart
<1> QED
  BY <1>9, <1>10

LEMMA OtherBanks ==
  ASSUME NEW i \in Image, Mapper(i) \in {"Mbc2", "Mbc3", "Mbc5"}, NEW r \in Regs, NEW a,
         Follows(i, r, a), NEW address \in Nat
  PROVE  RomBank(i, r, address)
           = IF address < 16384 THEN Chip!FixedBank(i, a) ELSE Chip!SwitchedBank(i, a)
<1>1. /\ Mapper(i) = "Mbc1" <=> i.type \in Chip!Mbc1
      /\ Mapper(i) = "Mbc2" <=> i.type \in Chip!Mbc2
      /\ Mapper(i) = "Mbc3" <=> i.type \in Chip!Mbc3
      /\ Mapper(i) = "Mbc5" <=> i.type \in Chip!Mbc5
  BY MapperTypes DEF Image
<1>2. Chip!FixedBank(i, a) = 0
  BY <1>1 DEF Chip!FixedBank
<1>3. CASE address < 16384
  BY <1>2, <1>3 DEF RomBank, RomBankSize
<1>4. CASE address >= 16384 /\ Mapper(i) = "Mbc2"
  <2>1. Chip!SwitchedBank(i, a) = IF a.bank % 16 = 0 THEN 1 ELSE a.bank % 16
    BY <1>1, <1>4 DEF Chip!SwitchedBank
  <2>2. r.rom_bank = IF a.bank % 16 = 0 THEN 1 ELSE a.bank % 16
    BY <1>4 DEF Follows, Mbc2Follows, ZeroIsOne
  <2>3. RomBank(i, r, address) = r.rom_bank
    BY <1>4 DEF RomBank, RomBankSize
  <2> QED
    BY <1>4, <2>1, <2>2, <2>3
<1>5. CASE address >= 16384 /\ Mapper(i) = "Mbc3"
  <2> DEFINE bits == IF Chip!Large(i) THEN a.bank % 256 ELSE a.bank % 128
  <2>1. Chip!SwitchedBank(i, a) = IF bits = 0 THEN 1 ELSE bits
    BY <1>1, <1>5 DEF Chip!SwitchedBank
  <2>2. r.rom_bank = ZeroIsOne(bits)
    BY <1>5, SameSizes DEF Follows, Mbc3Follows
  <2>3. RomBank(i, r, address) = r.rom_bank
    BY <1>5 DEF RomBank, RomBankSize
  <2> HIDE DEF bits
  <2> QED
    BY <1>5, <2>1, <2>2, <2>3 DEF ZeroIsOne
<1>6. CASE address >= 16384 /\ Mapper(i) = "Mbc5"
  <2>1. Chip!SwitchedBank(i, a) = (a.highBank % 2) * 256 + a.bank
    BY <1>1, <1>6 DEF Chip!SwitchedBank
  <2>2. r.mbc5_rom_bank = (a.highBank % 2) * 256 + a.bank
    BY <1>6 DEF Follows, Mbc5Follows
  <2>3. RomBank(i, r, address) = r.mbc5_rom_bank
    BY <1>6 DEF RomBank, RomBankSize
  <2> QED
    BY <1>6, <2>1, <2>2, <2>3
<1> QED
  BY <1>3, <1>4, <1>5, <1>6

LEMMA SameRomByte ==
  ASSUME NEW i \in Image, Mapper(i) # "Unknown", NEW r \in Regs, NEW a, Follows(i, r, a),
         NEW address \in Nat
  PROVE  Chip!Rom(i, a, address)
           = IF EffectiveRomOffset(i, r, address) < i.romSize
             THEN {At("rom", EffectiveRomOffset(i, r, address))} ELSE {}
<1> DEFINE bank == IF address < 16384 THEN Chip!FixedBank(i, a) ELSE Chip!SwitchedBank(i, a)
           banked == (bank % Chip!RomBanks(i)) * 16384 + (address % 16384)
           offset == IF i.type \in Chip!Plain THEN address ELSE banked
<1>1. i.romSize \in Nat \ {0} /\ i.type \in Byte
  BY DEF Image
<1>2. EffectiveRomOffset(i, r, address) = offset
  <2>1. CASE Mapper(i) = "RomOnly"
    BY <1>1, <2>1, MapperTypes DEF EffectiveRomOffset
  <2>2. CASE Mapper(i) # "RomOnly"
    <3>1. Mapper(i) \in {"Mbc1", "Mbc2", "Mbc3", "Mbc5"} /\ i.type \notin Chip!Plain
      BY <1>1, <2>2, MapperTypes
    <3>2. RomBank(i, r, address) = bank
      BY <3>1, Mbc1Banks, OtherBanks
    <3>3. EffectiveRomOffset(i, r, address)
            = (RomBank(i, r, address) % BankCount(i)) * RomBankSize + (address % RomBankSize)
      BY <1>1, <3>1 DEF EffectiveRomOffset
    <3> HIDE DEF bank
    <3> QED
      BY <3>1, <3>2, <3>3, SameSizes DEF RomBankSize
  <2> QED
    BY <2>1, <2>2
<1>3. Chip!Rom(i, a, address) = {Chip!At("rom", n) : n \in {n \in {offset} : n < i.romSize}}
  BY DEF Chip!Rom
<1> HIDE DEF offset
<1>4. Chip!At("rom", offset) = At("rom", offset)
  BY DEF Chip!At, At
<1>5. CASE offset < i.romSize
  <2>1. {n \in {offset} : n < i.romSize} = {offset}
    BY <1>5
  <2> QED
    BY <1>2, <1>3, <1>4, <1>5, <2>1
<1>6. CASE ~(offset < i.romSize)
  <2>1. {n \in {offset} : n < i.romSize} = {}
    BY <1>6
  <2> QED
    BY <1>2, <1>3, <1>6, <2>1
<1> QED
  BY <1>5, <1>6

-----------------------------------------------------------------------------
(* The byte in 0xA000-0xBFFF that an address reaches. *)

\* Both say where in the image the address of a bank is.
LEMMA SameRamOffset ==
  ASSUME NEW bank \in 0 .. 15, NEW size \in {8192, 32768, 65536, 131072},
         NEW address \in Nat, InRam(address)
  PROVE  /\ (bank * 8192 + (address - 40960)) % size
              = (bank % (size \div 8192)) * 8192 + (address % 8192)
         /\ (address - 40960) % 512 = address % 512
<1> DEFINE inner == address - 40960
<1>1. inner \in 0 .. 8191 /\ address % 8192 = inner /\ address % 512 = inner % 512
  BY DEF InRam
<1> HIDE DEF inner
<1>2. CASE size = 8192
  BY <1>1, <1>2 DEF inner
<1>3. CASE size = 32768
  BY <1>1, <1>3 DEF inner
<1>4. CASE size = 65536
  BY <1>1, <1>4, SMTT(30) DEF inner
<1>5. CASE size = 131072
  BY <1>1, <1>5 DEF inner
<1> QED
  BY <1>2, <1>3, <1>4, <1>5

LEMMA SameRamSize ==
  ASSUME NEW i \in Image, Mapper(i) # "Mbc2"
  PROVE  Chip!RamBanks(i) = RamSize(i) \div 8192 /\ (RamSize(i) = 0 <=> Chip!RamBanks(i) = 0)
<1>1. CASE HasRam(i)
  <2>1. RamSize(i) = HeaderRamSize(i)
    BY <1>1 DEF RamSize
  <2>2. i.type \in {2, 3, 8, 9, 16, 18, 19, 26, 27, 29, 30}
    BY <1>1 DEF HasRam, Mapper
  <2> QED
    BY <2>1, <2>2 DEF Chip!RamBanks, HeaderRamSize, RamBankSize
<1>2. CASE ~HasRam(i)
  BY <1>2 DEF HasRam, RamSize, Chip!RamBanks
<1> QED
  BY <1>1, <1>2

LEMMA SameRamByte ==
  ASSUME NEW i \in Image, Mapper(i) # "Mbc2", RamSize(i) # 0, NEW r \in Regs,
         NEW address \in Nat, InRam(address), RamBank(i, r) \in 0 .. 15
  PROVE  Chip!At("ram", (RamBank(i, r) % Chip!RamBanks(i)) * 8192 + (address % 8192))
           = RamByte(i, r, address)
<1>1. RamSize(i) \in {8192, 32768, 65536, 131072}
  BY RamSizes
<1>2. EffectiveRamOffset(i, r, address) = (RamBank(i, r) * 8192 + (address - 40960)) % RamSize(i)
  BY DEF EffectiveRamOffset, RamBankSize
<1>3. EffectiveRamOffset(i, r, address)
        = (RamBank(i, r) % (RamSize(i) \div 8192)) * 8192 + (address % 8192)
  BY <1>1, <1>2, SameRamOffset, SMTT(30)
<1> QED
  BY <1>3, SameRamSize DEF RamByte, At, Chip!At

\* A write reaches the byte that BankSwitch names, a read shows it, and where
\* there is none the write is lost and the read shows what BankSwitch says.
SameExternal(i, r, a, address) ==
  LET byte == Chip!Byte(i, a, address)
      read == ReadExternal(i, r, address)
      write == WriteExternal(i, r, address)
  IN  \/ byte = {} /\ write = Nothing /\ read = Chip!Blank(i, a)
      \/ byte = {write} /\ write # Nothing /\ read = write

LEMMA Kinds ==
  ASSUME NEW i, NEW r, NEW address
  PROVE  /\ RamByte(i, r, address) # Nothing /\ Nibble(address) # Nothing
         /\ Clock(r) # Nothing
         /\ Ones = Chip!At("ones", 0) /\ OpenBus = Chip!At("open", 0)
<1>1. /\ RamByte(i, r, address).kind = "ram" /\ Nibble(address).kind = "nibble"
      /\ Clock(r).kind = "clock" /\ Nothing.kind = "nothing"
  BY DEF RamByte, Nibble, Clock, Nothing, At
<1>2. Ones = Chip!At("ones", 0) /\ OpenBus = Chip!At("open", 0)
  BY DEF Ones, OpenBus, At, Chip!At
<1> QED
  BY <1>1, <1>2

\* The mappers whose RAM is reached by one bank register, or by none.
LEMMA SameUnclockedBank ==
  ASSUME NEW i \in Image, Mapper(i) \in {"RomOnly", "Mbc1", "Mbc5"}, NEW r \in Regs, NEW a,
         Follows(i, r, a)
  PROVE  RamBank(i, r) = Chip!ExternalBank(i, a) /\ RamBank(i, r) \in 0 .. 15
<1>1. /\ Mapper(i) = "Mbc1" <=> i.type \in Chip!Mbc1
      /\ Mapper(i) = "Mbc3" <=> i.type \in Chip!Mbc3
      /\ Mapper(i) = "Mbc5" <=> i.type \in Chip!Mbc5
  BY MapperTypes DEF Image
<1>2. a.ramBank \in 0 .. 255 /\ a.mode \in 0 .. 255
  BY DEF Follows, Values, Byte
<1>3. CASE Mapper(i) = "RomOnly"
  <2>1. Chip!ExternalBank(i, a) = 0
    BY <1>1, <1>3 DEF Chip!ExternalBank
  <2> QED
    BY <1>3, <2>1 DEF RamBank
<1>4. CASE Mapper(i) = "Mbc1"
  <2>1. Chip!ExternalBank(i, a) = IF a.mode % 2 = 1 THEN a.ramBank % 4 ELSE 0
    BY <1>1, <1>4 DEF Chip!ExternalBank
  <2>2. RamBank(i, r) = IF a.mode % 2 # 0 THEN a.ramBank % 4 ELSE 0
    BY <1>4 DEF RamBank, Follows, Mbc1Follows
  <2> QED
    BY <1>2, <2>1, <2>2
<1>5. CASE Mapper(i) = "Mbc5"
  <2>1. Chip!ExternalBank(i, a) = IF i.type >= 28 THEN a.ramBank % 8 ELSE a.ramBank % 16
    BY <1>1, <1>5 DEF Chip!ExternalBank
  <2>2. RamBank(i, r) = IF HasRumble(i) THEN a.ramBank % 8 ELSE a.ramBank % 16
    BY <1>5 DEF RamBank, Follows, Mbc5Follows
  <2>3. HasRumble(i) <=> i.type >= 28
    BY <1>1, <1>5 DEF HasRumble, Chip!Mbc5
  <2> QED
    BY <1>2, <2>1, <2>2, <2>3
<1> QED
  BY <1>3, <1>4, <1>5

LEMMA SameUnclocked ==
  ASSUME NEW i \in Image, Mapper(i) \in {"RomOnly", "Mbc1", "Mbc5"}, NEW r \in Regs, NEW a,
         Follows(i, r, a), NEW address \in Nat, InRam(address)
  PROVE  SameExternal(i, r, a, address)
<1> DEFINE bank == Chip!ExternalBank(i, a)
           byte == Chip!At("ram", (bank % Chip!RamBanks(i)) * 8192 + (address % 8192))
<1>1. /\ Mapper(i) = "RomOnly" <=> i.type \in Chip!Plain
      /\ Mapper(i) = "Mbc1" <=> i.type \in Chip!Mbc1
      /\ Mapper(i) = "Mbc5" <=> i.type \in Chip!Mbc5
      /\ i.type \notin Chip!Mbc2 /\ i.type \notin Chip!Mbc3
  BY MapperTypes DEF Image
<1>2. bank = RamBank(i, r) /\ bank \in 0 .. 15
  BY SameUnclockedBank
<1>3. RamSize(i) = 0 <=> Chip!RamBanks(i) = 0
  BY SameRamSize
<1>4. RamSize(i) # 0 => byte = RamByte(i, r, address)
  BY <1>2, SameRamByte
<1>5. i.type \notin {15, 16}
  BY <1>1 DEF Chip!Mbc3
<1>6. Chip!Byte(i, a, address)
        = IF ~Chip!Enabled(i, a) \/ Chip!RamBanks(i) = 0 THEN {} ELSE {byte}
  BY <1>1, <1>2, <1>5 DEF Chip!Byte
<1> HIDE DEF bank, byte
<1>7. r.ram_enabled <=> a.enable % 16 = 10
  BY DEF Follows, EnableFollows
<1>8. CASE Mapper(i) = "RomOnly"
  <2>1. i.type \in {0, 8, 9}
    BY <1>1, <1>8 DEF Chip!Plain
  <2>2. Chip!Enabled(i, a) <=> i.type \in {8, 9}
    BY <1>8 DEF Follows, Chip!Enabled
  <2>3. i.type = 0 => RamSize(i) = 0
    BY DEF RamSize, HasRam
  <2>4. Chip!Blank(i, a) = OpenBus
    BY <1>1, <2>1, Kinds DEF Chip!Blank
  <2>5. /\ WriteExternal(i, r, address) = IF RamSize(i) # 0 THEN RamByte(i, r, address) ELSE Nothing
        /\ ReadExternal(i, r, address) = IF RamSize(i) # 0 THEN RamByte(i, r, address) ELSE OpenBus
    BY <1>8 DEF WriteExternal, ReadExternal
  <2> QED
    BY <1>3, <1>4, <1>6, <2>1, <2>2, <2>3, <2>4, <2>5, Kinds DEF SameExternal
<1>9. CASE Mapper(i) \in {"Mbc1", "Mbc5"}
  <2>1. i.type \in 1 .. 3 \union 25 .. 30
    BY <1>1, <1>9 DEF Chip!Mbc1, Chip!Mbc5
  <2>2. Chip!Enabled(i, a) <=> r.ram_enabled
    BY <1>7, <2>1 DEF Chip!Enabled
  <2>3. Chip!Blank(i, a) = IF HasRam(i) /\ ~r.ram_enabled THEN Ones ELSE OpenBus
    BY <1>1, <2>1, <2>2, Kinds DEF Chip!Blank, HasRam
  <2>4. WriteExternal(i, r, address)
          = IF r.ram_enabled /\ RamSize(i) # 0 THEN RamByte(i, r, address) ELSE Nothing
    BY <1>9 DEF WriteExternal
  <2>5. ReadExternal(i, r, address)
          = IF ~r.ram_enabled THEN IF HasRam(i) THEN Ones ELSE OpenBus
            ELSE IF RamSize(i) = 0 THEN OpenBus ELSE RamByte(i, r, address)
    BY <1>9 DEF ReadExternal
  <2> QED
    BY <1>3, <1>4, <1>6, <2>2, <2>3, <2>4, <2>5, Kinds DEF SameExternal
<1> QED
  BY <1>8, <1>9

LEMMA SameMbc2 ==
  ASSUME NEW i \in Image, Mapper(i) = "Mbc2", NEW r \in Regs, NEW a,
         Follows(i, r, a), NEW address \in Nat, InRam(address)
  PROVE  SameExternal(i, r, a, address)
<1>1. i.type \in Chip!Mbc2 /\ i.type \in {5, 6}
  BY MapperTypes DEF Image, Chip!Mbc2
<1>2. r.ram_enabled <=> Chip!Enabled(i, a)
  <2>1. r.ram_enabled <=> a.enable % 16 = 10
    BY DEF Follows, EnableFollows
  <2> QED
    BY <1>1, <2>1 DEF Chip!Enabled
<1>3. Chip!At("nibble", address % 512) = Nibble(address)
  BY SameRamOffset DEF Nibble, At, Chip!At
<1>4. Chip!Byte(i, a, address) = IF ~Chip!Enabled(i, a) THEN {} ELSE {Nibble(address)}
  BY <1>1, <1>3 DEF Chip!Byte
<1>5. Chip!Blank(i, a) = Ones
  BY <1>1, Kinds DEF Chip!Blank
<1>6. /\ WriteExternal(i, r, address) = IF r.ram_enabled THEN Nibble(address) ELSE Nothing
      /\ ReadExternal(i, r, address) = IF r.ram_enabled THEN Nibble(address) ELSE Ones
  BY DEF WriteExternal, ReadExternal
<1> QED
  BY <1>2, <1>4, <1>5, <1>6, Kinds DEF SameExternal

LEMMA SameUnknown ==
  ASSUME NEW i \in Image, Mapper(i) = "Unknown", NEW r \in Regs, NEW a,
         Follows(i, r, a), NEW address
  PROVE  SameExternal(i, r, a, address)
<1>1. i.type \notin Chip!Plain \union Chip!Mbc1 \union Chip!Mbc2 \union Chip!Mbc3 \union Chip!Mbc5
  BY MapperTypes DEF Image
<1>2. ~Chip!Enabled(i, a)
  BY <1>1 DEF Follows, Chip!Enabled, Chip!Plain
<1>3. Chip!Byte(i, a, address) = {}
  BY <1>2 DEF Chip!Byte
<1>4. Chip!Blank(i, a) = OpenBus
  BY <1>1, Kinds DEF Chip!Blank, Chip!Mbc1, Chip!Mbc2, Chip!Mbc3, Chip!Mbc5
<1>5. WriteExternal(i, r, address) = Nothing /\ ReadExternal(i, r, address) = OpenBus
  BY DEF WriteExternal, ReadExternal
<1> QED
  BY <1>3, <1>4, <1>5 DEF SameExternal

\* The MBC3's one register for RAM banks and clock registers.
LEMMA SameMbc3 ==
  ASSUME NEW i \in Image, Mapper(i) = "Mbc3", NEW r \in Regs, NEW a,
         Follows(i, r, a), NEW address \in Nat, InRam(address)
  PROVE  SameExternal(i, r, a, address)
<1> DEFINE byte == Chip!Byte(i, a, address)
           blank == Chip!Blank(i, a)
           read == ReadExternal(i, r, address)
           write == WriteExternal(i, r, address)
           select == a.ramBank
           large == Chip!Large(i)
           timer == i.type \in {15, 16}
           bank == Chip!ExternalBank(i, a)
           ram == Chip!At("ram", (bank % Chip!RamBanks(i)) * 8192 + (address % 8192))
<1>1. /\ i.type \in 15 .. 19 /\ i.type \in Chip!Mbc3
      /\ i.type \notin Chip!Mbc1 /\ i.type \notin Chip!Mbc2
  BY MapperTypes DEF Image, Chip!Mbc3
<1>2. /\ Mbc30(i) <=> large
      /\ HasTimer(i) <=> timer
      /\ HasRam(i) <=> i.type \in {16, 18, 19}
      /\ RamSize(i) = 0 <=> Chip!RamBanks(i) = 0
      /\ i.type = 15 => RamSize(i) = 0
  BY <1>1, SameSizes, SameRamSize DEF HasTimer, HasRam, RamSize
<1>3. /\ r.rtc_register_select = select /\ select \in 0 .. 255
      /\ select <= 7 => r.ram_bank = select
  BY DEF Follows, Mbc3Follows, Values, Byte
<1>4. r.ram_enabled <=> Chip!Enabled(i, a)
  <2>1. r.ram_enabled <=> a.enable % 16 = 10
    BY DEF Follows, EnableFollows
  <2> QED
    BY <1>1, <2>1 DEF Chip!Enabled
<1>5. bank = IF select \in 8 .. 12 THEN select ELSE IF select > 7 THEN -1
             ELSE IF large THEN select % 8 ELSE select % 4
  <2>1. i.type \notin Chip!Mbc5
    BY MapperTypes DEF Image
  <2> QED
    BY <1>1, <2>1 DEF Chip!ExternalBank
<1>6. select <= 7 => RamBank(i, r) = bank /\ bank \in 0 .. 7
  <2>1. RamBank(i, r) = IF large THEN r.ram_bank % 8 ELSE r.ram_bank % 4
    BY <1>2 DEF RamBank
  <2> HIDE DEF select
  <2> QED
    BY <1>3, <1>5, <2>1
<1>7. select <= 7 /\ RamSize(i) # 0 => ram = RamByte(i, r, address)
  BY <1>6, SameRamByte
<1>8. Clock(r) = Chip!At("clock", select)
  BY <1>3 DEF Clock, At, Chip!At
<1>9. ClockSelected(r) <=> select \in 8 .. 12
  BY <1>3 DEF ClockSelected
<1>10. byte = IF ~Chip!Enabled(i, a) THEN {}
              ELSE IF bank >= 8 THEN IF timer THEN {Chip!At("clock", bank)} ELSE {}
              ELSE IF bank = -1 \/ Chip!RamBanks(i) = 0 \/ (timer /\ ~large /\ select \in 4 .. 7)
                   THEN {} ELSE {ram}
  BY <1>1 DEF Chip!Byte
<1>11. blank = IF \/ i.type # 17 /\ ~Chip!Enabled(i, a)
                  \/ i.type = 16 /\ Chip!Enabled(i, a) /\ Chip!RamBanks(i) # 0 /\ select \in 4 .. 7
               THEN Ones ELSE OpenBus
  BY <1>1, Kinds DEF Chip!Blank
<1>12. read = IF ~r.ram_enabled THEN IF HasRam(i) \/ HasTimer(i) THEN Ones ELSE OpenBus
              ELSE IF ClockSelected(r) THEN IF HasTimer(i) THEN Clock(r) ELSE OpenBus
              ELSE IF select > 7 \/ RamSize(i) = 0 THEN OpenBus
              ELSE IF HasTimer(i) /\ ~Mbc30(i) /\ select > 3 THEN Ones
              ELSE RamByte(i, r, address)
  BY <1>3 DEF ReadExternal
<1>13. write = IF ~r.ram_enabled THEN Nothing
               ELSE IF ClockSelected(r) THEN IF HasTimer(i) THEN Clock(r) ELSE Nothing
               ELSE IF /\ select <= 7 /\ (~HasTimer(i) \/ Mbc30(i) \/ select <= 3)
                       /\ RamSize(i) # 0
                    THEN RamByte(i, r, address) ELSE Nothing
  BY <1>3, <1>9 DEF WriteExternal
<1>14. i.type # 17 <=> HasRam(i) \/ HasTimer(i)
  BY <1>1, <1>2
<1> HIDE DEF byte, blank, read, write, select, large, bank, ram
<1>15. CASE ~r.ram_enabled
  <2>1. byte = {} /\ write = Nothing /\ read = blank
    BY <1>4, <1>10, <1>11, <1>12, <1>13, <1>14, <1>15
  <2> QED
    BY <2>1 DEF SameExternal, byte, blank, read, write
<1>16. CASE r.ram_enabled /\ select \in 8 .. 12
  <2>1. bank = select /\ bank >= 8 /\ ~(select \in 4 .. 7)
    BY <1>5, <1>16
  <2>2. CASE timer
    <3>1. byte = {write} /\ write = Clock(r) /\ read = write
      BY <1>2, <1>4, <1>8, <1>9, <1>10, <1>12, <1>13, <1>16, <2>1, <2>2
    <3> QED
      BY <3>1, Kinds DEF SameExternal, byte, blank, read, write
  <2>3. CASE ~timer
    <3>1. byte = {} /\ write = Nothing /\ read = blank
      BY <1>2, <1>4, <1>9, <1>10, <1>11, <1>12, <1>13, <1>16, <2>1, <2>3
    <3> QED
      BY <3>1 DEF SameExternal, byte, blank, read, write
  <2> QED
    BY <2>2, <2>3
<1>17. CASE r.ram_enabled /\ select > 12
  <2>1. byte = {} /\ write = Nothing /\ read = blank
    BY <1>3, <1>4, <1>5, <1>9, <1>10, <1>11, <1>12, <1>13, <1>17
  <2> QED
    BY <2>1 DEF SameExternal, byte, blank, read, write
<1>18. CASE r.ram_enabled /\ select <= 7 /\ (RamSize(i) = 0 \/ (timer /\ ~large /\ select \in 4 .. 7))
  <2>1. bank \in 0 .. 7 /\ ~(bank >= 8) /\ bank # -1
    BY <1>6, <1>18
  <2>2. byte = {}
    BY <1>2, <1>4, <1>10, <1>18, <2>1
  <2>3. write = Nothing
    BY <1>2, <1>3, <1>9, <1>13, <1>18
  <2>4. read = blank
    <3>1. CASE RamSize(i) = 0
      BY <1>2, <1>3, <1>4, <1>9, <1>11, <1>12, <1>18, <3>1
    <3>2. CASE RamSize(i) # 0
      <4>1. i.type = 16 /\ ~large /\ select \in 4 .. 7
        BY <1>2, <1>18, <3>2
      <4>2. blank = Ones
        BY <1>2, <1>4, <1>11, <1>18, <3>2, <4>1
      <4>3. read = Ones
        BY <1>2, <1>9, <1>12, <1>18, <3>2, <4>1
      <4> QED
        BY <4>2, <4>3
    <3> QED
      BY <3>1, <3>2
  <2> QED
    BY <2>2, <2>3, <2>4 DEF SameExternal, byte, blank, read, write
<1>19. CASE r.ram_enabled /\ select <= 7 /\ ~(RamSize(i) = 0 \/ (timer /\ ~large /\ select \in 4 .. 7))
  <2>1. bank \in 0 .. 7 /\ ~(bank >= 8) /\ bank # -1
    BY <1>6, <1>19
  <2>2. byte = {ram} /\ ram = RamByte(i, r, address)
    BY <1>2, <1>4, <1>7, <1>10, <1>19, <2>1
  <2>3. ~(select > 3) \/ ~timer \/ large
    BY <1>3, <1>19
  <2>4. write = RamByte(i, r, address)
    BY <1>2, <1>3, <1>9, <1>13, <1>19, <2>3
  <2>5. read = RamByte(i, r, address)
    BY <1>2, <1>3, <1>9, <1>12, <1>19, <2>3
  <2> QED
    BY <2>2, <2>4, <2>5, Kinds DEF SameExternal, byte, blank, read, write
<1>20. select \in 8 .. 12 \/ select > 12 \/ select <= 7
  BY <1>3
<1> QED
  BY <1>15, <1>16, <1>17, <1>18, <1>19, <1>20

LEMMA SameExternally ==
  ASSUME NEW i \in Image, NEW r \in Regs, NEW a, Follows(i, r, a), NEW address \in Nat,
         InRam(address)
  PROVE  SameExternal(i, r, a, address)
<1>1. Mapper(i) \in {"RomOnly", "Mbc1", "Mbc2", "Mbc3", "Mbc5", "Unknown"}
  BY MapperTypes DEF Image
<1> QED
  BY <1>1, SameUnclocked, SameMbc2, SameMbc3, SameUnknown

-----------------------------------------------------------------------------
(* The steps. *)

LEMMA InitFollows == Init => FollowInv
BY ImagesOK, FreshIsOK, FreshFollows DEF Init, FollowInv, TypeOK

\* Only writes to the mapper and the two resets touch the registers.
LEMMA NextFollows == FollowInv /\ TypeOK' /\ [Next]_vars => FollowInv'
<1> SUFFICES ASSUME FollowInv, TypeOK', [Next]_vars PROVE FollowInv'
  OBVIOUS
<1>1. regs \in Regs /\ Follows(image, regs, asked) /\ image.type \in Byte
  BY DEF FollowInv, TypeOK, Image, NoImage, Byte
<1>2. ASSUME UNCHANGED <<image, regs, asked>> PROVE FollowInv'
  BY <1>2 DEF FollowInv
<1>3. ASSUME NEW address \in ProgramReads, Read(address) PROVE FollowInv'
  BY <1>2, <1>3 DEF Read
<1>4. ASSUME NEW address \in DOMAIN ProgramWrites, NEW value \in ProgramWrites[address],
             \/ WriteToRam(address, value)
             \/ WriteToMapper(address, value)
             \/ WriteElsewhere(address)
      PROVE  FollowInv'
  <2>1. address \in Nat /\ value \in Byte
    BY WritesOK
  <2>2. CASE WriteToRam(address, value)
    BY <1>2, <2>2 DEF WriteToRam
  <2>3. CASE WriteToMapper(address, value)
    <3>1. /\ InRom(address) /\ image' = image
          /\ regs' = WriteRegister(image, regs, address, value)
          /\ asked' = Chip!Asked(image, asked, address, value)
      BY <2>3 DEF WriteToMapper
    <3>2. Follows(image, regs', asked')
      BY <1>1, <2>1, <3>1, WriteFollows
    <3> QED
      BY <3>1, <3>2 DEF FollowInv
  <2>4. CASE WriteElsewhere(address)
    BY <1>2, <2>4 DEF WriteElsewhere
  <2> QED
    BY <1>4, <2>2, <2>3, <2>4
<1>5. CASE ResetMapper
  BY <1>5, FreshFollows DEF ResetMapper, FollowInv
<1>6. ASSUME NEW i \in Reloads, LoadRom(i) PROVE FollowInv'
  BY <1>6, FreshFollows DEF LoadRom, FollowInv
<1>7. CASE SaveOrRestoreRam
  BY <1>2, <1>7 DEF SaveOrRestoreRam
<1>8. CASE UNCHANGED vars
  BY <1>2, <1>8 DEF vars
<1> QED
  BY <1>3, <1>4, <1>5, <1>6, <1>7, <1>8 DEF Next

LEMMA Following == Spec => []FollowInv
BY InitFollows, NextFollows, TypeCorrect, PTL DEF Spec

\* What a read puts on the bus is what BankSwitch shows.
LEMMA ReadIsShown ==
  ASSUME FollowInv, NEW address \in Nat
  PROVE  ReadBus(image, regs, address) \in Chip!Shown(address)
<1> DEFINE read == ReadBus(image, regs, address)
           rom == Chip!Rom(image, asked, address)
           byte == Chip!Byte(image, asked, address)
           offset == EffectiveRomOffset(image, regs, address)
<1>1. /\ regs \in Regs /\ Follows(image, regs, asked)
      /\ image # NoImage => image \in Image
  BY DEF FollowInv, TypeOK
<1>2. OpenBus = Chip!At("open", 0)
  BY Kinds
<1>3. Chip!NoImage = NoImage
  BY DEF Chip!NoImage, NoImage
<1>4. CASE image # NoImage /\ InRom(address)
  <2>1. read = IF offset < image.romSize THEN At("rom", offset) ELSE OpenBus
    BY <1>4 DEF ReadBus, InRom, InRam
  <2>2. ~Chip!InRam(address) /\ address < 32768
    BY <1>4 DEF InRom, Chip!InRam
  <2>3. Chip!Shown(address) = IF image.type \in Chip!Known /\ rom # {} THEN rom
                                                                     ELSE {OpenBus}
    BY <1>2, <1>3, <1>4, <2>2 DEF Chip!Shown, Chip!Loaded
  <2>4. image.type \in Chip!Known <=> Mapper(image) # "Unknown"
    BY <1>1, <1>4, MapperTypes DEF Image, Chip!Known
  <2>5. CASE Mapper(image) = "Unknown"
    <3>1. offset = image.romSize /\ image.romSize \in Nat
      BY <1>1, <1>4, <2>5 DEF EffectiveRomOffset, Image
    <3> HIDE DEF offset
    <3>2. read = OpenBus
      BY <2>1, <3>1
    <3> QED
      BY <2>3, <2>4, <2>5, <3>2
  <2>6. CASE Mapper(image) # "Unknown"
    <3>1. rom = IF offset < image.romSize THEN {At("rom", offset)} ELSE {}
      BY <1>1, <1>4, <2>6, SameRomByte
    <3> HIDE DEF offset, rom, read
    <3> QED
      BY <2>1, <2>3, <2>4, <2>6, <3>1 DEF read
  <2> QED
    BY <2>5, <2>6
<1>5. CASE image # NoImage /\ InRam(address)
  <2>1. read = ReadExternal(image, regs, address)
    BY <1>5 DEF ReadBus, InRam, InRom
  <2>2. ~(address < 32768) /\ Chip!InRam(address)
    BY <1>5 DEF InRam, Chip!InRam
  <2>3. Chip!Shown(address) = IF byte # {} THEN byte ELSE {Chip!Blank(image, asked)}
    BY <1>3, <1>5, <2>2 DEF Chip!Shown, Chip!Loaded
  <2>4. SameExternal(image, regs, asked, address)
    BY <1>1, <1>5, SameExternally
  <2> QED
    BY <2>1, <2>3, <2>4 DEF SameExternal
<1>6. CASE image = NoImage \/ (~InRom(address) /\ ~InRam(address))
  <2>1. read = OpenBus
    BY <1>6 DEF ReadBus
  <2>2. ~(Chip!Loaded /\ address < 32768) /\ ~(Chip!Loaded /\ Chip!InRam(address))
    BY <1>3, <1>6 DEF Chip!Loaded, Chip!InRam, InRom, InRam
  <2>3. Chip!Shown(address) = {OpenBus}
    BY <1>2, <2>2 DEF Chip!Shown
  <2> QED
    BY <2>1, <2>3
<1> QED
  BY <1>4, <1>5, <1>6

\* A clock that is brought up to date marks the cartridge as BankSwitch allows.
LEMMA ClockMoves ==
  ASSUME SyncRtc \/ UNCHANGED persistent_dirty
  PROVE  Chip!ClockMoves
BY DEF SyncRtc, HasTimer, Chip!ClockMoves

LEMMA ReadStep ==
  ASSUME FollowInv, NEW address \in ProgramReads, Read(address)
  PROVE  Chip!Next
<1>1. address \in Nat
  BY MapperAssumption
<1>2. /\ bus' = Access("read", address, ReadBus(image, regs, address))
      /\ SyncRtc \/ UNCHANGED persistent_dirty
      /\ UNCHANGED <<image, asked>>
  BY DEF Read
<1>3. /\ bus'.access = "read" /\ bus'.address = address
      /\ bus'.byte = ReadBus(image, regs, address)
  BY <1>2 DEF Access
<1>4. Chip!Read(address)
  BY <1>1, <1>2, <1>3, ReadIsShown, ClockMoves DEF Chip!Read
<1> QED
  BY <1>4 DEF Chip!Next

LEMMA RamStep ==
  ASSUME FollowInv, NEW address \in DOMAIN ProgramWrites, NEW value \in ProgramWrites[address],
         WriteToRam(address, value)
  PROVE  Chip!Store(address) \/ Chip!Ask(address, value)
<1> DEFINE write == WriteExternal(image, regs, address)
           byte == Chip!Byte(image, asked, address)
<1>1. address \in Nat /\ InRam(address) /\ image # NoImage
  BY WritesOK DEF WriteToRam
<1>2. regs \in Regs /\ image \in Image /\ persistent_dirty \in BOOLEAN
  BY <1>1 DEF FollowInv, TypeOK
<1>3. (byte = {} /\ write = Nothing) \/ (byte = {write} /\ write # Nothing)
  BY <1>1, <1>2, SameExternally DEF SameExternal, FollowInv
<1>4. /\ bus' = IF write = Nothing THEN Idle ELSE Access("write", address, write)
      /\ IF bus' # Idle /\ HasBattery(image) THEN persistent_dirty' = TRUE ELSE SyncRtc
      /\ UNCHANGED <<image, asked>>
  BY DEF WriteToRam
<1>5. Chip!InRam(address) /\ Chip!Loaded /\ ~(address < 32768)
  BY <1>1 DEF InRam, Chip!InRam, Chip!Loaded, Chip!NoImage, NoImage
<1>6. Idle = Chip!Idle /\ Idle.access = "none"
  BY DEF Idle, Chip!Idle, Access, Nothing, At, Chip!At
<1> HIDE DEF write, byte
<1>7. CASE write = Nothing
  <2>1. bus' = Chip!Idle /\ byte = {} /\ SyncRtc
    BY <1>3, <1>4, <1>6, <1>7
  <2>2. Chip!ClockMoves
    BY <2>1, ClockMoves
  <2> QED
    BY <1>4, <1>5, <2>1, <2>2 DEF Chip!Ask, byte
<1>8. CASE write # Nothing
  <2>1. bus' = Access("write", address, write) /\ write \in byte
    BY <1>3, <1>4, <1>8
  <2>2. /\ bus'.access = "write" /\ bus'.address = address /\ bus'.byte = write
        /\ bus' # Idle
    BY <1>6, <2>1 DEF Access
  <2>3. HasBattery(image) <=> Chip!Marked
    BY DEF HasBattery, Chip!Marked
  <2>4. HasTimer(image) => HasBattery(image)
    BY DEF HasTimer, HasBattery
  <2>5. persistent_dirty' = (persistent_dirty \/ Chip!Marked)
    <3>1. CASE HasBattery(image)
      BY <1>2, <1>4, <2>2, <2>3, <3>1
    <3>2. CASE ~HasBattery(image)
      BY <1>2, <1>4, <2>3, <2>4, <3>2 DEF SyncRtc
    <3> QED
      BY <3>1, <3>2
  <2> QED
    BY <1>4, <1>5, <2>1, <2>2, <2>5 DEF Chip!Store, byte
<1> QED
  BY <1>7, <1>8

LEMMA MapperStep ==
  ASSUME NEW address \in DOMAIN ProgramWrites, NEW value \in ProgramWrites[address],
         WriteToMapper(address, value) \/ WriteElsewhere(address)
  PROVE  Chip!Ask(address, value)
<1>1. address \in Nat
  BY WritesOK
<1>2. Idle = Chip!Idle /\ NoImage = Chip!NoImage
  BY DEF Idle, Chip!Idle, Access, Nothing, At, Chip!At, NoImage, Chip!NoImage
<1>3. CASE WriteToMapper(address, value)
  <2>1. /\ image # NoImage /\ InRom(address)
        /\ asked' = Chip!Asked(image, asked, address, value)
        /\ bus' = Idle /\ (SyncRtc \/ UNCHANGED persistent_dirty) /\ image' = image
    BY <1>3 DEF WriteToMapper
  <2>2. Chip!Loaded /\ address < 32768 /\ ~Chip!InRam(address)
    BY <1>1, <1>2, <2>1 DEF InRom, Chip!InRam, Chip!Loaded
  <2> QED
    BY <1>2, <2>1, <2>2, ClockMoves DEF Chip!Ask
<1>4. CASE WriteElsewhere(address)
  <2>1. /\ image # NoImage => ~InRom(address) /\ ~InRam(address)
        /\ bus' = Idle /\ UNCHANGED <<image, persistent_dirty, asked>>
    BY <1>4 DEF WriteElsewhere
  <2>2. Chip!Loaded => ~(address < 32768) /\ ~Chip!InRam(address)
    BY <1>1, <1>2, <2>1 DEF InRom, InRam, Chip!InRam, Chip!Loaded
  <2> QED
    BY <1>2, <2>1, <2>2, ClockMoves DEF Chip!Ask
<1> QED
  BY <1>3, <1>4

\* After any series of writes each access reaches the byte that the last value of
\* each register asks for, and no other: read_bus, write, the offsets and the
\* registers of every mapper implement what BankSwitch promises a program.
THEOREM AccessesFollowTheLastWrites == Spec => ImplementsBankSwitch
<1>1. Init => Chip!Init
  BY DEF Init, Chip!Init, Idle, Chip!Idle, Access, Nothing, At, Chip!At, NoImage, Chip!NoImage
<1>2. FollowInv /\ [Next]_vars => [Chip!Next]_(Chip!vars)
  <2> SUFFICES ASSUME FollowInv, [Next]_vars PROVE Chip!Next \/ UNCHANGED Chip!vars
    OBVIOUS
  <2>1. Idle = Chip!Idle
    BY DEF Idle, Chip!Idle, Access, Nothing, At, Chip!At
  <2>2. ASSUME NEW address \in ProgramReads, Read(address) PROVE Chip!Next
    BY <2>2, ReadStep
  <2>3. ASSUME NEW address \in DOMAIN ProgramWrites, NEW value \in ProgramWrites[address],
               \/ WriteToRam(address, value)
               \/ WriteToMapper(address, value)
               \/ WriteElsewhere(address)
        PROVE  Chip!Next
    <3>1. Chip!Store(address) \/ Chip!Ask(address, value)
      BY <2>3, RamStep, MapperStep
    <3> QED
      BY <3>1 DEF Chip!Next
  <2>4. CASE ResetMapper
    BY <2>1, <2>4 DEF ResetMapper, Chip!Reset, Chip!Next
  <2>5. ASSUME NEW i \in Reloads, LoadRom(i) PROVE Chip!Next
    BY <2>1, <2>5 DEF LoadRom, Chip!Load, Chip!Next
  <2>6. CASE SaveOrRestoreRam
    BY <2>1, <2>6 DEF SaveOrRestoreRam, Chip!Save, Chip!Next
  <2>7. CASE UNCHANGED vars
    BY <2>7 DEF vars, Chip!vars
  <2> QED
    BY <2>2, <2>3, <2>4, <2>5, <2>6, <2>7 DEF Next
<1> QED
  BY <1>1, <1>2, Following, PTL DEF Spec, ImplementsBankSwitch, Chip!Spec
=============================================================================
