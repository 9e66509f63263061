----------------------------- MODULE BankSwitch -----------------------------
(***************************************************************************)
(* What a mapper promises a program: the byte that an address reaches is    *)
(* given by the last value that the program wrote to each register, by      *)
(* nothing older and by the order of those writes only where the clock is   *)
(* latched.  The registers here hold what was written; module Mapper keeps  *)
(* what it makes of it.                                                     *)
(***************************************************************************)
EXTENDS Integers

CONSTANTS Images, Reloads, ProgramReads, ProgramWrites

VARIABLES image, asked, persistent_dirty, bus

vars == <<image, asked, persistent_dirty, bus>>

NoImage == [type |-> 0, ramCode |-> 0, romSize |-> 0, logos |-> {}]

Plain == {0, 8, 9}
Mbc1 == {1, 2, 3}
Mbc2 == {5, 6}
Mbc3 == 15 .. 19
Mbc5 == 25 .. 30
Known == Plain \union Mbc1 \union Mbc2 \union Mbc3 \union Mbc5

At(kind, n) == [kind |-> kind, at |-> n]
Idle == [access |-> "none", address |-> 0, byte |-> At("nothing", 0)]

\* The register that an address of the ROM belongs to.
Register(i, address) ==
  CASE i.type \in Mbc2 ->
         IF address >= 16384 THEN "none"
         ELSE IF (address \div 256) % 2 = 0 THEN "enable" ELSE "bank"
    [] i.type \in Mbc1 \union Mbc3 \union Mbc5 ->
         IF address < 8192 THEN "enable"
         ELSE IF i.type \in Mbc5 /\ address >= 12288 /\ address < 16384 THEN "highBank"
         ELSE IF address < 16384 THEN "bank"
         ELSE IF address < 24576 THEN "ramBank"
         ELSE IF i.type \in Mbc1 THEN "mode" ELSE "none"
    [] OTHER -> "none"

NothingAsked == [enable |-> 0, bank |-> 1, highBank |-> 0, ramBank |-> 0, mode |-> 0, none |-> 0]

Asked(i, a, address, value) ==
  IF Register(i, address) = "none" THEN a ELSE [a EXCEPT ![Register(i, address)] = value]

-----------------------------------------------------------------------------
(* The banks. *)

RamBanks(i) ==
  IF i.type \notin {2, 3, 8, 9, 16, 18, 19, 26, 27, 29, 30} THEN 0
  ELSE CASE i.ramCode = 2 -> 1
         [] i.ramCode = 3 -> 4
         [] i.ramCode = 4 -> 16
         [] i.ramCode = 5 -> 8
         [] OTHER -> 0

RomBanks(i) == (i.romSize + 16383) \div 16384

Large(i) == i.romSize > 2097152 \/ i.ramCode \in {4, 5}

Multicart(i) == i.romSize >= 1048576 /\ \E n \in i.logos : n * 262144 + 308 <= i.romSize

\* The bank that a program asks for in 0x4000-0x7FFF.  On all mappers but the
\* MBC5 a register whose bits are 0 asks for bank 1.
SwitchedBank(i, a) ==
  LET bits(n) == IF a.bank % n = 0 THEN 1 ELSE a.bank % n IN
  CASE i.type \in Mbc1 ->
         IF Multicart(i) THEN ((a.ramBank % 4) * 16) + (bits(32) % 16)
                         ELSE (a.ramBank % 4) * 32 + bits(32)
    [] i.type \in Mbc2 -> bits(16)
    [] i.type \in Mbc3 -> bits(IF Large(i) THEN 256 ELSE 128)
    [] i.type \in Mbc5 -> (a.highBank % 2) * 256 + a.bank

FixedBank(i, a) ==
  IF i.type \in Mbc1 /\ a.mode % 2 = 1
  THEN (a.ramBank % 4) * IF Multicart(i) THEN 16 ELSE 32
  ELSE 0

\* The ROM's byte, if the image has one there.
Rom(i, a, address) ==
  LET bank == IF address < 16384 THEN FixedBank(i, a) ELSE SwitchedBank(i, a)
      offset == IF i.type \in Plain THEN address
                ELSE (bank % RomBanks(i)) * 16384 + (address % 16384)
  IN  {At("rom", n) : n \in {n \in {offset} : n < i.romSize}}

\* The RAM bank or the clock's register in 0xA000-0xBFFF; a number that names
\* neither is -1, and one that the cartridge's RAM is too small for wraps.
ExternalBank(i, a) ==
  CASE i.type \in Mbc1 -> IF a.mode % 2 = 1 THEN a.ramBank % 4 ELSE 0
    [] i.type \in Mbc3 ->
         IF a.ramBank \in 8 .. 12 THEN a.ramBank
         ELSE IF a.ramBank > 7 THEN -1
         ELSE a.ramBank % IF Large(i) THEN 8 ELSE 4
    [] i.type \in Mbc5 -> a.ramBank % IF i.type >= 28 THEN 8 ELSE 16
    [] OTHER -> 0

Enabled(i, a) == i.type \in {8, 9} \/ a.enable % 16 = 10

\* The bytes that can be both read and written.
Byte(i, a, address) ==
  LET missing == i.type \in {15, 16} /\ ~Large(i) /\ a.ramBank \in 4 .. 7
      bank == ExternalBank(i, a)
  IN
  IF ~Enabled(i, a) THEN {}
  ELSE IF i.type \in Mbc2 THEN {At("nibble", address % 512)}
  ELSE IF i.type \in Mbc3 /\ bank >= 8
       THEN IF i.type \in {15, 16} THEN {At("clock", bank)} ELSE {}
  ELSE IF bank = -1 \/ RamBanks(i) = 0 \/ missing THEN {}
  ELSE {At("ram", (bank % RamBanks(i)) * 8192 + (address % 8192))}

\* What a read shows where there is no such byte.
Blank(i, a) ==
  LET here == \/ i.type \in Mbc2
              \/ i.type \in {2, 3, 15, 16, 18, 19, 26, 27, 29, 30} /\ ~Enabled(i, a)
              \/ i.type = 16 /\ Enabled(i, a) /\ RamBanks(i) # 0 /\ a.ramBank \in 4 .. 7
  IN  At(IF here THEN "ones" ELSE "open", 0)

-----------------------------------------------------------------------------
(* The steps. *)

Loaded == image # NoImage
InRam(address) == address >= 40960 /\ address <= 49151

\* What the bus shows: a byte, all ones, or nothing.
Shown(address) ==
  CASE Loaded /\ address < 32768 /\ image.type \in Known /\ Rom(image, asked, address) # {} ->
         Rom(image, asked, address)
    [] Loaded /\ InRam(address) ->
         IF Byte(image, asked, address) # {} THEN Byte(image, asked, address)
                                             ELSE {Blank(image, asked)}
    [] OTHER -> {At("open", 0)}

\* A cartridge's RAM is saved if it has a battery, and its clock moves by itself.
Marked == image.type \in {3, 6, 9, 15, 16, 19, 27, 30}
ClockMoves == persistent_dirty' \in {persistent_dirty, persistent_dirty \/ image.type \in {15, 16}}

Read(address) ==
  /\ bus'.access = "read" /\ bus'.address = address /\ bus'.byte \in Shown(address)
  /\ ClockMoves
  /\ UNCHANGED <<image, asked>>

Store(address) ==
  /\ bus'.access = "write" /\ bus'.address = address /\ bus'.byte \in Byte(image, asked, address)
  /\ Loaded /\ InRam(address)
  /\ persistent_dirty' = (persistent_dirty \/ Marked)
  /\ UNCHANGED <<image, asked>>

Ask(address, value) ==
  /\ bus' = Idle
  /\ Loaded /\ InRam(address) => Byte(image, asked, address) = {}
  /\ asked' = IF Loaded /\ address < 32768 THEN Asked(image, asked, address, value) ELSE asked
  /\ ClockMoves
  /\ UNCHANGED image

Reset == asked' = NothingAsked /\ bus' = Idle /\ UNCHANGED <<image, persistent_dirty>>

Load(i) == image' = i /\ asked' = NothingAsked /\ persistent_dirty' = FALSE /\ bus' = Idle

Save == persistent_dirty' = FALSE /\ bus' = Idle /\ UNCHANGED <<image, asked>>

Init == image \in Images \union {NoImage} /\ asked = NothingAsked /\ persistent_dirty = FALSE /\ bus = Idle

Next ==
  \/ \E address \in ProgramReads : Read(address)
  \/ \E address \in DOMAIN ProgramWrites : \E value \in ProgramWrites[address] : Store(address) \/ Ask(address, value)
  \/ Reset
  \/ \E i \in Reloads : Load(i)
  \/ Save

Spec == Init /\ [][Next]_vars
=============================================================================
