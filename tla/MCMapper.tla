------------------------------ MODULE MCMapper ------------------------------
(***************************************************************************)
(* An instance of Mapper for TLC: all types of cartridges, with ROM and RAM *)
(* sizes on both sides of what the header and the mappers tell apart, and   *)
(* values on both sides of every register's mask.                           *)
(***************************************************************************)
EXTENDS Mapper

Cartridge(type, ramCode, banks) ==
  [type |-> type, ramCode |-> ramCode, romSize |-> banks * RomBankSize, logos |-> {}]

\* Of types that differ only in their battery most are one case.
Types == (0 .. 31) \ {5, 18, 26, 29}

\* Also: no RAM where the type has some, more RAM than the bank register reaches,
\* 1 MiB with and without the logos of a multicart, one bank over 2 MiB, a header
\* alone, and half a bank more than four.
Cartridges ==
  {Cartridge(type, 3, 6) : type \in Types}
    \union {Cartridge(type, 0, 4) : type \in {3, 8, 30}}
    \union {Cartridge(3, 2, 64), Cartridge(16, 4, 4), Cartridge(19, 3, 129), Cartridge(25, 3, 257)}
    \union {[Cartridge(type, 2, 4) EXCEPT !.romSize = 336] : type \in {0, 6}}
    \union {[Cartridge(1, 2, 4) EXCEPT !.romSize = 73728]}
    \union {[Cartridge(3, 3, 64) EXCEPT !.logos = logos] : logos \in {{1}, {3}}}
    \union {[Cartridge(3, 3, 64) EXCEPT !.romSize = 1048575, !.logos = {1}]}

SomeReads == {0, 32767, 41984, 49151, 49152}

SomeWrites ==
  [ address \in {0, 256, 8192, 12288, 16384, 24576, 32768, 41984, 49151} |->
      CASE address = 0 -> {16, 26}
        [] address = 256 -> {128, 159}
        [] address = 8192 -> {0, 16, 128, 159}
        [] address = 16384 -> {2, 5, 8, 13}
        [] address = 24576 -> {0, 1}
        [] OTHER -> {3} ]

TwoCartridges == {Cartridge(0, 3, 6), Cartridge(16, 3, 6)}
=============================================================================
