------------------------------- MODULE OamDma -------------------------------
(***************************************************************************)
(* Class OamDma of src/src/oam_dma.cpp as MemBus (src/src/bus.cpp) drives  *)
(* it, dot by dot, together with OAM and the PPU's own record of the       *)
(* transfer, on which the assertions of PPU::write_oam_dma_conflict rest.  *)
(*                                                                         *)
(* A byte is abstracted to where it comes from: byte i of a source page,   *)
(* the CPU, or a mixture of both after a bus conflict.                     *)
(***************************************************************************)
EXTENDS Integers

CONSTANTS
  Size,          \* bytes of OAM, 160
  VramPages,     \* source pages on the video bus, 80 to 9F
  RomPages,      \* source pages below 80
  RamPages,      \* source pages from A0 on
  NoPage,        \* no source page has been written yet
  CpuByte, MixedByte

ASSUME OamDmaAssumption ==
  /\ Size \in Nat /\ Size > 0
  /\ NoPage \notin VramPages \cup RomPages \cup RamPages
  /\ VramPages \cap RomPages = {} /\ VramPages \cap RamPages = {} /\ RomPages \cap RamPages = {}
  /\ CpuByte # MixedByte

VARIABLES
  dma,           \* the members of class OamDma
  ppu,           \* PPU::oam_dma_active and oam_dma_offset
  oam,           \* PPU::oam
  dot            \* dots of the current M-cycle that have run

vars == <<dma, ppu, oam, dot>>

Pages == VramPages \cup RomPages \cup RamPages
Index == 0 .. Size - 1

-----------------------------------------------------------------------------
(* Member functions of OamDma, from one record to the next. *)

FreshDma ==
  [ active |-> FALSE, start_pending |-> FALSE, restart_ready |-> FALSE,
    restart_warmup |-> FALSE, source |-> NoPage, pending_source |-> NoPage,
    index |-> 0, dot_counter |-> 0, start_dots_remaining |-> 0,
    completion_dots_remaining |-> 0, pending_copies |-> 0 ]

\* Mutant: a write of FF46 stops the transfer that is under way.
StartOver(d, page) ==
  [d EXCEPT !.pending_source = page, !.start_pending = TRUE, !.restart_ready = FALSE,
            !.start_dots_remaining = 4, !.index = 0, !.dot_counter = 0,
            !.completion_dots_remaining = 0, !.pending_copies = 0]

Start(d, page) ==
  LET asked == [d EXCEPT !.pending_source = page, !.start_pending = TRUE,
                         !.restart_ready = FALSE, !.start_dots_remaining = 4]
  IN IF d.active THEN asked
     ELSE [asked EXCEPT !.index = 0, !.dot_counter = 0,
                        !.completion_dots_remaining = 0, !.pending_copies = 0]

BeginPendingTransfer(d) ==
  [d EXCEPT !.active = TRUE, !.start_pending = FALSE, !.restart_ready = FALSE,
            !.source = d.pending_source, !.index = 0, !.dot_counter = 0,
            !.completion_dots_remaining = 0, !.pending_copies = 0,
            !.restart_warmup = d.active]

\* Mutant: the transfer begins its page anew.
AcknowledgeCopyAgain(d) ==
  LET copied == [d EXCEPT !.pending_copies = @ - 1, !.index = (@ + 1) % Size,
                          !.restart_warmup = FALSE]
  IN IF copied.restart_ready /\ copied.pending_copies = 0 THEN BeginPendingTransfer(copied)
     ELSE copied

AcknowledgeCopy(d) ==
  LET copied == [d EXCEPT !.pending_copies = @ - 1, !.index = @ + 1, !.restart_warmup = FALSE]
  IN IF copied.restart_ready /\ copied.pending_copies = 0 THEN BeginPendingTransfer(copied)
     ELSE IF copied.index >= Size
     THEN [copied EXCEPT !.pending_copies = 0, !.dot_counter = 0,
                         !.completion_dots_remaining = 4]
     ELSE copied

\* The first half of a dot: a transfer that is complete ends, another goes on.
Progress(d) ==
  IF d.completion_dots_remaining > 0
  THEN [d EXCEPT !.completion_dots_remaining = @ - 1,
                 !.active = @ /\ d.completion_dots_remaining # 1]
  ELSE IF ~d.active THEN d
  ELSE IF d.dot_counter = 3 /\ d.index + d.pending_copies < Size
  THEN [d EXCEPT !.dot_counter = 0, !.pending_copies = @ + 1]
  ELSE [d EXCEPT !.dot_counter = @ + 1]

\* The second half: a transfer that was asked for comes closer, and begins
\* unless a byte of the running one is still to be copied.
Approach(d) ==
  IF ~d.start_pending \/ d.restart_ready THEN d
  ELSE IF d.start_dots_remaining # 1 THEN [d EXCEPT !.start_dots_remaining = @ - 1]
  ELSE IF d.active /\ d.pending_copies > 0
  THEN [d EXCEPT !.start_dots_remaining = 0, !.restart_ready = TRUE]
  ELSE BeginPendingTransfer([d EXCEPT !.start_dots_remaining = 0])

TickDot(d) == Approach(Progress(d))

\* Mutant: OAM is open to the CPU for one byte too long.
BlocksOamLate(d) == d.active /\ d.index > 1

BlocksOam(d) == d.active /\ (d.index > 0 \/ d.restart_warmup)

\* The bus of the transfer is closed to the CPU once a byte has been copied.
BlocksVideoBus(d) == d.active /\ d.index > 0 /\ d.source \in VramPages

BlocksMainBus(d) == d.active /\ d.index > 0 /\ d.source \notin VramPages

-----------------------------------------------------------------------------
(* Steps. *)

\* Mutant: the PPU knows the byte, not the number of bytes.
PpuViewOfByte(d) ==
  [active |-> d.active, offset |-> IF d.active /\ d.index > 0 THEN d.index - 1 ELSE 0]

\* PPU::set_oam_dma_active.
PpuView(d) == [active |-> d.active, offset |-> IF d.active THEN d.index ELSE 0]

\* MemBus::tick_dma_dots(1): a dot readies one byte at most.
Dot ==
  LET ticked == TickDot(dma)
      copy == ticked.pending_copies > 0
  IN /\ dot < 4 /\ dot' = dot + 1
     /\ dma' = IF copy THEN AcknowledgeCopy(ticked) ELSE ticked
     /\ oam' = IF copy THEN [oam EXCEPT ![ticked.index] = <<ticked.source, ticked.index>>]
               ELSE oam
     /\ ppu' = PpuView(dma')

Access == dot = 4 /\ dot' = 0 /\ UNCHANGED ppu

NoAccess == Access /\ UNCHANGED <<dma, oam>>

\* A write of FF46 passes, whatever the transfer blocks.
WriteDma(page) == Access /\ dma' = Start(dma, page) /\ UNCHANGED oam

\* A write of OAM; the PPU may refuse it on its own account.
WriteOam(i) ==
  /\ Access
  /\ ~BlocksOam(dma)
  /\ oam' = [oam EXCEPT ![i] = CpuByte]
  /\ UNCHANGED dma

\* A write that the transfer blocks: to memory below A000 it goes to the address
\* of the byte just copied, otherwise it is mixed into that byte of OAM.
WriteConflict ==
  /\ Access
  /\ BlocksVideoBus(dma) \/ BlocksMainBus(dma)
  /\ IF dma.source \in RamPages
     THEN oam' = [oam EXCEPT ![ppu.offset - 1] = MixedByte]
     ELSE UNCHANGED oam
  /\ UNCHANGED dma

Reset ==
  /\ dot = 0
  /\ dma' = FreshDma /\ ppu' = [active |-> FALSE, offset |-> 0]
  /\ oam' = [i \in Index |-> CpuByte]
  /\ UNCHANGED dot

Init ==
  /\ dma = FreshDma /\ ppu = [active |-> FALSE, offset |-> 0]
  /\ oam = [i \in Index |-> CpuByte]
  /\ dot = 0

Next ==
  \/ Dot
  \/ NoAccess
  \/ \E page \in Pages : WriteDma(page)
  \/ \E i \in Index : WriteOam(i)
  \/ WriteConflict
  \/ Reset

Spec == Init /\ [][Next]_vars

\* While frames run, dots and accesses follow one another.
FairSpec == Spec /\ WF_vars(Dot \/ NoAccess)

-----------------------------------------------------------------------------
(* Properties. *)

Origin == (Pages \X Index) \cup {CpuByte, MixedByte}

DmaState ==
  [ active : BOOLEAN, start_pending : BOOLEAN, restart_ready : BOOLEAN,
    restart_warmup : BOOLEAN, source : Pages \cup {NoPage}, pending_source : Pages \cup {NoPage},
    index : 0 .. Size, dot_counter : 0 .. 3, start_dots_remaining : 0 .. 4,
    completion_dots_remaining : 0 .. 4, pending_copies : 0 .. 1 ]

\* Every member keeps its range; the index of a byte to be copied is in OAM.
TypeOK ==
  /\ dma \in DmaState
  /\ ppu \in [active : BOOLEAN, offset : 0 .. Size]
  /\ oam \in [Index -> Origin]
  /\ dot \in 0 .. 4

\* Bytes, begins and ends of transfers fall on the ends of M-cycles, and no
\* copy, restart or end is left over from one dot to the next.
StepsWithMCycles ==
  /\ dma.pending_copies = 0 /\ ~dma.restart_ready
  /\ dma.start_pending => dot # 4 /\ dma.start_dots_remaining = 4 - dot
  /\ dma.active =>
       IF dma.index = Size
       THEN dma.completion_dots_remaining = 4 - (dot % 4)
       ELSE dma.completion_dots_remaining = 0 /\ dma.dot_counter = dot % 4
  /\ ~dma.active => dma.completion_dots_remaining = 0

\* The PPU's record of the transfer is the transfer: the assertions at bus.cpp:251
\* and ppu.cpp:477 hold, and the PPU never takes OAM for free during a transfer.
PpuFollowsDma ==
  /\ ppu.active = dma.active
  /\ ppu.offset = IF dma.active THEN dma.index ELSE 0
  /\ (BlocksVideoBus(dma) \/ BlocksMainBus(dma)) => ppu.active /\ ppu.offset - 1 \in Index

\* Whatever the CPU writes meanwhile, the bytes copied so far are those of the
\* one page of the transfer, in their places, or were mixed in a conflict.
OamHoldsTheTransfer ==
  dma.active => \A i \in 0 .. dma.index - 1 : oam[i] \in {<<dma.source, i>>, MixedByte}

\* To the CPU, the dot-driven transfer is the one of whole M-cycles.
Cycles == INSTANCE DmaCycles WITH
  Driven <- VramPages \cup RomPages,
  running <- IF dma.active THEN dma.source ELSE NoPage,
  copied <- IF dma.active THEN dma.index ELSE 0,
  late <- dma.active /\ dma.restart_warmup,
  requested <- IF dma.start_pending THEN dma.pending_source ELSE NoPage,
  due <- dot = 4

ImplementsCycles == Cycles!Spec

\* A transfer that the program does not restart ends.
TransfersEnd ==
  <>[][Dot \/ NoAccess \/ WriteConflict]_vars => <>[](~dma.active /\ ~dma.start_pending)
=============================================================================
