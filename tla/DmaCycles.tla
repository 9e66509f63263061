----------------------------- MODULE DmaCycles -----------------------------
(***************************************************************************)
(* The promise of OAM DMA at the end of every M-cycle, the only moment at  *)
(* which the CPU uses the bus: one byte a cycle, in order, from the page   *)
(* last asked for.  A transfer begins one M-cycle after it was asked for   *)
(* and takes over from a running one, which copies one byte more.          *)
(***************************************************************************)
EXTENDS Integers

CONSTANTS
  Size,          \* bytes of OAM, 160
  Pages,         \* source pages: the values written to FF46
  Driven,        \* pages whose conflicting writes do not reach OAM
  NoPage, CpuByte, MixedByte

VARIABLES
  oam,           \* where each byte of OAM comes from
  running,       \* the page that is being copied, or NoPage
  copied,        \* how many of its bytes have been copied
  late,          \* the transfer took over from one that was copying
  requested,     \* the page of a transfer that begins with the next M-cycle
  due            \* the M-cycle has run and its CPU access has not

vars == <<oam, running, copied, late, requested, due>>

Index == 0 .. Size - 1

Init ==
  /\ oam = [i \in Index |-> CpuByte]
  /\ running = NoPage /\ copied = 0 /\ late = FALSE
  /\ requested = NoPage /\ due = FALSE

Copying == running # NoPage /\ copied < Size

MCycle ==
  /\ ~due /\ due' = TRUE
  /\ oam' = IF Copying THEN [oam EXCEPT ![copied] = <<running, copied>>] ELSE oam
  /\ requested' = NoPage
  /\ \/ /\ requested # NoPage
        /\ running' = requested /\ copied' = 0 /\ late' = Copying
     \/ /\ requested = NoPage
        /\ late' = FALSE
        /\ IF Copying THEN copied' = copied + 1 /\ UNCHANGED running
           ELSE running' = NoPage /\ copied' = 0

Access == due /\ due' = FALSE /\ UNCHANGED <<running, copied, late>>

NoAccess == Access /\ UNCHANGED <<oam, requested>>

Request(page) == Access /\ requested' = page /\ UNCHANGED oam

\* A program may write OAM, and for it OAM is closed from the first copy on.
WriteOam(i) ==
  /\ Access
  /\ running = NoPage \/ (copied = 0 /\ ~late)
  /\ oam' = [oam EXCEPT ![i] = CpuByte]
  /\ UNCHANGED requested

\* A write to the bus that the transfer uses meets the byte just copied.
Conflict ==
  /\ Access
  /\ running \in Pages \ Driven /\ copied > 0
  /\ oam' = [oam EXCEPT ![copied - 1] = MixedByte]
  /\ UNCHANGED requested

Reset ==
  /\ ~due
  /\ oam' = [i \in Index |-> CpuByte]
  /\ running' = NoPage /\ copied' = 0 /\ late' = FALSE
  /\ requested' = NoPage /\ due' = FALSE

Next ==
  \/ MCycle
  \/ NoAccess
  \/ \E page \in Pages : Request(page)
  \/ \E i \in Index : WriteOam(i)
  \/ Conflict
  \/ Reset

Spec == Init /\ [][Next]_vars
=============================================================================
