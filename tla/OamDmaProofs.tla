---------------------------- MODULE OamDmaProofs ----------------------------
(***************************************************************************)
(* Proofs about OamDma for every size of OAM and every set of pages.  The  *)
(* inductive invariant is the conjunction of the invariants of OamDma with *)
(* PagesAreKnown.  Each of the four dots of an M-cycle does one thing:     *)
(* the first three only count down, and the fourth copies a byte, ends a   *)
(* transfer or begins one.  The lemmas on dots say so, and both            *)
(* the invariance and the refinement of DmaCycles follow from them.        *)
(***************************************************************************)
EXTENDS OamDma, TLAPS

\* StepsWithMCycles of any record, after any number of dots.
InStep(d, n) ==
  /\ d.pending_copies = 0 /\ ~d.restart_ready
  /\ d.start_pending => n # 4 /\ d.start_dots_remaining = 4 - n
  /\ d.active =>
       IF d.index = Size
       THEN d.completion_dots_remaining = 4 - (n % 4)
       ELSE d.completion_dots_remaining = 0 /\ d.dot_counter = n % 4
  /\ ~d.active => d.completion_dots_remaining = 0

\* A transfer that runs, or was asked for, has a page.
Known(d) ==
  /\ d.active => d.source \in Pages
  /\ d.start_pending => d.pending_source \in Pages

PagesAreKnown == Known(dma)

IInv == TypeOK /\ StepsWithMCycles /\ PpuFollowsDma /\ OamHoldsTheTransfer /\ PagesAreKnown

\* A state of the transfer after n dots of an M-cycle.
Good(d, n) == d \in DmaState /\ InStep(d, n) /\ Known(d)

-----------------------------------------------------------------------------
(* What a dot does. *)

\* What a program, the PPU and OAM can tell of a transfer.
Same(d, e) ==
  /\ e.active = d.active /\ e.source = d.source /\ e.index = d.index
  /\ e.restart_warmup = d.restart_warmup
  /\ e.start_pending = d.start_pending /\ e.pending_source = d.pending_source

\* A transfer begins with the first byte of the page that was asked for.
LEMMA Begins ==
  ASSUME NEW d \in DmaState, d.pending_source \in Pages
  PROVE  LET e == BeginPendingTransfer(d)
         IN /\ Good(e, 4)
            /\ e.active /\ e.source = d.pending_source /\ e.index = 0
            /\ ~e.start_pending /\ e.pending_source = d.pending_source
            /\ e.restart_warmup = d.active /\ e.pending_copies = 0
<1>1. Size \in Nat /\ Size > 0
  BY OamDmaAssumption
<1>2. 0 \in 0 .. Size
  BY <1>1
<1> DEFINE a == [d EXCEPT !.active = TRUE]
           b == [a EXCEPT !.start_pending = FALSE]
           c == [b EXCEPT !.restart_ready = FALSE]
           f == [c EXCEPT !.source = d.pending_source]
           g == [f EXCEPT !.index = 0]
           h == [g EXCEPT !.dot_counter = 0]
           i == [h EXCEPT !.completion_dots_remaining = 0]
           j == [i EXCEPT !.pending_copies = 0]
           k == [j EXCEPT !.restart_warmup = d.active]
           e == BeginPendingTransfer(d)
<1>3. k \in DmaState
  <2>1. a \in DmaState
    BY DEF DmaState
  <2>2. b \in DmaState
    <3> HIDE DEF a
    <3> QED
      BY <2>1 DEF DmaState
  <2>3. c \in DmaState
    <3> HIDE DEF b
    <3> QED
      BY <2>2 DEF DmaState
  <2>4. f \in DmaState
    <3> HIDE DEF c
    <3> QED
      BY <2>3 DEF DmaState
  <2>5. g \in DmaState
    <3> HIDE DEF f
    <3> QED
      BY <1>2, <2>4 DEF DmaState
  <2>6. h \in DmaState
    <3> HIDE DEF g
    <3> QED
      BY <2>5 DEF DmaState
  <2>7. i \in DmaState
    <3> HIDE DEF h
    <3> QED
      BY <2>6 DEF DmaState
  <2>8. j \in DmaState
    <3> HIDE DEF i
    <3> QED
      BY <2>7 DEF DmaState
  <2> HIDE DEF j
  <2>9. d.active \in BOOLEAN
    BY DEF DmaState
  <2> QED
    BY <2>8, <2>9 DEF DmaState
<1>4. e = k
  BY DEF BeginPendingTransfer, DmaState
<1>5. /\ e.active = TRUE /\ e.source = d.pending_source /\ e.index = 0
      /\ e.start_pending = FALSE /\ e.pending_source = d.pending_source
      /\ e.restart_warmup = d.active /\ e.pending_copies = 0
      /\ e.restart_ready = FALSE /\ e.completion_dots_remaining = 0 /\ e.dot_counter = 0
  BY DEF BeginPendingTransfer, DmaState
<1>6. e \in DmaState
  BY <1>3, <1>4
<1> HIDE DEF e
<1>7. /\ e.index # Size /\ 4 % 4 = 0 /\ e.active /\ ~e.start_pending /\ ~e.restart_ready
  BY <1>1, <1>5
<1>8. Good(e, 4)
  BY <1>5, <1>6, <1>7 DEF Good, InStep, Known
<1> QED
  BY <1>5, <1>7, <1>8 DEF e

\* The first three dots count, and nobody can tell.
LEMMA EarlyDot ==
  ASSUME NEW d, NEW n \in 0 .. 2, Good(d, n)
  PROVE  /\ Good(TickDot(d), n + 1)
         /\ Same(d, TickDot(d))
<1>1. d \in DmaState /\ InStep(d, n) /\ Known(d)
  BY DEF Good
<1>2. Size \in Nat /\ Size > 0 /\ n % 4 = n /\ (n + 1) % 4 = n + 1 /\ n + 1 # 4
  BY OamDmaAssumption
<1> DEFINE p == Progress(d)
<1>3. /\ p \in DmaState /\ Same(d, p)
      /\ p.pending_copies = 0 /\ ~p.restart_ready
      /\ p.start_dots_remaining = d.start_dots_remaining
      /\ p.active => IF p.index = Size
                     THEN p.completion_dots_remaining = 4 - (n + 1)
                     ELSE p.completion_dots_remaining = 0 /\ p.dot_counter = n + 1
      /\ ~p.active => p.completion_dots_remaining = 0
  <2>1. CASE d.completion_dots_remaining > 0
    <3>1. d.active /\ d.index = Size /\ d.completion_dots_remaining = 4 - n
      BY <1>1, <1>2, <2>1 DEF InStep, DmaState
    <3>2. d.completion_dots_remaining # 1 /\ (3 - n) \in 0 .. 4
      BY <3>1
    <3> DEFINE left == d.completion_dots_remaining - 1
               stays == d.active /\ d.completion_dots_remaining # 1
    <3>3. p = [d EXCEPT !.completion_dots_remaining = left, !.active = stays]
      BY <2>1 DEF Progress
    <3>4. stays = TRUE /\ left = 3 - n
      BY <3>1, <3>2
    <3>8. d.active = TRUE
      BY <1>1, <3>1 DEF DmaState
    <3> HIDE DEF p, left, stays
    <3>5. p = [d EXCEPT !.completion_dots_remaining = 3 - n]
      BY <1>1, <3>3, <3>4, <3>8 DEF DmaState
    <3>6. p \in DmaState
      BY <1>1, <3>2, <3>5 DEF DmaState
    <3>7. /\ Same(d, p) /\ p.pending_copies = d.pending_copies
          /\ p.restart_ready = d.restart_ready
          /\ p.start_dots_remaining = d.start_dots_remaining
          /\ p.completion_dots_remaining = 3 - n
      BY <1>1, <3>5 DEF Same, DmaState
    <3> QED
      BY <1>1, <3>1, <3>6, <3>7 DEF Same, InStep
  <2>2. CASE ~(d.completion_dots_remaining > 0) /\ ~d.active
    <3>1. p = d
      BY <2>2 DEF Progress
    <3> QED
      BY <1>1, <2>2, <3>1 DEF Same, InStep
  <2>3. CASE ~(d.completion_dots_remaining > 0) /\ d.active
    <3>1. d.index # Size /\ d.dot_counter = n /\ d.completion_dots_remaining = 0
      BY <1>1, <1>2, <2>3 DEF InStep, DmaState
    <3>2. n # 3 /\ n + 1 \in 0 .. 3
      OBVIOUS
    <3>3. p = [d EXCEPT !.dot_counter = n + 1]
      BY <1>1, <2>3, <3>1, <3>2 DEF Progress, DmaState
    <3> QED
      BY <1>1, <2>3, <3>1, <3>2, <3>3 DEF Same, InStep, DmaState
  <2> QED
    BY <2>1, <2>2, <2>3
<1> HIDE DEF p
<1>4. TickDot(d) = Approach(p)
  BY DEF TickDot, p
<1>5. CASE ~p.start_pending
  <2>1. Approach(p) = p
    BY <1>5 DEF Approach
  <2> QED
    BY <1>1, <1>2, <1>3, <1>4, <1>5, <2>1 DEF Good, Known, InStep, Same
<1>6. CASE p.start_pending
  <2>1. p.start_dots_remaining = 4 - n /\ p.start_dots_remaining # 1 /\ (3 - n) \in 0 .. 4
    BY <1>1, <1>3, <1>6 DEF Same, InStep
  <2>2. Approach(p) = [p EXCEPT !.start_dots_remaining = 3 - n]
    BY <1>3, <1>6, <2>1 DEF Approach, DmaState
  <2> DEFINE q == Approach(p)
  <2>3. /\ q \in DmaState /\ Same(p, q)
        /\ q.pending_copies = p.pending_copies /\ q.restart_ready = p.restart_ready
        /\ q.start_dots_remaining = 3 - n /\ q.dot_counter = p.dot_counter
        /\ q.completion_dots_remaining = p.completion_dots_remaining
    BY <1>3, <2>1, <2>2 DEF Same, DmaState
  <2> HIDE DEF q
  <2>4. TickDot(d) = q
    BY <1>4 DEF q
  <2>5. 3 - n = 4 - (n + 1)
    OBVIOUS
  <2>6. Same(d, q)
    BY <1>3, <2>3 DEF Same
  <2> QED
    BY <1>1, <1>2, <1>3, <2>3, <2>4, <2>5, <2>6 DEF Good, Known, InStep, Same
<1> QED
  BY <1>5, <1>6

\* The fourth dot of a transfer with bytes left readies the next of them.
LEMMA ReadyDot ==
  ASSUME NEW d, Good(d, 3), d.active, d.index # Size
  PROVE  LET t == TickDot(d)
         IN /\ t \in DmaState /\ t.pending_copies = 1
            /\ t.active /\ t.source = d.source /\ t.index = d.index
            /\ t.start_pending = d.start_pending /\ t.pending_source = d.pending_source
            /\ t.restart_ready = d.start_pending
            /\ t.completion_dots_remaining = 0 /\ t.dot_counter = 0
<1>1. d \in DmaState /\ InStep(d, 3)
  BY DEF Good
<1>2. Size \in Nat /\ Size > 0
  BY OamDmaAssumption
<1>3. /\ d.completion_dots_remaining = 0 /\ d.dot_counter = 3
      /\ d.pending_copies = 0 /\ ~d.restart_ready
      /\ d.index + d.pending_copies < Size
  BY <1>1, <1>2 DEF InStep, DmaState
<1> DEFINE p == Progress(d)
<1>4. p = [d EXCEPT !.dot_counter = 0, !.pending_copies = 1]
  BY <1>1, <1>3 DEF Progress, DmaState
<1>5. /\ p \in DmaState /\ p.pending_copies = 1
      /\ p.active /\ p.source = d.source /\ p.index = d.index
      /\ p.start_pending = d.start_pending /\ p.pending_source = d.pending_source
      /\ p.restart_ready = FALSE
      /\ p.completion_dots_remaining = 0 /\ p.dot_counter = 0
      /\ p.start_dots_remaining = d.start_dots_remaining
  <2> DEFINE a == [d EXCEPT !.dot_counter = 0]
  <2>1. a \in DmaState
    BY <1>1 DEF DmaState
  <2>2. p = [a EXCEPT !.pending_copies = 1]
    BY <1>1, <1>4 DEF DmaState
  <2>3. d.restart_ready = FALSE /\ d.active = TRUE
    BY <1>1, <1>3 DEF DmaState
  <2> HIDE DEF p
  <2>4. /\ p.active = d.active /\ p.source = d.source /\ p.index = d.index
        /\ p.start_pending = d.start_pending /\ p.pending_source = d.pending_source
        /\ p.restart_ready = d.restart_ready
        /\ p.completion_dots_remaining = d.completion_dots_remaining
        /\ p.pending_copies = 1 /\ p.dot_counter = 0
        /\ p.start_dots_remaining = d.start_dots_remaining
    BY <1>1, <1>4 DEF DmaState
  <2> HIDE DEF a
  <2>5. p \in DmaState
    BY <2>1, <2>2 DEF DmaState
  <2> QED
    BY <1>3, <2>3, <2>4, <2>5
<1> HIDE DEF p
<1>6. TickDot(d) = Approach(p)
  BY DEF TickDot, p
<1>7. CASE ~d.start_pending
  <2>1. d.start_pending = FALSE
    BY <1>1, <1>7 DEF DmaState
  <2>2. Approach(p) = p
    BY <1>5, <1>7 DEF Approach
  <2> QED
    BY <1>5, <1>6, <2>1, <2>2
<1>8. CASE d.start_pending
  <2>1. d.start_pending = TRUE
    BY <1>1, <1>8 DEF DmaState
  <2>2. p.start_dots_remaining = 1
    BY <1>1, <1>5, <1>8 DEF InStep
  <2> DEFINE q == Approach(p)
             a == [p EXCEPT !.start_dots_remaining = 0]
  <2>3. q = [p EXCEPT !.start_dots_remaining = 0, !.restart_ready = TRUE]
    BY <1>5, <1>8, <2>2 DEF Approach
  <2>4. q = [a EXCEPT !.restart_ready = TRUE]
    BY <1>5, <2>3 DEF DmaState
  <2>5. a \in DmaState
    BY <1>5 DEF DmaState
  <2> HIDE DEF q
  <2>6. /\ q.pending_copies = p.pending_copies /\ q.active = p.active
        /\ q.source = p.source /\ q.index = p.index
        /\ q.start_pending = p.start_pending /\ q.pending_source = p.pending_source
        /\ q.restart_ready = TRUE
        /\ q.completion_dots_remaining = p.completion_dots_remaining
        /\ q.dot_counter = p.dot_counter
    BY <1>5, <2>3 DEF DmaState
  <2> HIDE DEF a
  <2>7. q \in DmaState
    BY <2>4, <2>5 DEF DmaState
  <2>8. TickDot(d) = q
    BY <1>6 DEF q
  <2> QED
    BY <1>5, <2>1, <2>6, <2>7, <2>8
<1> QED
  BY <1>7, <1>8

\* The copy of a byte; it ends in the next transfer if that was waiting.
LEMMA CopyDot ==
  ASSUME NEW d, Good(d, 3), d.active, d.index # Size
  PROVE  LET c == AcknowledgeCopy(TickDot(d))
         IN /\ Good(c, 4) /\ c.active /\ ~c.start_pending
            /\ d.start_pending =>
                 c.source = d.pending_source /\ c.index = 0 /\ c.restart_warmup
            /\ ~d.start_pending =>
                 c.source = d.source /\ c.index = d.index + 1 /\ ~c.restart_warmup
<1> DEFINE t == TickDot(d)
           copied == [t EXCEPT !.pending_copies = 0, !.index = d.index + 1,
                               !.restart_warmup = FALSE]
<1>1. /\ t \in DmaState /\ t.pending_copies = 1
      /\ t.active /\ t.source = d.source /\ t.index = d.index
      /\ t.start_pending = d.start_pending /\ t.pending_source = d.pending_source
      /\ t.restart_ready = d.start_pending
      /\ t.completion_dots_remaining = 0 /\ t.dot_counter = 0
  BY ReadyDot
<1>2. d \in DmaState /\ Known(d)
  BY DEF Good
<1>3. /\ Size \in Nat /\ d.index \in Nat /\ d.index + 1 \in 0 .. Size
  BY <1>2, OamDmaAssumption DEF DmaState
<1> HIDE DEF t
<1>4. [t EXCEPT !.pending_copies = @ - 1, !.index = @ + 1, !.restart_warmup = FALSE] = copied
  BY <1>1, <1>3 DEF DmaState
<1>5. /\ copied \in DmaState /\ copied.pending_copies = 0
      /\ copied.active = TRUE /\ copied.source = d.source
      /\ copied.index = d.index + 1
      /\ copied.start_pending = d.start_pending
      /\ copied.pending_source = d.pending_source
      /\ copied.restart_ready = d.start_pending /\ copied.restart_warmup = FALSE
      /\ copied.completion_dots_remaining = 0 /\ copied.dot_counter = 0
  <2> DEFINE a == [t EXCEPT !.pending_copies = 0]
             b == [a EXCEPT !.index = d.index + 1]
  <2>1. copied = [b EXCEPT !.restart_warmup = FALSE]
    BY <1>1 DEF DmaState
  <2>2. t.active = TRUE
    BY <1>1 DEF DmaState
  <2>3. /\ copied.pending_copies = 0
        /\ copied.active = t.active /\ copied.source = t.source
        /\ copied.index = d.index + 1
        /\ copied.start_pending = t.start_pending
        /\ copied.pending_source = t.pending_source
        /\ copied.restart_ready = t.restart_ready /\ copied.restart_warmup = FALSE
        /\ copied.completion_dots_remaining = t.completion_dots_remaining
        /\ copied.dot_counter = t.dot_counter
    BY <1>1 DEF DmaState
  <2>4. a \in DmaState
    BY <1>1 DEF DmaState
  <2> HIDE DEF copied, a
  <2>5. b \in DmaState
    BY <1>3, <2>4 DEF DmaState
  <2> HIDE DEF b
  <2>6. copied \in DmaState
    BY <2>1, <2>5 DEF DmaState
  <2> QED
    BY <1>1, <2>2, <2>3, <2>6
<1> HIDE DEF copied
<1> DEFINE c == AcknowledgeCopy(t)
<1>6. c = IF copied.restart_ready /\ copied.pending_copies = 0 THEN BeginPendingTransfer(copied)
          ELSE IF copied.index >= Size
          THEN [copied EXCEPT !.pending_copies = 0, !.dot_counter = 0,
                              !.completion_dots_remaining = 4]
          ELSE copied
  BY <1>4 DEF AcknowledgeCopy
<1> SUFFICES
      /\ Good(c, 4) /\ c.active /\ ~c.start_pending
      /\ d.start_pending => c.source = d.pending_source /\ c.index = 0 /\ c.restart_warmup
      /\ ~d.start_pending =>
           c.source = d.source /\ c.index = d.index + 1 /\ ~c.restart_warmup
  BY DEF t
<1> HIDE DEF c
<1>7. CASE d.start_pending
  <2>1. c = BeginPendingTransfer(copied)
    BY <1>5, <1>6, <1>7
  <2>2. copied.pending_source \in Pages
    BY <1>2, <1>5, <1>7 DEF Known
  <2>3. /\ Good(c, 4) /\ c.active /\ c.source = copied.pending_source /\ c.index = 0
        /\ ~c.start_pending /\ c.restart_warmup = copied.active
    BY <1>5, <2>1, <2>2, Begins
  <2> QED
    BY <1>5, <1>7, <2>3
<1>8. CASE ~d.start_pending /\ d.index + 1 = Size
  <2>1. c = [copied EXCEPT !.pending_copies = 0, !.dot_counter = 0,
                           !.completion_dots_remaining = 4]
    BY <1>3, <1>5, <1>6, <1>8
  <2> DEFINE a == [copied EXCEPT !.pending_copies = 0]
             b == [a EXCEPT !.dot_counter = 0]
  <2>5. c = [b EXCEPT !.completion_dots_remaining = 4]
    BY <1>5, <2>1 DEF DmaState
  <2>6. a \in DmaState
    BY <1>5 DEF DmaState
  <2>7. b \in DmaState
    <3> HIDE DEF a
    <3> QED
      BY <2>6 DEF DmaState
  <2>8. c \in DmaState
    <3> HIDE DEF b
    <3> QED
      BY <2>5, <2>7 DEF DmaState
  <2>9. /\ c.pending_copies = 0 /\ c.restart_ready = copied.restart_ready
        /\ c.active = copied.active /\ c.source = copied.source
        /\ c.index = copied.index /\ c.start_pending = copied.start_pending
        /\ c.restart_warmup = copied.restart_warmup
        /\ c.completion_dots_remaining = 4
    BY <1>5, <2>1 DEF DmaState
  <2>2. /\ c \in DmaState /\ c.pending_copies = 0 /\ ~c.restart_ready
        /\ c.active /\ c.source = d.source /\ c.index = d.index + 1
        /\ ~c.start_pending /\ ~c.restart_warmup /\ c.completion_dots_remaining = 4
    BY <1>5, <1>8, <2>8, <2>9
  <2>3. 4 - (4 % 4) = 4
    OBVIOUS
  <2>4. d.source \in Pages
    BY <1>2 DEF Known
  <2> QED
    BY <1>8, <2>2, <2>3, <2>4 DEF Good, InStep, Known
<1>9. CASE ~d.start_pending /\ d.index + 1 # Size
  <2>1. c = copied
    BY <1>3, <1>5, <1>6, <1>9
  <2>2. 4 % 4 = 0
    OBVIOUS
  <2>3. d.source \in Pages
    BY <1>2 DEF Known
  <2> QED
    BY <1>5, <1>9, <2>1, <2>2, <2>3 DEF Good, InStep, Known
<1> QED
  BY <1>7, <1>8, <1>9

\* Without a byte to copy the fourth dot ends the transfer, and the next begins.
LEMMA LastDot ==
  ASSUME NEW d, Good(d, 3), ~d.active \/ d.index = Size
  PROVE  LET t == TickDot(d)
         IN /\ Good(t, 4) /\ t.pending_copies = 0 /\ ~t.start_pending
            /\ t.active = d.start_pending
            /\ d.start_pending =>
                 t.source = d.pending_source /\ t.index = 0 /\ ~t.restart_warmup
<1>1. d \in DmaState /\ InStep(d, 3) /\ Known(d)
  BY DEF Good
<1>2. Size \in Nat /\ Size > 0
  BY OamDmaAssumption
<1> DEFINE p == Progress(d)
<1>3. /\ p \in DmaState /\ ~p.active
      /\ p.pending_copies = 0 /\ ~p.restart_ready /\ p.completion_dots_remaining = 0
      /\ p.start_pending = d.start_pending /\ p.pending_source = d.pending_source
      /\ p.start_dots_remaining = d.start_dots_remaining
  <2>1. CASE d.active
    <3>1. d.index = Size /\ d.completion_dots_remaining = 1
      BY <1>1, <2>1 DEF InStep
    <3> DEFINE left == d.completion_dots_remaining - 1
               stays == d.active /\ d.completion_dots_remaining # 1
               a == [d EXCEPT !.completion_dots_remaining = 0]
    <3>2. p = [d EXCEPT !.completion_dots_remaining = left, !.active = stays]
      BY <3>1 DEF Progress
    <3>3. stays = FALSE /\ left = 0
      BY <3>1
    <3> HIDE DEF p, left, stays
    <3>4. p = [d EXCEPT !.completion_dots_remaining = 0, !.active = FALSE]
      BY <3>2, <3>3
    <3>5. p = [a EXCEPT !.active = FALSE]
      BY <1>1, <3>4 DEF DmaState
    <3>6. a \in DmaState
      BY <1>1 DEF DmaState
    <3> HIDE DEF p
    <3>7. /\ p.active = FALSE /\ p.completion_dots_remaining = 0
          /\ p.pending_copies = d.pending_copies /\ p.restart_ready = d.restart_ready
          /\ p.start_pending = d.start_pending /\ p.pending_source = d.pending_source
          /\ p.start_dots_remaining = d.start_dots_remaining
      BY <1>1, <3>4 DEF DmaState
    <3> HIDE DEF a
    <3>8. p \in DmaState
      BY <3>5, <3>6 DEF DmaState
    <3> QED
      BY <1>1, <3>7, <3>8 DEF InStep
  <2>2. CASE ~d.active
    <3>1. d.completion_dots_remaining = 0
      BY <1>1, <2>2 DEF InStep
    <3>2. p = d
      BY <2>2, <3>1 DEF Progress
    <3> QED
      BY <1>1, <2>2, <3>1, <3>2 DEF InStep
  <2> QED
    BY <2>1, <2>2
<1> HIDE DEF p
<1>4. TickDot(d) = Approach(p)
  BY DEF TickDot, p
<1>5. CASE ~d.start_pending
  <2>1. Approach(p) = p
    BY <1>3, <1>5 DEF Approach
  <2>2. d.start_pending = FALSE /\ p.active = FALSE
    BY <1>1, <1>3, <1>5 DEF DmaState
  <2> QED
    BY <1>3, <1>4, <1>5, <2>1, <2>2 DEF Good, InStep, Known
<1>6. CASE d.start_pending
  <2>1. p.start_dots_remaining = 1
    BY <1>1, <1>3, <1>6 DEF InStep
  <2> DEFINE q == [p EXCEPT !.start_dots_remaining = 0]
  <2>2. /\ q \in DmaState /\ q.active = FALSE
        /\ q.pending_source = d.pending_source
    BY <1>3 DEF DmaState
  <2>3. Approach(p) = BeginPendingTransfer(q)
    BY <1>3, <1>6, <2>1 DEF Approach
  <2>4. q.pending_source \in Pages
    BY <1>1, <1>6, <2>2 DEF Known
  <2> HIDE DEF q
  <2> DEFINE t == BeginPendingTransfer(q)
  <2>5. /\ Good(t, 4) /\ t.pending_copies = 0
        /\ t.active /\ t.source = q.pending_source /\ t.index = 0
        /\ ~t.start_pending /\ t.restart_warmup = q.active
    BY <2>2, <2>4, Begins
  <2> HIDE DEF t
  <2>6. TickDot(d) = t
    BY <1>4, <2>3 DEF t
  <2>7. t.active = TRUE /\ d.start_pending = TRUE
    BY <1>1, <1>6, <2>5 DEF Good, DmaState
  <2> QED
    BY <2>2, <2>5, <2>6, <2>7
<1> QED
  BY <1>5, <1>6
-----------------------------------------------------------------------------
(* The steps preserve the invariant. *)

\* What the invariants say of the members of class OamDma.
LEMMA GoodState ==
  ASSUME IInv
  PROVE  Good(dma, dot)
BY DEF IInv, TypeOK, StepsWithMCycles, PagesAreKnown, Good, InStep

\* The PPU is told, and believes what it should.
LEMMA ViewFollows ==
  ASSUME NEW d \in DmaState
  PROVE  /\ PpuView(d) \in [active : BOOLEAN, offset : 0 .. Size]
         /\ PpuView(d).active = d.active
         /\ PpuView(d).offset = IF d.active THEN d.index ELSE 0
         /\ (BlocksVideoBus(d) \/ BlocksMainBus(d)) =>
              PpuView(d).active /\ PpuView(d).offset - 1 \in Index
<1>1. Size \in Nat /\ Size > 0 /\ 0 \in 0 .. Size
  BY OamDmaAssumption
<1>2. d.active \in BOOLEAN /\ d.index \in 0 .. Size
  BY DEF DmaState
<1>3. /\ PpuView(d).active = d.active
      /\ PpuView(d).offset = IF d.active THEN d.index ELSE 0
  BY DEF PpuView
<1>4. (IF d.active THEN d.index ELSE 0) \in 0 .. Size
  BY <1>1, <1>2
<1>5. PpuView(d) \in [active : BOOLEAN, offset : 0 .. Size]
  BY <1>2, <1>4 DEF PpuView
<1>6. ASSUME BlocksVideoBus(d) \/ BlocksMainBus(d)
      PROVE  PpuView(d).active /\ PpuView(d).offset - 1 \in Index
  <2>1. d.active /\ d.index > 0
    BY <1>6 DEF BlocksVideoBus, BlocksMainBus
  <2>2. d.active = TRUE /\ d.index - 1 \in 0 .. Size - 1
    BY <1>1, <1>2, <2>1
  <2> QED
    BY <1>3, <2>1, <2>2 DEF Index
<1> QED
  BY <1>3, <1>5, <1>6

\* What a dot does to the transfer and to OAM, in the terms of the page, the
\* index and the request: nothing, or the copy of a byte, or an end or a begin.
LEMMA DotSteps ==
  ASSUME IInv, Dot
  PROVE  /\ Good(dma', dot') /\ dot' = dot + 1 /\ dot \in 0 .. 3
         /\ ppu' = PpuView(dma')
         /\ dot # 3 => Same(dma, dma') /\ oam' = oam
         /\ dot = 3 => ~dma'.start_pending
         /\ dot = 3 /\ dma.active /\ dma.index # Size =>
              /\ dma'.active
              /\ oam' = [oam EXCEPT ![dma.index] = <<dma.source, dma.index>>]
              /\ dma.start_pending =>
                   dma'.source = dma.pending_source /\ dma'.index = 0 /\ dma'.restart_warmup
              /\ ~dma.start_pending =>
                   /\ dma'.source = dma.source /\ dma'.index = dma.index + 1
                   /\ ~dma'.restart_warmup
         /\ dot = 3 /\ (~dma.active \/ dma.index = Size) =>
              /\ oam' = oam /\ dma'.active = dma.start_pending
              /\ dma.start_pending =>
                   dma'.source = dma.pending_source /\ dma'.index = 0 /\ ~dma'.restart_warmup
<1> DEFINE t == TickDot(dma)
<1>1. Good(dma, dot) /\ dot' = dot + 1 /\ ppu' = PpuView(dma')
  BY GoodState DEF Dot
<1>2. dot \in 0 .. 3
  BY DEF IInv, TypeOK, Dot
<1>3. /\ dma' = IF t.pending_copies > 0 THEN AcknowledgeCopy(t) ELSE t
      /\ oam' = IF t.pending_copies > 0
                THEN [oam EXCEPT ![t.index] = <<t.source, t.index>>] ELSE oam
  BY DEF Dot
<1> HIDE DEF t
<1>4. CASE dot # 3
  <2>1. dot \in 0 .. 2
    BY <1>2, <1>4
  <2>2. Good(t, dot + 1) /\ Same(dma, t)
    BY <1>1, <2>1, EarlyDot DEF t
  <2>3. t.pending_copies = 0
    BY <2>2 DEF Good, InStep
  <2>4. dma' = t /\ oam' = oam
    BY <1>3, <2>3
  <2> QED
    BY <1>1, <1>2, <1>4, <2>2, <2>4
<1>5. CASE dot = 3 /\ dma.active /\ dma.index # Size
  <2>1. Good(dma, 3) /\ dot + 1 = 4
    BY <1>1, <1>5
  <2>2. t.pending_copies = 1 /\ t.source = dma.source /\ t.index = dma.index
    BY <1>5, <2>1, ReadyDot DEF t
  <2>3. /\ dma' = AcknowledgeCopy(t)
        /\ oam' = [oam EXCEPT ![dma.index] = <<dma.source, dma.index>>]
    BY <1>3, <2>2
  <2>4. /\ Good(dma', 4) /\ dma'.active /\ ~dma'.start_pending
        /\ dma.start_pending =>
             dma'.source = dma.pending_source /\ dma'.index = 0 /\ dma'.restart_warmup
        /\ ~dma.start_pending =>
             dma'.source = dma.source /\ dma'.index = dma.index + 1 /\ ~dma'.restart_warmup
    BY <1>5, <2>1, <2>3, CopyDot DEF t
  <2> QED
    BY <1>1, <1>2, <1>5, <2>1, <2>3, <2>4
<1>6. CASE dot = 3 /\ (~dma.active \/ dma.index = Size)
  <2>1. Good(dma, 3) /\ dot + 1 = 4
    BY <1>1, <1>6
  <2>2. /\ Good(t, 4) /\ t.pending_copies = 0 /\ ~t.start_pending
        /\ t.active = dma.start_pending
        /\ dma.start_pending =>
             t.source = dma.pending_source /\ t.index = 0 /\ ~t.restart_warmup
    BY <1>6, <2>1, LastDot DEF t
  <2>3. dma' = t /\ oam' = oam
    BY <1>3, <2>2
  <2> QED
    BY <1>1, <1>2, <1>6, <2>1, <2>2, <2>3
<1> QED
  BY <1>4, <1>5, <1>6

\* The transfer after a dot is in its place: bytes that were copied stay, and the
\* one that was copied now is the next.
LEMMA DotKeepsOam ==
  ASSUME IInv, Dot
  PROVE  oam' \in [Index -> Origin] /\ OamHoldsTheTransfer'
<1>1. Good(dma, dot) /\ oam \in [Index -> Origin] /\ OamHoldsTheTransfer
  BY GoodState DEF IInv, TypeOK
<1>2. dma \in DmaState /\ Known(dma)
  BY <1>1 DEF Good
<1>3. Size \in Nat /\ Size > 0 /\ dma.index \in 0 .. Size
  BY <1>2, OamDmaAssumption DEF DmaState
<1>4. CASE dot # 3
  <2>1. Same(dma, dma') /\ oam' = oam
    BY <1>4, DotSteps
  <2> QED
    BY <1>1, <2>1 DEF Same, OamHoldsTheTransfer
<1>5. CASE dot = 3 /\ dma.active /\ dma.index # Size
  <2>1. /\ dma'.active
        /\ oam' = [oam EXCEPT ![dma.index] = <<dma.source, dma.index>>]
        /\ dma.start_pending => dma'.index = 0
        /\ ~dma.start_pending => dma'.source = dma.source /\ dma'.index = dma.index + 1
    BY <1>5, DotSteps
  <2>2. dma.source \in Pages /\ dma.index \in Index
    BY <1>2, <1>3, <1>5 DEF Known, Index
  <2>3. <<dma.source, dma.index>> \in Origin
    BY <2>2 DEF Origin
  <2>4. oam' \in [Index -> Origin]
    BY <1>1, <2>1, <2>2, <2>3
  <2>5. ASSUME NEW i \in 0 .. dma'.index - 1
        PROVE  oam'[i] \in {<<dma'.source, i>>, MixedByte}
    <3>1. ~dma.start_pending
      BY <2>1, <2>5
    <3>2. dma'.source = dma.source /\ i \in 0 .. dma.index /\ i \in Index
      BY <1>3, <1>5, <2>1, <2>5, <3>1 DEF Index
    <3>3. CASE i = dma.index
      BY <1>1, <2>1, <2>2, <3>2, <3>3
    <3>4. CASE i # dma.index
      <4>1. i \in 0 .. dma.index - 1 /\ oam'[i] = oam[i]
        BY <1>1, <1>3, <2>1, <3>2, <3>4
      <4> QED
        BY <1>1, <1>5, <3>2, <4>1 DEF OamHoldsTheTransfer
    <3> QED
      BY <3>3, <3>4
  <2> QED
    BY <2>4, <2>5 DEF OamHoldsTheTransfer
<1>6. CASE dot = 3 /\ (~dma.active \/ dma.index = Size)
  <2>1. /\ oam' = oam /\ dma'.active = dma.start_pending
        /\ dma.start_pending => dma'.index = 0
    BY <1>6, DotSteps
  <2>2. dma'.active => dma'.index = 0
    BY <2>1
  <2>3. OamHoldsTheTransfer'
    BY <2>2 DEF OamHoldsTheTransfer
  <2> QED
    BY <1>1, <2>1, <2>3
<1> QED
  BY <1>4, <1>5, <1>6

\* The invariant, from its parts.
LEMMA FromParts ==
  ASSUME Good(dma, dot)', dot' \in 0 .. 4,
         oam' \in [Index -> Origin], OamHoldsTheTransfer',
         ppu' = PpuView(dma')
  PROVE  IInv'
<1>1. dma' \in DmaState /\ InStep(dma, dot)' /\ Known(dma)'
  BY DEF Good
<1>2. TypeOK' /\ PpuFollowsDma'
  BY <1>1, ViewFollows DEF TypeOK, PpuFollowsDma
<1> QED
  BY <1>1, <1>2 DEF IInv, StepsWithMCycles, InStep, PagesAreKnown

\* A write of FF46 leaves a running transfer alone and asks for the next.
LEMMA Asks ==
  ASSUME NEW d, Good(d, 4), NEW page \in Pages
  PROVE  LET e == Start(d, page)
         IN /\ Good(e, 0)
            /\ e.active = d.active /\ e.source = d.source
            /\ e.restart_warmup = d.restart_warmup
            /\ d.active => e.index = d.index
            /\ e.start_pending /\ e.pending_source = page
<1>1. d \in DmaState /\ InStep(d, 4) /\ Known(d)
  BY DEF Good
<1>2. Size \in Nat /\ Size > 0 /\ 0 \in 0 .. Size /\ 4 % 4 = 0 /\ 0 % 4 = 0
  BY OamDmaAssumption
<1> DEFINE a == [d EXCEPT !.pending_source = page]
           b == [a EXCEPT !.start_pending = TRUE]
           c == [b EXCEPT !.restart_ready = FALSE]
           asked == [d EXCEPT !.pending_source = page, !.start_pending = TRUE,
                              !.restart_ready = FALSE, !.start_dots_remaining = 4]
           e == Start(d, page)
<1> SUFFICES /\ Good(e, 0)
             /\ e.active = d.active /\ e.source = d.source
             /\ e.restart_warmup = d.restart_warmup
             /\ d.active => e.index = d.index
             /\ e.start_pending /\ e.pending_source = page
  OBVIOUS
<1>3. asked = [c EXCEPT !.start_dots_remaining = 4]
  BY <1>1 DEF DmaState
<1>4. a \in DmaState
  BY <1>1 DEF DmaState
<1>5. b \in DmaState
  <2> HIDE DEF a
  <2> QED
    BY <1>4 DEF DmaState
<1>6. c \in DmaState
  <2> HIDE DEF b
  <2> QED
    BY <1>5 DEF DmaState
<1>7. /\ asked.active = d.active /\ asked.source = d.source /\ asked.index = d.index
      /\ asked.restart_warmup = d.restart_warmup /\ asked.dot_counter = d.dot_counter
      /\ asked.start_pending = TRUE /\ asked.pending_source = page
      /\ asked.restart_ready = FALSE /\ asked.start_dots_remaining = 4
      /\ asked.completion_dots_remaining = d.completion_dots_remaining
      /\ asked.pending_copies = d.pending_copies
  BY <1>1 DEF DmaState
<1>8. e = IF d.active THEN asked
          ELSE [asked EXCEPT !.index = 0, !.dot_counter = 0,
                             !.completion_dots_remaining = 0, !.pending_copies = 0]
  BY DEF Start
<1> HIDE DEF c, asked, e
<1>9. asked \in DmaState
  BY <1>3, <1>6 DEF DmaState
<1>10. CASE d.active
  <2>1. e = asked
    BY <1>8, <1>10
  <2>2. /\ d.pending_copies = 0 /\ d.source \in Pages
        /\ IF d.index = Size THEN d.completion_dots_remaining = 4
           ELSE d.completion_dots_remaining = 0 /\ d.dot_counter = 0
    BY <1>1, <1>2, <1>10 DEF InStep, Known
  <2>3. asked.active /\ ~asked.restart_ready /\ asked.start_pending
    BY <1>7, <1>10
  <2>4. InStep(asked, 0)
    BY <1>2, <1>7, <2>2, <2>3 DEF InStep
  <2>5. Known(asked)
    BY <1>7, <2>2 DEF Known
  <2> QED
    BY <1>7, <1>9, <2>1, <2>3, <2>4, <2>5 DEF Good
<1>11. CASE ~d.active
  <2> DEFINE f == [asked EXCEPT !.index = 0]
             g == [f EXCEPT !.dot_counter = 0]
             h == [g EXCEPT !.completion_dots_remaining = 0]
  <2>1. e = [h EXCEPT !.pending_copies = 0]
    BY <1>8, <1>9, <1>11 DEF DmaState
  <2>2. f \in DmaState
    BY <1>2, <1>9 DEF DmaState
  <2>3. g \in DmaState
    <3> HIDE DEF f
    <3> QED
      BY <2>2 DEF DmaState
  <2>4. h \in DmaState
    <3> HIDE DEF g
    <3> QED
      BY <2>3 DEF DmaState
  <2>5. /\ e.active = asked.active /\ e.source = asked.source /\ e.index = 0
        /\ e.restart_warmup = asked.restart_warmup
        /\ e.start_pending = asked.start_pending
        /\ e.pending_source = asked.pending_source
        /\ e.restart_ready = asked.restart_ready
        /\ e.start_dots_remaining = asked.start_dots_remaining
        /\ e.completion_dots_remaining = 0 /\ e.pending_copies = 0
    BY <1>8, <1>9, <1>11 DEF DmaState
  <2> HIDE DEF h
  <2>6. e \in DmaState
    BY <2>1, <2>4 DEF DmaState
  <2>7. Good(e, 0)
    BY <1>7, <1>11, <2>5, <2>6 DEF Good, InStep, Known
  <2>8. /\ e.active = d.active /\ e.source = d.source
        /\ e.restart_warmup = d.restart_warmup
        /\ e.start_pending /\ e.pending_source = page
    BY <1>7, <2>5
  <2> QED
    BY <1>11, <2>7, <2>8
<1> QED
  BY <1>10, <1>11

LEMMA InitHolds == Init => IInv
<1> SUFFICES ASSUME Init
             PROVE  IInv
  OBVIOUS
<1>1. Size \in Nat /\ Size > 0 /\ 0 \in 0 .. Size
  BY OamDmaAssumption
<1>2. dma = FreshDma /\ ppu = [active |-> FALSE, offset |-> 0] /\ dot = 0
  BY DEF Init
<1>3. dma \in DmaState
  BY <1>1, <1>2 DEF FreshDma, DmaState
<1>4. /\ dma.active = FALSE /\ dma.start_pending = FALSE /\ dma.restart_ready = FALSE
      /\ dma.pending_copies = 0 /\ dma.completion_dots_remaining = 0
  BY <1>2 DEF FreshDma
<1>5. ppu \in [active : BOOLEAN, offset : 0 .. Size]
  BY <1>1, <1>2
<1>6. oam \in [Index -> Origin]
  BY DEF Init, Origin
<1>7. ppu.active = FALSE /\ ppu.offset = 0
  BY <1>2
<1>8. ~BlocksVideoBus(dma) /\ ~BlocksMainBus(dma)
  BY <1>4 DEF BlocksVideoBus, BlocksMainBus
<1>9. TypeOK
  BY <1>2, <1>3, <1>5, <1>6 DEF TypeOK
<1>10. StepsWithMCycles
  BY <1>4 DEF StepsWithMCycles
<1>11. PpuFollowsDma
  BY <1>4, <1>7, <1>8 DEF PpuFollowsDma
<1>12. OamHoldsTheTransfer /\ PagesAreKnown
  BY <1>4 DEF OamHoldsTheTransfer, PagesAreKnown, Known
<1> QED
  BY <1>9, <1>10, <1>11, <1>12 DEF IInv

\* The accesses of the CPU: what they leave alone and what they may touch.
LEMMA AccessKeeps ==
  ASSUME IInv, Access, UNCHANGED dma, oam' \in [Index -> Origin], OamHoldsTheTransfer'
  PROVE  IInv'
<1>1. dot = 4 /\ dot' = 0 /\ ppu' = ppu
  BY DEF Access
<1>2. Good(dma, 4)
  BY <1>1, GoodState
<1>3. 4 % 4 = 0 /\ 0 % 4 = 0
  OBVIOUS
<1>4. Good(dma, 0)
  BY <1>2, <1>3 DEF Good, InStep
<1>5. dma' = dma
  OBVIOUS
<1>6. /\ TypeOK' /\ PpuFollowsDma'
  BY <1>1, <1>5 DEF IInv, TypeOK, PpuFollowsDma
<1>7. StepsWithMCycles' /\ PagesAreKnown'
  BY <1>1, <1>4, <1>5 DEF Good, InStep, StepsWithMCycles, PagesAreKnown
<1> QED
  BY <1>6, <1>7 DEF IInv

LEMMA NextHolds == IInv /\ [Next]_vars => IInv'
<1> SUFFICES ASSUME IInv, [Next]_vars
             PROVE  IInv'
  OBVIOUS
<1>1. /\ dma \in DmaState /\ oam \in [Index -> Origin] /\ OamHoldsTheTransfer
      /\ Good(dma, dot)
  BY GoodState DEF IInv, TypeOK
<1>2. Size \in Nat /\ Size > 0 /\ dma.index \in 0 .. Size
  BY <1>1, OamDmaAssumption DEF DmaState
<1>3. CASE Dot
  <2>1. Good(dma', dot') /\ dot' \in 0 .. 4 /\ ppu' = PpuView(dma')
    BY <1>3, DotSteps
  <2>2. oam' \in [Index -> Origin] /\ OamHoldsTheTransfer'
    BY <1>3, DotKeepsOam
  <2> QED
    BY <2>1, <2>2, FromParts
<1>4. CASE NoAccess
  <2>1. Access /\ UNCHANGED dma /\ oam' = oam
    BY <1>4 DEF NoAccess
  <2>2. OamHoldsTheTransfer'
    BY <1>1, <2>1 DEF OamHoldsTheTransfer
  <2> QED
    BY <1>1, <2>1, <2>2, AccessKeeps
<1>5. ASSUME NEW page \in Pages, WriteDma(page)
      PROVE  IInv'
  <2>1. /\ dot = 4 /\ dot' = 0 /\ ppu' = ppu /\ oam' = oam
        /\ dma' = Start(dma, page)
    BY <1>5 DEF WriteDma, Access
  <2>2. /\ Good(dma', 0)
        /\ dma'.active = dma.active /\ dma'.source = dma.source
        /\ dma.active => dma'.index = dma.index
    BY <1>1, <2>1, Asks
  <2>3. dma' \in DmaState
    BY <2>2 DEF Good
  <2>4. OamHoldsTheTransfer'
    BY <1>1, <2>1, <2>2 DEF OamHoldsTheTransfer
  <2>5. TypeOK'
    BY <2>1, <2>3 DEF IInv, TypeOK
  <2>6. ppu.active = dma.active /\ ppu.offset = IF dma.active THEN dma.index ELSE 0
    BY DEF IInv, PpuFollowsDma
  <2>7. /\ ppu'.active = dma'.active
        /\ ppu'.offset = IF dma'.active THEN dma'.index ELSE 0
    BY <2>1, <2>2, <2>6
  <2>8. (BlocksVideoBus(dma') \/ BlocksMainBus(dma')) => ppu'.active /\ ppu'.offset - 1 \in Index
    <3> SUFFICES ASSUME BlocksVideoBus(dma') \/ BlocksMainBus(dma')
                 PROVE  ppu'.active /\ ppu'.offset - 1 \in Index
      OBVIOUS
    <3>1. dma'.active /\ dma'.index > 0
      BY DEF BlocksVideoBus, BlocksMainBus
    <3>2. dma'.index - 1 \in 0 .. Size - 1
      BY <1>2, <2>3, <3>1 DEF DmaState
    <3> QED
      BY <2>7, <3>1, <3>2 DEF Index
  <2>9. PpuFollowsDma'
    BY <2>7, <2>8 DEF PpuFollowsDma
  <2>10. StepsWithMCycles' /\ PagesAreKnown'
    BY <2>1, <2>2 DEF Good, InStep, StepsWithMCycles, PagesAreKnown
  <2> QED
    BY <2>4, <2>5, <2>9, <2>10 DEF IInv
<1>6. ASSUME NEW i \in Index, WriteOam(i)
      PROVE  IInv'
  <2>1. /\ Access /\ UNCHANGED dma /\ ~BlocksOam(dma)
        /\ oam' = [oam EXCEPT ![i] = CpuByte]
    BY <1>6 DEF WriteOam
  <2>2. oam' \in [Index -> Origin]
    BY <1>1, <2>1 DEF Origin
  <2>3. dma.active => dma.index = 0
    BY <1>2, <2>1 DEF BlocksOam
  <2>4. OamHoldsTheTransfer'
    BY <2>1, <2>3 DEF OamHoldsTheTransfer
  <2> QED
    BY <2>1, <2>2, <2>4, AccessKeeps
<1>7. CASE WriteConflict
  <2>1. Access /\ UNCHANGED dma
    BY <1>7 DEF WriteConflict
  <2>2. oam' = oam \/ \E j : oam' = [oam EXCEPT ![j] = MixedByte]
    BY <1>7 DEF WriteConflict
  <2>3. oam' \in [Index -> Origin]
    BY <1>1, <2>2 DEF Origin
  <2>4. ASSUME dma.active, NEW k \in 0 .. dma.index - 1
        PROVE  oam'[k] \in {<<dma.source, k>>, MixedByte}
    <3>1. k \in Index /\ oam[k] \in {<<dma.source, k>>, MixedByte}
      BY <1>1, <1>2, <2>4 DEF Index, OamHoldsTheTransfer
    <3>2. oam'[k] = oam[k] \/ oam'[k] = MixedByte
      BY <1>1, <2>2, <3>1
    <3> QED
      BY <3>1, <3>2
  <2>5. OamHoldsTheTransfer'
    BY <2>1, <2>4 DEF OamHoldsTheTransfer
  <2> QED
    BY <2>1, <2>3, <2>5, AccessKeeps
<1>8. CASE Reset
  <2>1. (dot = 0)' /\ (dma = FreshDma)' /\ (ppu = [active |-> FALSE, offset |-> 0])'
    BY <1>8 DEF Reset
  <2>2. oam' = [j \in Index |-> CpuByte]
    BY <1>8 DEF Reset
  <2>3. Init'
    BY <2>1, <2>2 DEF Init
  <2>4. Init' => IInv'
    BY InitHolds, PTL
  <2> QED
    BY <2>3, <2>4
<1>9. CASE UNCHANGED vars
  BY <1>9
  DEF vars, IInv, TypeOK, StepsWithMCycles, PpuFollowsDma, OamHoldsTheTransfer, PagesAreKnown,
      Known, BlocksVideoBus, BlocksMainBus
<1> QED
  BY <1>3, <1>4, <1>5, <1>6, <1>7, <1>8, <1>9 DEF Next

LEMMA Invariance == Spec => []IInv
BY InitHolds, NextHolds, PTL DEF Spec

\* Every member of class OamDma and the PPU's record of it keep their ranges:
\* no copy is ever addressed outside OAM.
THEOREM TypeCorrect == Spec => []TypeOK
<1>1. IInv => TypeOK
  BY DEF IInv
<1> QED
  BY <1>1, Invariance, PTL

\* The three dot counters of OamDma agree with the dots of the M-cycle, so bytes,
\* begins and ends fall between the CPU's accesses, for OAM of any size.
THEOREM TransfersKeepStep == Spec => []StepsWithMCycles
<1>1. IInv => StepsWithMCycles
  BY DEF IInv
<1> QED
  BY <1>1, Invariance, PTL

\* The PPU's copy of the transfer (set_oam_dma_active) is never stale when the CPU
\* uses the bus: the assertions of tick_dma_dots and write_oam_dma_conflict hold.
THEOREM PpuIsNeverStale == Spec => []PpuFollowsDma
<1>1. IInv => PpuFollowsDma
  BY DEF IInv
<1> QED
  BY <1>1, Invariance, PTL

\* Restarts, refused writes and conflicts never put a byte of another page, or of
\* the CPU, into the part of OAM that a running transfer has filled.
THEOREM TransfersAreNotMixed == Spec => []OamHoldsTheTransfer
<1>1. IInv => OamHoldsTheTransfer
  BY DEF IInv
<1> QED
  BY <1>1, Invariance, PTL

-----------------------------------------------------------------------------
(* The refinement of DmaCycles: the first three dots stutter, the fourth is *)
(* MCycle, and an access is the access. *)

running == IF dma.active THEN dma.source ELSE NoPage
copied == IF dma.active THEN dma.index ELSE 0
late == dma.active /\ dma.restart_warmup
requested == IF dma.start_pending THEN dma.pending_source ELSE NoPage
due == dot = 4

\* Pages are told from "none", so a running transfer is seen to run.
LEMMA Seen ==
  ASSUME IInv
  PROVE  /\ NoPage \notin Pages
         /\ (running # NoPage) <=> dma.active
         /\ (requested # NoPage) <=> dma.start_pending
         /\ Cycles!Copying <=> dma.active /\ dma.index # Size
<1>1. NoPage \notin Pages
  BY OamDmaAssumption DEF Pages
<1>2. Known(dma) /\ dma \in DmaState
  BY DEF IInv, PagesAreKnown, TypeOK
<1>3. (running # NoPage) <=> dma.active
  BY <1>1, <1>2 DEF running, Known
<1>4. (requested # NoPage) <=> dma.start_pending
  BY <1>1, <1>2 DEF requested, Known
<1>5. Size \in Nat /\ Size > 0 /\ dma.index \in 0 .. Size
  BY <1>2, OamDmaAssumption DEF DmaState
<1>6. Cycles!Copying <=> running # NoPage /\ copied < Size
  BY DEF Cycles!Copying, running, copied
<1> QED
  BY <1>1, <1>3, <1>4, <1>5, <1>6 DEF copied

LEMMA NextRefines == IInv /\ [Next]_vars => [Cycles!Next]_(Cycles!vars)
<1> SUFFICES ASSUME IInv, [Next]_vars
             PROVE  Cycles!Next \/ UNCHANGED Cycles!vars
  OBVIOUS
<1> DEFINE Stutters == /\ oam' = oam /\ running' = running /\ copied' = copied
                       /\ late' = late /\ requested' = requested /\ due' = due
<1>1. Stutters => UNCHANGED Cycles!vars
  BY DEF Cycles!vars, running, copied, late, requested, due
<1>2. /\ Cycles!MCycle <=>
           /\ ~due /\ due' = TRUE
           /\ oam' = IF Cycles!Copying THEN [oam EXCEPT ![copied] = <<running, copied>>]
                     ELSE oam
           /\ requested' = NoPage
           /\ \/ /\ requested # NoPage
                 /\ running' = requested /\ copied' = 0 /\ late' = Cycles!Copying
              \/ /\ requested = NoPage
                 /\ late' = FALSE
                 /\ IF Cycles!Copying THEN copied' = copied + 1 /\ running' = running
                    ELSE running' = NoPage /\ copied' = 0
  BY DEF Cycles!MCycle, running, copied, late, requested, due
<1>3. Cycles!Access <=>
        due /\ due' = FALSE /\ running' = running /\ copied' = copied /\ late' = late
  BY DEF Cycles!Access, running, copied, late, due
<1>5. Good(dma, dot) /\ NoPage \notin Pages
  BY GoodState, Seen
<1>6. CASE Dot /\ dot # 3
  <2>1. Same(dma, dma') /\ oam' = oam /\ dot' = dot + 1 /\ dot \in 0 .. 3
    BY <1>6, DotSteps
  <2>2. running' = running /\ copied' = copied /\ late' = late /\ requested' = requested
    BY <2>1 DEF Same, running, copied, late, requested
  <2>3. due' = due
    BY <1>6, <2>1 DEF due
  <2> QED
    BY <1>1, <2>1, <2>2, <2>3
<1>7. CASE Dot /\ dot = 3
  <2>1. ~due /\ due' = TRUE
    BY <1>7, DotSteps DEF due
  <2>2. requested' = NoPage
    BY <1>7, DotSteps DEF requested
  <2>3. CASE dma.active /\ dma.index # Size
    <3>1. /\ dma'.active
          /\ oam' = [oam EXCEPT ![dma.index] = <<dma.source, dma.index>>]
          /\ dma.start_pending =>
               dma'.source = dma.pending_source /\ dma'.index = 0 /\ dma'.restart_warmup
          /\ ~dma.start_pending =>
               dma'.source = dma.source /\ dma'.index = dma.index + 1 /\ ~dma'.restart_warmup
      BY <1>7, <2>3, DotSteps
    <3>2. Cycles!Copying /\ running = dma.source /\ copied = dma.index
      BY <2>3, Seen DEF running, copied
    <3>3. oam' = IF Cycles!Copying THEN [oam EXCEPT ![copied] = <<running, copied>>]
                 ELSE oam
      BY <3>1, <3>2
    <3>4. running' = dma'.source /\ copied' = dma'.index
      BY <3>1 DEF running, copied
    <3>5. CASE dma.start_pending
      <4>1. requested = dma.pending_source /\ requested # NoPage
        BY <3>5, Seen DEF requested
      <4>2. late' = Cycles!Copying
        <5>1. late' = TRUE
          BY <3>1, <3>5 DEF late
        <5>2. Cycles!Copying = TRUE
          BY <3>2 DEF Cycles!Copying
        <5> QED
          BY <5>1, <5>2
      <4> QED
        BY <1>2, <2>1, <2>2, <3>1, <3>3, <3>4, <3>5, <4>1, <4>2 DEF Cycles!Next
    <3>6. CASE ~dma.start_pending
      <4>1. requested = NoPage
        BY <3>6 DEF requested
      <4>2. late' = FALSE
        BY <3>1, <3>6 DEF late
      <4>3. IF Cycles!Copying THEN copied' = copied + 1 /\ running' = running
            ELSE running' = NoPage /\ copied' = 0
        BY <3>1, <3>2, <3>4, <3>6
      <4> QED
        BY <1>2, <2>1, <2>2, <3>3, <4>1, <4>2, <4>3 DEF Cycles!Next
    <3> QED
      BY <3>5, <3>6
  <2>4. CASE ~dma.active \/ dma.index = Size
    <3>1. /\ oam' = oam /\ dma'.active = dma.start_pending
          /\ dma.start_pending =>
               dma'.source = dma.pending_source /\ dma'.index = 0 /\ ~dma'.restart_warmup
      BY <1>7, <2>4, DotSteps
    <3>2. ~Cycles!Copying
      BY <2>4, Seen
    <3>3. oam' = IF Cycles!Copying THEN [oam EXCEPT ![copied] = <<running, copied>>]
                 ELSE oam
      BY <3>1, <3>2
    <3>4. late' = FALSE
      BY <3>1 DEF late
    <3>5. CASE dma.start_pending
      <4>1. requested = dma.pending_source /\ requested # NoPage
        BY <3>5, Seen DEF requested
      <4>2. running' = requested /\ copied' = 0
        BY <3>1, <3>5, <4>1 DEF running, copied
      <4>3. late' = Cycles!Copying
        <5>1. Cycles!Copying = FALSE
          BY <3>2 DEF Cycles!Copying
        <5> QED
          BY <3>4, <5>1
      <4> QED
        BY <1>2, <2>1, <2>2, <3>3, <4>1, <4>2, <4>3 DEF Cycles!Next
    <3>6. CASE ~dma.start_pending
      <4>1. requested = NoPage
        BY <3>6 DEF requested
      <4>2. running' = NoPage /\ copied' = 0
        BY <3>1, <3>6 DEF running, copied
      <4> QED
        BY <1>2, <2>1, <2>2, <3>2, <3>3, <3>4, <4>1, <4>2 DEF Cycles!Next
    <3> QED
      BY <3>5, <3>6
  <2> QED
    BY <2>3, <2>4
<1>8. ASSUME Access, UNCHANGED dma
      PROVE  Cycles!Access /\ requested' = requested
  <2>1. dot = 4 /\ dot' = 0 /\ dma' = dma
    BY <1>8 DEF Access
  <2>2. running' = running /\ copied' = copied /\ late' = late /\ requested' = requested
    BY <2>1 DEF running, copied, late, requested
  <2>3. due /\ due' = FALSE
    BY <2>1 DEF due
  <2> QED
    BY <1>3, <2>2, <2>3
<1>9. ASSUME Access, UNCHANGED <<dma, oam>>
      PROVE  Cycles!Next
  <2>1. Cycles!Access /\ requested' = requested /\ oam' = oam
    BY <1>8, <1>9
  <2> QED
    BY <2>1 DEF Cycles!Next, Cycles!NoAccess, requested
<1>10. CASE NoAccess
  BY <1>9, <1>10 DEF NoAccess
<1>11. ASSUME NEW page \in Pages, WriteDma(page)
       PROVE  Cycles!Next
  <2>1. dot = 4 /\ dot' = 0 /\ oam' = oam /\ dma' = Start(dma, page)
    BY <1>11 DEF WriteDma, Access
  <2>2. /\ dma'.active = dma.active /\ dma'.source = dma.source
        /\ dma'.restart_warmup = dma.restart_warmup
        /\ dma.active => dma'.index = dma.index
        /\ dma'.start_pending /\ dma'.pending_source = page
    BY <1>5, <2>1, Asks
  <2>3. running' = running /\ copied' = copied /\ late' = late /\ requested' = page
    BY <2>2 DEF running, copied, late, requested
  <2>4. due /\ due' = FALSE
    BY <2>1 DEF due
  <2>5. Cycles!Access
    BY <1>3, <2>3, <2>4
  <2>6. Cycles!Request(page)
    BY <2>1, <2>3, <2>5 DEF Cycles!Request, requested
  <2> QED
    BY <2>6 DEF Cycles!Next
<1>12. ASSUME NEW i \in Index, WriteOam(i)
       PROVE  Cycles!Next
  <2>1. /\ Access /\ UNCHANGED dma /\ ~BlocksOam(dma)
        /\ oam' = [oam EXCEPT ![i] = CpuByte]
    BY <1>12 DEF WriteOam
  <2>2. Cycles!Access /\ requested' = requested
    BY <1>8, <2>1
  <2>3. dma.active => dma.index = 0 /\ ~dma.restart_warmup
    <3>1. Size \in Nat /\ dma.index \in 0 .. Size
      BY <1>5, OamDmaAssumption DEF Good, DmaState
    <3> QED
      BY <2>1, <3>1 DEF BlocksOam
  <2>4. running = NoPage \/ (copied = 0 /\ ~late)
    BY <2>3 DEF running, copied, late
  <2>5. Cycles!WriteOam(i)
    BY <2>1, <2>2, <2>4 DEF Cycles!WriteOam, running, copied, late, requested
  <2>6. i \in Cycles!Index
    BY DEF Index, Cycles!Index
  <2> QED
    BY <2>5, <2>6 DEF Cycles!Next
<1>13. CASE WriteConflict
  <2>1. /\ Access /\ UNCHANGED dma
        /\ BlocksVideoBus(dma) \/ BlocksMainBus(dma)
        /\ IF dma.source \in RamPages
           THEN oam' = [oam EXCEPT ![ppu.offset - 1] = MixedByte]
           ELSE UNCHANGED oam
    BY <1>13 DEF WriteConflict
  <2>2. CASE dma.source \in RamPages
    <3>1. Cycles!Access /\ requested' = requested
      BY <1>8, <2>1
    <3>2. dma.active /\ dma.index > 0
      BY <2>1 DEF BlocksVideoBus, BlocksMainBus
    <3>3. ppu.offset = dma.index
      BY <3>2 DEF IInv, PpuFollowsDma
    <3>4. running = dma.source /\ copied = dma.index
      BY <3>2 DEF running, copied
    <3>5. dma.source \in Pages \ (VramPages \cup RomPages)
      BY <2>2, OamDmaAssumption DEF Pages
    <3>6. oam' = [oam EXCEPT ![copied - 1] = MixedByte]
      BY <2>1, <2>2, <3>3, <3>4
    <3>7. running \in Pages \ (VramPages \cup RomPages) /\ copied > 0
      BY <3>2, <3>4, <3>5
    <3>8. Cycles!Conflict
      BY <3>1, <3>6, <3>7 DEF Cycles!Conflict, running, copied, requested
    <3> QED
      BY <3>8 DEF Cycles!Next
  <2>3. CASE dma.source \notin RamPages
    BY <1>9, <2>1, <2>3
  <2> QED
    BY <2>2, <2>3
<1>14. CASE Reset
  <2>1. /\ dot = 0 /\ dot' = 0 /\ dma' = FreshDma
        /\ oam' = [i \in Index |-> CpuByte]
    BY <1>14 DEF Reset
  <2>2. dma'.active = FALSE /\ dma'.start_pending = FALSE
    BY <2>1 DEF FreshDma
  <2>3. running' = NoPage /\ copied' = 0 /\ late' = FALSE /\ requested' = NoPage
    BY <2>2 DEF running, copied, late, requested
  <2>4. ~due /\ due' = FALSE
    BY <2>1 DEF due
  <2>5. Cycles!Reset
    BY <2>1, <2>3, <2>4
    DEF Cycles!Reset, Cycles!Index, Index, running, copied, late, requested, due
  <2> QED
    BY <2>5 DEF Cycles!Next
<1>15. CASE UNCHANGED vars
  BY <1>15 DEF vars, Cycles!vars
<1> QED
  BY <1>6, <1>7, <1>10, <1>11, <1>12, <1>13, <1>14, <1>15 DEF Next

\* The dot counters, pending copies and restart flags of OamDma together are the
\* documented transfer: one byte each M-cycle, in order, from the page last asked
\* for, with the start-up M-cycle and the overlap of a restart.
THEOREM DmaIsExactPerMCycle == Spec => ImplementsCycles
<1>1. Init => Cycles!Init
  BY DEF Init, Cycles!Init, FreshDma, Index, Cycles!Index
<1> QED
  BY <1>1, Invariance, NextRefines, PTL DEF Spec, ImplementsCycles, Cycles!Spec
=============================================================================
