--------------------------- MODULE WebSaveProofs ---------------------------
(***************************************************************************)
(* Proofs about WebSave.  The page's invariant is preserved by every       *)
(* member function on its own (one lemma each), so that a handler, which   *)
(* composes member functions, is proved by composing their lemmas.         *)
(***************************************************************************)
EXTENDS WebSave, TLAPS

\* The conjuncts that make the properties inductive.
RequestsAreOld(w) ==
  \A i \in 1 .. Len(w.requests) :
    w.requests[i].op = "load" => w.requests[i].generation <= w.load_generation

DirtyNeedsBattery(w) ==
  /\ w.dirty => w.rom_key \in Battery /\ w.cartridge_ready
  /\ w.rom_key = NoRom => ~w.cartridge_ready /\ w.pending_rom = NoRom

PageInv(w, log) ==
  /\ w \in Page
  /\ w.pending_rom # NoRom => w.load_generation < MaxLoads
  /\ RequestsAreOld(w)
  /\ DirtyNeedsBattery(w)
  /\ StoreAccounting(w)
  /\ LoadAccounting(w)
  /\ PageHoldsOwnSaves(w, log)

IInv ==
  /\ PageInv(web, history)
  /\ idb \in [Roms -> Content \cup {NoSave}]
  /\ \A rom \in Roms : OfGame(history, idb[rom], rom)
  /\ history \in Seq(Roms) /\ Len(history) <= MaxWrites

-----------------------------------------------------------------------------

(* Sequences of requests. *)

LEMMA AppendRequest ==
  ASSUME NEW S, NEW s \in Seq(S), NEW e \in S
  PROVE  /\ Append(s, e) \in Seq(S)
         /\ Len(Append(s, e)) = Len(s) + 1 /\ Len(s) \in Nat
         /\ \A i \in 1 .. Len(s) : Append(s, e)[i] = s[i]
         /\ Append(s, e)[Len(s) + 1] = e
OBVIOUS

LEMMA TailRequest ==
  ASSUME NEW S, NEW s \in Seq(S), s # << >>
  PROVE  /\ Tail(s) \in Seq(S)
         /\ Len(Tail(s)) = Len(s) - 1 /\ Len(s) \in Nat /\ Len(s) > 0
         /\ \A i \in 1 .. Len(s) - 1 : Tail(s)[i] = s[i + 1]
         /\ Head(s) = s[1] /\ s[1] \in S
OBVIOUS

LEMMA StoreRequestType ==
  ASSUME NEW key \in Battery, NEW save \in Content
  PROVE  /\ StoreRequest(key, save) \in Request
         /\ StoreRequest(key, save).op = "store"
         /\ StoreRequest(key, save).key = key
         /\ StoreRequest(key, save).save = save
BY DEF StoreRequest, Request

LEMMA LoadRequestType ==
  ASSUME NEW key \in Battery, NEW generation \in 1 .. MaxLoads
  PROVE  /\ LoadRequest(key, generation) \in Request
         /\ LoadRequest(key, generation).op = "load"
         /\ LoadRequest(key, generation).key = key
         /\ LoadRequest(key, generation).generation = generation
BY DEF LoadRequest, Request

-----------------------------------------------------------------------------
(* Member functions. *)

LEMMA InsertCartridgeType ==
  ASSUME NEW w \in Page, w.pending_rom \in Roms, w.load_generation < MaxLoads
  PROVE  LET v == InsertCartridge(w) IN
         /\ v \in Page
         /\ v.rom_key = w.pending_rom /\ v.pending_rom = NoRom
         /\ v.cartridge_ready = FALSE /\ v.dirty = FALSE
         /\ v.ram = {Blank} /\ v.load_generation = w.load_generation + 1
         /\ v.requests = w.requests /\ v.save_in_flight = w.save_in_flight
         /\ v.save_snapshot = w.save_snapshot /\ v.save_key = w.save_key
<1>1. {Blank} \in Content /\ {} \in SUBSET Changes
  BY DEF Content, NoSave, Blank
<1>2. w.load_generation + 1 \in 0 .. MaxLoads
  BY WebSaveAssumption DEF Page
<1> QED  BY <1>1, <1>2 DEF InsertCartridge, Page

LEMMA OldLoads ==
  ASSUME NEW w \in Page, RequestsAreOld(w),
         NEW i \in 1 .. Len(w.requests), w.requests[i].op = "load"
  PROVE  /\ w.requests[i].generation <= w.load_generation
         /\ w.requests[i].generation \in Nat /\ w.load_generation \in Nat
<1>1. w.requests[i] \in Request
  <2>1. w.requests \in Seq(Request)
    BY DEF Page
  <2> QED  BY <2>1
<1>2. w.load_generation \in Nat
  BY WebSaveAssumption DEF Page
<1> QED  BY <1>1, <1>2, WebSaveAssumption DEF RequestsAreOld, Request

\* Inserting a cartridge needs no invariant of the one it replaces.
LEMMA InstallNewInv ==
  ASSUME NEW w \in Page, NEW log, w.pending_rom # NoRom, w.load_generation < MaxLoads,
         RequestsAreOld(w), StoreAccounting(w), PageHoldsOwnSaves(w, log)
  PROVE  PageInv(InstallPendingRom(w), log)
<1> DEFINE v == InsertCartridge(w)
           r == LoadRequest(v.rom_key, v.load_generation)
           u == [v EXCEPT !.requests = Append(@, r)]
           f == FinishRomLoad(v)
<1>1. w \in Page /\ w.pending_rom \in Roms /\ w.load_generation < MaxLoads
      /\ w.load_generation \in Nat /\ w.requests \in Seq(Request)
  BY WebSaveAssumption DEF Page
<1>2. /\ v \in Page
      /\ v.rom_key = w.pending_rom /\ v.pending_rom = NoRom
      /\ v.cartridge_ready = FALSE /\ v.dirty = FALSE
      /\ v.ram = {Blank} /\ v.load_generation = w.load_generation + 1
      /\ v.requests = w.requests /\ v.save_in_flight = w.save_in_flight
      /\ v.save_snapshot = w.save_snapshot /\ v.save_key = w.save_key
  BY <1>1, InsertCartridgeType
<1> HIDE DEF v
<1>2a. \A i \in 1 .. Len(w.requests) :
         w.requests[i].op = "load" =>
           w.requests[i].generation <= w.load_generation /\ w.requests[i].generation \in Nat
  BY OldLoads
<1>3. v.load_generation \in 1 .. MaxLoads
  BY <1>1, <1>2, WebSaveAssumption
<1>4. v.rom_key # NoRom
  BY <1>1, <1>2, WebSaveAssumption
<1>5. CASE v.rom_key \in Battery
  <2>1. r \in Request /\ r.op = "load" /\ r.key = v.rom_key /\ r.generation = v.load_generation
    BY <1>3, <1>5, LoadRequestType
  <2> HIDE DEF r
  <2>2. /\ u.requests \in Seq(Request)
        /\ Len(u.requests) = Len(w.requests) + 1 /\ Len(w.requests) \in Nat
        /\ \A i \in 1 .. Len(w.requests) : u.requests[i] = w.requests[i]
        /\ u.requests[Len(w.requests) + 1] = r
    <3>1. u.requests = Append(w.requests, r)
      BY <1>2 DEF Page
    <3> HIDE DEF u
    <3> QED  BY <1>1, <2>1, <3>1, AppendRequest
  <2>3. /\ u \in Page
        /\ u.rom_key = v.rom_key /\ u.pending_rom = NoRom
        /\ u.cartridge_ready = FALSE /\ u.dirty = FALSE
        /\ u.ram = {Blank} /\ u.load_generation = v.load_generation
        /\ u.save_in_flight = w.save_in_flight
        /\ u.save_snapshot = w.save_snapshot /\ u.save_key = w.save_key
    <3>1. Append(v.requests, r) \in Seq(Request)
      BY <1>1, <1>2, <2>1, AppendRequest
    <3> QED  BY <1>2, <3>1, ZenonT(60) DEF Page
  <2> HIDE DEF u
  <2>4. StoresIn(u) = StoresIn(w)
    BY <2>1, <2>2 DEF StoresIn
  <2>5. CurrentLoads(u) = {Len(w.requests) + 1}
    <3>1. \A i \in 1 .. Len(w.requests) :
            w.requests[i].op = "load" => w.requests[i].generation # u.load_generation
      BY <1>1, <1>2, <1>2a, <2>3
    <3> QED  BY <2>1, <2>2, <2>3, <3>1 DEF CurrentLoads, Current
  <2>6. RequestsAreOld(u)
    <3> SUFFICES ASSUME NEW i \in 1 .. Len(u.requests), u.requests[i].op = "load"
                 PROVE  u.requests[i].generation <= u.load_generation
      BY DEF RequestsAreOld
    <3>1. CASE i = Len(w.requests) + 1
      BY <1>3, <2>1, <2>2, <2>3, <3>1
    <3>2. CASE i \in 1 .. Len(w.requests)
      <4>1. u.requests[i] = w.requests[i]
        BY <2>2, <3>2
      <4>2. u.requests[i].generation <= w.load_generation /\ u.requests[i].generation \in Nat
        BY <1>2a, <3>2, <4>1
      <4>3. u.load_generation = w.load_generation + 1
        BY <1>2, <2>3
      <4> QED  BY <1>1, <4>2, <4>3
    <3> QED  BY <2>2, <3>1, <3>2
  <2>7. StoreAccounting(u)
    BY <2>3, <2>4 DEF PageInv, StoreAccounting
  <2>8. LoadAccounting(u)
    BY <1>4, <2>1, <2>2, <2>3, <2>5 DEF LoadAccounting
  <2>9. PageHoldsOwnSaves(u, log)
    <3>1. \A i \in StoresIn(u) : u.requests[i] = w.requests[i]
      BY <2>2, <2>4 DEF StoresIn
    <3> QED  BY <2>3, <2>4, <3>1 DEF PageInv, PageHoldsOwnSaves, OfGame
  <2>10. PageInv(u, log)
    BY <1>4, <2>3, <2>6, <2>7, <2>8, <2>9 DEF PageInv, DirtyNeedsBattery
  <2> QED  BY <1>5, <2>10 DEF InstallPendingRom, v, u, r
<1>6. CASE v.rom_key \notin Battery
  <2>1. /\ f \in Page
        /\ f.rom_key = v.rom_key /\ f.pending_rom = NoRom
        /\ f.cartridge_ready = TRUE /\ f.dirty = FALSE
        /\ f.ram = {Blank} /\ f.load_generation = v.load_generation
        /\ f.requests = w.requests /\ f.save_in_flight = w.save_in_flight
        /\ f.save_snapshot = w.save_snapshot /\ f.save_key = w.save_key
    BY <1>2, ZenonT(60) DEF FinishRomLoad, Page
  <2> HIDE DEF f
  <2>3. RequestsAreOld(f) /\ CurrentLoads(f) = {}
    BY <1>1, <1>2, <1>2a, <2>1 DEF RequestsAreOld, CurrentLoads, Current
  <2>4. StoresIn(f) = StoresIn(w)
    BY <2>1 DEF StoresIn
  <2>5. StoreAccounting(f) /\ LoadAccounting(f) /\ PageHoldsOwnSaves(f, log)
    BY <1>4, <2>1, <2>3, <2>4
       DEF PageInv, StoreAccounting, LoadAccounting, PageHoldsOwnSaves, OfGame
  <2>6. PageInv(f, log)
    BY <1>4, <2>1, <2>3, <2>5 DEF PageInv, DirtyNeedsBattery
  <2> QED  BY <1>6, <2>6 DEF InstallPendingRom, v, f
<1> QED  BY <1>5, <1>6

LEMMA InstallInv ==
  ASSUME NEW w, NEW log, PageInv(w, log), w.pending_rom # NoRom
  PROVE  PageInv(InstallPendingRom(w), log)
BY InstallNewInv DEF PageInv

\* A member function that leaves the requests, the cartridge and the snapshot
\* alone has to keep only the RAM's owner and the dirty flag's precondition.
LEMMA Frame ==
  ASSUME NEW w, NEW v \in Page, NEW log, PageInv(w, log),
         v.requests = w.requests, v.load_generation = w.load_generation,
         v.rom_key = w.rom_key, v.cartridge_ready = w.cartridge_ready,
         v.pending_rom = w.pending_rom, v.save_in_flight = w.save_in_flight,
         v.save_snapshot = w.save_snapshot, v.save_key = w.save_key,
         OfGame(log, v.ram, v.rom_key), DirtyNeedsBattery(v)
  PROVE  PageInv(v, log)
<1>1. StoresIn(v) = StoresIn(w) /\ CurrentLoads(v) = CurrentLoads(w)
  BY DEF StoresIn, CurrentLoads, Current
<1>2. StoreAccounting(v)
  BY <1>1 DEF PageInv, StoreAccounting
<1>3. LoadAccounting(v)
  BY <1>1 DEF PageInv, LoadAccounting
<1>4. PageHoldsOwnSaves(v, log)
  BY <1>1 DEF PageInv, PageHoldsOwnSaves
<1>5. RequestsAreOld(v)
  BY DEF PageInv, RequestsAreOld
<1> QED  BY <1>2, <1>3, <1>4, <1>5 DEF PageInv

LEMMA CompleteInv ==
  ASSUME NEW w, NEW log, PageInv(w, log)
  PROVE  PageInv(CompletePendingActions(w), log)
<1> DEFINE v == [w EXCEPT !.reset_pending = FALSE]
<1>1. PageInv(v, log)
  <2>1. w \in Page
    BY DEF PageInv
  <2>2. /\ v \in Page
        /\ v.requests = w.requests /\ v.load_generation = w.load_generation
        /\ v.rom_key = w.rom_key /\ v.cartridge_ready = w.cartridge_ready
        /\ v.pending_rom = w.pending_rom /\ v.save_in_flight = w.save_in_flight
        /\ v.save_snapshot = w.save_snapshot /\ v.save_key = w.save_key
        /\ v.ram = w.ram /\ v.dirty = w.dirty
    BY <2>1, ZenonT(60) DEF Page
  <2> HIDE DEF v
  <2>3. OfGame(log, v.ram, v.rom_key) /\ DirtyNeedsBattery(v)
    BY <2>2 DEF PageInv, PageHoldsOwnSaves, DirtyNeedsBattery
  <2> QED  BY <2>2, <2>3, Frame
<1> QED  BY <1>1, InstallInv DEF CompletePendingActions

LEMMA TakeSnapshotInv ==
  ASSUME NEW w, NEW log, PageInv(w, log), w.dirty, ~w.save_in_flight
  PROVE  LET v == TakeSnapshot(w) IN
         PageInv(v, log) /\ ~v.save_in_flight /\ v.save_snapshot # NoSave
<1> DEFINE v == TakeSnapshot(w)
<1>1. w \in Page /\ w.rom_key \in Battery /\ w.cartridge_ready /\ w.rom_key # NoRom
      /\ w.ram \in Content
  BY WebSaveAssumption DEF PageInv, DirtyNeedsBattery, Page
<1>2. /\ v \in Page
      /\ v.requests = w.requests /\ v.load_generation = w.load_generation
      /\ v.rom_key = w.rom_key /\ v.cartridge_ready = w.cartridge_ready
      /\ v.pending_rom = w.pending_rom /\ v.save_in_flight = w.save_in_flight
      /\ v.save_snapshot = w.ram /\ v.save_key = w.rom_key
      /\ v.ram = w.ram /\ v.dirty = FALSE
  BY <1>1 DEF TakeSnapshot, Page
<1> HIDE DEF v
<1>3. v.save_snapshot # NoSave
  BY <1>1, <1>2 DEF Content
<1>4. StoresIn(v) = StoresIn(w) /\ CurrentLoads(v) = CurrentLoads(w)
  BY <1>2 DEF StoresIn, CurrentLoads, Current
<1>5. StoreAccounting(v)
  BY <1>1, <1>2, <1>3, <1>4 DEF PageInv, StoreAccounting
<1>6. LoadAccounting(v)
  BY <1>2, <1>4 DEF PageInv, LoadAccounting
<1>7. PageHoldsOwnSaves(v, log)
  BY <1>2, <1>4 DEF PageInv, PageHoldsOwnSaves
<1>8. RequestsAreOld(v) /\ DirtyNeedsBattery(v)
  BY <1>1, <1>2 DEF PageInv, RequestsAreOld, DirtyNeedsBattery
<1> QED  BY <1>2, <1>3, <1>5, <1>6, <1>7, <1>8 DEF PageInv, v

LEMMA IssueStoreInv ==
  ASSUME NEW w, NEW log, PageInv(w, log), ~w.save_in_flight, w.save_snapshot # NoSave
  PROVE  PageInv(IssueStore(w), log)
<1> DEFINE v == IssueStore(w)
           r == StoreRequest(w.save_key, w.save_snapshot)
           n == Len(w.requests)
<1>1. w \in Page /\ w.save_key \in Battery /\ w.save_snapshot \in Content
      /\ w.requests \in Seq(Request)
  BY DEF PageInv, StoreAccounting, Page
<1>2. r \in Request /\ r.op = "store" /\ r.key = w.save_key /\ r.save = w.save_snapshot
  BY <1>1, StoreRequestType
<1> HIDE DEF r
<1>3. /\ Append(w.requests, r) \in Seq(Request)
      /\ Len(Append(w.requests, r)) = n + 1 /\ n \in Nat
      /\ \A i \in 1 .. n : Append(w.requests, r)[i] = w.requests[i]
      /\ Append(w.requests, r)[n + 1] = r
  BY <1>1, <1>2, AppendRequest
<1>4. /\ v \in Page
      /\ v.requests = Append(w.requests, r) /\ v.load_generation = w.load_generation
      /\ v.rom_key = w.rom_key /\ v.cartridge_ready = w.cartridge_ready
      /\ v.pending_rom = w.pending_rom /\ v.save_in_flight = TRUE
      /\ v.save_snapshot = w.save_snapshot /\ v.save_key = w.save_key
      /\ v.ram = w.ram /\ v.dirty = w.dirty
  BY <1>1, <1>3 DEF IssueStore, Page, r
<1> HIDE DEF v
<1>5. StoresIn(v) = {n + 1}
  <2>1. StoresIn(w) = {}
    BY DEF PageInv, StoreAccounting
  <2> QED  BY <1>2, <1>3, <1>4, <2>1 DEF StoresIn
<1>6. CurrentLoads(v) = CurrentLoads(w)
  BY <1>2, <1>3, <1>4 DEF CurrentLoads, Current
<1>7. StoreAccounting(v)
  BY <1>4, <1>5 DEF PageInv, StoreAccounting
<1>8. LoadAccounting(v)
  <2>1. \A i \in CurrentLoads(v) : v.requests[i] = w.requests[i]
    BY <1>3, <1>4, <1>6 DEF CurrentLoads
  <2> QED  BY <1>4, <1>6, <2>1 DEF PageInv, LoadAccounting
<1>9. PageHoldsOwnSaves(v, log)
  BY <1>2, <1>3, <1>4, <1>5 DEF PageInv, PageHoldsOwnSaves
<1>10. RequestsAreOld(v)
  BY <1>2, <1>3, <1>4 DEF PageInv, RequestsAreOld
<1>11. DirtyNeedsBattery(v)
  BY <1>4 DEF PageInv, DirtyNeedsBattery
<1> QED  BY <1>4, <1>7, <1>8, <1>9, <1>10, <1>11 DEF PageInv, v

LEMMA SaveNowInv ==
  ASSUME NEW w, NEW log, PageInv(w, log), ~w.save_in_flight
  PROVE  PageInv(SaveNow(w), log)
<1>1. CASE w.dirty
  <2>1. /\ PageInv(TakeSnapshot(w), log) /\ ~TakeSnapshot(w).save_in_flight
        /\ TakeSnapshot(w).save_snapshot # NoSave
    BY <1>1, TakeSnapshotInv
  <2>2. PageInv(IssueStore(TakeSnapshot(w)), log)
    BY <2>1, IssueStoreInv
  <2> QED  BY <1>1, <2>2, IssueStoreInv DEF SaveNow
<1>2. CASE ~w.dirty
  BY <1>2, IssueStoreInv, CompleteInv DEF SaveNow, Superseded
<1> QED  BY <1>1, <1>2

LEMMA StartSaveInv ==
  ASSUME NEW w, NEW log, PageInv(w, log)
  PROVE  PageInv(StartSave(w), log)
BY SaveNowInv DEF StartSave

LEMMA FlushInv ==
  ASSUME NEW w, NEW log, PageInv(w, log)
  PROVE  PageInv(Flush(w), log)
BY StartSaveInv, CompleteInv DEF Flush

\* What ObserveRevision, PassTime and AdvanceClock have in common.
SameCartridge(v, w) ==
  /\ v \in Page
  /\ v.requests = w.requests /\ v.load_generation = w.load_generation
  /\ v.rom_key = w.rom_key /\ v.cartridge_ready = w.cartridge_ready
  /\ v.pending_rom = w.pending_rom /\ v.save_in_flight = w.save_in_flight
  /\ v.save_snapshot = w.save_snapshot /\ v.save_key = w.save_key
  /\ v.ram = w.ram

LEMMA SameCartridgeInv ==
  ASSUME NEW w, NEW v, NEW log, PageInv(w, log), SameCartridge(v, w),
         v.dirty => w.dirty \/ (w.rom_key \in Battery /\ w.cartridge_ready)
  PROVE  PageInv(v, log)
<1>1. OfGame(log, v.ram, v.rom_key)
  BY DEF PageInv, PageHoldsOwnSaves, SameCartridge
<1>2. DirtyNeedsBattery(v)
  BY DEF PageInv, DirtyNeedsBattery, SameCartridge
<1> QED  BY <1>1, <1>2, Frame DEF SameCartridge

LEMMA ObserveInv ==
  ASSUME NEW w, NEW log, PageInv(w, log)
  PROVE  PageInv(ObserveRevision(w), log)
<1> DEFINE v == ObserveRevision(w)
<1>1. w \in Page
  BY DEF PageInv
<1>2. SameCartridge(v, w) /\ v.dirty = w.dirty
  <2> DEFINE age == IF w.dirty_age = Never THEN 0 ELSE w.dirty_age
             u == [w EXCEPT !.unobserved = FALSE, !.quiet_age = 0, !.dirty_age = age]
  <2>1. age \in 0 .. MaxDirty \cup {Never} /\ 0 \in 0 .. Debounce \cup {Never}
    BY <1>1, WebSaveAssumption DEF Page
  <2>2. SameCartridge(u, w) /\ u.dirty = w.dirty
    <3> HIDE DEF age
    <3>1. u \in Page
      BY <1>1, <2>1 DEF Page
    <3> QED  BY <1>1, <3>1 DEF Page, SameCartridge
  <2>3. v = IF w.unobserved THEN u ELSE w
    BY DEF ObserveRevision
  <2>4. SameCartridge(w, w)
    BY <1>1 DEF SameCartridge
  <2> HIDE DEF u, v
  <2> QED  BY <2>2, <2>3, <2>4
<1> QED  BY <1>2, SameCartridgeInv DEF v

LEMMA OlderType ==
  ASSUME NEW limit \in Nat, NEW age \in 0 .. limit \cup {Never}
  PROVE  Older(age, limit) \in 0 .. limit \cup {Never}
BY WebSaveAssumption DEF Older

LEMMA PassTimeInv ==
  ASSUME NEW w, NEW log, PageInv(w, log)
  PROVE  PageInv(PassTime(w), log)
<1> DEFINE v == PassTime(w)
<1>1. w \in Page
  BY DEF PageInv
<1>2. Older(w.dirty_age, MaxDirty) \in 0 .. MaxDirty \cup {Never}
      /\ Older(w.quiet_age, Debounce) \in 0 .. Debounce \cup {Never}
  BY <1>1, WebSaveAssumption, OlderType DEF Page
<1>3. (IF w.retry_wait = 0 THEN 0 ELSE w.retry_wait - 1) \in 0 .. Retry
  BY <1>1, WebSaveAssumption DEF Page
<1>4. SameCartridge(v, w) /\ v.dirty = w.dirty
  <2> DEFINE d == Older(w.dirty_age, MaxDirty)
             q == Older(w.quiet_age, Debounce)
             r == IF w.retry_wait = 0 THEN 0 ELSE w.retry_wait - 1
             u == [w EXCEPT !.dirty_age = d, !.quiet_age = q, !.retry_wait = r]
  <2>1. v = u
    BY DEF PassTime
  <2>1a. d \in 0 .. MaxDirty \cup {Never} /\ q \in 0 .. Debounce \cup {Never} /\ r \in 0 .. Retry
    BY <1>2, <1>3
  <2> HIDE DEF d, q, r
  <2>2. u \in Page
    BY <1>1, <2>1a DEF Page
  <2>3. SameCartridge(u, w) /\ u.dirty = w.dirty
    BY <1>1, <2>2 DEF Page, SameCartridge
  <2> HIDE DEF u, v
  <2> QED  BY <2>1, <2>3
<1> QED  BY <1>4, SameCartridgeInv DEF v

LEMMA UpdateInv ==
  ASSUME NEW w, NEW log, PageInv(w, log)
  PROVE  PageInv(UpdatePersistence(w), log)
BY ObserveInv, StartSaveInv DEF UpdatePersistence

LEMMA AdvanceClockInv ==
  ASSUME NEW w, NEW log, PageInv(w, log), NEW moved \in BOOLEAN,
         moved => Ready(w) /\ w.rom_key \in Battery
  PROVE  PageInv(AdvanceClock(w, moved), log)
<1> DEFINE v == AdvanceClock(w, moved)
<1>1. w \in Page
  BY DEF PageInv
<1>2. SameCartridge(v, w) /\ (v.dirty => w.dirty \/ moved)
  <2>1. CASE moved
    <3>1. v = [w EXCEPT !.dirty = TRUE, !.unobserved = TRUE]
      BY <2>1 DEF AdvanceClock
    <3>2. v \in Page
      BY <1>1, <3>1 DEF Page
    <3> QED  BY <1>1, <2>1, <3>1, <3>2, ZenonT(60) DEF Page, SameCartridge
  <2>2. CASE ~moved
    BY <1>1, <2>2 DEF AdvanceClock, SameCartridge
  <2> QED  BY <2>1, <2>2
<1> QED  BY <1>2, SameCartridgeInv DEF v, Ready

\* A change appended to the log leaves every earlier change with its game.
LEMMA LogGrows ==
  ASSUME NEW w, NEW log \in Seq(Roms), NEW rom \in Roms, PageInv(w, log)
  PROVE  PageInv(w, Append(log, rom))
<1>1. \A save, key : OfGame(log, save, key) => OfGame(Append(log, rom), save, key)
  BY DEF OfGame
<1> QED  BY <1>1 DEF PageInv, PageHoldsOwnSaves

\* The page after the RAM was replaced by, or came to contain, a given content.
LEMMA NewRamInv ==
  ASSUME NEW w, NEW v \in Page, NEW log, PageInv(w, log),
         Ready(w), w.rom_key \in Battery,
         v.requests = w.requests, v.load_generation = w.load_generation,
         v.rom_key = w.rom_key, v.cartridge_ready = w.cartridge_ready,
         v.pending_rom = w.pending_rom, v.save_in_flight = w.save_in_flight,
         v.save_snapshot = w.save_snapshot, v.save_key = w.save_key,
         OfGame(log, v.ram, w.rom_key)
  PROVE  PageInv(v, log)
<1>1. DirtyNeedsBattery(v)
  BY DEF PageInv, DirtyNeedsBattery, Ready
<1> QED  BY <1>1, Frame

LEMMA NewChange ==
  ASSUME NEW log \in Seq(Roms), NEW rom \in Roms, Len(log) < MaxWrites
  PROVE  /\ Len(log) + 1 \in Changes
         /\ Append(log, rom) \in Seq(Roms)
         /\ Len(Append(log, rom)) <= MaxWrites
         /\ Append(log, rom)[Len(log) + 1] = rom
         /\ Len(log) + 1 \in 1 .. Len(Append(log, rom))
BY WebSaveAssumption DEF Changes

LEMMA WriteRamInv ==
  ASSUME NEW w, NEW log \in Seq(Roms), PageInv(w, log), Len(log) < MaxWrites,
         Ready(w), w.rom_key \in Battery
  PROVE  PageInv(WriteRam(w, Len(log) + 1), Append(log, w.rom_key))
<1> DEFINE n == Len(log) + 1
           v == WriteRam(w, n)
           grown == Append(log, w.rom_key)
<1>1. w \in Page /\ w.rom_key \in Roms /\ w.ram \in Content /\ w.made \in SUBSET Changes
  BY WebSaveAssumption DEF PageInv, Page
<1>2. n \in Changes /\ grown[n] = w.rom_key /\ n \in 1 .. Len(grown)
  BY <1>1, NewChange
<1>3. w.ram \cup {n} \in Content /\ w.made \cup {n} \in SUBSET Changes
  BY <1>1, <1>2 DEF Content, NoSave
<1>4. /\ v \in Page
      /\ v.requests = w.requests /\ v.load_generation = w.load_generation
      /\ v.rom_key = w.rom_key /\ v.cartridge_ready = w.cartridge_ready
      /\ v.pending_rom = w.pending_rom /\ v.save_in_flight = w.save_in_flight
      /\ v.save_snapshot = w.save_snapshot /\ v.save_key = w.save_key
      /\ v.ram = w.ram \cup {n}
  <2> HIDE DEF n
  <2> QED  BY <1>1, <1>3 DEF WriteRam, Page
<1>5. PageInv(w, grown)
  BY <1>1, LogGrows
<1>6. OfGame(grown, w.ram, w.rom_key)
  BY <1>5 DEF PageInv, PageHoldsOwnSaves
<1>7. OfGame(grown, v.ram, w.rom_key)
  <2> HIDE DEF n, v, grown
  <2> QED  BY <1>2, <1>4, <1>6 DEF OfGame
<1> QED
  <2> HIDE DEF v, grown
  <2>1. PageInv(v, grown)
    BY <1>4, <1>5, <1>7, NewRamInv
  <2> QED  BY <2>1 DEF v, grown

-----------------------------------------------------------------------------
(* Answers of the database. *)

\* Taking the first request off the queue, whatever else the callback changes.
LEMMA TailShifts ==
  ASSUME NEW w \in Page, NEW v, w.requests # << >>, v.requests = Tail(w.requests),
         v.load_generation = w.load_generation
  PROVE  /\ Tail(w.requests) \in Seq(Request)
         /\ Head(w.requests) = w.requests[1] /\ w.requests[1] \in Request
         /\ 1 \in 1 .. Len(w.requests) /\ Len(w.requests) \in Nat
         /\ Len(v.requests) = Len(w.requests) - 1
         /\ \A i \in 1 .. Len(v.requests) : v.requests[i] = w.requests[i + 1]
         /\ \A i \in 1 .. Len(v.requests) : i + 1 \in 1 .. Len(w.requests)
         /\ \A i \in 1 .. Len(v.requests) : i \in StoresIn(v) <=> i + 1 \in StoresIn(w)
         /\ \A i \in 1 .. Len(v.requests) : i \in CurrentLoads(v) <=> i + 1 \in CurrentLoads(w)
         /\ StoresIn(v) \subseteq 1 .. Len(v.requests)
         /\ CurrentLoads(v) \subseteq 1 .. Len(v.requests)
         /\ RequestsAreOld(w) => RequestsAreOld(v)
<1>1. w.requests \in Seq(Request)
  BY DEF Page
<1>2. /\ Tail(w.requests) \in Seq(Request)
      /\ Len(Tail(w.requests)) = Len(w.requests) - 1
      /\ Len(w.requests) \in Nat /\ Len(w.requests) > 0
      /\ \A i \in 1 .. Len(w.requests) - 1 : Tail(w.requests)[i] = w.requests[i + 1]
      /\ Head(w.requests) = w.requests[1] /\ w.requests[1] \in Request
  BY <1>1, TailRequest
<1>3. \A i \in 1 .. Len(v.requests) : i + 1 \in 1 .. Len(w.requests)
  BY <1>2
<1>4. \A i \in 1 .. Len(v.requests) : v.requests[i] = w.requests[i + 1]
  BY <1>2
<1>5. \A i \in 1 .. Len(v.requests) : i \in StoresIn(v) <=> i + 1 \in StoresIn(w)
  BY <1>3, <1>4 DEF StoresIn
<1>6. \A i \in 1 .. Len(v.requests) : i \in CurrentLoads(v) <=> i + 1 \in CurrentLoads(w)
  BY <1>3, <1>4 DEF CurrentLoads, Current
<1>7. StoresIn(v) \subseteq 1 .. Len(v.requests) /\ CurrentLoads(v) \subseteq 1 .. Len(v.requests)
  BY DEF StoresIn, CurrentLoads
<1>8. RequestsAreOld(w) => RequestsAreOld(v)
  BY <1>3, <1>4 DEF RequestsAreOld
<1> QED  BY <1>2, <1>3, <1>4, <1>5, <1>6, <1>7, <1>8

\* The answered store was the only one; the loads behind it keep their order.
LEMMA StoreAnswered ==
  ASSUME NEW w, NEW v \in Page, NEW log, PageInv(w, log),
         w.requests # << >>, Head(w.requests).op = "store",
         v.requests = Tail(w.requests), v.load_generation = w.load_generation,
         v.rom_key = w.rom_key, v.cartridge_ready = w.cartridge_ready,
         v.pending_rom = w.pending_rom, v.ram = w.ram, v.dirty = w.dirty,
         v.save_in_flight = FALSE,
         \/ v.save_snapshot = NoSave /\ v.save_key = NoRom
         \/ v.save_snapshot = w.save_snapshot /\ v.save_key = w.save_key
  PROVE  PageInv(v, log)
<1>1. w \in Page
  BY DEF PageInv
<1>2. /\ Head(w.requests) = w.requests[1] /\ w.requests[1] \in Request
      /\ 1 \in 1 .. Len(w.requests) /\ Len(w.requests) \in Nat
      /\ Len(v.requests) = Len(w.requests) - 1
      /\ \A i \in 1 .. Len(v.requests) : v.requests[i] = w.requests[i + 1]
      /\ \A i \in 1 .. Len(v.requests) : i + 1 \in 1 .. Len(w.requests)
      /\ \A i \in 1 .. Len(v.requests) : i \in StoresIn(v) <=> i + 1 \in StoresIn(w)
      /\ \A i \in 1 .. Len(v.requests) : i \in CurrentLoads(v) <=> i + 1 \in CurrentLoads(w)
      /\ StoresIn(v) \subseteq 1 .. Len(v.requests)
      /\ CurrentLoads(v) \subseteq 1 .. Len(v.requests)
      /\ RequestsAreOld(w) => RequestsAreOld(v)
  BY <1>1, TailShifts
<1>3. 1 \in StoresIn(w) /\ 1 \notin CurrentLoads(w)
  BY <1>2 DEF StoresIn, CurrentLoads
<1>4. StoresIn(v) = {}
  <2>1. \A i \in StoresIn(v) : i \in 1 .. Len(v.requests) /\ i + 1 = 1
    BY <1>2, <1>3 DEF PageInv, StoreAccounting
  <2> QED  BY <1>2, <2>1
<1>5. StoreAccounting(v)
  BY <1>4 DEF PageInv, StoreAccounting
<1>6. LoadAccounting(v)
  <2>1. \A j \in CurrentLoads(w) : j - 1 \in CurrentLoads(v)
    <3> SUFFICES ASSUME NEW j \in CurrentLoads(w) PROVE j - 1 \in CurrentLoads(v)
      OBVIOUS
    <3>1. j \in 1 .. Len(w.requests) /\ j # 1
      BY <1>3 DEF CurrentLoads
    <3>2. j - 1 \in 1 .. Len(v.requests) /\ (j - 1) + 1 = j
      BY <1>2, <3>1
    <3> QED  BY <1>2, <3>2
  <2>2. \A i \in CurrentLoads(v) : i \in 1 .. Len(v.requests) /\ i + 1 \in CurrentLoads(w)
    BY <1>2
  <2>3. CurrentLoads(v) # {} <=> CurrentLoads(w) # {}
    BY <2>1, <2>2
  <2>4. \A i, j \in CurrentLoads(v) : i = j
    <3>1. \A i, j \in CurrentLoads(w) : i = j
      BY DEF PageInv, LoadAccounting
    <3> QED  BY <1>2, <2>2, <3>1
  <2>5. \A i \in CurrentLoads(v) : v.requests[i].key = v.rom_key
    BY <1>2, <2>2 DEF PageInv, LoadAccounting
  <2> QED  BY <2>3, <2>4, <2>5 DEF PageInv, LoadAccounting
<1>7. PageHoldsOwnSaves(v, log)
  BY <1>4 DEF PageInv, PageHoldsOwnSaves, OfGame, NoSave
<1>8. DirtyNeedsBattery(v)
  BY DEF PageInv, DirtyNeedsBattery
<1> QED  BY <1>2, <1>5, <1>6, <1>7, <1>8 DEF PageInv

\* A load that is answered was no store; the store behind it stays accounted for.
LEMMA LoadAnswered ==
  ASSUME NEW w, NEW v \in Page, NEW log, PageInv(w, log),
         w.requests # << >>, Head(w.requests).op = "load",
         v.requests = Tail(w.requests), v.load_generation = w.load_generation,
         v.save_in_flight = w.save_in_flight,
         v.save_snapshot = w.save_snapshot, v.save_key = w.save_key,
         OfGame(log, v.ram, v.rom_key)
  PROVE  StoreAccounting(v) /\ PageHoldsOwnSaves(v, log) /\ RequestsAreOld(v)
<1>1. w \in Page
  BY DEF PageInv
<1>2. /\ Head(w.requests) = w.requests[1]
      /\ Len(w.requests) \in Nat
      /\ Len(v.requests) = Len(w.requests) - 1
      /\ \A i \in 1 .. Len(v.requests) : v.requests[i] = w.requests[i + 1]
      /\ \A i \in 1 .. Len(v.requests) : i \in StoresIn(v) <=> i + 1 \in StoresIn(w)
      /\ StoresIn(v) \subseteq 1 .. Len(v.requests)
      /\ RequestsAreOld(w) => RequestsAreOld(v)
  BY <1>1, TailShifts
<1>3. 1 \notin StoresIn(w)
  BY <1>2 DEF StoresIn
<1>4. \A j \in StoresIn(w) : j - 1 \in StoresIn(v)
  <2> SUFFICES ASSUME NEW j \in StoresIn(w) PROVE j - 1 \in StoresIn(v)
    OBVIOUS
  <2>1. j \in 1 .. Len(w.requests) /\ j # 1
    BY <1>3 DEF StoresIn
  <2>2. j - 1 \in 1 .. Len(v.requests) /\ (j - 1) + 1 = j
    BY <1>2, <2>1
  <2> QED  BY <1>2, <2>2
<1>5. \A i \in StoresIn(v) : i \in 1 .. Len(v.requests) /\ i + 1 \in StoresIn(w)
  BY <1>2
<1>6. StoreAccounting(v)
  <2>1. StoresIn(v) # {} <=> StoresIn(w) # {}
    BY <1>4, <1>5
  <2>2. \A i, j \in StoresIn(v) : i = j
    <3>1. \A i, j \in StoresIn(w) : i = j
      BY DEF PageInv, StoreAccounting
    <3> QED  BY <1>2, <1>5, <3>1
  <2> QED  BY <2>1, <2>2 DEF PageInv, StoreAccounting
<1>7. PageHoldsOwnSaves(v, log)
  BY <1>2, <1>5 DEF PageInv, PageHoldsOwnSaves
<1> QED  BY <1>2, <1>6, <1>7 DEF PageInv

LEMMA LoadIgnored ==
  ASSUME NEW w, NEW v \in Page, NEW log, PageInv(w, log),
         w.requests # << >>, Head(w.requests).op = "load", ~Current(Head(w.requests), w),
         v.requests = Tail(w.requests), v.load_generation = w.load_generation,
         v.rom_key = w.rom_key, v.cartridge_ready = w.cartridge_ready,
         v.pending_rom = w.pending_rom, v.save_in_flight = w.save_in_flight,
         v.save_snapshot = w.save_snapshot, v.save_key = w.save_key,
         v.ram = w.ram, v.dirty = w.dirty
  PROVE  PageInv(v, log)
<1>1. w \in Page
  BY DEF PageInv
<1>3. /\ Head(w.requests) = w.requests[1]
      /\ 1 \in 1 .. Len(w.requests) /\ Len(w.requests) \in Nat
      /\ Len(v.requests) = Len(w.requests) - 1
      /\ \A i \in 1 .. Len(v.requests) : v.requests[i] = w.requests[i + 1]
      /\ \A i \in 1 .. Len(v.requests) : i \in CurrentLoads(v) <=> i + 1 \in CurrentLoads(w)
      /\ CurrentLoads(v) \subseteq 1 .. Len(v.requests)
  BY <1>1, TailShifts
<1>4. 1 \notin CurrentLoads(w)
  BY <1>3 DEF CurrentLoads
<1>5. \A j \in CurrentLoads(w) : j - 1 \in CurrentLoads(v)
  <2> SUFFICES ASSUME NEW j \in CurrentLoads(w) PROVE j - 1 \in CurrentLoads(v)
    OBVIOUS
  <2>1. j \in 1 .. Len(w.requests) /\ j # 1
    BY <1>4 DEF CurrentLoads
  <2>2. j - 1 \in 1 .. Len(v.requests) /\ (j - 1) + 1 = j
    BY <1>3, <2>1
  <2> QED  BY <1>3, <2>2
<1>6. \A i \in CurrentLoads(v) : i \in 1 .. Len(v.requests) /\ i + 1 \in CurrentLoads(w)
  BY <1>3
<1>7. LoadAccounting(v)
  <2>1. CurrentLoads(v) # {} <=> CurrentLoads(w) # {}
    BY <1>5, <1>6
  <2>2. \A i, j \in CurrentLoads(v) : i = j
    <3>1. \A i, j \in CurrentLoads(w) : i = j
      BY DEF PageInv, LoadAccounting
    <3> QED  BY <1>3, <1>6, <3>1
  <2>3. \A i \in CurrentLoads(v) : v.requests[i].key = v.rom_key
    BY <1>3, <1>6 DEF PageInv, LoadAccounting
  <2> QED  BY <2>1, <2>2, <2>3 DEF PageInv, LoadAccounting
<1>8. OfGame(log, v.ram, v.rom_key)
  BY DEF PageInv, PageHoldsOwnSaves
<1>9. StoreAccounting(v) /\ PageHoldsOwnSaves(v, log) /\ RequestsAreOld(v)
  BY <1>8, LoadAnswered
<1>10. DirtyNeedsBattery(v)
  BY DEF PageInv, DirtyNeedsBattery
<1> QED  BY <1>7, <1>9, <1>10 DEF PageInv

LEMMA LoadTaken ==
  ASSUME NEW w, NEW v \in Page, NEW log, PageInv(w, log),
         w.requests # << >>, Head(w.requests).op = "load", Current(Head(w.requests), w),
         v.requests = Tail(w.requests), v.load_generation = w.load_generation,
         v.rom_key = w.rom_key, v.cartridge_ready = TRUE,
         v.pending_rom = w.pending_rom, v.save_in_flight = w.save_in_flight,
         v.save_snapshot = w.save_snapshot, v.save_key = w.save_key,
         OfGame(log, v.ram, v.rom_key), v.dirty => v.rom_key \in Battery
  PROVE  PageInv(v, log)
<1>1. w \in Page
  BY DEF PageInv
<1>2. /\ Head(w.requests) = w.requests[1]
      /\ 1 \in 1 .. Len(w.requests) /\ Len(w.requests) \in Nat
      /\ Len(v.requests) = Len(w.requests) - 1
      /\ \A i \in 1 .. Len(v.requests) : i \in CurrentLoads(v) <=> i + 1 \in CurrentLoads(w)
      /\ CurrentLoads(v) \subseteq 1 .. Len(v.requests)
  BY <1>1, TailShifts
<1>3. 1 \in CurrentLoads(w)
  BY <1>2 DEF CurrentLoads
<1>4. w.rom_key # NoRom
  BY <1>3 DEF PageInv, LoadAccounting
<1>5. CurrentLoads(v) = {}
  <2>1. \A i \in CurrentLoads(v) : i \in 1 .. Len(v.requests) /\ i + 1 = 1
    BY <1>2, <1>3 DEF PageInv, LoadAccounting
  <2> QED  BY <1>2, <2>1
<1>6. LoadAccounting(v)
  BY <1>5 DEF LoadAccounting
<1>7. StoreAccounting(v) /\ PageHoldsOwnSaves(v, log) /\ RequestsAreOld(v)
  BY LoadAnswered
<1>8. DirtyNeedsBattery(v)
  BY <1>4 DEF DirtyNeedsBattery
<1> QED  BY <1>6, <1>7, <1>8 DEF PageInv

-----------------------------------------------------------------------------
(* The handlers. *)

LEMMA PageStep ==
  ASSUME IInv, PageInv(web', history), UNCHANGED <<idb, history>>
  PROVE  IInv'
BY DEF IInv

LEMMA HistoryStep ==
  ASSUME IInv, NEW rom \in Roms, Len(history) < MaxWrites,
         history' = Append(history, rom), PageInv(web', history'), UNCHANGED idb
  PROVE  IInv'
<1>1. history' \in Seq(Roms) /\ Len(history') <= MaxWrites
  BY NewChange DEF IInv
<1>2. \A save, key : OfGame(history, save, key) => OfGame(history', save, key)
  BY DEF OfGame, IInv
<1> QED  BY <1>1, <1>2 DEF IInv

LEMMA RunFramesStep ==
  ASSUME IInv, NEW w, PageInv(w, history), RunFrames(w), UNCHANGED idb
  PROVE  IInv'
<1>1. ASSUME NEW moved \in CatchUp(w.rom_key), web' = AdvanceClock(w, Ready(w) /\ moved),
             UNCHANGED history
      PROVE  IInv'
  <2>1. moved \in BOOLEAN /\ (moved => w.rom_key \in Battery)
    BY <1>1, WebSaveAssumption DEF CatchUp
  <2>2. (Ready(w) /\ moved) \in BOOLEAN
    OBVIOUS
  <2>3. PageInv(AdvanceClock(w, Ready(w) /\ moved), history)
    BY <2>1, <2>2, AdvanceClockInv
  <2> QED  BY <1>1, <2>3, PageStep
<1>2. ASSUME Ready(w), w.rom_key \in Battery, Len(history) < MaxWrites,
             web' = WriteRam(w, Len(history) + 1), history' = Append(history, w.rom_key)
      PROVE  IInv'
  <2>1. PageInv(web', history')
    BY <1>2, WriteRamInv DEF IInv
  <2> QED  BY <1>2, <2>1, HistoryStep, WebSaveAssumption
<1> QED  BY <1>1, <1>2 DEF RunFrames

\* load_rom's first assignment, made when the page can take another cartridge.
LEMMA AskedPage ==
  ASSUME IInv, NEW rom \in Roms, web.load_generation < MaxLoads
  PROVE  LET asked == [web EXCEPT !.pending_rom = rom] IN
         /\ asked \in Page /\ asked.pending_rom = rom
         /\ asked.load_generation = web.load_generation
         /\ StoreAccounting(asked) /\ LoadAccounting(asked)
         /\ PageHoldsOwnSaves(asked, history) /\ RequestsAreOld(asked)
         /\ web.rom_key # NoRom => PageInv(asked, history)
<1> DEFINE asked == [web EXCEPT !.pending_rom = rom]
<1>1. web \in Page /\ rom # NoRom
  BY WebSaveAssumption DEF IInv, PageInv
<1>2. /\ asked \in Page
      /\ asked.requests = web.requests /\ asked.load_generation = web.load_generation
      /\ asked.rom_key = web.rom_key /\ asked.cartridge_ready = web.cartridge_ready
      /\ asked.pending_rom = rom /\ asked.save_in_flight = web.save_in_flight
      /\ asked.save_snapshot = web.save_snapshot /\ asked.save_key = web.save_key
      /\ asked.ram = web.ram /\ asked.dirty = web.dirty
  BY <1>1 DEF Page
<1> HIDE DEF asked
<1>3. StoresIn(asked) = StoresIn(web) /\ CurrentLoads(asked) = CurrentLoads(web)
  BY <1>2 DEF StoresIn, CurrentLoads, Current
<1>4. /\ StoreAccounting(asked) /\ LoadAccounting(asked)
      /\ PageHoldsOwnSaves(asked, history) /\ RequestsAreOld(asked)
  BY <1>2, <1>3 DEF IInv, PageInv, StoreAccounting, LoadAccounting, PageHoldsOwnSaves,
                    RequestsAreOld
<1>5. web.rom_key # NoRom => PageInv(asked, history)
  BY <1>1, <1>2, <1>4 DEF IInv, PageInv, DirtyNeedsBattery
<1> QED  BY <1>2, <1>4, <1>5 DEF asked

LEMMA LoadRomStep ==
  ASSUME IInv, NEW rom \in Roms, LoadRom(rom)
  PROVE  IInv'
<1> DEFINE asked == [web EXCEPT !.pending_rom = rom]
<1>1. /\ rom # NoRom /\ web.load_generation < MaxLoads /\ UNCHANGED <<idb, history>>
      /\ web' = IF web.rom_key # NoRom /\ MustSaveFirst(web)
                THEN Flush(asked) ELSE InstallPendingRom(asked)
  BY WebSaveAssumption DEF LoadRom
<1>2. /\ asked \in Page /\ asked.pending_rom = rom
      /\ asked.load_generation = web.load_generation
      /\ StoreAccounting(asked) /\ LoadAccounting(asked)
      /\ PageHoldsOwnSaves(asked, history) /\ RequestsAreOld(asked)
      /\ web.rom_key # NoRom => PageInv(asked, history)
  BY <1>1, AskedPage
<1> HIDE DEF asked
<1>3. CASE web.rom_key # NoRom
  BY <1>1, <1>2, <1>3, FlushInv, InstallInv, PageStep
<1>4. CASE web.rom_key = NoRom
  <2>1. PageInv(InstallPendingRom(asked), history)
    BY <1>1, <1>2, InstallNewInv
  <2> QED  BY <1>1, <1>4, <2>1, PageStep
<1> QED  BY <1>3, <1>4

LEMMA ResetStep ==
  ASSUME IInv, Reset
  PROVE  IInv'
<1> DEFINE v == [web EXCEPT !.reset_pending = TRUE]
<1>1. web \in Page
  BY DEF IInv, PageInv
<1>2. SameCartridge(v, web) /\ v.dirty = web.dirty
  BY <1>1 DEF Page, SameCartridge
<1>3. PageInv(v, history)
  BY <1>2, SameCartridgeInv DEF IInv
<1>4. web' = Flush(v) /\ UNCHANGED <<idb, history>>
  BY DEF Reset
<1> HIDE DEF v
<1> QED  BY <1>3, <1>4, FlushInv, PageStep

LEMMA ExportSaveStep ==
  ASSUME IInv, ExportSave
  PROVE  IInv'
<1>1. PICK moved \in CatchUp(web.rom_key) : web' = AdvanceClock(web, moved)
  BY DEF ExportSave
<1>2. moved \in BOOLEAN
  BY DEF CatchUp
<1>3. PageInv(AdvanceClock(web, moved), history)
  BY <1>2, AdvanceClockInv DEF ExportSave, IInv
<1> QED  BY <1>1, <1>3, PageStep DEF ExportSave

\* The page that an import stores: the new RAM is its snapshot.
LEMMA ImportedInv ==
  ASSUME IInv, ImportSave, NEW moved \in CatchUp(web.rom_key)
  PROVE  PageInv(Imported(Len(history) + 1, moved), Append(history, web.rom_key))
<1> DEFINE n == Len(history) + 1
           log == Append(history, web.rom_key)
<1>1. /\ web \in Page /\ Ready(web) /\ web.rom_key \in Battery /\ web.rom_key \in Roms
      /\ Len(history) < MaxWrites /\ history \in Seq(Roms)
  BY WebSaveAssumption DEF ImportSave, IInv, PageInv
<1>2. moved \in BOOLEAN
  BY DEF CatchUp
<1>3. n \in Changes /\ log[n] = web.rom_key /\ n \in 1 .. Len(log)
  BY <1>1, NewChange
<1>4. PageInv(web, log)
  BY <1>1, LogGrows DEF IInv
<1> HIDE DEF n
<1>5. {n} \in Content /\ OfGame(log, {n}, web.rom_key)
  BY <1>3 DEF Content, NoSave, OfGame
<1> HIDE DEF log
<1> DEFINE v == [RestoreSave(web, {n}) EXCEPT !.made = {}]
           w == AdvanceClock(v, moved)
           u == Imported(n, moved)
<1>6. PageInv(v, log)
  <2>1. /\ v \in Page
        /\ v.requests = web.requests /\ v.load_generation = web.load_generation
        /\ v.rom_key = web.rom_key /\ v.cartridge_ready = web.cartridge_ready
        /\ v.pending_rom = web.pending_rom /\ v.save_in_flight = web.save_in_flight
        /\ v.save_snapshot = web.save_snapshot /\ v.save_key = web.save_key
        /\ v.ram = {n}
    BY <1>1, <1>5 DEF RestoreSave, Page
  <2> HIDE DEF v
  <2> QED  BY <1>1, <1>4, <1>5, <2>1, NewRamInv
<1>7. Ready(v) /\ v.rom_key = web.rom_key /\ v.ram = {n}
  BY <1>1 DEF RestoreSave, Page, Ready
<1> HIDE DEF v
<1>8. PageInv(w, log)
  BY <1>1, <1>2, <1>6, <1>7, AdvanceClockInv
<1>9. w.rom_key = web.rom_key /\ w.ram = {n} /\ w \in Page
  <2>1. v \in Page
    BY <1>6 DEF PageInv
  <2> QED  BY <1>7, <1>8, <2>1 DEF PageInv, AdvanceClock, Page
<1>10. u = [w EXCEPT !.save_snapshot = {n}, !.save_key = web.rom_key, !.reset_pending = TRUE]
  BY DEF Imported, v
<1> HIDE DEF w, u
<1>11. /\ u \in Page
       /\ u.requests = w.requests /\ u.load_generation = w.load_generation
       /\ u.rom_key = w.rom_key /\ u.cartridge_ready = w.cartridge_ready
       /\ u.pending_rom = w.pending_rom /\ u.save_in_flight = w.save_in_flight
       /\ u.save_snapshot = {n} /\ u.save_key = web.rom_key
       /\ u.ram = w.ram /\ u.dirty = w.dirty
  BY <1>1, <1>5, <1>9, <1>10 DEF Page
<1>12. StoresIn(u) = StoresIn(w) /\ CurrentLoads(u) = CurrentLoads(w)
  BY <1>11 DEF StoresIn, CurrentLoads, Current
<1>13. StoreAccounting(u)
  BY <1>1, <1>8, <1>11, <1>12, WebSaveAssumption DEF PageInv, StoreAccounting, NoSave
<1>14. LoadAccounting(u)
  BY <1>8, <1>11, <1>12 DEF PageInv, LoadAccounting
<1>15. PageHoldsOwnSaves(u, log)
  BY <1>5, <1>8, <1>11, <1>12 DEF PageInv, PageHoldsOwnSaves
<1>16. RequestsAreOld(u) /\ DirtyNeedsBattery(u)
  BY <1>8, <1>11 DEF PageInv, RequestsAreOld, DirtyNeedsBattery
<1>17. PageInv(u, log)
  BY <1>8, <1>11, <1>13, <1>14, <1>15, <1>16 DEF PageInv
<1> QED  BY <1>17 DEF u, log, n

LEMMA ImportSaveStep ==
  ASSUME IInv, ImportSave
  PROVE  IInv'
<1> DEFINE log == Append(history, web.rom_key)
<1>1. web.rom_key \in Roms /\ Len(history) < MaxWrites
  BY WebSaveAssumption DEF ImportSave, IInv, PageInv
<1>2. PICK moved \in CatchUp(web.rom_key) :
        web' = StartSave(Imported(Len(history) + 1, moved))
  BY DEF ImportSave
<1>3. PageInv(web', log)
  BY <1>2, ImportedInv, StartSaveInv
<1>4. history' = log /\ UNCHANGED idb
  BY DEF ImportSave
<1> QED  BY <1>1, <1>3, <1>4, HistoryStep

\* What the head of the queue is, and the page once it is taken off.
LEMMA AnsweredFields ==
  ASSUME NEW op, web \in Page, Pending(op)
  PROVE  /\ web.requests # << >> /\ Head(web.requests).op = op
         /\ Head(web.requests) = web.requests[1] /\ Head(web.requests) \in Request
         /\ 1 \in 1 .. Len(web.requests)
         /\ Answered \in Page
         /\ Answered.requests = Tail(web.requests)
         /\ Answered.load_generation = web.load_generation
         /\ Answered.rom_key = web.rom_key /\ Answered.cartridge_ready = web.cartridge_ready
         /\ Answered.pending_rom = web.pending_rom
         /\ Answered.save_in_flight = web.save_in_flight
         /\ Answered.save_snapshot = web.save_snapshot /\ Answered.save_key = web.save_key
         /\ Answered.ram = web.ram /\ Answered.dirty = web.dirty
<1>1. web.requests \in Seq(Request)
  BY DEF Page
<1>2. /\ web.requests # << >> /\ Head(web.requests).op = op
      /\ Head(web.requests) = web.requests[1] /\ Head(web.requests) \in Request
      /\ 1 \in 1 .. Len(web.requests) /\ Tail(web.requests) \in Seq(Request)
  BY <1>1, TailRequest DEF Pending
<1>3. Answered \in Page
  BY <1>2 DEF Answered, Page
<1> QED  BY <1>2, <1>3 DEF Answered, Page

LEMMA SavedRequest ==
  ASSUME IInv, Pending("store")
  PROVE  LET request == Head(web.requests) IN
         /\ request.key \in Roms /\ request.save \in Content
         /\ OfGame(history, request.save, request.key)
<1>1. /\ Head(web.requests) = web.requests[1] /\ Head(web.requests) \in Request
      /\ 1 \in 1 .. Len(web.requests) /\ Head(web.requests).op = "store"
  BY AnsweredFields DEF IInv, PageInv
<1>2. 1 \in StoresIn(web)
  BY <1>1 DEF StoresIn
<1>3. OfGame(history, web.requests[1].save, web.requests[1].key)
  BY <1>2 DEF IInv, PageInv, PageHoldsOwnSaves
<1> QED  BY <1>1, <1>3, WebSaveAssumption DEF Request

LEMMA CommitStep ==
  ASSUME IInv, Pending("store"), PageInv(web', history), UNCHANGED history,
         idb' = [idb EXCEPT ![Head(web.requests).key] = Head(web.requests).save]
  PROVE  IInv'
<1>1. /\ Head(web.requests).key \in Roms /\ Head(web.requests).save \in Content
      /\ OfGame(history, Head(web.requests).save, Head(web.requests).key)
  BY SavedRequest
<1>2. idb' \in [Roms -> Content \cup {NoSave}]
  BY <1>1 DEF IInv
<1>3. \A rom \in Roms : OfGame(history, idb'[rom], rom)
  BY <1>1 DEF IInv
<1> QED  BY <1>2, <1>3 DEF IInv

\* The callbacks' assignments to a page keep the type and touch no other field.
LEMMA SuccessFields ==
  ASSUME NEW a \in Page
  PROVE  LET v == [a EXCEPT !.save_in_flight = FALSE, !.save_snapshot = NoSave,
                            !.save_key = NoRom, !.dirty_age = Never,
                            !.quiet_age = Never, !.retry_wait = 0] IN
         /\ v \in Page
         /\ v.requests = a.requests /\ v.load_generation = a.load_generation
         /\ v.rom_key = a.rom_key /\ v.cartridge_ready = a.cartridge_ready
         /\ v.pending_rom = a.pending_rom /\ v.ram = a.ram /\ v.dirty = a.dirty
         /\ v.save_in_flight = FALSE /\ v.save_snapshot = NoSave /\ v.save_key = NoRom
<1>1. 0 \in 0 .. Retry
  BY WebSaveAssumption
<1> QED  BY <1>1 DEF Page

LEMMA ErrorFields ==
  ASSUME NEW a \in Page
  PROVE  LET v == [a EXCEPT !.save_in_flight = FALSE, !.retry_wait = Retry] IN
         /\ v \in Page
         /\ v.requests = a.requests /\ v.load_generation = a.load_generation
         /\ v.rom_key = a.rom_key /\ v.cartridge_ready = a.cartridge_ready
         /\ v.pending_rom = a.pending_rom /\ v.ram = a.ram /\ v.dirty = a.dirty
         /\ v.save_in_flight = FALSE
         /\ v.save_snapshot = a.save_snapshot /\ v.save_key = a.save_key
<1>1. Retry \in 0 .. Retry
  BY WebSaveAssumption
<1> QED  BY <1>1 DEF Page

LEMMA StoreSucceedsStep ==
  ASSUME IInv, StoreSucceeds
  PROVE  IInv'
<1> DEFINE v == [Answered EXCEPT !.save_in_flight = FALSE, !.save_snapshot = NoSave,
                                 !.save_key = NoRom, !.dirty_age = Never,
                                 !.quiet_age = Never, !.retry_wait = 0]
<1>1. PageInv(web, history) /\ web \in Page /\ Pending("store")
  BY DEF IInv, PageInv, StoreSucceeds
<1>2. /\ web.requests # << >> /\ Head(web.requests).op = "store"
      /\ Answered \in Page
      /\ Answered.requests = Tail(web.requests)
      /\ Answered.load_generation = web.load_generation
      /\ Answered.rom_key = web.rom_key /\ Answered.cartridge_ready = web.cartridge_ready
      /\ Answered.pending_rom = web.pending_rom
      /\ Answered.ram = web.ram /\ Answered.dirty = web.dirty
  BY <1>1, AnsweredFields
<1>3. /\ v \in Page
      /\ v.requests = Tail(web.requests) /\ v.load_generation = web.load_generation
      /\ v.rom_key = web.rom_key /\ v.cartridge_ready = web.cartridge_ready
      /\ v.pending_rom = web.pending_rom /\ v.ram = web.ram /\ v.dirty = web.dirty
      /\ v.save_in_flight = FALSE /\ v.save_snapshot = NoSave /\ v.save_key = NoRom
  BY <1>2, SuccessFields
<1>4. web' = CompletePendingActions(v) /\ UNCHANGED history
  BY DEF StoreSucceeds, SaveSuccess
<1> HIDE DEF v
<1>5. PageInv(v, history)
  BY <1>1, <1>2, <1>3, StoreAnswered
<1>6. PageInv(web', history)
  BY <1>4, <1>5, CompleteInv
<1> QED  BY <1>1, <1>4, <1>6, CommitStep DEF StoreSucceeds

LEMMA StoreFailsStep ==
  ASSUME IInv, StoreFails
  PROVE  IInv'
<1> DEFINE v == [Answered EXCEPT !.save_in_flight = FALSE, !.retry_wait = Retry]
<1>1. PageInv(web, history) /\ web \in Page /\ Pending("store")
  BY DEF IInv, PageInv, StoreFails
<1>2. /\ web.requests # << >> /\ Head(web.requests).op = "store"
      /\ Answered \in Page
      /\ Answered.requests = Tail(web.requests)
      /\ Answered.load_generation = web.load_generation
      /\ Answered.rom_key = web.rom_key /\ Answered.cartridge_ready = web.cartridge_ready
      /\ Answered.pending_rom = web.pending_rom
      /\ Answered.save_snapshot = web.save_snapshot /\ Answered.save_key = web.save_key
      /\ Answered.ram = web.ram /\ Answered.dirty = web.dirty
  BY <1>1, AnsweredFields
<1>3. /\ v \in Page
      /\ v.requests = Tail(web.requests) /\ v.load_generation = web.load_generation
      /\ v.rom_key = web.rom_key /\ v.cartridge_ready = web.cartridge_ready
      /\ v.pending_rom = web.pending_rom /\ v.ram = web.ram /\ v.dirty = web.dirty
      /\ v.save_in_flight = FALSE
      /\ v.save_snapshot = web.save_snapshot /\ v.save_key = web.save_key
  BY <1>2, ErrorFields
<1>4. web' = CompletePendingActions(v) /\ UNCHANGED <<idb, history>>
  BY DEF StoreFails, SaveError
<1> HIDE DEF v
<1>5. PageInv(v, history)
  BY <1>1, <1>2, <1>3, StoreAnswered
<1>6. PageInv(web', history)
  BY <1>4, <1>5, CompleteInv
<1> QED  BY <1>4, <1>6, PageStep

LEMMA LoadIgnoredStep ==
  ASSUME IInv, Pending("load"), ~Current(Head(web.requests), web), web' = Answered,
         UNCHANGED <<idb, history>>
  PROVE  IInv'
<1>1. PageInv(web, history) /\ web \in Page
  BY DEF IInv, PageInv
<1>2. PageInv(Answered, history)
  BY <1>1, AnsweredFields, LoadIgnored
<1> QED  BY <1>2, PageStep

LEMMA LoadFailsStep ==
  ASSUME IInv, LoadFails
  PROVE  IInv'
<1>1. PageInv(web, history) /\ web \in Page /\ Pending("load") /\ UNCHANGED <<idb, history>>
  BY DEF IInv, PageInv, LoadFails
<1>2. CASE Current(Head(web.requests), web)
  <2> DEFINE v == FinishRomLoad(Answered)
  <2>1. /\ web.requests # << >> /\ Head(web.requests).op = "load"
        /\ Answered \in Page
        /\ Answered.requests = Tail(web.requests)
        /\ Answered.load_generation = web.load_generation
        /\ Answered.rom_key = web.rom_key
        /\ Answered.pending_rom = web.pending_rom
        /\ Answered.save_in_flight = web.save_in_flight
        /\ Answered.save_snapshot = web.save_snapshot /\ Answered.save_key = web.save_key
        /\ Answered.ram = web.ram /\ Answered.dirty = web.dirty
    BY <1>1, AnsweredFields
  <2>2. /\ v \in Page
        /\ v.requests = Tail(web.requests) /\ v.load_generation = web.load_generation
        /\ v.rom_key = web.rom_key /\ v.cartridge_ready = TRUE
        /\ v.pending_rom = web.pending_rom /\ v.save_in_flight = web.save_in_flight
        /\ v.save_snapshot = web.save_snapshot /\ v.save_key = web.save_key
        /\ v.ram = web.ram /\ v.dirty = web.dirty
    BY <2>1 DEF FinishRomLoad, Page
  <2>3. web' = v
    BY <1>2 DEF LoadFails
  <2> HIDE DEF v
  <2>4. OfGame(history, v.ram, v.rom_key) /\ (v.dirty => v.rom_key \in Battery)
    BY <1>1, <2>2 DEF PageInv, PageHoldsOwnSaves, DirtyNeedsBattery
  <2>5. PageInv(v, history)
    BY <1>1, <1>2, <2>1, <2>2, <2>4, LoadTaken
  <2> QED  BY <1>1, <2>3, <2>5, PageStep
<1>3. CASE ~Current(Head(web.requests), web)
  BY <1>1, <1>3, LoadIgnoredStep DEF LoadFails
<1> QED  BY <1>2, <1>3

LEMMA LoadFindsStep ==
  ASSUME IInv, LoadFinds
  PROVE  IInv'
<1>1. /\ PageInv(web, history) /\ web \in Page /\ Pending("load") /\ UNCHANGED <<idb, history>>
      /\ idb[Head(web.requests).key] # NoSave
  BY DEF IInv, PageInv, LoadFinds
<1>2. CASE Current(Head(web.requests), web)
  <2> DEFINE save == idb[Head(web.requests).key]
  <2>1. PICK moved \in CatchUp(web.rom_key) :
          web' = FinishRomLoad(AdvanceClock(RestoreSave(Answered, save), moved))
    BY <1>2 DEF LoadFinds
  <2> DEFINE r == RestoreSave(Answered, save)
             v == FinishRomLoad(AdvanceClock(r, moved))
  <2>2. /\ web.requests # << >> /\ Head(web.requests).op = "load"
        /\ Head(web.requests) = web.requests[1] /\ Head(web.requests) \in Request
        /\ 1 \in 1 .. Len(web.requests)
        /\ Answered \in Page
        /\ Answered.requests = Tail(web.requests)
        /\ Answered.load_generation = web.load_generation
        /\ Answered.rom_key = web.rom_key
        /\ Answered.pending_rom = web.pending_rom
        /\ Answered.save_in_flight = web.save_in_flight
        /\ Answered.save_snapshot = web.save_snapshot /\ Answered.save_key = web.save_key
    BY <1>1, AnsweredFields
  <2>3. Head(web.requests).key = web.rom_key /\ web.rom_key \in Battery
    <3>1. 1 \in CurrentLoads(web)
      BY <1>2, <2>2 DEF CurrentLoads
    <3> QED  BY <1>1, <2>2, <3>1 DEF PageInv, LoadAccounting, Request
  <2>4. save \in Content /\ OfGame(history, save, web.rom_key)
    <3>1. web.rom_key \in Roms
      BY <2>3, WebSaveAssumption
    <3>2. idb[web.rom_key] \in Content \cup {NoSave} /\ OfGame(history, idb[web.rom_key], web.rom_key)
      BY <3>1 DEF IInv
    <3> QED  BY <1>1, <2>3, <3>2
  <2>5. moved \in BOOLEAN
    BY <2>1 DEF CatchUp
  <2> HIDE DEF save
  <2>6. /\ r \in Page
        /\ r.requests = Tail(web.requests) /\ r.load_generation = web.load_generation
        /\ r.rom_key = web.rom_key
        /\ r.pending_rom = web.pending_rom /\ r.save_in_flight = web.save_in_flight
        /\ r.save_snapshot = web.save_snapshot /\ r.save_key = web.save_key
        /\ r.ram = save
    BY <2>2, <2>4, ZenonT(60) DEF RestoreSave, Page
  <2> HIDE DEF r
  <2>7. /\ v \in Page
        /\ v.requests = Tail(web.requests) /\ v.load_generation = web.load_generation
        /\ v.rom_key = web.rom_key /\ v.cartridge_ready = TRUE
        /\ v.pending_rom = web.pending_rom /\ v.save_in_flight = web.save_in_flight
        /\ v.save_snapshot = web.save_snapshot /\ v.save_key = web.save_key
        /\ v.ram = save
    <3>1. CASE moved
      BY <2>6, <3>1 DEF AdvanceClock, FinishRomLoad, Page
    <3>2. CASE ~moved
      BY <2>6, <3>2 DEF AdvanceClock, FinishRomLoad, Page
    <3> QED  BY <3>1, <3>2
  <2>8. web' = v
    BY <2>1 DEF r
  <2> HIDE DEF v
  <2>9. PageInv(v, history)
    BY <1>1, <1>2, <2>2, <2>3, <2>4, <2>7, LoadTaken
  <2> QED  BY <1>1, <2>8, <2>9, PageStep
<1>3. CASE ~Current(Head(web.requests), web)
  BY <1>1, <1>3, LoadIgnoredStep DEF LoadFinds
<1> QED  BY <1>2, <1>3

LEMMA FreshPageInv ==
  ASSUME NEW log
  PROVE  PageInv(FreshPage, log)
<1>1. {Blank} \in Content /\ {} \in SUBSET Changes /\ << >> \in Seq(Request)
      /\ 0 \in 0 .. MaxLoads /\ 0 \in 0 .. Retry
  BY WebSaveAssumption DEF Content, NoSave, Blank
<1>2. FreshPage \in Page
  BY <1>1 DEF FreshPage, Page
<1>3. StoresIn(FreshPage) = {} /\ CurrentLoads(FreshPage) = {}
  BY DEF StoresIn, CurrentLoads, FreshPage
<1>4. StoreAccounting(FreshPage) /\ LoadAccounting(FreshPage)
  BY <1>3 DEF StoreAccounting, LoadAccounting, FreshPage
<1>5. PageHoldsOwnSaves(FreshPage, log)
  BY <1>3 DEF PageHoldsOwnSaves, OfGame, FreshPage, NoSave
<1>6. RequestsAreOld(FreshPage) /\ DirtyNeedsBattery(FreshPage)
  BY DEF RequestsAreOld, DirtyNeedsBattery, FreshPage
<1>7. FreshPage.pending_rom = NoRom
  BY DEF FreshPage
<1> QED  BY <1>2, <1>4, <1>5, <1>6, <1>7 DEF PageInv

LEMMA ClosePageStep ==
  ASSUME IInv, ClosePage
  PROVE  IInv'
<1>1. PageInv(web', history) /\ UNCHANGED history
  BY FreshPageInv DEF ClosePage
<1> QED  BY <1>1, PageStep, CommitStep DEF ClosePage

-----------------------------------------------------------------------------
(* The invariant and what follows from it. *)

LEMMA InitInv == Init => IInv
<1> SUFFICES ASSUME Init PROVE IInv
  OBVIOUS
<1>1. PageInv(web, history)
  BY FreshPageInv DEF Init
<1>2. \A rom \in Roms : OfGame(history, idb[rom], rom)
  BY DEF Init, OfGame, NoSave
<1> QED  BY <1>1, <1>2, WebSaveAssumption DEF Init, IInv

LEMMA NextInv == IInv /\ [Next]_vars => IInv'
<1> SUFFICES ASSUME IInv, [Next]_vars PROVE IInv'
  OBVIOUS
<1>1. CASE MainLoop
  <2>1. PageInv(UpdatePersistence(PassTime(web)), history)
    BY PassTimeInv, UpdateInv DEF IInv
  <2> QED  BY <1>1, <2>1, RunFramesStep DEF MainLoop
<1>2. CASE StepFrame
  BY <1>2, RunFramesStep DEF StepFrame, IInv
<1>3. ASSUME NEW rom \in Roms, LoadRom(rom) PROVE IInv'
  BY <1>3, LoadRomStep
<1>4. CASE Reset
  BY <1>4, ResetStep
<1>5. CASE ExportSave
  BY <1>5, ExportSaveStep
<1>6. CASE ImportSave
  BY <1>6, ImportSaveStep
<1>7. CASE HideOrUnload
  BY <1>7, FlushInv, PageStep DEF HideOrUnload, IInv
<1>8. CASE StoreSucceeds
  BY <1>8, StoreSucceedsStep
<1>9. CASE StoreFails
  BY <1>9, StoreFailsStep
<1>10. CASE LoadFinds
  BY <1>10, LoadFindsStep
<1>11. CASE LoadFails
  BY <1>11, LoadFailsStep
<1>12. CASE ClosePage
  BY <1>12, ClosePageStep
<1>13. CASE UNCHANGED vars
  BY <1>13 DEF vars, IInv
<1> QED  BY <1>1, <1>2, <1>3, <1>4, <1>5, <1>6, <1>7, <1>8, <1>9, <1>10, <1>11, <1>12, <1>13
            DEF Next

LEMMA Invariance == Spec => []IInv
BY InitInv, NextInv, PTL DEF Spec

\* Every variable keeps its type in every reachable state.
THEOREM TypeCorrect == Spec => []TypeOK
<1>1. IInv => TypeOK
  BY DEF IInv, PageInv, TypeOK
<1> QED  BY <1>1, Invariance, PTL

\* At most one store is under way, exactly while the in-flight flag is set.
THEOREM StoresAreExclusive == Spec => []OneStoreAtATime
<1>1. IInv => OneStoreAtATime
  BY DEF IInv, PageInv, OneStoreAtATime
<1> QED  BY <1>1, Invariance, PTL

\* A cartridge that is not ready has exactly one load under way, for its own key.
THEOREM LoadsAreAnsweredOnce == Spec => []WaitingCartridgeHasItsLoad
<1>1. IInv => WaitingCartridgeHasItsLoad
  BY DEF IInv, PageInv, WaitingCartridgeHasItsLoad
<1> QED  BY <1>1, Invariance, PTL

\* No cartridge's RAM, snapshot or stored save ever holds another game's changes.
THEOREM SavesAreNeverMixed == Spec => []SavesStayWithTheirGame
<1>1. IInv => SavesStayWithTheirGame
  BY DEF IInv, PageInv, SavesStayWithTheirGame
<1> QED  BY <1>1, Invariance, PTL

-----------------------------------------------------------------------------
(* Nothing is lost, nothing is late: the second inductive invariant.  It says of *)
(* a clean page where the changes are, and of the timers when they run.          *)

RamHoldsMade(w) == w.made \subseteq w.ram /\ (~w.cartridge_ready => w.made = {})

\* Once the RAM is clean, the changes are in the snapshot, which is what a store
\* under way writes, or the database has them and nothing is left to be stored.
CleanIsSafe(w, db) ==
  ~w.dirty /\ w.made # {} =>
    \/ /\ w.save_snapshot # NoSave /\ w.save_key = w.rom_key
       /\ w.made \subseteq w.save_snapshot
       /\ \A i \in StoresIn(w) :
            w.requests[i].key = w.save_key /\ w.requests[i].save = w.save_snapshot
    \/ w.save_snapshot = NoSave /\ w.made \subseteq db[w.rom_key]

\* The age of the dirty RAM is counted only while there is something to save.
AgeIsCounted(w) ==
  /\ w.unobserved => w.dirty
  /\ ~w.cartridge_ready \/ w.rom_key \notin Battery => w.dirty_age = Never
  /\ ~w.dirty /\ w.save_snapshot = NoSave => w.dirty_age = Never

Keeps(w, db) == RamHoldsMade(w) /\ CleanIsSafe(w, db) /\ AgeIsCounted(w)

\* When nothing prevents a save, the RAM has not been dirty for too long.
Timely(w) ==
  ~w.save_in_flight /\ w.retry_wait = 0 => w.dirty_age = Never \/ w.dirty_age < MaxDirty

JInv == IInv /\ Keeps(web, idb) /\ Timely(web)

\* The fields that Keeps and Timely read.
SameHoldings(v, w) ==
  /\ v.ram = w.ram /\ v.made = w.made /\ v.cartridge_ready = w.cartridge_ready
  /\ v.rom_key = w.rom_key /\ v.save_snapshot = w.save_snapshot
  /\ v.save_key = w.save_key /\ v.requests = w.requests

SameDirt(v, w) == v.dirty = w.dirty /\ v.unobserved = w.unobserved

SameTimers(v, w) ==
  /\ v.dirty_age = w.dirty_age /\ v.save_in_flight = w.save_in_flight
  /\ v.retry_wait = w.retry_wait

LEMMA HoldingsKeep ==
  ASSUME NEW w, NEW v, NEW db, Keeps(w, db), SameHoldings(v, w), SameDirt(v, w),
         SameTimers(v, w)
  PROVE  Keeps(v, db)
<1>1. StoresIn(v) = StoresIn(w)
  BY DEF StoresIn, SameHoldings
<1>2. RamHoldsMade(v)
  BY DEF Keeps, RamHoldsMade, SameHoldings
<1>3. CleanIsSafe(v, db)
  BY <1>1 DEF Keeps, CleanIsSafe, SameHoldings, SameDirt
<1>4. AgeIsCounted(v)
  BY DEF Keeps, AgeIsCounted, SameHoldings, SameDirt, SameTimers
<1> QED
  BY <1>2, <1>3, <1>4 DEF Keeps

LEMMA TimersKeep ==
  ASSUME NEW w, NEW v, Timely(w), SameTimers(v, w)
  PROVE  Timely(v)
BY DEF Timely, SameTimers

\* A cartridge that has just been inserted has nothing to lose and no age.
LEMMA InstallKeeps ==
  ASSUME NEW w \in Page, NEW db
  PROVE  /\ Keeps(InstallPendingRom(w), db) /\ Timely(InstallPendingRom(w))
         /\ InstallPendingRom(w).load_generation = w.load_generation + 1
<1> DEFINE v == InsertCartridge(w)
           u == [v EXCEPT !.requests =
                   Append(@, LoadRequest(v.rom_key, v.load_generation))]
           f == FinishRomLoad(v)
<1>1. /\ v.made = {} /\ ~v.dirty /\ ~v.unobserved /\ v.dirty_age = Never
      /\ v.load_generation = w.load_generation + 1
  BY DEF InsertCartridge, Page
<1>2. /\ u.made = {} /\ ~u.dirty /\ ~u.unobserved /\ u.dirty_age = Never
      /\ u.load_generation = w.load_generation + 1
  BY DEF InsertCartridge, Page
<1>3. /\ f.made = {} /\ ~f.dirty /\ ~f.unobserved /\ f.dirty_age = Never
      /\ f.load_generation = w.load_generation + 1
  BY DEF InsertCartridge, FinishRomLoad, Page
<1>4. InstallPendingRom(w) = u \/ InstallPendingRom(w) = f
  BY DEF InstallPendingRom
<1>5. ASSUME NEW p, p.made = {}, ~p.dirty, ~p.unobserved, p.dirty_age = Never
      PROVE  Keeps(p, db) /\ Timely(p)
  BY <1>5 DEF Keeps, RamHoldsMade, CleanIsSafe, AgeIsCounted, Timely
<1> HIDE DEF u, f, v
<1> QED
  BY <1>2, <1>3, <1>4, <1>5

LEMMA CompleteKeeps ==
  ASSUME NEW w \in Page, NEW db, Keeps(w, db), Timely(w)
  PROVE  LET v == CompletePendingActions(w)
         IN Keeps(v, db) /\ Timely(v)
<1> DEFINE v == [w EXCEPT !.reset_pending = FALSE]
<1>1. SameHoldings(v, w) /\ SameDirt(v, w) /\ SameTimers(v, w)
  BY DEF Page, SameHoldings, SameDirt, SameTimers
<1>2. CompletePendingActions(w) \in {InstallPendingRom(w), v, w}
  BY DEF CompletePendingActions
<1> HIDE DEF v
<1>3. Keeps(v, db) /\ Timely(v)
  BY <1>1, HoldingsKeep, TimersKeep
<1> QED
  BY <1>2, <1>3, InstallKeeps

-----------------------------------------------------------------------------
(* A save: afterwards a store is under way, and nothing that was clean is lost. *)

LEMMA IssueStoreFields ==
  ASSUME NEW w, NEW log, PageInv(w, log), ~w.save_in_flight, w.save_snapshot # NoSave
  PROVE  LET v == IssueStore(w)
         IN /\ v.ram = w.ram /\ v.made = w.made /\ v.cartridge_ready = w.cartridge_ready
            /\ v.rom_key = w.rom_key /\ v.save_snapshot = w.save_snapshot
            /\ v.save_key = w.save_key /\ SameDirt(v, w) /\ v.dirty_age = w.dirty_age
            /\ v.save_in_flight /\ v.load_generation = w.load_generation
            /\ \A i \in StoresIn(v) :
                 v.requests[i].key = v.save_key /\ v.requests[i].save = v.save_snapshot
<1> DEFINE v == IssueStore(w)
           r == StoreRequest(w.save_key, w.save_snapshot)
           n == Len(w.requests)
<1>1. /\ w \in Page /\ w.save_key \in Battery /\ w.save_snapshot \in Content
      /\ w.requests \in Seq(Request)
  BY DEF PageInv, StoreAccounting, Page
<1>2. r \in Request /\ r.op = "store" /\ r.key = w.save_key /\ r.save = w.save_snapshot
  BY <1>1, StoreRequestType
<1>3. /\ v.ram = w.ram /\ v.made = w.made /\ v.cartridge_ready = w.cartridge_ready
      /\ v.rom_key = w.rom_key /\ v.save_snapshot = w.save_snapshot
      /\ v.save_key = w.save_key /\ SameDirt(v, w) /\ v.dirty_age = w.dirty_age
      /\ v.save_in_flight /\ v.load_generation = w.load_generation
  BY <1>1 DEF IssueStore, Page, SameDirt
<1>4. v.requests = Append(w.requests, r)
  BY <1>1 DEF IssueStore, Page
<1> HIDE DEF r, v
<1>5. /\ Len(Append(w.requests, r)) = n + 1 /\ n \in Nat
      /\ \A i \in 1 .. n : Append(w.requests, r)[i] = w.requests[i]
      /\ Append(w.requests, r)[n + 1] = r
  BY <1>1, <1>2, AppendRequest
<1>6. StoresIn(w) = {}
  BY DEF PageInv, StoreAccounting
<1>7. \A i \in StoresIn(v) : v.requests[i] = r
  BY <1>4, <1>5, <1>6 DEF StoresIn
<1> QED
  BY <1>2, <1>3, <1>7 DEF v

LEMMA IssueStoreKeeps ==
  ASSUME NEW w, NEW log, NEW db, PageInv(w, log), ~w.save_in_flight,
         w.save_snapshot # NoSave, RamHoldsMade(w), AgeIsCounted(w),
         ~w.dirty /\ w.made # {} => w.save_key = w.rom_key /\ w.made \subseteq w.save_snapshot
  PROVE  /\ Keeps(IssueStore(w), db) /\ Timely(IssueStore(w))
         /\ IssueStore(w).load_generation = w.load_generation
         /\ IssueStore(w).save_in_flight
<1> DEFINE v == IssueStore(w)
<1>1. /\ v.ram = w.ram /\ v.made = w.made /\ v.cartridge_ready = w.cartridge_ready
      /\ v.rom_key = w.rom_key /\ v.save_snapshot = w.save_snapshot
      /\ v.save_key = w.save_key /\ SameDirt(v, w) /\ v.dirty_age = w.dirty_age
      /\ v.save_in_flight /\ v.load_generation = w.load_generation
      /\ \A i \in StoresIn(v) :
           v.requests[i].key = v.save_key /\ v.requests[i].save = v.save_snapshot
  BY IssueStoreFields
<1> HIDE DEF v
<1>2. RamHoldsMade(v) /\ AgeIsCounted(v) /\ Timely(v)
  BY <1>1 DEF RamHoldsMade, AgeIsCounted, Timely, SameDirt
<1>3. CleanIsSafe(v, db)
  BY <1>1 DEF CleanIsSafe, SameDirt
<1> QED
  BY <1>1, <1>2, <1>3 DEF Keeps, v

LEMMA TakeSnapshotKeeps ==
  ASSUME NEW w, NEW log, PageInv(w, log), RamHoldsMade(w), AgeIsCounted(w), w.dirty,
         ~w.save_in_flight
  PROVE  LET v == TakeSnapshot(w)
         IN /\ RamHoldsMade(v) /\ AgeIsCounted(v) /\ v.load_generation = w.load_generation
            /\ v.save_key = v.rom_key /\ v.made \subseteq v.save_snapshot
<1> DEFINE v == TakeSnapshot(w)
<1>1. w \in Page
  BY DEF PageInv
<1>2. /\ v.ram = w.ram /\ v.made = w.made /\ v.cartridge_ready = w.cartridge_ready
      /\ v.rom_key = w.rom_key /\ v.save_snapshot = w.ram /\ v.save_key = w.rom_key
      /\ ~v.unobserved /\ v.dirty_age = w.dirty_age
      /\ v.load_generation = w.load_generation
  BY <1>1 DEF TakeSnapshot, Page
<1> HIDE DEF v
<1>3. w.ram # NoSave
  BY <1>1 DEF Page, Content
<1> QED
  BY <1>2, <1>3 DEF RamHoldsMade, AgeIsCounted, v

\* A save that has something to save starts a store and stays with the cartridge.
LEMMA SaveNowKeeps ==
  ASSUME NEW w, NEW log, NEW db, PageInv(w, log), Keeps(w, db), ~w.save_in_flight
  PROVE  LET v == SaveNow(w)
         IN /\ Timely(w) => Keeps(v, db) /\ Timely(v)
            /\ w.dirty \/ w.save_snapshot # NoSave
                 => Keeps(v, db) /\ Timely(v) /\ v.load_generation = w.load_generation
<1>1. w \in Page
  BY DEF PageInv
<1>2. CASE w.dirty /\ (w.save_snapshot = NoSave \/ Superseded(w))
  <2> DEFINE s == TakeSnapshot(w)
  <2>1. SaveNow(w) = IssueStore(s)
    BY <1>2 DEF SaveNow
  <2>2. /\ RamHoldsMade(s) /\ AgeIsCounted(s) /\ s.load_generation = w.load_generation
        /\ s.save_key = s.rom_key /\ s.made \subseteq s.save_snapshot
    BY <1>2, TakeSnapshotKeeps DEF Keeps
  <2>3. PageInv(s, log) /\ ~s.save_in_flight /\ s.save_snapshot # NoSave
    BY <1>2, TakeSnapshotInv
  <2> HIDE DEF s
  <2> QED
    BY <2>1, <2>2, <2>3, IssueStoreKeeps
<1>3. CASE w.save_snapshot # NoSave /\ ~Superseded(w)
  <2>1. SaveNow(w) = IssueStore(w)
    BY <1>3 DEF SaveNow
  <2>2. ~w.dirty /\ w.made # {} => w.save_key = w.rom_key /\ w.made \subseteq w.save_snapshot
    BY <1>3 DEF Keeps, CleanIsSafe
  <2> QED
    BY <1>3, <2>1, <2>2, IssueStoreKeeps DEF Keeps
<1>4. CASE w.save_snapshot = NoSave /\ ~w.dirty
  <2>1. SaveNow(w) = CompletePendingActions(w)
    BY <1>4 DEF SaveNow, Superseded
  <2> QED
    BY <1>1, <1>4, <2>1, CompleteKeeps
<1> QED
  BY <1>2, <1>3, <1>4 DEF Superseded

LEMMA StartSaveKeeps ==
  ASSUME NEW w, NEW log, NEW db, PageInv(w, log), Keeps(w, db),
         w.dirty \/ w.save_snapshot # NoSave
  PROVE  LET v == StartSave(w)
         IN Keeps(v, db) /\ Timely(v) /\ v.load_generation = w.load_generation
<1>1. w.save_in_flight => Timely(w)
  BY DEF Timely
<1> QED
  BY <1>1, SaveNowKeeps DEF StartSave

LEMMA FlushKeeps ==
  ASSUME NEW w, NEW log, NEW db, PageInv(w, log), Keeps(w, db), Timely(w)
  PROVE  LET v == Flush(w)
         IN /\ Keeps(v, db) /\ Timely(v)
            /\ w.save_in_flight \/ w.dirty \/ w.save_snapshot # NoSave
                 => v.load_generation = w.load_generation
<1>1. w \in Page
  BY DEF PageInv
<1> QED
  BY <1>1, StartSaveKeeps, CompleteKeeps DEF Flush

-----------------------------------------------------------------------------
(* Time, frames and the answers of the database. *)

LEMMA PassTimeKeeps ==
  ASSUME NEW w \in Page, NEW db, Keeps(w, db)
  PROVE  Keeps(PassTime(w), db) /\ PassTime(w).load_generation = w.load_generation
<1> DEFINE v == PassTime(w)
<1>1. /\ SameHoldings(v, w) /\ SameDirt(v, w) /\ v.dirty_age = Older(w.dirty_age, MaxDirty)
      /\ v.load_generation = w.load_generation
  BY DEF PassTime, Page, SameHoldings, SameDirt
<1>2. w.dirty_age = Never => v.dirty_age = Never
  BY <1>1 DEF Older
<1> HIDE DEF v
<1>3. StoresIn(v) = StoresIn(w)
  BY <1>1 DEF StoresIn, SameHoldings
<1>4. RamHoldsMade(v) /\ CleanIsSafe(v, db)
  BY <1>1, <1>3 DEF Keeps, RamHoldsMade, CleanIsSafe, SameHoldings, SameDirt
<1>5. AgeIsCounted(v)
  BY <1>1, <1>2 DEF Keeps, AgeIsCounted, SameHoldings, SameDirt
<1> QED
  BY <1>1, <1>4, <1>5 DEF Keeps, v

LEMMA ObserveKeeps ==
  ASSUME NEW w, NEW log, NEW db, PageInv(w, log), Keeps(w, db)
  PROVE  LET v == ObserveRevision(w)
         IN /\ Keeps(v, db) /\ SameHoldings(v, w) /\ v.dirty = w.dirty
            /\ v.load_generation = w.load_generation
            /\ v.retry_wait = w.retry_wait /\ v.save_in_flight = w.save_in_flight
<1> DEFINE v == ObserveRevision(w)
<1>1. w \in Page
  BY DEF PageInv
<1>2. CASE w.unobserved
  <2>1. /\ SameHoldings(v, w) /\ v.dirty = w.dirty /\ ~v.unobserved
        /\ v.load_generation = w.load_generation
        /\ v.retry_wait = w.retry_wait /\ v.save_in_flight = w.save_in_flight
    BY <1>1, <1>2 DEF ObserveRevision, Page, SameHoldings
  <2>2. w.dirty /\ w.rom_key \in Battery /\ w.cartridge_ready
    BY <1>2 DEF Keeps, AgeIsCounted, PageInv, DirtyNeedsBattery
  <2> HIDE DEF v
  <2>3. RamHoldsMade(v) /\ CleanIsSafe(v, db) /\ AgeIsCounted(v)
    BY <2>1, <2>2 DEF Keeps, RamHoldsMade, CleanIsSafe, AgeIsCounted, SameHoldings
  <2> QED
    BY <2>1, <2>3 DEF Keeps, v
<1>3. CASE ~w.unobserved
  BY <1>3 DEF ObserveRevision, SameHoldings
<1> QED
  BY <1>2, <1>3

\* update_persistence makes up for the time that has passed.
LEMMA UpdateKeeps ==
  ASSUME NEW w, NEW log, NEW db, PageInv(w, log), Keeps(w, db)
  PROVE  LET v == UpdatePersistence(w)
         IN Keeps(v, db) /\ Timely(v) /\ v.load_generation = w.load_generation
<1> DEFINE seen == ObserveRevision(w)
           v == UpdatePersistence(w)
<1>1. /\ Keeps(seen, db) /\ seen.load_generation = w.load_generation
      /\ PageInv(seen, log)
  BY ObserveKeeps, ObserveInv
<1>2. seen \in Page
  BY <1>1 DEF PageInv
<1>3. v = IF ~Ready(w) \/ w.rom_key \notin Battery THEN w
          ELSE IF seen.save_in_flight \/ seen.retry_wait > 0 \/ ~SaveDue(seen) THEN seen
          ELSE StartSave(seen)
  BY DEF UpdatePersistence
<1> HIDE DEF seen, v
<1>4. CASE ~Ready(w) \/ w.rom_key \notin Battery
  <2>1. w.dirty_age = Never
    BY <1>4 DEF Ready, Keeps, AgeIsCounted, PageInv, DirtyNeedsBattery
  <2> QED
    BY <1>3, <1>4, <2>1 DEF Timely, v
<1>5. CASE Ready(w) /\ w.rom_key \in Battery /\ (seen.save_in_flight \/ seen.retry_wait > 0)
  <2>1. Timely(seen)
    BY <1>5 DEF Timely
  <2> QED
    BY <1>1, <1>3, <1>5, <2>1 DEF v
<1>6. CASE Ready(w) /\ w.rom_key \in Battery /\ ~SaveDue(seen)
  <2>1. seen.dirty => seen.dirty_age # Never /\ ~(seen.dirty_age >= MaxDirty)
    BY <1>6 DEF SaveDue, DirtyLongEnough, Elapsed
  <2>2. ~seen.dirty => seen.dirty_age = Never
    BY <1>1, <1>6 DEF SaveDue, Keeps, AgeIsCounted
  <2>3. seen.dirty_age = Never \/ seen.dirty_age < MaxDirty
    BY <1>2, <2>1, <2>2, WebSaveAssumption DEF Page
  <2> QED
    BY <1>1, <1>3, <1>6, <2>3 DEF Timely, v
<1>7. CASE /\ Ready(w) /\ w.rom_key \in Battery
           /\ ~seen.save_in_flight /\ ~(seen.retry_wait > 0) /\ SaveDue(seen)
  <2>1. seen.dirty \/ seen.save_snapshot # NoSave
    BY <1>7 DEF SaveDue, DirtyLongEnough
  <2> QED
    BY <1>1, <1>3, <1>7, <2>1, StartSaveKeeps DEF v
<1> QED
  BY <1>4, <1>5, <1>6, <1>7

LEMMA AdvanceClockKeeps ==
  ASSUME NEW w \in Page, NEW db, Keeps(w, db), NEW moved
  PROVE  LET v == AdvanceClock(w, moved)
         IN /\ Keeps(v, db) /\ (Timely(w) => Timely(v))
            /\ v.load_generation = w.load_generation
<1> DEFINE v == AdvanceClock(w, moved)
<1>1. CASE moved
  <2>1. /\ SameHoldings(v, w) /\ SameTimers(v, w) /\ v.dirty = TRUE /\ v.unobserved = TRUE
        /\ v.load_generation = w.load_generation
    BY <1>1 DEF AdvanceClock, Page, SameHoldings, SameTimers
  <2> HIDE DEF v
  <2>2. RamHoldsMade(v) /\ CleanIsSafe(v, db) /\ AgeIsCounted(v)
    BY <2>1 DEF Keeps, RamHoldsMade, CleanIsSafe, AgeIsCounted, SameHoldings, SameTimers
  <2> QED
    BY <2>1, <2>2, TimersKeep DEF Keeps, v
<1>2. CASE ~moved
  BY <1>2 DEF AdvanceClock
<1> QED
  BY <1>1, <1>2

LEMMA WriteRamKeeps ==
  ASSUME NEW w \in Page, NEW db, Keeps(w, db), NEW change, Ready(w)
  PROVE  LET v == WriteRam(w, change)
         IN /\ Keeps(v, db) /\ (Timely(w) => Timely(v))
            /\ v.load_generation = w.load_generation
<1> DEFINE v == WriteRam(w, change)
<1>1. /\ v.ram = w.ram \cup {change} /\ v.made = w.made \cup {change}
      /\ v.cartridge_ready = w.cartridge_ready /\ v.rom_key = w.rom_key
      /\ v.dirty = TRUE /\ v.unobserved = TRUE /\ SameTimers(v, w)
      /\ v.load_generation = w.load_generation
  BY DEF WriteRam, Page, SameTimers
<1> HIDE DEF v
<1>2. RamHoldsMade(v) /\ CleanIsSafe(v, db) /\ AgeIsCounted(v)
  BY <1>1 DEF Keeps, RamHoldsMade, CleanIsSafe, AgeIsCounted, SameTimers, Ready
<1> QED
  BY <1>1, <1>2, TimersKeep DEF Keeps, v

LEMMA RunFramesKeeps ==
  ASSUME NEW w \in Page, Keeps(w, idb), Timely(w), RunFrames(w), UNCHANGED idb
  PROVE  Keeps(web', idb') /\ Timely(web') /\ web'.load_generation = w.load_generation
<1>1. ASSUME NEW moved, web' = AdvanceClock(w, moved)
      PROVE  Keeps(web', idb) /\ Timely(web') /\ web'.load_generation = w.load_generation
  BY <1>1, AdvanceClockKeeps
<1>2. ASSUME NEW change, Ready(w), web' = WriteRam(w, change)
      PROVE  Keeps(web', idb) /\ Timely(web') /\ web'.load_generation = w.load_generation
  BY <1>2, WriteRamKeeps
<1> QED
  BY <1>1, <1>2 DEF RunFrames

\* What an answer leaves of the stores under way.
LEMMA StoresStay ==
  ASSUME NEW w \in Page, NEW v, w.requests # << >>, v.requests = Tail(w.requests),
         v.load_generation = w.load_generation
  PROVE  \A i \in StoresIn(v) : i + 1 \in StoresIn(w) /\ v.requests[i] = w.requests[i + 1]
BY TailShifts

LEMMA StoreSucceedsKeeps ==
  ASSUME JInv, StoreSucceeds
  PROVE  Keeps(web', idb') /\ Timely(web')
<1> DEFINE v == [Answered EXCEPT !.save_in_flight = FALSE, !.save_snapshot = NoSave,
                                 !.save_key = NoRom, !.dirty_age = Never,
                                 !.quiet_age = Never, !.retry_wait = 0]
           request == Head(web.requests)
<1>1. /\ PageInv(web, history) /\ web \in Page /\ Pending("store") /\ Keeps(web, idb)
      /\ idb \in [Roms -> Content \cup {NoSave}]
  BY DEF JInv, IInv, PageInv, StoreSucceeds
<1>2. /\ Answered \in Page /\ request = web.requests[1] /\ request.op = "store"
      /\ 1 \in 1 .. Len(web.requests)
  BY <1>1, AnsweredFields
<1>3. /\ Answered.ram = web.ram /\ Answered.made = web.made
      /\ Answered.cartridge_ready = web.cartridge_ready /\ Answered.rom_key = web.rom_key
      /\ SameDirt(Answered, web)
  BY <1>1 DEF Answered, Page, SameDirt
<1>4. /\ v \in Page /\ v.ram = web.ram /\ v.made = web.made
      /\ v.cartridge_ready = web.cartridge_ready /\ v.rom_key = web.rom_key
      /\ SameDirt(v, web) /\ v.save_snapshot = NoSave /\ v.dirty_age = Never
  BY <1>2, <1>3, SuccessFields DEF Page, SameDirt
<1>5. web' = CompletePendingActions(v)
  BY DEF StoreSucceeds, SaveSuccess
<1> HIDE DEF v
<1>6. 1 \in StoresIn(web)
  BY <1>2 DEF StoresIn
<1>7. ~web.dirty /\ web.made # {} => /\ request.key = web.rom_key
                                    /\ web.made \subseteq request.save
  <2>1. web.save_snapshot # NoSave
    BY <1>1, <1>6 DEF PageInv, StoreAccounting
  <2> QED
    BY <1>1, <1>2, <1>6, <2>1 DEF Keeps, CleanIsSafe
<1>8. idb' = [idb EXCEPT ![request.key] = request.save] /\ request.key \in Roms
  BY <1>1, SavedRequest DEF StoreSucceeds, JInv
<1>9. RamHoldsMade(v) /\ AgeIsCounted(v) /\ Timely(v)
  BY <1>1, <1>4 DEF Keeps, RamHoldsMade, AgeIsCounted, Timely, SameDirt
<1>10. CleanIsSafe(v, idb')
  BY <1>1, <1>4, <1>7, <1>8 DEF CleanIsSafe, SameDirt
<1> QED
  BY <1>4, <1>5, <1>9, <1>10, CompleteKeeps DEF Keeps

LEMMA StoreFailsKeeps ==
  ASSUME JInv, StoreFails
  PROVE  Keeps(web', idb') /\ Timely(web')
<1> DEFINE v == [Answered EXCEPT !.save_in_flight = FALSE, !.retry_wait = Retry]
<1>1. PageInv(web, history) /\ web \in Page /\ Pending("store") /\ Keeps(web, idb)
  BY DEF JInv, IInv, PageInv, StoreFails
<1>2. /\ Answered \in Page /\ web.requests # << >>
      /\ Answered.requests = Tail(web.requests)
      /\ Answered.load_generation = web.load_generation
  BY <1>1, AnsweredFields
<1>3. /\ Answered.ram = web.ram /\ Answered.made = web.made
      /\ Answered.cartridge_ready = web.cartridge_ready /\ Answered.rom_key = web.rom_key
      /\ Answered.save_snapshot = web.save_snapshot /\ Answered.save_key = web.save_key
      /\ SameDirt(Answered, web) /\ Answered.dirty_age = web.dirty_age
  BY <1>1 DEF Answered, Page, SameDirt
<1>4. /\ v \in Page /\ v.ram = web.ram /\ v.made = web.made
      /\ v.cartridge_ready = web.cartridge_ready /\ v.rom_key = web.rom_key
      /\ v.save_snapshot = web.save_snapshot /\ v.save_key = web.save_key
      /\ SameDirt(v, web) /\ v.dirty_age = web.dirty_age /\ v.retry_wait = Retry
      /\ v.requests = Tail(web.requests) /\ v.load_generation = web.load_generation
  BY <1>2, <1>3, ErrorFields DEF Page, SameDirt
<1>5. web' = CompletePendingActions(v) /\ idb' = idb
  BY DEF StoreFails, SaveError
<1> HIDE DEF v
<1>6. \A i \in StoresIn(v) : i + 1 \in StoresIn(web) /\ v.requests[i] = web.requests[i + 1]
  BY <1>1, <1>2, <1>4, StoresStay
<1>7. Timely(v)
  BY <1>4, WebSaveAssumption DEF Timely
<1>8. RamHoldsMade(v) /\ AgeIsCounted(v)
  BY <1>1, <1>4 DEF Keeps, RamHoldsMade, AgeIsCounted, SameDirt
<1>9. CleanIsSafe(v, idb)
  BY <1>1, <1>4, <1>6 DEF Keeps, CleanIsSafe, SameDirt
<1> QED
  BY <1>4, <1>5, <1>7, <1>8, <1>9, CompleteKeeps DEF Keeps

-----------------------------------------------------------------------------
(* The other handlers.  Each lemma also says that the handler inserts no other   *)
(* cartridge over dirty RAM, or does so in the callback of a store.              *)

DropsBehindASave ==
  web.dirty /\ web'.load_generation > web.load_generation => web.save_in_flight

Kept == Keeps(web', idb') /\ Timely(web') /\ DropsBehindASave

\* JInv taken apart.
LEMMA JFacts ==
  ASSUME JInv
  PROVE  /\ PageInv(web, history) /\ web \in Page /\ Keeps(web, idb) /\ Timely(web)
         /\ web.load_generation \in Nat
BY DEF JInv, IInv, PageInv, Page

\* A cartridge that waits for its load has lost nothing that it could lose.
LEMMA NothingMade ==
  ASSUME NEW w, NEW db, w.made = {}, w.dirty_age = Never, w.unobserved => w.dirty
  PROVE  Keeps(w, db) /\ Timely(w)
BY DEF Keeps, RamHoldsMade, CleanIsSafe, AgeIsCounted, Timely


LEMMA LoadWaited ==
  ASSUME JInv, Pending("load"), Current(Head(web.requests), web)
  PROVE  web.made = {} /\ web.dirty_age = Never
<1>1. /\ Head(web.requests) = web.requests[1] /\ 1 \in 1 .. Len(web.requests)
      /\ Head(web.requests).op = "load"
  BY JFacts, AnsweredFields
<1>2. 1 \in CurrentLoads(web)
  BY <1>1 DEF CurrentLoads
<1>3. ~web.cartridge_ready
  BY <1>2, JFacts DEF PageInv, LoadAccounting
<1> QED
  BY <1>3, JFacts DEF Keeps, RamHoldsMade, AgeIsCounted

LEMMA LoadIgnoredKeeps ==
  ASSUME JInv, Pending("load"), web' = Answered, UNCHANGED idb
  PROVE  Kept
<1>1. /\ web \in Page /\ Keeps(web, idb) /\ Timely(web) /\ web.load_generation \in Nat
  BY JFacts
<1>2. /\ Answered \in Page /\ web.requests # << >>
      /\ Answered.requests = Tail(web.requests)
      /\ Answered.load_generation = web.load_generation
  BY <1>1, AnsweredFields
<1>3. /\ Answered.ram = web.ram /\ Answered.made = web.made
      /\ Answered.cartridge_ready = web.cartridge_ready /\ Answered.rom_key = web.rom_key
      /\ Answered.save_snapshot = web.save_snapshot /\ Answered.save_key = web.save_key
      /\ SameDirt(Answered, web) /\ SameTimers(Answered, web)
  BY <1>1 DEF Answered, Page, SameDirt, SameTimers
<1> DEFINE v == Answered
<1> HIDE DEF v
<1>4. /\ v \in Page /\ v.requests = Tail(web.requests)
      /\ v.load_generation = web.load_generation
      /\ v.ram = web.ram /\ v.made = web.made
      /\ v.cartridge_ready = web.cartridge_ready /\ v.rom_key = web.rom_key
      /\ v.save_snapshot = web.save_snapshot /\ v.save_key = web.save_key
      /\ SameDirt(v, web) /\ SameTimers(v, web) /\ web' = v
  BY <1>2, <1>3 DEF v
<1>5. \A i \in StoresIn(v) : i + 1 \in StoresIn(web) /\ v.requests[i] = web.requests[i + 1]
  BY <1>1, <1>2, <1>4, StoresStay
<1>6. RamHoldsMade(v) /\ AgeIsCounted(v)
  BY <1>1, <1>4 DEF Keeps, RamHoldsMade, AgeIsCounted, SameDirt, SameTimers
<1>7. CleanIsSafe(v, idb)
  BY <1>1, <1>4, <1>5 DEF Keeps, CleanIsSafe, SameDirt
<1>8. Timely(v)
  BY <1>1, <1>4, TimersKeep
<1> QED
  BY <1>1, <1>4, <1>6, <1>7, <1>8 DEF Keeps, Kept, DropsBehindASave

LEMMA LoadFailsKeeps ==
  ASSUME JInv, LoadFails
  PROVE  Kept
<1>1. /\ web \in Page /\ Pending("load") /\ UNCHANGED idb /\ web.load_generation \in Nat
      /\ web.unobserved => web.dirty
  BY JFacts DEF LoadFails, Keeps, AgeIsCounted
<1>2. CASE Current(Head(web.requests), web)
  <2> DEFINE v == FinishRomLoad(Answered)
  <2>1. web.made = {} /\ web.dirty_age = Never
    BY <1>1, <1>2, LoadWaited
  <2>2. /\ v.made = web.made /\ v.dirty_age = web.dirty_age /\ v.dirty = web.dirty
        /\ v.unobserved = web.unobserved /\ v.load_generation = web.load_generation
    BY <1>1 DEF FinishRomLoad, Answered, Page
  <2>3. web' = v
    BY <1>2 DEF LoadFails
  <2> HIDE DEF v
  <2> QED
    BY <1>1, <2>1, <2>2, <2>3, NothingMade DEF Kept, DropsBehindASave
<1>3. CASE ~Current(Head(web.requests), web)
  BY <1>1, <1>3, LoadIgnoredKeeps DEF LoadFails
<1> QED
  BY <1>2, <1>3

LEMMA LoadFindsKeeps ==
  ASSUME JInv, LoadFinds
  PROVE  Kept
<1>1. web \in Page /\ Pending("load") /\ UNCHANGED idb /\ web.load_generation \in Nat
  BY JFacts DEF LoadFinds
<1>2. CASE Current(Head(web.requests), web)
  <2> DEFINE save == idb[Head(web.requests).key]
             r == RestoreSave(Answered, save)
  <2>1. PICK moved \in CatchUp(web.rom_key) :
          web' = FinishRomLoad(AdvanceClock(r, moved))
    BY <1>2 DEF LoadFinds
  <2> DEFINE v == FinishRomLoad(AdvanceClock(r, moved))
  <2>2. web.made = {} /\ web.dirty_age = Never
    BY <1>1, <1>2, LoadWaited
  <2> HIDE DEF save
  <2>3. /\ v.made = web.made /\ v.dirty_age = web.dirty_age
        /\ v.load_generation = web.load_generation
        /\ v.unobserved => v.dirty
    <3>1. CASE moved
      BY <1>1, <3>1 DEF AdvanceClock, FinishRomLoad, RestoreSave, Answered, Page
    <3>2. CASE ~moved
      BY <1>1, <3>2 DEF AdvanceClock, FinishRomLoad, RestoreSave, Answered, Page
    <3> QED
      BY <3>1, <3>2
  <2>4. web' = v
    BY <2>1
  <2> HIDE DEF v
  <2> QED
    BY <1>1, <2>2, <2>3, <2>4, NothingMade DEF Kept, DropsBehindASave
<1>3. CASE ~Current(Head(web.requests), web)
  BY <1>1, <1>3, LoadIgnoredKeeps DEF LoadFinds
<1> QED
  BY <1>2, <1>3

LEMMA ClosePageKeeps ==
  ASSUME JInv, ClosePage
  PROVE  Kept
<1>1. /\ web' = FreshPage /\ FreshPage.made = {} /\ FreshPage.dirty_age = Never
      /\ FreshPage.unobserved = FALSE /\ FreshPage.load_generation = 0
  BY DEF ClosePage, FreshPage
<1>2. ~(0 > web.load_generation)
  BY JFacts
<1>3. Keeps(FreshPage, idb') /\ Timely(FreshPage)
  BY <1>1, NothingMade
<1> QED
  BY <1>1, <1>2, <1>3 DEF Kept, DropsBehindASave

LEMMA LoadRomKeeps ==
  ASSUME JInv, NEW rom \in Roms, LoadRom(rom)
  PROVE  Kept
<1> DEFINE asked == [web EXCEPT !.pending_rom = rom]
<1>1. /\ IInv /\ web \in Page /\ Keeps(web, idb) /\ Timely(web)
      /\ web.load_generation \in Nat /\ DirtyNeedsBattery(web)
  BY JFacts DEF JInv, PageInv
<1>2. /\ web.load_generation < MaxLoads /\ idb' = idb
      /\ web' = IF web.rom_key # NoRom /\ MustSaveFirst(web)
                THEN Flush(asked) ELSE InstallPendingRom(asked)
  BY DEF LoadRom
<1>3. /\ asked \in Page /\ asked.load_generation = web.load_generation
      /\ web.rom_key # NoRom => PageInv(asked, history)
  BY <1>1, <1>2, AskedPage
<1>4. SameHoldings(asked, web) /\ SameDirt(asked, web) /\ SameTimers(asked, web)
  BY <1>1 DEF Page, SameHoldings, SameDirt, SameTimers
<1> HIDE DEF asked
<1>5. Keeps(asked, idb) /\ Timely(asked)
  BY <1>1, <1>4, HoldingsKeep, TimersKeep
<1>6. CASE web.rom_key # NoRom /\ MustSaveFirst(web)
  <2>1. asked.save_in_flight \/ asked.dirty \/ asked.save_snapshot # NoSave
    BY <1>4, <1>6 DEF MustSaveFirst, SaveUnderWay, SameHoldings, SameDirt, SameTimers
  <2>2. /\ Keeps(Flush(asked), idb) /\ Timely(Flush(asked))
        /\ Flush(asked).load_generation = web.load_generation
    BY <1>3, <1>5, <1>6, <2>1, FlushKeeps
  <2> QED
    BY <1>1, <1>2, <1>6, <2>2 DEF Kept, DropsBehindASave
<1>7. CASE ~(web.rom_key # NoRom /\ MustSaveFirst(web))
  <2>1. ~web.dirty
    BY <1>1, <1>7, WebSaveAssumption DEF DirtyNeedsBattery, MustSaveFirst
  <2>2. Keeps(InstallPendingRom(asked), idb) /\ Timely(InstallPendingRom(asked))
    BY <1>3, InstallKeeps
  <2> QED
    BY <1>2, <1>7, <2>1, <2>2 DEF Kept, DropsBehindASave
<1> QED
  BY <1>6, <1>7

LEMMA FlushStepKeeps ==
  ASSUME JInv, NEW w, PageInv(w, history), SameHoldings(w, web), SameDirt(w, web),
         SameTimers(w, web), w.load_generation = web.load_generation,
         web' = Flush(w), UNCHANGED idb
  PROVE  Kept
<1>1. Keeps(w, idb) /\ Timely(w) /\ web.load_generation \in Nat
  BY JFacts, HoldingsKeep, TimersKeep
<1>2. /\ Keeps(Flush(w), idb) /\ Timely(Flush(w))
      /\ w.dirty => Flush(w).load_generation = web.load_generation
  BY <1>1, FlushKeeps
<1> QED
  BY <1>1, <1>2 DEF Kept, DropsBehindASave, SameDirt

LEMMA ResetKeeps ==
  ASSUME JInv, Reset
  PROVE  Kept
<1> DEFINE v == [web EXCEPT !.reset_pending = TRUE]
<1>1. web \in Page /\ PageInv(web, history)
  BY JFacts
<1>2. SameCartridge(v, web) /\ v.dirty = web.dirty
  BY <1>1 DEF Page, SameCartridge
<1>3. SameHoldings(v, web) /\ SameDirt(v, web) /\ SameTimers(v, web)
  BY <1>1 DEF Page, SameHoldings, SameDirt, SameTimers
<1>4. web' = Flush(v) /\ UNCHANGED idb
  BY DEF Reset
<1> HIDE DEF v
<1>5. PageInv(v, history) /\ v.load_generation = web.load_generation
  BY <1>1, <1>2, SameCartridgeInv DEF SameCartridge
<1> QED
  BY <1>3, <1>4, <1>5, FlushStepKeeps

LEMMA HideOrUnloadKeeps ==
  ASSUME JInv, HideOrUnload
  PROVE  Kept
<1>1. SameHoldings(web, web) /\ SameDirt(web, web) /\ SameTimers(web, web)
  BY DEF SameHoldings, SameDirt, SameTimers
<1> QED
  BY <1>1, JFacts, FlushStepKeeps DEF HideOrUnload

LEMMA ExportSaveKeeps ==
  ASSUME JInv, ExportSave
  PROVE  Kept
<1>1. PICK moved \in CatchUp(web.rom_key) : web' = AdvanceClock(web, moved)
  BY DEF ExportSave
<1>2. UNCHANGED idb
  BY DEF ExportSave
<1> QED
  BY <1>1, <1>2, JFacts, AdvanceClockKeeps DEF Kept, DropsBehindASave

\* What an import leaves to be saved: the snapshot, and no change of the game.
LEMMA ImportedFields ==
  ASSUME NEW change, NEW moved, web \in Page
  PROVE  LET u == Imported(change, moved) IN
         /\ u.made = {} /\ u.dirty_age = web.dirty_age /\ u.rom_key = web.rom_key
         /\ u.cartridge_ready = web.cartridge_ready /\ u.save_snapshot = {change}
         /\ u.load_generation = web.load_generation
         /\ u.unobserved => u.dirty
<1>1. CASE moved
  BY <1>1 DEF Imported, RestoreSave, AdvanceClock, Page
<1>2. CASE ~moved
  BY <1>2 DEF Imported, RestoreSave, AdvanceClock, Page
<1> QED
  BY <1>1, <1>2

LEMMA ImportSaveKeeps ==
  ASSUME JInv, ImportSave
  PROVE  Kept
<1> DEFINE change == Len(history) + 1
           log == Append(history, web.rom_key)
<1>1. /\ IInv /\ web \in Page /\ Keeps(web, idb) /\ web.load_generation \in Nat
      /\ web.rom_key \in Battery /\ web.cartridge_ready /\ UNCHANGED idb
  BY JFacts DEF JInv, ImportSave, Ready
<1>2. PICK moved \in CatchUp(web.rom_key) : web' = StartSave(Imported(change, moved))
  BY DEF ImportSave
<1> DEFINE u == Imported(change, moved)
<1>3. PageInv(u, log)
  BY <1>1, ImportedInv
<1>4. /\ u.made = {} /\ u.dirty_age = web.dirty_age /\ u.rom_key = web.rom_key
      /\ u.cartridge_ready = web.cartridge_ready /\ u.save_snapshot = {change}
      /\ u.load_generation = web.load_generation
      /\ u.unobserved => u.dirty
  BY <1>1, ImportedFields
<1> HIDE DEF u, change, log
<1>5. u.save_snapshot # NoSave
  BY <1>4 DEF NoSave
<1>6. Keeps(u, idb)
  BY <1>1, <1>4, <1>5 DEF Keeps, RamHoldsMade, CleanIsSafe, AgeIsCounted
<1>7. /\ Keeps(StartSave(u), idb) /\ Timely(StartSave(u))
      /\ StartSave(u).load_generation = u.load_generation
  BY <1>3, <1>5, <1>6, StartSaveKeeps
<1> QED
  BY <1>1, <1>2, <1>4, <1>7 DEF Kept, DropsBehindASave, u

-----------------------------------------------------------------------------
(* The second invariant and what follows from it. *)

LEMMA InitJInv == Init => JInv
<1> SUFFICES ASSUME Init PROVE JInv
  OBVIOUS
<1>1. /\ web = FreshPage /\ FreshPage.made = {} /\ FreshPage.dirty_age = Never
      /\ FreshPage.unobserved = FALSE
  BY DEF Init, FreshPage
<1> QED
  BY <1>1, NothingMade, InitInv DEF JInv

LEMMA NextKept ==
  ASSUME JInv, [Next]_vars
  PROVE  Kept
<1>1. /\ PageInv(web, history) /\ web \in Page /\ Keeps(web, idb) /\ Timely(web)
      /\ web.load_generation \in Nat
  BY JFacts
<1>2. ASSUME NEW w, PageInv(w, history), Keeps(w, idb), Timely(w), RunFrames(w),
             w.load_generation = web.load_generation, UNCHANGED idb
      PROVE  Kept
  <2>1. w \in Page
    BY <1>2 DEF PageInv
  <2>2. Keeps(web', idb') /\ Timely(web') /\ web'.load_generation = w.load_generation
    BY <1>2, <2>1, RunFramesKeeps
  <2> QED
    BY <1>1, <1>2, <2>2 DEF Kept, DropsBehindASave
<1>3. CASE MainLoop
  <2> DEFINE p == PassTime(web)
             u == UpdatePersistence(p)
  <2>1. PageInv(p, history) /\ Keeps(p, idb) /\ p.load_generation = web.load_generation
    BY <1>1, PassTimeInv, PassTimeKeeps
  <2>2. RunFrames(u) /\ UNCHANGED idb
    BY <1>3 DEF MainLoop
  <2> HIDE DEF p
  <2>3. /\ PageInv(u, history) /\ Keeps(u, idb) /\ Timely(u)
        /\ u.load_generation = web.load_generation
    BY <2>1, UpdateInv, UpdateKeeps
  <2> HIDE DEF u
  <2> QED
    BY <1>2, <2>2, <2>3
<1>4. CASE StepFrame
  BY <1>1, <1>2, <1>4 DEF StepFrame
<1>5. ASSUME NEW rom \in Roms, LoadRom(rom) PROVE Kept
  BY <1>5, LoadRomKeeps
<1>6. CASE Reset
  BY <1>6, ResetKeeps
<1>7. CASE ExportSave
  BY <1>7, ExportSaveKeeps
<1>8. CASE ImportSave
  BY <1>8, ImportSaveKeeps
<1>9. CASE HideOrUnload
  BY <1>9, HideOrUnloadKeeps
<1>10. ASSUME Pending("store") PROVE web.save_in_flight
  <2>1. /\ Head(web.requests) = web.requests[1] /\ 1 \in 1 .. Len(web.requests)
        /\ Head(web.requests).op = "store"
    BY <1>1, <1>10, AnsweredFields
  <2>2. 1 \in StoresIn(web)
    BY <2>1 DEF StoresIn
  <2> QED
    BY <1>1, <2>2 DEF PageInv, StoreAccounting
<1>11. CASE StoreSucceeds
  <2>1. Pending("store")
    BY <1>11 DEF StoreSucceeds
  <2> QED
    BY <1>10, <1>11, <2>1, StoreSucceedsKeeps DEF Kept, DropsBehindASave
<1>12. CASE StoreFails
  <2>1. Pending("store") /\ idb' = idb
    BY <1>12 DEF StoreFails
  <2> QED
    BY <1>10, <1>12, <2>1, StoreFailsKeeps DEF Kept, DropsBehindASave
<1>13. CASE LoadFinds
  BY <1>13, LoadFindsKeeps
<1>14. CASE LoadFails
  BY <1>14, LoadFailsKeeps
<1>15. CASE ClosePage
  BY <1>15, ClosePageKeeps
<1>16. CASE UNCHANGED vars
  BY <1>1, <1>16 DEF vars, Kept, DropsBehindASave
<1> QED
  BY <1>3, <1>4, <1>5, <1>6, <1>7, <1>8, <1>9, <1>11, <1>12, <1>13, <1>14, <1>15, <1>16
  DEF Next

LEMMA NextJInv == JInv /\ [Next]_vars => JInv'
<1> SUFFICES ASSUME JInv, [Next]_vars PROVE JInv'
  OBVIOUS
<1>1. IInv'
  BY NextInv DEF JInv
<1> QED
  BY <1>1, NextKept DEF JInv, Kept

LEMMA NothingIsLost == Spec => []JInv
BY InitJInv, NextJInv, PTL DEF Spec

\* RAM that counts as clean can be replaced at any time: its changes are in the
\* database, or in the snapshot that is held until a store of it has succeeded.
THEOREM CleanIsSaved == Spec => []CleanRamIsSaved
<1>1. JInv => CleanRamIsSaved
  BY DEF JInv, Keeps, CleanIsSafe, CleanRamIsSaved
<1> QED
  BY <1>1, NothingIsLost, PTL

\* A page that could save does not let a game write for save_max_dirty_ms
\* without a save, however often the game writes.
THEOREM SavesAreTimely == Spec => []DirtyRamIsNotOverdue
<1>1. JInv => DirtyRamIsNotOverdue
  BY DEF JInv, Timely, DirtyRamIsNotOverdue
<1> QED
  BY <1>1, NothingIsLost, PTL

\* No step but the callback of a store inserts a cartridge over dirty RAM.
THEOREM DirtyRamWaits == Spec => UnsavedRamIsDroppedOnlyBehindASave
<1>1. JInv /\ [Next]_vars
        => [(web.dirty /\ web'.load_generation > web.load_generation)
              => web.save_in_flight]_vars
  BY NextKept DEF Kept, DropsBehindASave
<1> QED
  BY <1>1, NothingIsLost, PTL DEF Spec, UnsavedRamIsDroppedOnlyBehindASave
=============================================================================
