------------------------------ MODULE WebSave ------------------------------
(***************************************************************************)
(* Save persistence of the browser front-end: class WebGameBoy of          *)
(* src/src/web_bindings.cpp together with the dirty flag of the cartridge. *)
(*                                                                         *)
(* The page keeps the RAM of the inserted cartridge, at most one snapshot  *)
(* that waits to be stored, and the timers that decide when to store it.   *)
(* IndexedDB answers asynchronously: callbacks run between frames, in the  *)
(* order in which the requests were issued, and a store may fail.  The     *)
(* user switches cartridges, resets, imports a save and closes the page at *)
(* any moment.                                                             *)
(*                                                                         *)
(* Every member function of WebGameBoy that only changes the page is an    *)
(* operator from one page record to the next, so that a handler composes   *)
(* exactly the calls the code composes.  RAM contents are abstracted to    *)
(* the set of changes they contain, never empty; `history' numbers every   *)
(* change ever made and remembers which game made it.                      *)
(***************************************************************************)
EXTENDS Integers, Sequences

CONSTANTS
  Roms,          \* the cartridges the user may insert, named by their SHA-256
  Battery,       \* those with battery-backed RAM
  Clocked,       \* those whose battery also runs a real-time clock
  NoRom,         \* the empty string / vector: no cartridge
  Never,         \* the -1.0 of a timer that is not running
  Debounce,      \* save_debounce_ms, in main-loop turns
  MaxDirty,      \* save_max_dirty_ms, in main-loop turns
  Retry,         \* save_retry_ms, in main-loop turns
  MaxWrites,     \* bound: changes ever made to cartridge RAM
  MaxLoads       \* bound: cartridges ever inserted in one page

ASSUME WebSaveAssumption ==
  /\ Clocked \subseteq Battery /\ Battery \subseteq Roms
  /\ NoRom \notin Roms
  /\ Never \notin Nat
  /\ Debounce \in Nat /\ MaxDirty \in Nat /\ Retry \in Nat \ {0}
  /\ MaxWrites \in Nat /\ MaxLoads \in Nat

VARIABLES
  web,           \* the page: WebGameBoy, its cartridge RAM, its open requests
  idb,           \* the object store "dmg-console-saves": key -> save or NoSave
  history        \* history[i]: the game that change i belongs to

vars == <<web, idb, history>>

-----------------------------------------------------------------------------
(* The page record. *)

Blank == 0       \* the content of zeroed RAM, a change that belongs to no game
NoSave == {}     \* the empty vector, or a key that the store does not hold

FreshPage ==
  [ pending_rom   |-> NoRom,     rom_key         |-> NoRom,
    cartridge_ready |-> FALSE,   load_generation |-> 0,
    ram           |-> {Blank},     dirty           |-> FALSE,
    unobserved    |-> FALSE,     \* dirty in a way update_persistence has not seen
    save_snapshot |-> NoSave,    save_key        |-> NoRom,
    save_in_flight |-> FALSE,    reset_pending   |-> FALSE,
    dirty_age     |-> Never,     \* now - dirty_started_at
    quiet_age     |-> Never,     \* now - last_dirty_change_at
    retry_wait    |-> 0,         \* retry_at - now, not below 0
    requests      |-> << >>,     \* IndexedDB requests without an answer yet
    made          |-> {} ]       \* (history) changes the game made since its
                                 \* cartridge was inserted or imported over

LoadRequest(key, generation) == [op |-> "load", key |-> key, generation |-> generation]
StoreRequest(key, save) == [op |-> "store", key |-> key, save |-> save]

Ready(w) == w.rom_key # NoRom /\ w.cartridge_ready

-----------------------------------------------------------------------------
(* Member functions of WebGameBoy. *)

FinishRomLoad(w) == [w EXCEPT !.cartridge_ready = TRUE]

\* GameBoy::load_rom replaces the cartridge: zeroed RAM, clean, revision 0.
InsertCartridge(w) ==
  [w EXCEPT !.rom_key = w.pending_rom, !.pending_rom = NoRom, !.cartridge_ready = FALSE,
            !.ram = {Blank}, !.made = {}, !.dirty = FALSE, !.unobserved = FALSE,
            !.dirty_age = Never, !.quiet_age = Never, !.load_generation = @ + 1]

InstallPendingRom(w) ==
  LET inserted == InsertCartridge(w) IN
  IF inserted.rom_key \in Battery
  THEN [inserted EXCEPT !.requests =
          Append(@, LoadRequest(inserted.rom_key, inserted.load_generation))]
  ELSE FinishRomLoad(inserted)

CompletePendingActions(w) ==
  IF w.pending_rom # NoRom THEN InstallPendingRom(w)
  ELSE IF w.reset_pending /\ Ready(w) THEN [w EXCEPT !.reset_pending = FALSE]
  ELSE w

\* make_portable_save(true): copy the RAM out and clear the dirty flag.
TakeSnapshot(w) ==
  [w EXCEPT !.save_snapshot = w.ram, !.save_key = w.rom_key,
            !.dirty = FALSE, !.unobserved = FALSE]

IssueStore(w) ==
  [w EXCEPT !.save_in_flight = TRUE,
            !.requests = Append(@, StoreRequest(w.save_key, w.save_snapshot))]

\* A failed snapshot of the inserted game gives way to a new one when the RAM
\* has changed since it was taken.
Superseded(w) == w.save_snapshot # NoSave /\ w.save_key = w.rom_key /\ w.dirty

SaveNow(w) ==
  IF Superseded(w) THEN IssueStore(TakeSnapshot(w))
  ELSE IF w.save_snapshot # NoSave THEN IssueStore(w)
  ELSE IF w.dirty THEN IssueStore(TakeSnapshot(w))
  ELSE CompletePendingActions(w)

StartSave(w) == IF w.save_in_flight THEN w ELSE SaveNow(w)

Flush(w) ==
  IF w.save_in_flight THEN w
  ELSE IF w.save_snapshot # NoSave \/ w.dirty THEN StartSave(w)
  ELSE CompletePendingActions(w)

\* The change of the RAM since the last turn, if any, restarts the debounce.
ObserveRevision(w) ==
  IF w.unobserved
  THEN [w EXCEPT !.unobserved = FALSE, !.quiet_age = 0,
                 !.dirty_age = IF @ = Never THEN 0 ELSE @]
  ELSE w

\* now - (-1) exceeds every limit once the page is older than the limit.
Elapsed(age, limit) == age = Never \/ age >= limit

DirtyLongEnough(w) ==
  w.dirty /\ (Elapsed(w.quiet_age, Debounce) \/ Elapsed(w.dirty_age, MaxDirty))

\* Mutant: no limit on how long a game that keeps writing stays unsaved.
SaveDueOnceQuiet(w) ==
  w.save_snapshot # NoSave \/ (w.dirty /\ Elapsed(w.quiet_age, Debounce))

SaveDue(w) == w.save_snapshot # NoSave \/ DirtyLongEnough(w)

UpdatePersistence(w) ==
  LET seen == ObserveRevision(w) IN
  IF ~Ready(w) \/ w.rom_key \notin Battery THEN w
  ELSE IF seen.save_in_flight \/ seen.retry_wait > 0 \/ ~SaveDue(seen) THEN seen
  ELSE StartSave(seen)

\* One main-loop turn of wall-clock time; an age stops at the limit it is
\* compared with.
Older(age, limit) == IF age = Never \/ age >= limit THEN age ELSE age + 1

PassTime(w) ==
  [w EXCEPT !.dirty_age = Older(@, MaxDirty), !.quiet_age = Older(@, Debounce),
            !.retry_wait = IF @ = 0 THEN 0 ELSE @ - 1]

\* Cartridge::mark_persistent_dirty after a store to battery RAM.
WriteRam(w, change) ==
  [w EXCEPT !.ram = @ \cup {change}, !.made = @ \cup {change}, !.dirty = TRUE, !.unobserved = TRUE]

\* load_battery_ram: the RAM is clean once it holds a save.
RestoreSave(w, save) == [w EXCEPT !.ram = save, !.dirty = FALSE, !.unobserved = FALSE]

\* advance_rtc_milliseconds: clock registers that move on count as a change.
CatchUp(rom) == IF rom \in Clocked THEN BOOLEAN ELSE {FALSE}

AdvanceClock(w, moved) ==
  IF moved THEN [w EXCEPT !.dirty = TRUE, !.unobserved = TRUE] ELSE w

-----------------------------------------------------------------------------
(* Handlers: JavaScript calls, browser events and IndexedDB callbacks. *)

\* While frames run the game changes its battery RAM or reads its clock, or not.
RunFrames(w) ==
  \/ /\ \E moved \in CatchUp(w.rom_key) : web' = AdvanceClock(w, Ready(w) /\ moved)
     /\ UNCHANGED history
  \/ /\ Ready(w) /\ w.rom_key \in Battery /\ Len(history) < MaxWrites
     /\ web' = WriteRam(w, Len(history) + 1)
     /\ history' = Append(history, w.rom_key)

MainLoop == RunFrames(UpdatePersistence(PassTime(web))) /\ UNCHANGED idb

StepFrame == Ready(web) /\ RunFrames(web) /\ UNCHANGED idb

SaveUnderWay(w) == w.save_in_flight \/ w.save_snapshot # NoSave

MustSaveFirst(w) == SaveUnderWay(w) \/ w.dirty

LoadRom(rom) ==
  LET asked == [web EXCEPT !.pending_rom = rom] IN
  /\ web.load_generation < MaxLoads
  /\ web' = IF web.rom_key # NoRom /\ MustSaveFirst(web)
            THEN Flush(asked)
            ELSE InstallPendingRom(asked)
  /\ UNCHANGED <<idb, history>>

Reset ==
  /\ Ready(web)
  /\ web' = Flush([web EXCEPT !.reset_pending = TRUE])
  /\ UNCHANGED <<idb, history>>

\* exportSaveSize and copyExportSave read a save, which brings the clock up to date.
ExportSave ==
  /\ Ready(web) /\ web.rom_key \in Battery
  /\ \E moved \in CatchUp(web.rom_key) : web' = AdvanceClock(web, moved)
  /\ UNCHANGED <<idb, history>>

\* A save file of the right size replaces the RAM, which counts as clean until
\* the clock has caught up with the time since the file was saved.
Imported(change, moved) ==
  [AdvanceClock([RestoreSave(web, {change}) EXCEPT !.made = {}], moved)
     EXCEPT !.save_snapshot = {change}, !.save_key = web.rom_key, !.reset_pending = TRUE]

ImportSave ==
  LET change == Len(history) + 1 IN
  /\ Ready(web) /\ web.rom_key \in Battery /\ Len(history) < MaxWrites
  /\ \E moved \in CatchUp(web.rom_key) : web' = StartSave(Imported(change, moved))
  /\ history' = Append(history, web.rom_key)
  /\ UNCHANGED idb

\* visibilitychange to hidden, and beforeunload.
HideOrUnload == web' = Flush(web) /\ UNCHANGED <<idb, history>>

Answered == [web EXCEPT !.requests = Tail(@)]

Pending(op) == web.requests # << >> /\ Head(web.requests).op = op

\* Mutant: the ROM that waited for the store is left waiting.
SaveSuccessIdle(w) ==
  [w EXCEPT !.save_in_flight = FALSE, !.save_snapshot = NoSave, !.save_key = NoRom,
            !.dirty_age = Never, !.quiet_age = Never, !.retry_wait = 0]

SaveSuccess(w) ==
  CompletePendingActions(
    [w EXCEPT !.save_in_flight = FALSE, !.save_snapshot = NoSave, !.save_key = NoRom,
              !.dirty_age = Never, !.quiet_age = Never, !.retry_wait = 0])

\* Mutant: a failed snapshot is forgotten.
SaveErrorForgetting(w) ==
  CompletePendingActions([w EXCEPT !.save_in_flight = FALSE, !.save_snapshot = NoSave,
                                   !.save_key = NoRom])

SaveError(w) ==
  CompletePendingActions([w EXCEPT !.save_in_flight = FALSE, !.retry_wait = Retry])

StoreSucceeds ==
  /\ Pending("store")
  /\ idb' = [idb EXCEPT ![Head(web.requests).key] = Head(web.requests).save]
  /\ web' = SaveSuccess(Answered)
  /\ UNCHANGED history

StoreFails ==
  /\ Pending("store")
  /\ web' = SaveError(Answered)
  /\ UNCHANGED <<idb, history>>

\* Mutant: every answer is taken for the inserted cartridge.
AnyAnswer(request, w) == request.generation <= w.load_generation

\* An answer to a request of an earlier cartridge is ignored.
Current(request, w) == request.generation = w.load_generation

LoadFinds ==
  LET request == Head(web.requests) IN
  /\ Pending("load") /\ idb[request.key] # NoSave
  /\ IF Current(request, web)
     THEN \E moved \in CatchUp(web.rom_key) :
            web' = FinishRomLoad(AdvanceClock(RestoreSave(Answered, idb[request.key]), moved))
     ELSE web' = Answered
  /\ UNCHANGED <<idb, history>>

\* The key is missing, or the database could not be read: the code cannot tell.
LoadFails ==
  /\ Pending("load")
  /\ web' = IF Current(Head(web.requests), web) THEN FinishRomLoad(Answered) ELSE Answered
  /\ UNCHANGED <<idb, history>>

\* The page goes away.  A store that the browser has begun may still commit.
ClosePage ==
  /\ web # FreshPage
  /\ web' = FreshPage
  /\ \/ UNCHANGED idb
     \/ /\ Pending("store")
        /\ idb' = [idb EXCEPT ![Head(web.requests).key] = Head(web.requests).save]
  /\ UNCHANGED history

-----------------------------------------------------------------------------

Init ==
  /\ web = FreshPage
  /\ idb = [key \in Roms |-> NoSave]
  /\ history = << >>

Next ==
  \/ MainLoop
  \/ StepFrame
  \/ \E rom \in Roms : LoadRom(rom)
  \/ Reset
  \/ ExportSave
  \/ ImportSave
  \/ HideOrUnload
  \/ StoreSucceeds
  \/ StoreFails
  \/ LoadFinds
  \/ LoadFails
  \/ ClosePage

Spec == Init /\ [][Next]_vars

\* The browser keeps calling the main loop and answers every request; a store
\* that is tried again and again is not refused for ever.
Fairness ==
  /\ WF_vars(MainLoop)
  /\ WF_vars(LoadFinds \/ LoadFails)
  /\ SF_vars(StoreSucceeds)

FairSpec == Spec /\ Fairness

-----------------------------------------------------------------------------
(* Properties. *)

Changes == 1 .. MaxWrites
Content == (SUBSET ({Blank} \cup Changes)) \ {NoSave}

Request ==
  [op : {"load"}, key : Battery, generation : 1 .. MaxLoads]
    \cup [op : {"store"}, key : Battery, save : Content]

Page ==
  [ pending_rom : Roms \cup {NoRom}, rom_key : Roms \cup {NoRom},
    cartridge_ready : BOOLEAN, load_generation : 0 .. MaxLoads,
    ram : Content, dirty : BOOLEAN, unobserved : BOOLEAN,
    save_snapshot : Content \cup {NoSave}, save_key : Battery \cup {NoRom},
    save_in_flight : BOOLEAN, reset_pending : BOOLEAN,
    dirty_age : 0 .. MaxDirty \cup {Never}, quiet_age : 0 .. Debounce \cup {Never},
    retry_wait : 0 .. Retry, requests : Seq(Request), made : SUBSET Changes ]

\* Every field of the page, every request and every stored save is well formed;
\* only cartridges with a battery are ever loaded from or stored to the database.
TypeOK ==
  /\ web \in Page
  /\ idb \in [Roms -> Content \cup {NoSave}]
  /\ history \in Seq(Roms)
  /\ Len(history) <= MaxWrites

\* Every change in the save was made by the game rom.
OfGame(log, save, rom) == \A id \in save \ {Blank} : id \in 1 .. Len(log) /\ log[id] = rom

StoresIn(w) == {i \in 1 .. Len(w.requests) : w.requests[i].op = "store"}

PageHoldsOwnSaves(w, log) ==
  /\ OfGame(log, w.ram, w.rom_key)
  /\ OfGame(log, w.save_snapshot, w.save_key)
  /\ \A i \in StoresIn(w) : OfGame(log, w.requests[i].save, w.requests[i].key)

\* A save only ever holds changes its own game made: no cartridge's RAM, no
\* snapshot, no store under way and no stored save mixes in another game's,
\* however loads, failures and cartridge switches interleave.
SavesStayWithTheirGame ==
  /\ PageHoldsOwnSaves(web, history)
  /\ \A rom \in Roms : OfGame(history, idb[rom], rom)

StoreAccounting(w) ==
  /\ w.save_in_flight <=> StoresIn(w) # {}
  /\ \A i, j \in StoresIn(w) : i = j
  /\ w.save_in_flight => w.save_snapshot # NoSave
  /\ w.save_snapshot # NoSave <=> w.save_key # NoRom

\* The in-flight flag tells the truth: it is set exactly while one store, and
\* never a second, waits for its answer, and some snapshot is held for a retry.
OneStoreAtATime == StoreAccounting(web)

CurrentLoads(w) ==
  {i \in 1 .. Len(w.requests) : w.requests[i].op = "load" /\ Current(w.requests[i], w)}

LoadAccounting(w) ==
  /\ (w.rom_key # NoRom /\ ~w.cartridge_ready) <=> CurrentLoads(w) # {}
  /\ \A i, j \in CurrentLoads(w) : i = j
  /\ \A i \in CurrentLoads(w) : w.requests[i].key = w.rom_key

\* A cartridge that is not ready waits for exactly one answer, which is for its
\* own key: it can neither be stuck nor be started twice or with another's save.
WaitingCartridgeHasItsLoad == LoadAccounting(web)

\* RAM that counts as clean can be lost without harm: every change its game made
\* is in the store, in the snapshot, or in a store under way.
CleanRamIsSaved ==
  ~web.dirty =>
    \A id \in web.made :
      \/ id \in idb[web.rom_key]
      \/ web.save_key = web.rom_key /\ id \in web.save_snapshot
      \/ \E i \in StoresIn(web) :
           web.requests[i].key = web.rom_key /\ id \in web.requests[i].save

\* A game that never stops writing is saved all the same: when nothing prevents
\* a save, RAM is not dirty for longer than save_max_dirty_ms.
DirtyRamIsNotOverdue ==
  (Ready(web) /\ web.dirty /\ ~web.save_in_flight /\ web.retry_wait = 0)
    => web.dirty_age = Never \/ web.dirty_age < MaxDirty

\* Inserting a cartridge drops unsaved RAM of the previous one only in the
\* callback of a store that the switch had been waiting for.
UnsavedRamIsDroppedOnlyBehindASave ==
  [][(web.dirty /\ web'.load_generation > web.load_generation) => web.save_in_flight]_vars

\* A cartridge the user chose runs in the end, unless the page closes first.
ChosenCartridgeRuns ==
  (web.pending_rom # NoRom \/ (web.rom_key # NoRom /\ ~web.cartridge_ready))
    ~> ((Ready(web) /\ web.pending_rom = NoRom) \/ web = FreshPage)

\* A change the game made reaches the store as long as its cartridge stays in
\* and no import replaces the RAM, whatever stores fail on the way.
ChangesReachTheStore ==
  \A id \in Changes :
    id \in web.made ~> (id \notin web.made \/ id \in idb[history[id]])

(* What the program says of itself and does not keep. *)

\* "Saving current game before loading the cartridge." (web_bindings.cpp:157):
\* when another cartridge is inserted, all that the RAM of the game before it held,
\* played or imported, is in the store or in the snapshot that is kept for a retry.
SwitchSavesTheGame ==
  [][web'.load_generation > web.load_generation =>
       \A id \in web.ram \ {Blank} :
         \/ id \in idb'[web.rom_key]
         \/ web'.save_key = web.rom_key /\ id \in web'.save_snapshot]_vars
=============================================================================
