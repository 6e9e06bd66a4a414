------------------------------ MODULE PowerSteps ------------------------------
(***************************************************************************)
(* The overclock step and the core-voltage level: what the plugin believes *)
(* (its globals), what it keeps (settings.cfg and a save state) and what   *)
(* the hardware runs at.  The menu thread decides at its first wake-up,    *)
(* asks the user, and follows the settings pages; RESUME_COMPLETED puts    *)
(* the clock back after every sleep but only asks for the voltage; the     *)
(* game-exit hook takes the clock down.                                    *)
(*                                                                         *)
(* Steps are indices into g_oc_multipliers, 0 = stock.  Codes of the core  *)
(* rail are written as levels (CV_CODE_TO_LEVEL), higher = more volts.     *)
(* consent is an observer: what the user has agreed to, per step.          *)
(***************************************************************************)
EXTENDS Integers

CONSTANTS
  MaxStep,      \* highest overclock step (code: OC_STEPS - 1 = 24)
  Targets,      \* bus clock targets, 0 = sync (code: 7 of them)
  MaxLevel,     \* CV_LEVEL_MAX (code: 11)
  Stock,        \* this chip's fuse-derived stock level
  ChipOk,       \* g_cv_ok: the fuse model agreed with scePower
  EarlySleep,   \* may the system sleep before the saved step was decided on?
  PromptFails,  \* may the freeze for the boot prompt fail?
  SlowExit,     \* may anything else happen between the exit hook and the end?
  LoadVouches,  \* does a mark that a LOAD brings back count as the user's word?
  PollCut       \* may the battery thread be cut off on its way to the rail?

NoLevel == -1   \* CV_LEVEL_NONE
NoCode  == -1   \* g_cv_now before the first write

Steps  == 0 .. MaxStep
Levels == 0 .. MaxLevel

ASSUME StepsAssumption ==
  /\ MaxStep \in Nat \ {0} /\ MaxLevel \in Nat /\ Stock \in Levels
  /\ 0 \in Targets
  /\ {ChipOk, EarlySleep, PromptFails, SlowExit, LoadVouches, PollCut} \subseteq BOOLEAN

VARIABLES
  pc,       \* where the menu thread is; "out": no game, no plugin
  ram,      \* the plugin's globals
  pending,  \* oc_confirm_needed
  changed,  \* the settings page's changed
  hw,       \* the hardware, and scePower's own stored code
  card,     \* settings.cfg
  slot,     \* what a save state holds of all this
  exiting,  \* the game-exit hook has run, the game has not ended yet
  consent,
  poll      \* the level battery_poll_thread is about to write, or NoLevel

vars == <<pc, ram, pending, changed, hw, card, slot, exiting, consent, poll>>

SavePoints == {"save_new", "save_boot", "save_declined", "save_page"}
Undecided  == {"save_new", "boot_asleep", "decide", "prompt"}
Points     == Undecided \cup SavePoints
                \cup {"out", "volted", "booted", "asleep", "menu", "page", "stepped"}

Ram   == [step : Steps, stable : BOOLEAN, bus : Targets, level : Levels \cup {NoLevel},
          now : Levels \cup {NoCode}, reapply : BOOLEAN]
Hw    == [clock : Steps, gear : Targets, volt : Levels, stored : Levels]
File  == [step : Steps, stable : BOOLEAN, level : Levels \cup {NoLevel}]
NoFile    == [kind |-> "none"]      \* no file, or one that is empty
OtherFile == [kind |-> "other"]     \* another generation, or cut short
NoSave    == [kind |-> "nosave"]

TypeOK ==
  /\ pc \in Points
  /\ ram \in Ram /\ hw \in Hw
  /\ pending \in BOOLEAN /\ changed \in BOOLEAN /\ exiting \in BOOLEAN
  /\ card \in File \cup {NoFile, OtherFile}
  /\ slot \in [ram : Ram, stored : Levels] \cup {NoSave}
  /\ consent \in [Steps -> {"none", "now", "always"}]
  /\ poll \in Levels \cup {NoLevel}

Defaults == [step |-> 0, stable |-> FALSE, bus |-> 0, level |-> NoLevel,
             now |-> NoCode, reapply |-> FALSE]

Init ==
  /\ pc = "out" /\ ram = Defaults
  /\ pending = FALSE /\ changed = FALSE /\ exiting = FALSE
  /\ hw = [clock |-> 0, gear |-> 0, volt |-> Stock, stored |-> Stock]
  /\ card \in {NoFile, OtherFile} \cup {f \in File : ~f.stable}
  /\ slot = NoSave
  /\ consent = [s \in Steps |-> "none"]
  /\ poll = NoLevel

(***************************************************************************)
(* The hardware.                                                           *)
(***************************************************************************)

\* oc_apply: the bus gear for the chosen target, then the PLL.
OcApply(h, r, id) == [h EXCEPT !.clock = id, !.gear = r.bus]

\* Variant: g_cv_now is not kept.
CvWriteCodeNoNow(r, level) ==
  /\ ram' = r
  /\ hw' = [hw EXCEPT !.volt = level, !.stored = level]

\* cv_write_code: the rail, scePower's stored code and g_cv_now.
CvWriteCode(r, level) ==
  /\ ram' = [r EXCEPT !.now = level]
  /\ hw' = [hw EXCEPT !.volt = level, !.stored = level]

CvRevert(r) ==
  LET clear == [r EXCEPT !.level = NoLevel] IN
  \/ ~ChipOk /\ ram' = r /\ UNCHANGED hw
  \/ ChipOk /\ r.now \in {NoCode, Stock} /\ ram' = clear /\ UNCHANGED hw
  \/ ChipOk /\ r.now \notin {NoCode, Stock} /\ CvWriteCode(clear, Stock)

\* Variant: no clamp.
Unclamped(level) == level

Clamp(level) == IF level > MaxLevel THEN MaxLevel ELSE IF level < 0 THEN 0 ELSE level

CvApply(r, level) ==
  \/ ~ChipOk /\ ram' = [r EXCEPT !.level = NoLevel] /\ UNCHANGED hw
  \/ ChipOk /\ level = NoLevel /\ CvRevert(r)
  \/ ChipOk /\ level # NoLevel /\ CvWriteCode([r EXCEPT !.level = Clamp(level)], Clamp(level))

\* A level is applied only if there is one.
CvApplyIfSet(r) == IF r.level # NoLevel THEN CvApply(r, r.level) ELSE ram' = r /\ UNCHANGED hw

CvPollReapply ==
  LET polled == [ram EXCEPT !.reapply = FALSE] IN
  IF ram.reapply /\ ChipOk THEN CvApplyIfSet(polled)
                           ELSE ram' = polled /\ UNCHANGED hw

CvLevel == IF ram.level = NoLevel THEN Stock ELSE ram.level

\* The rest of cv_rail_defaults_restore is in PommelRails.
CvRestoreStock ==
  IF ChipOk /\ ram.now \notin {NoCode, Stock}
    THEN CvWriteCode([ram EXCEPT !.level = NoLevel], Stock)
    ELSE UNCHANGED <<ram, hw>>

\* Variant: the clock stays at the firmware's.
ResumedSlow(r, s) ==
  \E volt \in {Stock, s} :
    /\ hw' = [clock |-> 0, gear |-> 0, volt |-> volt, stored |-> s]
    /\ ram' = IF r.level # NoLevel THEN [r EXCEPT !.reapply = TRUE] ELSE r

(***************************************************************************)
(* A sleep and the RESUME_COMPLETED handler, for globals r and a stored    *)
(* code s.  The firmware comes back at its stock clock and at either its   *)
(* stock voltage or the one scePower stored.                               *)
(***************************************************************************)
Resumed(r, s) ==
  \E volt \in {Stock, s} :
    LET woken == [clock |-> 0, gear |-> 0, volt |-> volt, stored |-> s] IN
    /\ hw' = IF r.step > 0 THEN OcApply(woken, r, r.step) ELSE woken
    /\ ram' = IF r.level # NoLevel THEN [r EXCEPT !.reapply = TRUE] ELSE r

Sleep ==
  /\ pc # "out" /\ (~exiting \/ SlowExit)
  /\ EarlySleep \/ pc \notin Undecided \/ ram.step = 0
  /\ Resumed(ram, hw.stored)
  /\ UNCHANGED <<pc, pending, changed, card, slot, exiting, consent>>

(***************************************************************************)
(* settings.cfg.  save_settings truncates the file and writes it; neither  *)
(* result is looked at.                                                    *)
(***************************************************************************)
MenuThread == ~exiting \/ SlowExit

AfterSave == [p \in SavePoints |->
  CASE p = "save_new" -> "boot_asleep" [] p = "save_page" -> "menu" [] OTHER -> "booted"]

SaveOpen ==
  /\ MenuThread /\ pc \in SavePoints
  /\ card' = NoFile
  /\ UNCHANGED <<pc, ram, pending, changed, hw, slot, exiting, consent>>

SaveWrite ==
  /\ MenuThread /\ pc \in SavePoints /\ card = NoFile
  /\ card' \in {[step |-> ram.step, stable |-> ram.stable, level |-> ram.level], OtherFile, NoFile}
  /\ pc' = AfterSave[pc]
  /\ UNCHANGED <<ram, pending, changed, hw, slot, exiting, consent>>

SaveNotOpened ==
  /\ MenuThread /\ pc \in SavePoints
  /\ pc' = AfterSave[pc]
  /\ UNCHANGED <<ram, pending, changed, hw, card, slot, exiting, consent>>

(***************************************************************************)
(* Boot: load_settings and oc_init, then the first wake-up.  The IPL has   *)
(* put the core rail on its stock code.  The stock baseline call does      *)
(* nothing where ARK has replaced it.                                      *)
(***************************************************************************)
Start ==
  /\ pc = "out"
  /\ ram' = IF card \in File
              THEN [Defaults EXCEPT !.step = card.step, !.stable = card.stable, !.level = card.level]
              ELSE Defaults
  /\ pending' = (ram'.step > 0)
  /\ \E clock \in {0, hw.clock} :
       hw' = [hw EXCEPT !.clock = clock, !.volt = Stock, !.stored = Stock]
  /\ pc' = IF card = OtherFile THEN "save_new" ELSE "boot_asleep"
  /\ consent' = [s \in Steps |-> IF consent[s] = "always" THEN "always" ELSE "none"]
  /\ UNCHANGED <<changed, card, slot, exiting>>

\* The hook signals, the thread wakes and looks at the voltage first.
Wake ==
  /\ MenuThread /\ pc \in {"boot_asleep", "asleep"}
  /\ CvPollReapply
  /\ pc' = IF pc = "boot_asleep" THEN "decide" ELSE "menu"
  /\ UNCHANGED <<pending, changed, card, slot, exiting, consent>>

\* Variant: a stable step comes up without its voltage.
DecideStableClockOnly ==
  /\ MenuThread /\ pc = "decide" /\ pending /\ ram.stable
  /\ pc' = "volted" /\ pending' = FALSE
  /\ UNCHANGED <<ram, hw, changed, card, slot, exiting, consent>>

DecideStable ==
  /\ MenuThread /\ pc = "decide" /\ pending /\ ram.stable
  /\ CvApplyIfSet(ram)
  /\ pc' = "volted" /\ pending' = FALSE
  /\ UNCHANGED <<changed, card, slot, exiting, consent>>

DecideToAsk ==
  /\ MenuThread /\ pc = "decide" /\ pending /\ ~ram.stable
  /\ pc' \in IF PromptFails THEN {"prompt", "booted"} ELSE {"prompt"}
  /\ pending' = FALSE
  /\ UNCHANGED <<ram, changed, hw, card, slot, exiting, consent>>

DecideNoOverclock ==
  /\ MenuThread /\ pc = "decide" /\ ~pending
  /\ IF ram.level # NoLevel
       THEN CvRevert([ram EXCEPT !.level = NoLevel]) /\ pc' = "save_boot"
       ELSE UNCHANGED <<ram, hw>> /\ pc' = "booted"
  /\ UNCHANGED <<pending, changed, card, slot, exiting, consent>>

Agree(s, how) ==
  consent' = [consent EXCEPT ![s] = IF @ = "always" THEN "always" ELSE how]

Accept ==
  /\ pc = "prompt"
  /\ CvApplyIfSet(ram)
  /\ Agree(ram.step, "now")
  /\ pc' = "volted"
  /\ UNCHANGED <<pending, changed, card, slot, exiting>>

\* Variant: the declined step is kept.
DeclineKeepsStep ==
  /\ pc = "prompt"
  /\ CvRevert([ram EXCEPT !.level = NoLevel])
  /\ pc' = "save_declined"
  /\ UNCHANGED <<pending, changed, card, slot, exiting, consent>>

Decline ==
  /\ pc = "prompt"
  /\ CvRevert([ram EXCEPT !.step = 0, !.level = NoLevel])
  /\ pc' = "save_declined"
  /\ UNCHANGED <<pending, changed, card, slot, exiting, consent>>

\* The clock follows the voltage.
ApplyClock ==
  /\ MenuThread /\ pc \in {"volted", "stepped"}
  /\ hw' = OcApply(hw, ram, ram.step)
  /\ pc' = IF pc = "volted" THEN "booted" ELSE "page"
  /\ UNCHANGED <<ram, pending, changed, card, slot, exiting, consent>>

\* The rest of the boot sequence, which may open the browser by itself.
BootDone ==
  /\ MenuThread /\ pc = "booted" /\ pc' \in {"asleep", "menu"}
  /\ UNCHANGED <<ram, pending, changed, hw, card, slot, exiting, consent>>

(***************************************************************************)
(* The settings pages.                                                     *)
(***************************************************************************)
OpenPage ==
  /\ pc = "menu" /\ pc' = "page" /\ changed' = FALSE
  /\ UNCHANGED <<ram, pending, hw, card, slot, exiting, consent>>

\* Variant: a new step inherits the mark.
PickStepKeepsStable ==
  /\ pc = "page"
  /\ \E s \in {ram.step - 1, ram.step + 1} \cap Steps :
       /\ ram' = [ram EXCEPT !.step = s]
       /\ Agree(s, "now")
  /\ pc' = "stepped" /\ changed' = TRUE
  /\ UNCHANGED <<pending, hw, card, slot, exiting>>

PickStep ==
  /\ pc = "page"
  /\ \E s \in {ram.step - 1, ram.step + 1} \cap Steps :
       /\ ram' = [ram EXCEPT !.step = s, !.stable = FALSE]
       /\ Agree(s, "now")
  /\ pc' = "stepped" /\ changed' = TRUE
  /\ UNCHANGED <<pending, hw, card, slot, exiting>>

PickBus ==
  /\ pc = "page"
  /\ \E t \in Targets : ram' = [ram EXCEPT !.bus = t]
  /\ pc' = "stepped"
  /\ UNCHANGED <<pending, changed, hw, card, slot, exiting, consent>>

PickVolt ==
  /\ pc = "page" /\ ChipOk
  /\ \E d \in {-1, 1} : CvApply(ram, CvLevel + d)
  /\ changed' = TRUE
  /\ UNCHANGED <<pc, pending, card, slot, exiting, consent>>

\* Marking the running step stable is the user's word for it.
ToggleStable ==
  /\ pc = "page"
  /\ ram' = [ram EXCEPT !.stable = ~@]
  /\ IF ram.stable THEN UNCHANGED consent ELSE Agree(ram.step, "always")
  /\ changed' = TRUE
  /\ UNCHANGED <<pc, pending, hw, card, slot, exiting>>

RailDefaults ==
  /\ pc = "page"
  /\ CvRestoreStock
  /\ changed' = TRUE
  /\ UNCHANGED <<pc, pending, card, slot, exiting, consent>>

ClosePage ==
  /\ pc = "page"
  /\ pc' = IF changed THEN "save_page" ELSE "menu"
  /\ UNCHANGED <<ram, pending, changed, hw, card, slot, exiting, consent>>

CloseMenu ==
  /\ pc = "menu" /\ pc' = "asleep"
  /\ UNCHANGED <<ram, pending, changed, hw, card, slot, exiting, consent>>

(***************************************************************************)
(* Save states.  Both operations end in a resume.  A LOAD brings the       *)
(* globals and the kernel of save time back, except for the step.  The     *)
(* mark may then stand at a step the user never gave it to (fatsave.c:2622 *)
(* carries the step alone).                                                *)
(***************************************************************************)
SaveState ==
  /\ pc = "menu"
  /\ slot' = [ram |-> ram, stored |-> hw.stored]
  /\ Resumed(ram, hw.stored)
  /\ pc' = "asleep"
  /\ UNCHANGED <<pending, changed, card, exiting, consent>>

Carried(saved) == [saved EXCEPT !.step = ram.step]

LoadState ==
  /\ pc = "menu" /\ slot # NoSave
  /\ Resumed(Carried(slot.ram), slot.stored)
  /\ IF slot.ram.stable /\ LoadVouches THEN Agree(ram.step, "always") ELSE UNCHANGED consent
  /\ pc' = "asleep"
  /\ UNCHANGED <<pending, changed, card, slot, exiting>>

(***************************************************************************)
(* The end of the game: the exit hook, then the firmware; or a crash, a    *)
(* hang or a power-off at any point, which resets the clock.               *)
(***************************************************************************)
GameRuns == pc \in Points \ {"out", "prompt", "save_declined", "menu", "page", "stepped", "save_page"}

\* Variant: a stable step is left running.
ExitGameKeepsStable ==
  /\ GameRuns /\ ~exiting
  /\ hw' = IF ram.step > 0 /\ ~ram.stable THEN OcApply(hw, ram, 0) ELSE hw
  /\ exiting' = TRUE
  /\ UNCHANGED <<pc, ram, pending, changed, card, slot, consent>>

ExitGame ==
  /\ GameRuns /\ ~exiting
  /\ hw' = IF ram.step > 0 THEN OcApply(hw, ram, 0) ELSE hw
  /\ exiting' = TRUE
  /\ UNCHANGED <<pc, ram, pending, changed, card, slot, consent>>

Gone ==
  /\ pc' = "out" /\ ram' = Defaults /\ exiting' = FALSE
  /\ pending' = FALSE /\ changed' = FALSE
  /\ UNCHANGED <<card, slot, consent>>

ExitEnds == exiting /\ GameRuns /\ Gone /\ UNCHANGED hw

PowerLost ==
  /\ pc # "out" /\ Gone
  /\ hw' = [hw EXCEPT !.clock = 0, !.gear = 0]

(***************************************************************************)
(* battery_poll_thread, which runs while the battery overlay or the        *)
(* Stop-Charging threshold is on, polls as well.  Its priority is the      *)
(* lowest of the plugin's: cv_write_code may be overtaken at its call to   *)
(* the syscon.                                                             *)
(***************************************************************************)
BatteryTake ==
  /\ pc # "out" /\ (~exiting \/ SlowExit) /\ poll = NoLevel /\ ram.reapply
  /\ ram' = [ram EXCEPT !.reapply = FALSE]
  /\ poll' = IF ChipOk THEN ram.level ELSE NoLevel
  /\ UNCHANGED <<pc, pending, changed, hw, card, slot, exiting, consent>>

BatteryWrite ==
  /\ poll # NoLevel
  /\ CvWriteCode(ram, poll)
  /\ poll' = NoLevel
  /\ UNCHANGED <<pc, pending, changed, card, slot, exiting, consent>>

\* What the menu thread, the handlers and the user do.
Step ==
  \/ Sleep \/ SaveOpen \/ SaveWrite \/ SaveNotOpened
  \/ Start \/ Wake \/ DecideStable \/ DecideToAsk \/ DecideNoOverclock
  \/ Accept \/ Decline \/ ApplyClock \/ BootDone
  \/ OpenPage \/ PickStep \/ PickBus \/ PickVolt \/ ToggleStable \/ RailDefaults
  \/ ClosePage \/ CloseMenu
  \/ SaveState \/ LoadState
  \/ ExitGame \/ ExitEnds \/ PowerLost

Next ==
  \/ BatteryTake \/ BatteryWrite
  \/ /\ poll = NoLevel \/ PollCut
     /\ Step
     /\ poll' = IF pc' = "out" THEN NoLevel ELSE poll

Spec == Init /\ [][Next]_vars

(***************************************************************************)
(* Properties.                                                             *)
(***************************************************************************)

\* Whenever the menu thread has settled, the clock runs at the step the plugin
\* shows, across sleeps and loads of a state saved at another step (utils.c:277,
\* fatsave.c:2617).  The exit hook relies on it: it only acts on a step above 0.
ClockIsStep ==
  pc \in {"booted", "asleep", "menu", "page"} /\ ~exiting => hw.clock = ram.step

\* No game leaves a raised clock behind, for the next one or for the shell
\* ("The overclock otherwise sticks past game exit", overclock.c:261).
ExitLeavesStock == pc = "out" => hw.clock = 0

\* A raised clock that has a voltage level either runs at that voltage, or the
\* two polling threads have been asked to restore it (utils.c:284), or one of
\* them is at it: no path that raises the clock forgets the voltage.
VoltsOwed ==
  hw.clock > 0 /\ ram.level # NoLevel => ram.level \in {hw.volt, poll} \/ ram.reapply

\* When no level is set the rail is at its stock code, although cv_revert writes
\* nothing if it believes the rail is there: g_cv_now never goes stale, sleeps
\* and loads included (corevolt.c:261).
StockMeansStock == pc # "out" /\ ram.level = NoLevel => hw.volt = Stock

\* The clock runs raised only at a step the user agreed to: picked or confirmed
\* since the game started, or marked stable ("confirmed + applied on first
\* wake", menu.c:2928).
ClockHasConsent == hw.clock # 0 => consent[hw.clock] # "none"

\* A step that is shown stable was marked stable by the user ("a freshly picked
\* step is not vouched for", menu.c:1583), or by a LOAD that counts as his word.
StableIsVouched == ram.stable /\ ram.step > 0 => consent[ram.step] = "always"
=============================================================================
