# TLA+ models of PSPFatSave

PSPFatSave is a savestate plugin for the PSP-1000. It saves a running game by
writing the game's RAM and VRAM to the Memory Stick, suspending the firmware,
copying kernel RAM into the game RAM that was just written out, and writing
that copy to the same file after the resume. A load does the reverse and
overwrites the live kernel, so it does not return: it ends inside the
`FreezeSave` call that took the snapshot. This directory holds models of that
program, the TLC configurations that check them and proofs checked by TLAPS.
Source paths below are relative to `src/src/plugin/`.

## The system

| part | state it keeps | operations | talks to |
|---|---|---|---|
| save and load (`fatsave.c`) | `g_op_mode` (in `g_lc`), `g_sleep_mode`, `g_sleep_arm`, `g_resumed`, `g_st_op_hold`, the staging slot, the file | `FreezeSave`, `FreezeLoad`, `op_abort`, `op_frozen_fail`, `bg_crc_step` | thread freeze, power events, card, game |
| thread freeze (`fatsave.c`, `menu.c`) | `suspended_ids`, `g_probe_fd`, `g_me_probe_state` | `identify_game_threads`, `suspend_escalating`, `resume_game_threads`, `resume_nongame_threads`, `me_rpc_probe`, `ms_probe_after_freeze`, `ms_probe_reap` | kernel threads, ME mutex, FAT lock |
| power events (`utils.c`, `extras.S`, `apply.S`) | the RTC alarm and the flags above | `ProcessSignals`, `SysEventShim`, `ApplyHandoff` | firmware; runs in its dispatcher |
| save file format (`fatsave.c`) | header words, chunk records, padding | `write_region_direct`, `save_region_records`, `restore_region_records`, `io_write_all` | card |
| menu thread, browser, NOTE tap (`menu.c`) | `g_menu_open`, wake-up count, rows, boot flags | `menu_thread`, `run_save_browser`, `PspLsLibraryLauncher` | game's pad reads (hook), all of the above |
| input suppression (`menu.c`, `fatsave.c`) | `g_suppress_latch`, `g_suppress_posbuf_calls` and `_ts` | the patched `sceCtrl` reads, `arm_input_suppress` | game threads |
| settings (`menu.c`) | `settings.cfg`, per-game files | `load_settings`, `save_settings`, `load_game_settings`, ... | every feature |
| overclock, core voltage (`overclock.c`, `corevolt.c`) | `g_overclock_id`, `g_corevolt_level`, `g_corevolt_reapply`, PLL and syscon | `oc_apply`, `cv_apply`, `cv_poll_reapply`, boot confirmation | power events, menu |
| screen tuning (`screen_tuning.c`) | gamma lists and the claim on them, shadow buffers, worker state, stand-down flags, the live HUD | display and GE hooks, worker, `st_pwr_suspend`, `st_pwr_resume`, `st_stop` | GE, display, power events |
| statistics and frame limit (`sysstats.c`) | frame times, battery figures, charging gate | vblank hook, `fps_poll_thread`, `battery_poll_thread` | display hook, scePower |
| video skip (`videoskip.c`) | capture window, timing | watcher thread | pad hook, settings |
| cheats (`cheats.c`) | selected codes, apply thread | `cheats_load_for_game`, apply loop | game RAM |

Everything but the first three rows and the overclock also meets the game by
being called from it: the hooks on `sceDisplaySetFrameBuf`, `sceGeListEnQueue`,
the controller reads and module loads run on whatever thread of the game calls
them, and are preempted by it.

Left aside: module start and hook installation (`main.c`: straight-line, its
results are the initial states here), drawing (`gfx.c`), logs, UART and the
exception screen, FastLZ and the ARK-4 headers (third party).

What is hard here. (1) Two lives of one call: a LOAD makes the menu thread
return from a wait that another session entered. (2) The plugin's own memory is
rolled back, other state (game RAM, card, RTC alarm, power phase) is not. (3)
The user can sleep the console at any moment, so the event handler meets the
operation's flags at every point. (4) The staging area is the game's own RAM:
a way back to a running game before the restore is a corrupted game. (5) Files
are overwritten in place and certified after the game was resumed. (6) Freezing
foreign threads: they end, wake, are parked by the game, hold locks the plugin
or the firmware needs. (7) Every wait has a bound, and what a late event meets
after the bound expired matters. (8) The clock, the rails and the settings file are three
copies of one wish of the user, changed by different threads and by handlers,
and a LOAD rolls back one of them only. (9) A hook, a worker and an interrupt
correct the same frame, and each of them may find the frame already corrected,
the game's menu up or the console on its way to sleep. (10) A stub in another
module's code outlives that module. (11) Time is counted in 32 bits and read by
threads that are preempted between reading and using it.

Each of these is listed with its lines under `hazards` in `PROJECT.json`.

## The modules

    SaveStates          what saving and loading promise
      ^ implemented by
    SaveLoad            FreezeSave, FreezeLoad, ProcessSignals, ApplyHandoff
      |                   MCSaveLoad, SaveLoadProofs
      | takes a freeze as one step, which is
    ThreadFreeze        suspend_escalating, the retry loops, the probes
      |                   MCThreadFreeze, ThreadFreezeProofs; MCLive (liveness)
      | writes and reads files, whose bytes are
    SaveFormat          chunk records, batching, padding, read-ahead      (R)
    PowerSteps          overclock step, core voltage, their settings and events
      |                   MCPowerSteps, PowerStepsProofs
      | applies a step, and keeps other rails, which are
    ClockRamp           one walk of the clock domains' ratios            (R)
    PommelRails         the DDR rail and the unknown rails               (R)
    MenuThread          NOTE tap, boot, browser, per-game files          (G)
                          MCMenuThread     its instance
    PadHooks            what the game reads from the controller          (G)
    SettingsPage        every row of the settings pages, three files     (R)
      | uses
    KeyRepeat           a held direction
      ^ used by
    ScreenHud           the live HUD over the game                       (R)
    ScreenCurve         what a pass makes of a pixel                     (R)
    GammaPass           who corrects which frame of a PSP game           (G)
    PopsShadow          the shadow buffers of a PS1 game
                          MCLive
    VideoSkip           stubs in the game's video player                 (G)
    CheatDb             the cheat database and the kept choice           (G)
    CheatThread         the thread that applies a cheat                  (G)
    FramePace           the two sites of the frame limiter               (G)
    FrameCount          frame rate, 1% low, the three tiers              (R)
    OverlayThreads      the battery and drawing threads, charging        (G)

`MCGameSide` runs the parts marked (G) and `MCRoutines` those marked (R), each
by itself: its initial states choose a `part`, and only that part moves. These
parts share no state with one another, so a product of them would show nothing
that their sum does not. `GameSideProofs` holds the proofs about `OverlayThreads`,
`VideoSkip`, `FramePace`, `MenuThread`, `CheatThread` and `PadHooks`, and the types of all
parts marked (G); `RoutineProofs` those about `ClockRamp`, `PommelRails`, `ScreenHud`,
`SettingsPage`, `SaveFormat` and `FrameCount`, and the types of all parts marked (R);
`ScreenTuningProofs` those about `PopsShadow` and `GammaPass`, `CurveProofs` those about
`ScreenCurve`, `CheatDbProofs` those about `CheatDb` and the facts about counting up and
about folds that `RoutineProofs` uses too.

### SaveLoad

`kernel` is one record with everything that lies in kernel RAM: the position
of the menu thread (`pc`), the plugin's globals under their source names
without the `g_`, the locals of `FreezeSave` that survive in the snapshot
(`io_ok`, `crc_active` for `do_bg_crc` and the local of that name, `was_load`),
the game's thread contexts (`game`), whether its threads are suspended
(`frozen`) and whether it is owed a RESUMING (`owed`). A snapshot is a value of
this variable, `Phase0` with `sleep_mode = 9` copies it to the staging slot
`ram.mid`, and with `sleep_mode = 10` sets `kernel` from there. `ram`, `vram`,
`files`, `power`, `request` and `alarm` are not in kernel RAM and survive the
copy. `base` stands for the address the plugin is loaded at on this boot, which
is what header words 9, 10 and 12 record.

| action | code |
|---|---|
| `ChooseSave`, `ChooseLoad`, `ChooseDelete` | the browser's three commands, `menu.c:2779-2906` |
| `SaveOpen` ... `SaveContexts` | `FreezeSave` up to the suspend request, one action per section of the file; gate 1 and the arming are part of `SaveContexts` |
| `Resumed`, `SaveTimeout` | the two results of `wait_for_resume`, with the reopen that follows |
| `SaveKernel`, `RestoreMemory`, `StampCrc`, `PressX`, `SaveClose` | the tail: gate 2, the restore, the deferred CRC before or after X, removal of an incomplete file |
| `LoadOpen` ... `LoadTimeout` | `FreezeLoad` |
| `PowerLock`, `Phase0`, `ResumeCompleted` | `ProcessSignals` at its three events |
| `PowerSwitch`, `Veto`, `AlarmWake`, `UserWake`, `PowerLoss`, `Rot`, `Play` | the firmware, the user, the card, the game |

`op_abort` is the operator `Aborted`, with the file removed (`AbortSave`) or
not (`AbortLoad`). `op_frozen_fail` leaves `frozen` set and returns to the idle
menu thread; the browser cannot be reached then, since it opens from the
running game's pad reads.

Data. A state of the game is a token of `Gens`; a game that runs replaces it in
every cell of memory. `Junk` is content that no complete write produced. The
CRC is ideal: it equals the sections it covers, so two different bodies never
share one. It does not cover the header; `Rot` can therefore damage the
addresses of an otherwise good file, which `FreezeLoad` must notice by itself.
A LOAD's own read errors are alternatives of `LoadVerify`, `LoadStage` and
`RestoreMemory`.

### ThreadFreeze

Threads of three kinds (the game's, other non-kernel threads, kernel drivers)
run while the menu thread works. `by[t]` tells who suspended a thread,
`tracked` is `suspended_ids`, `game_tids` the earlier result of
`identify_game_threads`. The thread list is asked for in `ListThreads`; each
listed thread is looked at (`Look`) and suspended (`SuspendTarget`) in separate
steps, so that it can change in between, and the pass takes them in any order.
The three callers share `Attempt`; they differ in what follows the pass:
`MsProbe` and `Reap` for the browser, `Requery` and `MeProbe` for a save,
`MeProbe` for a load. `ResumeNonGame` lets the others run for the suspend
handshake, `ResumeGame` ends the freeze.

Assumed of the firmware: `sceKernelSuspendThread` fails on a thread that is
dormant or already suspended, `sceKernelResumeThread` wakes a suspended thread
whoever suspended it, a lock is not held by a thread that ended. The
enumeration of threads is complete: both tables hold 64 entries in the code and
every thread here. A failing `sceKernelReferMutexStatus` (the probe then
passes) counts as a console without the probe.

### SaveStates

Running or stopped, the state of the game, the state each slot holds, and one
save that is written and not yet certified. Five lines of meaning: only a
stopped game is saved, a slot holds the state the game was stopped in or
nothing, a certified save is that state even if the game has gone on since, a
load puts a stopped game into a slot's state and keeps the slot, an abort lets
the game go on where it stopped. `SaveLoad` maps onto it in its definition
`Abstract`; the slot of a file is empty unless `FreezeLoad` would go through
with it.

### PowerSteps

What the plugin believes (`ram`: `g_overclock_id`, `g_overclock_stable`,
`g_oc_bus_sel`, `g_corevolt_level`, `g_cv_now`, `g_corevolt_reapply`), what is
kept (`card` for `settings.cfg`, `slot` for the plugin's part of a save state)
and what the hardware does (`hw`: clock, bus gear, core rail and the code
scePower holds). `pc` is the menu thread: `Start` loads the settings, `Wake` and
the three `Decide` actions are its first wake-up, `Accept` and `Decline` the boot
prompt, `PickStep` to `ClosePage` the settings pages. `Sleep` is a whole sleep
with its resume handler, `SaveState` and `LoadState` end in the same operator
`Resumed`. The voltage is written before the clock in the code; the two writes
are separate steps here (`volted`, then `ApplyClock`). `BatteryTake` and
`BatteryWrite` are `cv_poll_reapply` in the battery thread. `save_settings` can
leave the file whole, empty, cut short or as it was. `consent` is an observer
of what the user has agreed to; no action reads it.

Four constants open what the passing runs exclude: `EarlySleep` (a sleep before
the saved step was decided on), `PromptFails` (the game cannot be frozen for
the prompt), `SlowExit` (anything happens between the exit hook and the end of
the game), `PollCut` (the battery thread is overtaken on its way to the
syscon). The code has no answer to any of them; see below. `LoadVouches` says
that a mark which a LOAD brings back counts as the user's word. Assumed of the console: a firmware resume
comes up at the stock clock and at the stock voltage or scePower's code
(`Resumed` takes either); a reset puts the clock and the core rail on stock
(`Start`); ARK may have replaced the stock call of `oc_init`, so it may leave the
clock as it is.

### PommelRails

The rails the firmware never writes. `rail` are the registers, which nothing but
a write changes; `base` and `now` what the plugin believes; `card` whether the
settings file holds a baseline; `loaded` observes that a LOAD replaced the
beliefs. `Start` reads every register that answers and
puts strays back, `Press` is one notch on a row, `AdoptDefaults` the page's
defaults. Selectors, the 34 ms reads and the diagnostic sweep are left out.

### ClockRamp

`oc_adjust_domain_ratios` with its own numbers: a round of the loop per step,
four fields of nine bits, the gear of the bus computed as the code does.

### MenuThread

`place` is where the menu thread is, `menuOpen`, `armed` and `bootPending` are
`g_menu_open`, `g_boot_armed` and `g_boot_pending`, `wakeups` counts the
wake-ups a thread that is not asleep keeps. `Hook` and `HookWakes` are
`PspLsLibraryLauncher` on a thread of the game, with the flag and the wake-up
apart; `Boot`, `PromptsDone`, `WatcherStarts` are the boot sequence, `OpenBrowser`,
`OpenFails`, `Opened` an attempt to open, `Move` to `Load` the browser's keys. A save
is `Save`, `Saving`, `Saved`, `Finished`, since the game runs in between; `Load` is
followed by `LoadReturns`, which gives up or returns out of the save in `snap`.
`EnterPage`, `Press`, `LeavePage`, `Truncate`, `Write` are the page of per-game
settings and `save_game_settings`; `Learn` to `WriteLearned` are the video watcher
writing the same file. A setting is a pair of the game it was chosen for and a
count, so a file that holds another game's value shows it.

### PadHooks

The driver's ring and latches, filled by `Sample` also while the game is frozen;
`calls`, `stamp` and `latch` are `g_suppress_posbuf_calls`, its time stamp and
`g_suppress_latch`. A read is `Read`, `Entry`, `Slot`, `LoadCount`, `StoreCount`: the
decrement of the count is two steps, as in the code. The clock wraps at
`Wrap`. Each sample carries where it was pressed, `leak` collects what the
game got and should not have, or did not get.

### SettingsPage, KeyRepeat, ScreenHud

`SettingsPage` is the 40 ms loop of the page (`Row`), of the clock's page (`Clock`)
and of the test chart (`Chart`), each a sample of the pad turned into changes of
`val`; `Open` is a boot that reads `settings.cfg`, the per-game file and the
chart's file (`Loaded`), with the words a group's fields may hold in a file
written by hand or by an older version. `KeyRepeat` is the hold counter all of
them share. In `ScreenHud` the game's reads move the two values (`ReadPad`), the
worker gathers and writes them (`Gather`, `Write`, `Check`) and ends itself when
nothing is to be corrected, and a change starts it again.

### ScreenCurve, GammaPass, PopsShadow

`ScreenCurve` is arithmetic with the code's numbers: which vertices cover the
buffer, what the common registers are set to, the blend stages of the GE and
the table of the CPU path; `FrameIsCurve` compares what the blend makes with the
curve the values ask for, within the rounding of each stage. `GammaPass` is
about who corrects a frame and when: `busy` is `g_busy`, taken with
`st_claim` by the present hook (`GameThread`), the hooks around the GE's lists and
the worker (`Helper`); `curved` counts what each buffer received; the GE takes
lists in order. `Surroundings` are menus, dialogs, changes of settings, suspend
and stop. A worker that is started again has forgotten what was injected: `anew` says
that the game has begun a frame since, which is what the 100 ms and eight ticks
without a present (`screen_tuning.c:114`, `:124`) stand for; without them the display's
copy of a corrected scene would be corrected again. `raced` marks what the code leaves
open: a list of the game reaches the GE between the worker's look and its own list, or
a game presents again after an injection. `PopsShadow` has the two shadow buffers, their `Writing` state, the
vertical blank (`Vblank`) that points the display at the ready one, and the
worker that copies and corrects (`Worker`). `cut` remembers the three situations in
which a worker was stopped in the middle (see below), and the properties name it.

### VideoSkip

`mem` are two module slots and what their entry words are (`own`, `skip`, `fail`,
`alien`); `LoadModule` and `UnloadModule` are the game's, with the load hook on its
thread (`ProbePatch`); `StartWatcher` to `EndWatcher` are the watcher's polls.

### CheatDb, CheatThread

`CheatDb` reads a text of at most `TextLength` lines of each kind the parser knows,
and compares options and pool with a definition of the same that reads the text as a
whole: which lines are the running game's (`OurLines`), which are the code of a cheat
(`CodeOf`), which cheats are usable, and what is offered of them in order (`WholeOffer`). In `CheatThread`, `thread` is the apply thread between its check
of the gates and the writes, `originals` the backup, `gameCode` what it changed; the
page (`CycleUnlock`), the operations (`Trigger` to `Release`, with `Capture` and
`Restore`) and the exit (`Stop`) go on at any point.

### FramePace, FrameCount, OverlayThreads

`FramePace` is the grid of frame times between the list site and the present
site, with refused sleeps, overruns and a clock that wraps at `CounterWrap`.
`FrameCount` are the three hooks that may count a frame, the ring of frame
times, and the 1% low: the insertion into the slowest, and their sum. `OverlayThreads` are the start and the end of both threads
from two sides, and the charging gate.

### SaveFormat

Lengths are in units, a record's payload is its place in memory; the writer's
buffer, the flush on the grid, the padding and the path without a buffer, then
the reader of the same file. `ReadsBack` says that what is restored is what was
written and where.

## Runs

| run | instance | states | shows |
|---|---|---|---|
| `save_load` | 1 file, 2 game states, 2 load addresses | 266,779 | six properties below; `SaveLoad` implements `SaveStates` (`KeepsPromise`) |
| `save_load_live` | 1 file, 1 game state, 1 address | 35,443 | every operation comes to an end |
| `thread_freeze` | 2 game threads, 1 other, 1 driver, 2 attempts | 746,996 | a freeze stops the game at a usable point and undoes only itself |
| `live` | 1 game thread, 1 other, 2 attempts, births; POPS with 2 shadow buffers | 105,665 | every freeze commits or gives up; a PS1 game's display is sound and given back |
| `power_steps` | 1 step, 2 levels, 1 save state | 716,296 | six properties below and the types |
| `game_side` | `GameSide.cfg` | 2,271,311 | the parts marked (G) |
| `routines` | `Routines.cfg` | 1,008,629 | the parts marked (R) |
| `abort_good_save`, `hold_leak`, `browse_limit`, `pace_twice`, `stale_step` | the smallest | | what a comment says and the code does not do; see `findings` |

Properties that belong to one part are named in the part's module and checked
through one conjunction:

| checked | is the conjunction of |
|---|---|
| `PointIsUsable` | `NoFrozenMutexHolder`, `SaveIsQuiescent`, `BrowserCardFree` |
| `ResumesItsOwn` | `ResumeIsComplete`, `ParkedStaysParked` |
| `ScanoutIsSound` | the types, `ShadowHasWorker`, `PlayIsWhole`, `SourceIsPops` |
| `BrowserAgrees` | the types, `RowsOnCard`, `NoDeadTap`, `PopupMatches`, `ManualShowsNew` |
| `FilesKept` | `FilesOwn`, `EditsKept`, `SavesOwn` |
| `CurveLaidOnce` | `OneBuilder`, `Washed` |
| `StubsAreOwn` | `NoStubLeft`, `OthersIntact` |
| `PadsAreGames` | `InputIsGames`, `SaveFindsNoneArmed` |
| `DatabaseOffered` | `OffersSection`, `PoolIsSliced` |
| `CheatsGiveBack` | `StockIsStock`, `QuietDuringOp`, `GoneAtExit` |
| `PacedRight` | `CapHolds`, `PacedOnce` |
| `ChargerFollows` | `NoneForbidden`, `GateFollows` |
| `PageKeeps` | `BootKeeps`, `PressSteps`, `TimerHasTime` |
| `CurveIsDrawn` | `FrameIsCurve`, `InsideVram`, `NoSeam` |
| `CountsAreTrue` | `FrametimesAddUp`, `LowIsWorst`, `TiersYield` |
| `SectionsReadBack` | `FlushesOnGrid`, `ReadsBack` |
| `RampLands` | `RampArrives`, `NeverPast` |
| `RailsHold` | `RailAsShown`, `StartRecovers` |

`RunningConsistent`: a running game finds one state of itself in its threads,
all of its RAM and VRAM. `AcceptedIsComplete`: a file a LOAD would accept is
one complete save. `ApplyIsSafe`: an armed overwrite finds the routine and a
whole snapshot with the LOAD flag. `LoadLeavesFiles`: a LOAD, in both of its
lives, writes and removes no file. `NothingLeftArmed`: between operations no
capture, apply or alarm is pending and no game is owed a RESUMING.
`OperationReturns` and `FreezeReturns`: liveness. `GameStopped`: no thread of the
game runs through a committed freeze. `PointIsUsable`: none of the frozen threads
holds what the operation needs. `ResumesItsOwn`: after a resume no thread stays
suspended by the freeze, and none the game had parked was woken.

`ClockIsStep`: wherever the menu thread rests the clock is the step shown.
`ExitLeavesStock`: no game leaves a raised clock behind. `VoltsOwed`: a raised
clock with a level runs at it, or a thread has been asked to see to it.
`StockMeansStock`: no level means a rail at stock. `ClockHasConsent`,
`StableIsVouched`: a raised clock was agreed to, a mark was given.
`RailsHold`: the page shows the code in the register, and a boot brings a rail
back from where a crash or a load left it. `RampLands`: the walk of the clock's
ratios reaches its targets in the rounds it has and never goes past them.

`FilesKept`: a folder's file never holds a value chosen for another game, what a
page stored stays stored whatever the video watcher writes, and other folders
only ever lose saves. `BrowserAgrees`: the rows are the folder's saves, a tap is
never lost, HOME is blocked exactly while a menu is up. `CurveLaidOnce`: no frame
is corrected twice and one party builds a list at a time. `ScanoutIsSound`,
`PopsGivesBack`: the display never shows a shadow buffer nobody refreshes or one
that is being filled, and when all is off it shows the game's own. `StubsAreOwn`:
no stub outlives the watcher and no foreign code is overwritten. `PadsAreGames`:
what was pressed in the browser never reaches the game and nothing pressed
later is lost. `DatabaseOffered`: the options are the usable cheats of the running game's section and
no more, each with its own code. `CheatsGiveBack`: the game's words can be put back at any moment, nothing
is written during an operation, the exit waits for the thread. `PacedRight`: the
cap holds over refused and overrun sleeps and a wrap of the clock. `ChargerFollows`:
charging is never left forbidden. `PageKeeps`: what the page shows a boot brings
back. `UnsavedIsMarked`: a value of the HUD that differs from the card is marked
as unsaved or being written. `CurveIsDrawn`, `CountsAreTrue`, `SectionsReadBack`:
arithmetic, against a definition of what is meant.

Bounds. One file is enough for every hazard within a file; files of different
slots share no state but the kernel, and the proofs hold for any number. Two
game states make torn saves visible (an old and a new content), two load
addresses make a LOAD cross-session. Saves, loads, sleeps and power losses are
not bounded: the state space is finite without a counter. `MaxTries` replaces
8, 1000 and 20 attempts: with two, every way from an attempt to the next and to
giving up occurs. Two game threads are needed for one to park, or start,
another. Symmetry is used only with safety properties. `MenuThread`: one edit or
deletion, one wake-up kept and two attempts; a second edit only repeats the
first with a later count. `PadHooks` reduces the ring to two slots and the clock
to six ticks, which is the least that lets the count expire by time and by
calls. `GammaPass` allows two changes of the surroundings and one list ahead of the pass;
`TakesBack` keeps the second change to one that restores the start, a curve switched
off and on again or a menu opened and closed; the proof covers any
number of both. `VideoSkip` has two slots, one to be unloaded while another module
takes its place. `CheatDb` reads every text of up to five lines, `CheatThread` has
two unlocks that write one address twice, `FramePace` runs for `Horizon` ticks,
longer than the wrap. In `SettingsPage` one group of fields is edited in a run,
with the ends of each scale, off, and what lies beyond. `ScreenCurve` takes the ends and the middle of each range.
`FrameCount` has a ring of three, of which two count as the slowest.

The passing runs make assumptions about scheduling that the code makes too. Each
is a constant; with the other value TLC finds the named property violated:

| constant | assumed in the passing runs | otherwise |
|---|---|---|
| `SlowResume` | the menu thread does not run between the wake-up and the end of the RESUME_COMPLETED handler: `wait_for_resume` takes the end of its 5 s of active time for "the suspend never completed" | `op_abort` resumes a game whose RAM holds the staged kernel (`RunningConsistent`), or removes the save being loaded (`LoadLeavesFiles`) |
| `MaySpawn` | the game starts no thread between the enumeration and the end of the pass | that thread runs through a freeze that reports success (`GameStopped`) |
| `EarlySleep` | no sleep before the saved step was decided on | the boot decision takes the raised clock for the stock one, and an exit leaves it (`ExitLeavesStock`) |
| `PromptFails` | the game can be frozen for the boot prompt | the step stays set and the next resume applies it unasked (`ClockHasConsent`) |
| `SlowExit` | nothing happens between the exit hook and the end of the game | the clock is raised again behind the hook (`ExitLeavesStock`) |
| `PollCut` | the battery thread is not overtaken between storing the level and its syscon write | the write moves a rail whose level the menu thread has just cleared (`StockMeansStock`) |
| `TwoThreads` (`FramePace`) | the game queues its lists and presents on one thread | both sites sleep for one frame (run `pace_twice`) |
| `LoadVouches` | a mark that a LOAD brings back is the user's word for the running step | the step is shown stable without having been vouched for (`StableIsVouched`) |

Also seen while modelling, and modelled as the code does it. Where it would
break a property, the property names the exception (an observer variable such as
`mixed`, `gone`, `cut`, `raced`, `touched`, `broughtBack`).

Clock and rails. The exit hook's `oc_apply(0)` sets the chosen bus gear again. One
press down at voltage level 0 asks for `CV_LEVEL_NONE` and the rail goes to stock.
After a LOAD a press on a rail's row steps from the code of save time, not from
the rail's. No exit path writes the rails, although `corevolt.h:135` and the
page's help say so (`cv_ddr_revert` and `cv_rails_revert` have no caller). On a
resume the clock is raised before the voltage, against the order `menu.c:755` keeps.

Operations. A browser's LOAD does not probe the card before it, although
`fatsave.c:620` speaks of every freeze. The comment near `fatsave.c:1932` calls every
record 64 KB aligned, which the fallback without a buffer is not. A NOTE
tap in the 100 ms between the browser and the freeze raises `g_menu_open` again,
so that the snapshot holds it, against `menu.c:2809`.

Browser and settings. Deleting the folder that is shown, from the list of games,
leaves its rows. With no game id `load_only` is never set (`menu.c:2691`), so that
every folder can be saved into. The comment at `menu.c:894`
gives 80 to 95 as thresholds, the loader takes 70 to 95 and 100. An edit
in the HUD that lands between the worker's look at the mark and its decision to
end (`screen_tuning.c:1933`, `1981`) is saved when something starts the worker
again. The HUD's hold counts outlive it, so that its first sample may step a
value, although `menu.c:123-125` rules out an edge. A video window
learned while the browser shows another folder mixes one mode into it.

Screen tuning. A suspend that lands in the copy of both buffers leaves the
display on a shadow. The shadow's memory is freed while it may still be scanned
until the next vertical blank (`screen_tuning.c:2295`). The PS1 pass does not engage
again after its worker ended with a buffer ready (`1667`). A list may still be
queued behind `st_stop` by a party that had passed its gate (`149`, `2258`), and one
between a dialog's gate and its submit (`178-185`).

Video skip, cheats, statistics. The status stub may be written after its player
was unloaded, a probe may patch after the watcher ended (`videoskip.c:205`, `415`).
Two options of one name return as the first (`cheats.c:34`). Writes that
overlap at different addresses are put back in the order they were noted, which
leaves a word of the patch (`cheats.c:42-45`); the instance's unlocks write apart.
The apply thread, past its last look and not yet gone (`cheats.c:477`), still holds
the started flag, so that a choice made then starts nobody. After a
LOAD the gate remembers what the firmware was told at save time
(`sysstats.c:357`). The battery thread, on its way out, may be overtaken by the
page that turns it on again (`399-408`); if a thread cannot be created the started
flag stays up. `FrameCount`'s header in the code speaks of 256 samples and three
slowest, the code has 128 and two.

One step above stock is enough for the clock (stock or not is what its guards
ask); two are needed only where two raised steps meet, which the proofs cover. Two levels give
a row a floor and a ceiling. Presses, sleeps, sessions and loads are not
bounded. `ClockRamp` starts a field at 0 and 511; the proof covers every
value. `game_side` and `routines` do not check for deadlock: a walk of the ramp
ends, and so do a game that exits and a behaviour cut off at one of the
exceptions above.

Fairness. `SaveLoad`: strong fairness of the menu thread's own steps (it is
runnable at a high priority and is disabled again and again by sleeps the user
asks for); weak fairness of the firmware, which goes on with a descent or gives
it up, of the RTC alarm, and of the completion of a resume. The user owes
nothing: no X and no wake-up, so `OperationReturns` stops at the prompt and at
a sleep that has no alarm. `ThreadFreeze`: weak fairness of the menu thread
within an operation, a waiting thread is woken, a thread that gets to run again
and again returns its FAT lock (strong), and the I/O thread completes a queued
open (strong, since other threads take the lock in between). Nothing is assumed
of the ME mutex: the retry bound alone ends that loop. `PopsShadow`: weak fairness
of the worker, the only ready thread of its priority for the time of a frame,
and of the vertical blank, which comes as long as there is a display. `MCLive`
states both components' fairness. All other parts claim safety only.

## Proofs

`SaveLoadProofs` proves, for every value of the constants,

    TypeCorrect              Spec => []TypeOK

and, assuming `~SlowResume`,

    RunningStaysConsistent   Spec => []RunningConsistent
    AcceptedStaysComplete    Spec => []AcceptedIsComplete
    ApplyStaysSafe           Spec => []ApplyIsSafe

from `ConstantsAssumption` and `SentinelsAssumption` of `SaveLoad` (non-empty
sets; the sentinels differ from what they stand in for).

`TypeOK` is not inductive: a save that goes on needs its file to exist and a
capture happens only while the menu thread waits, so that the snapshot is in
the set `Snapshot`, which does not contain snapshots of other kinds. `TypeInv`
adds those two facts (`FileIsThere`, `CaptureInWait`).

The three safety properties need one invariant, `SafeInv`, because they hold
each other up: a running game is consistent because a LOAD restored it from an
accepted file, a file is complete because the game was consistent when it was
saved, and an apply is safe because the file was complete. Its parts follow the
life of the data: `FrozenWhere` (at which points the game must be stopped),
`WaitArmed` (which waits may be capturing), `Intact` (memory is untouched until
the capture), `Sections` (what each section written so far holds), `Captured`
(what the staging slot holds after the capture), `CrcPending` and `Certified`
(what a pending and a stamped CRC stand for), `Verified` (what the file holds
after a LOAD checked it) and `Staged` (what an armed LOAD has in RAM). The proof
has one lemma per group of actions and within it a step per conjunct the action
can disturb. TLC checked `SafeInv` as an invariant of the `save_load` instance
before it was proved.

On top of `SafeInv`, still assuming `~SlowResume`, the module proves of the operations

    NothingStaysArmed        Spec => []NothingLeftArmed
    LoadsLeaveFiles          Spec => LoadLeavesFiles

and the refinement:

    ImplementsSaveStates     Spec => KeepsPromise

`EndInv` says at which points the auto-wake may be set and the game still owed
its RESUMING. That a LOAD leaves the files alone is a statement about the code of
a SAVE, in which a LOAD ends: `BackInv` says that the tail it re-enters has no CRC
to stamp and no incomplete file to remove, because the snapshot was taken in a
save that had written everything; for this the snapshots are followed through
memory and files (`MemoryWhole`, `FilesWhole`). For the refinement `StillThere`
adds that the file a LOAD checked is unchanged when the kernel is overwritten.
There is one lemma per abstract step, saying what must hold of the concrete state
for it to be one, and one per group of concrete actions. The instructive steps
are the sections of a save whose header write failed: the old CRC word is still
in the file and can come to match what is written, so such a file becomes loadable
before the save is certified; it then holds the state the game was stopped in,
which is the abstract `Store`.

`PowerStepsProofs` proves

    StepTypes           Spec => []TypeOK
    ClockFollowsStep    Spec => []ClockIsStep
    ExitIsStock         Spec => []ExitLeavesStock
    RevertIsEnough      Spec => []StockMeansStock
    VoltageIsOwed       Spec => []VoltsOwed
    RaisedWithConsent   Spec => []ClockHasConsent
    StableByTheUser     Spec => []StableIsVouched

from `StepsAssumption`; all but the first assume `~EarlySleep`, `~PromptFails`
and `~SlowExit`, the two about the voltage also `~PollCut`, the two about consent
also `LoadVouches`. `ClockInv` says where the clock may be at each point of the menu
thread: at stock before the decision, at the step afterwards, and at either of
the two between raising the voltage and raising the clock, since a sleep there
re-applies the step. `VoltInv` adds that `g_cv_now` tells the truth about a rail
at stock, also inside a save state, and that a level is held or owed.
`ConsentInv` adds what the card and the points after the decision know of the
user's word. The lemmas about `CvRevert`, `CvApply`, `CvPollReapply` and
`Resumed` say what each leaves of the globals it is given.

`RoutineProofs` proves of the rails `TypeOK`, `RailAsShown`, `StartRecovers` and from
them `RailsHold`; of the ramp `RampArrives`, `NeverPast` and `RampLands`, as theorems
of `RampSpec`, from `Guard * Step >= Full`: after `n` rounds a field is at its
target or has `Full - n * Step` left at most; and of the live HUD

    EditsStayMarked      HudSpec => []UnsavedIsMarked

for values of any range. `HudInv` adds what the worker has in hand: between its
gathering and its write the words are the values, or the mark is up again. Of the
settings page it proves

    PageIsKept           PageSpec => []PageKeeps

from `PageAssumption`, which says that the ranges are not empty and that the file may hold
a battery capacity one step above what the page offers (20000 against 8000 mAh,
`menu.c:859`, `2253-2257`: a capacity of 7950 read from a file is raised to 8050).
`Legal` says what a page can make of the settings: the loaders make something legal of
any words (`LoadedLegal`), take what is legal for what it is (`LoadsLegal`), and
every row turns the legal into the legal and marks the file it belongs to
(`EditFits`). `KeptInv` then says that every file that is not marked loads what is in
memory (`Stored`), and of a press that is followed how many samples and steps it
has (`Followed`).

Three results are about data of any length, two in `RoutineProofs` and, of the database,
one in `CheatDbProofs`. They are proved without an induction rule: of what holds at 0 and is handed on, a least number without it cannot
exist (`StepByStep`), and what a fold leaves is the one function on sets of places that
takes each step (`FoldExists`).

    SectionsStayReadable     FormatSpec => []SectionsReadBack
    CountsStayTrue           CountSpec => []CountsAreTrue
    OptionsAreTheDatabase    DbSpec => []DatabaseOffered

Of the savegame, `FormatInv` gives every record on the card and in the buffer the chunk a
reader expects there. `Laid` says that the records lie in order and that within a
section one begins where the one before it ends; `Whole` that an earlier section begins
at its start and ends with its last chunk; `Stands` where the next record of the section
being written will be. The writer keeps them through every chunk, every flush and the
step from the buffered to the direct path, and the reader is on the chunk it expects
(`ReaderInv`). `FormatAssumption` is the arithmetic the code relies on: the buffer is a multiple
of the grid, a record with its header fits behind a flush, and the VRAM section fits the buffer.

Of the frame counter, `Ringed` says that slot `j` holds the gap that came `Age(j)` frames before
the last one, so the ring adds up to the time between the first and the last frame
kept; a sum of which one slot is replaced moves by the difference. For the 1% low the
insertion leaves the slowest frametimes so far in ascending order (`Tops`), and they are those
of a set of slots (`Picks`). `Bursts` says that a run of four presents has raised the
count of presents to three before any other hook is heard.

Of the cheat database, `DbInv` says what has been offered of the lines read so far
(`Offered`): nothing before the first cheat of our section, everything before the cheat
being read while one is, and all of it behind the section. Of the cheat being read, `CurIs` says that
what the parser has noted is what its code so far says, the code beyond
`MaxCheatLines` included. A line that follows changes neither which lines are ours
(`OursBefore`) nor the code of a cheat that has ended (`CodeBefore`).

`ThreadFreezeProofs` proves, for any set of threads and any number of attempts,

    FreezeTypes          Spec => []TypeOK
    ResumeReturnsAll     Spec => []ResumeIsComplete

and, assuming `~MaySpawn`,

    GameStaysStopped     Spec => []GameStopped
    PointStaysUsable     Spec => []PointIsUsable
    ResumesOnlyItsOwn    Spec => ResumesItsOwn

from `ThreadsAssumption`. `OursInv` says that whatever stands suspended by the
plugin is named in its list of suspended threads, also between the suspension of
one thread and of the next: that list is all the code resumes from. `StopInv`
follows one attempt: what was identified is what the game has (`KnownInv`), what
the pass has gone through can no longer run (`PassInv`), and at a point that goes
on everything of the game stands (`StandInv`). `LockInv` keeps what the probes
found: a stopped thread takes no mutex and a driver that let the suspend through
gets no new read. `~MaySpawn` is needed because the list is taken once per
attempt, so that a thread born after it is in no table.

`ScreenTuningProofs` proves

    DisplayIsSound       PopsSpec => []ScanoutIsSound
    FramesAreCurvedOnce  GammaSpec => []CurveLaidOnce

and `CurveProofs`

    CurveAlwaysDrawn     CurveSpec => []CurveIsDrawn

`PopsInv` says at each step of the worker which buffer is shown, which is being
filled and which is ready, and where the source of the copies points.

Of `CurveLaidOnce`, `OneBuilder` is inductive as it stands. `Washed` speaks of the
pixels, which the lists on the GE have yet to change, so its invariant is about what
they lead to: `Leads(ge, f, g)` says that no list on the GE curves a curved buffer, and
that `f` are the curves and `g` the render target when all have run. What the GE does
leaves `f` and `g` alone (`LeadsRun`), a list queued behind the others changes them once
(`LeadsOn`), and `Follows(f, g)` ties them to the code's variables: what somebody is about
to curve is not curved (`Undone`), a curved buffer that could be curved again is known to
the double-apply guard, the worker's pending return or the injection (`Known`), and the
scene's latch does not take a scene that has been curved for the next one (`ScenesApart`).
The number of lists never enters: the proof holds however far the GE is behind.

`CurveIsDrawn` is arithmetic. The curve, the GE's passes and the entry of a table are each
written as one numerator over one denominator (`CurveNumber`, `TableNumber`), so that every
rounding of the code is a bound on a remainder: the GE is at most 5 away, by the
sign of the strength (`DrawnDark`, `DrawnBright`, `DrawnNeutral`), the table at most 2 (`TableNear`), and
a table rises (`TableRises`). `CoverageFits` and `StripsMeet` are about the rectangle of the pass, for
any buffer, stride and height. `CurveAssumption` bounds gamma, temperature and samples by
what the settings and a channel can hold, and is all that is assumed.

`GameSideProofs` proves

    ChargingFollows      OverlaySpec => ChargerFollows
    StubsStayOwn         VideoSpec => []StubsAreOwn
    PacingIsRight        ~TwoThreads => (PaceSpec => []PacedRight)
    BrowserStaysTrue     MenuSpec => []BrowserAgrees
    FoldersStayApart     MenuSpec => FilesKept
    CheatsAreUndone      WritesApart => (ThreadSpec => []CheatsGiveBack)
    PadsStayGames        PadSpec => []PadsAreGames

The first needs no assumption on the constants: `GateInv` says that the plugin is
right about what it last told the firmware (`Told`), and that a thread that has
decided to leave has permitted charging (`LeavesPermitted`), until a load brings
back an older belief.

`VideoInv` ties the skipper's pointers to memory: `StubWhere` says that a stub
stands only where its pointer points, in the library whose words were saved,
with its mark up, so that whoever ends it (the watcher, a load of the module, the
unload) finds out what is to be put back; `OnePlace` that a module is loaded at
one place; `DoneDown` what the watcher leaves. Nothing is claimed once a stub was
written behind an unload (`"stale"`).

For the limiter `PaceInv` says that the grid's last point, a reading of the
counter, is one of real time (`GridPoint`), and that a sleeper wakes a period past
it at the earliest. The counter wraps, so the proof starts with lemmas on remainders: the
difference of two readings taken less than a wrap apart is the time between them
(`ElapsedAtMost`), and a reading plus a period is the reading then
(`CounterSteps`). `~TwoThreads` is needed: run `pace_twice` is the counterexample.

For the menu thread `BrowserInv` adds where the rows are the card's (`RowsWhere`)
and, for the taps, that whoever raised the flag for a thread that sleeps or is
about to still has its wake-up to come, and that a boot and a tap do not use up
each other's (`TapsWhere`). For the files, `FilesInv` says whose values are in RAM
at which place (`SeenGame`, `OwnWhere`), who may have truncated a file (`CutWhere`)
and that whoever will write a file holds no older value than the file has
(`KeptWhere`), since both writers read before they write; a watcher that stores
while the browser is open sets `mixed` first (`StoringOut`). The steps that touch
neither files nor settings are handled once (`QuietKeeps`).

For the cheats `Undoes` says what makes a backup sound: one original per place,
each of a write of the option chosen, with the game's own code in it, and every patched
cell in one of them. An image of a save holds such a backup too (`ImageWhere`).
A full backup would be a patch nobody can undo; `RoomForOne` counts that there is
room, since an option has no more lines than the backup has places (`cheats.c:258`).
`ExitWhere` says that a sleep of the thread ends before the exit stops waiting (100 ms
against 120, `cheats.c:497`). `WritesApart`, two writes of one option change the same
cells or none in common, is needed: originals that overlap in part are put back in
the order they were noted, and the later one holds a word of the patch. The unlocks of
the instance write apart.

For the pad `PadInv` says what makes the count safe although it is only a bound:
of a menu sample none that is read before it has a later time, and the count covers
all of them (`MenuIsCovered`), one slot less while a blanked slot is not yet counted
(`Uncounted`). `Recent`, the ring's samples are the latest ones, makes the signed
comparison of two readings right at the arming, and `GameIsAfter` keeps it right
for half a wrap. As in the runs, nothing is followed beyond a count the menu thread
wrote in the middle of a read, and no sample stays in a reader for half a wrap.

`MenuAssumption`, `PaceAssumption`, `ThreadAssumption` and `PadAssumption` are all that is assumed of
the constants.

The types are a property of their own where they hold the sizes of the code's tables:

    BuffersHold          FormatSpec => []FormatTypeOK
    CountTypesHold       CountSpec => []CountTypeOK
    CurveTypesHold       CurveSpec => []CurveTypeOK
    DbTypesHold          DbSpec => []DbTypeOK
    RoutineTypesHold     RoutinesInit /\ [][RoutinesNext]_routineVars => []RoutineTypesOK
    GameSideTypesHold    WritesApart =>
                           (GameSideInit /\ [][GameSideNext]_gameSideVars => []GameSideTypesOK)

`FormatTypeOK` says that what is encoded next fits the write buffer and what is read ahead
fits behind the rest of the last read; `RoomInv` adds to it what the padding and the records
leave. `DbTypeOK` is about the tables of options and lines: `OptionsInv` says that neither outgrows
its table and that the chosen option is one of those offered. `CountTypeOK` needs that
the frames kept came one after the other (`WindowInv`), `CurveTypeOK` what a pass is made of
(`BuiltInv`).

The last two are the types of all parts of `MCRoutines` and of `MCGameSide`, with one
invariant per part. Most parts have it already from the property proved of them (`CheatInv`,
`PadInv`, `VideoInv`, `BrowserInv`, ...); added are, of `CheatThread`, that no more originals
are noted than there are places (`BackupFits`); of `MenuThread`, that the rows and the cursor
stay in the table: a save starts only where its folder has a row to spare or has the file
already (`RoomWhere`; `MAX_SAVE_ROWS`), also behind a folder deleted from the list of games;
of `GammaPass`, which counters, buffers and marks each of the hook, the worker, the
interrupt and the exit may hold at each of its steps (`GammaInv`); of `FramePace`, the range
of a grid point and of the refusals, with one thread or with two (`PaceShape`).
`WritesApart` is needed for `BackupFits` only. `SaveSlots # {}` in `MenuAssumption` says that
there is a file name to begin with.

Only model-checked: the liveness properties, `OperationReturns`, `FreezeReturns` and
`PopsGivesBack`, because the prover handles neither fairness nor ENABLED. Every other
property a run checks and the code keeps is stated by a theorem.

## Not modelled

The contents of memory, of thread contexts and of the GE; compression itself
(`decompress(compress(x)) = x` is assumed of FastLZ); panels, previews and rates;
the flash driver repair; DMA that is still in flight at the capture
(`dmac_drain_wait`); the cache operations around the copies. A freeze is atomic
in `SaveLoad` and opened up only in `ThreadFreeze`, where the operation's other
steps are absent. In `PowerSteps` a write of the rail by the menu thread is one
step, and the freeze around the boot prompt is its result only. The list of
threads is complete in `ThreadFreeze`; the code's tables end at 64 entries, and
what a 65th thread does to the loop at `fatsave.c:573` is the one hazard without
a property. Of the statistics, the drawing of the overlay and the load figures
of CPU and GPU are left out: they are output that nothing reads.

Module start and the installation of hooks (`main.c`) run once and in a straight
line; their results are initial states. Drawing, logs, UART, the crash screen
are output. FastLZ and the ARK-4 headers are other people's.

## Plan

1. A counting model of the 64-entry tables of the freeze.
2. `PowerSteps` composed with the events of `SaveLoad`: the resume handler that
   races the operation's wait is also the one that raises the clock.
3. `MenuThread` over `SaveLoad`: one module for the operation's inside and the
   files it is chosen from.
