------------------------------ MODULE MenuThread ------------------------------
(***************************************************************************)
(* The menu thread: woken by the controller hook for the boot sequence or  *)
(* for a NOTE tap, it freezes the game, lists save folders, edits the      *)
(* per-game settings and starts saves and loads.  The hook runs on the     *)
(* game's threads whenever they are not frozen; the video watcher runs     *)
(* beside both and writes the running game's settings file.                *)
(*                                                                         *)
(* A setting is written <<game, k>>, the k-th value somebody chose for     *)
(* that game.  plain stands for g_autoload and g_compress, which are       *)
(* loaded, edited and stored alike.  What a save and a load do inside is   *)
(* in SaveLoad, the freeze in ThreadFreeze, the overclock in PowerSteps.   *)
(***************************************************************************)
EXTENDS Integers, Sequences, SequencesExt

CONSTANTS
  Games,    \* folders under SAVESTATE
  RunningGame,  \* umdid
  SaveSlots,    \* file names of saves
  RowCap,      \* MAX_SAVE_ROWS (32)
  Tries,    \* auto-open attempts (40)
  Edits,    \* bound: presses on a settings row and deletions
  WakeCap     \* bound: wake-ups queued

ASSUME MenuAssumption ==
  /\ RunningGame \in Games /\ SaveSlots # {}
  /\ RowCap \in Nat \ {0} /\ Tries \in Nat \ {0} /\ Edits \in Nat /\ WakeCap \in Nat

Default  == <<"default", 0>>
CaptureMode  == 0   \* of skip: VSKIP_CAPTURE
Timed    == 1   \* of skip: VSKIP_TIMED with a learned window
Value    == {Default} \cup (Games \X (0 .. Edits + 1))
Setting  == [plain : Value, limit : Value, skip : Value]
\* What a missing, truncated or foreign file loads as.
Defaults == [plain |-> Default, limit |-> Default, skip |-> Default]

Frozen   == {"browser", "games", "page", "trunc", "write", "saving", "loading"}
Browsing == Frozen \cup {"opening", "gap", "crc"}

VARIABLES
  place,        \* where the menu thread is
  menuOpen, armed, bootPending, wakeups,
  popup,     \* may HOME open the system's popup?
  launch,    \* g_autoopen_launch
  tries,     \* auto-open attempts left; 0 in a manual open
  tapHook,      \* where the game's thread is in PspLsLibraryLauncher
  folder, rows, sel, showNew,   \* cur_id, g_rows, sel, g_show_newsave
  slot,      \* the save an operation is about
  saves,     \* on the card: a folder's saves by time, oldest first
  exists,    \* folders on the card
  file,      \* gameset.cfg of every folder ...
  cut,       \* ... and the ones truncated and not yet written again
  g,         \* the settings in RAM
  changed,   \* gchanged
  edits,     \* presses and deletions so far
  videoThread, learned,   \* the video watcher, and its copy of the file
  snap,      \* what the last save captured
  gone,      \* history: the folder shown was deleted from the list of games
  mixed      \* history: the watcher stored a window while the browser was open

menuVars == <<place, menuOpen, armed, bootPending, wakeups, popup, launch, tries, tapHook, folder,
              rows, sel, showNew, slot, saves, exists, file, cut, g, changed, edits, videoThread,
              learned, snap, gone, mixed>>
hookVars  == <<armed, tapHook>>
bootVars  == <<bootPending, launch, tries>>
listVars  == <<folder, rows, sel, showNew, slot, gone>>
cardVars  == <<saves, exists>>
fileVars  == <<file, cut>>
pageVars  == <<changed, edits>>
watchVars == <<videoThread, learned>>

Max0(n) == IF n < 0 THEN 0 ELSE n
Total   == Len(rows) + (IF showNew THEN 1 ELSE 0)

MenuTypeOK ==
  /\ place \in {"start", "sleep", "awake", "prompts", "watch", "retry"} \cup Browsing
  /\ {menuOpen, armed, bootPending, popup, launch, showNew, changed, gone, mixed}
       \subseteq BOOLEAN
  /\ wakeups \in 0 .. WakeCap /\ tries \in 0 .. Tries /\ tapHook \in {"idle", "boot", "tap"}
  /\ folder \in Games /\ rows \in Seq(SaveSlots) /\ Len(rows) <= RowCap /\ slot \in SaveSlots
  /\ sel \in 0 .. Max0(Total - 1)
  /\ saves \in [Games -> Seq(SaveSlots)] /\ exists \subseteq Games /\ cut \subseteq Games
  /\ file \in [Games -> Setting] /\ g \in Setting /\ edits \in 0 .. Edits /\ learned \in Setting
  /\ videoThread \in {"none", "capture", "timed", "read", "trunc", "write"}

NoSnap == [slot |-> "none"]
AnySlot == CHOOSE s \in SaveSlots : TRUE   \* before anything is chosen

MenuInit ==
  /\ place = "start" /\ menuOpen = FALSE /\ armed = FALSE /\ bootPending = FALSE /\ wakeups = 0
  /\ popup = TRUE /\ launch = FALSE /\ tries = 0 /\ tapHook = "idle"
  /\ folder = RunningGame /\ rows = <<>> /\ sel = 0 /\ showNew = TRUE
  /\ slot = AnySlot
  /\ saves = [x \in Games |-> <<slot>>] /\ exists = Games
  /\ \E k \in {Default, <<RunningGame, CaptureMode>>, <<RunningGame, Timed>>} :
       file = [x \in Games |-> [plain |-> <<x, 0>>, limit |-> <<x, 0>>,
                                skip |-> IF x = RunningGame THEN k ELSE Default]]
  /\ cut = {} /\ g = Defaults /\ changed = FALSE /\ edits = 0
  /\ videoThread = "none" /\ learned = Defaults /\ snap = NoSnap /\ gone = FALSE /\ mixed = FALSE

-----------------------------------------------------------------------------
(* The controller hook, on the game's threads *)

\* sceKernelWakeupThread: a thread that is not asleep keeps the wake-up for its next sleep.
Wake ==
  \/ place = "sleep" /\ place' = "awake" /\ UNCHANGED wakeups
  \/ place # "sleep" /\ wakeups < WakeCap /\ wakeups' = wakeups + 1 /\ UNCHANGED place

\* PspLsLibraryLauncher: the first read after boot, or a short tap of NOTE; with a menu up
\* it only follows the key.
Hook ==
  /\ place \notin Frozen /\ tapHook = "idle" /\ ~menuOpen
  /\ \/ armed /\ armed' = FALSE /\ bootPending' = TRUE /\ tapHook' = "boot" /\ UNCHANGED menuOpen
     \/ ~armed /\ menuOpen' = TRUE /\ tapHook' = "tap" /\ UNCHANGED <<armed, bootPending>>
  /\ UNCHANGED <<place, wakeups, popup, launch, tries, listVars, cardVars, fileVars, g, pageVars,
                 watchVars, snap>>

\* Variant: a thread that is not asleep is not woken.
HookWakesSleeper ==
  /\ place \notin Frozen /\ tapHook \in {"boot", "tap"} /\ tapHook' = "idle"
  /\ place' = IF place = "sleep" THEN "awake" ELSE place
  /\ UNCHANGED <<wakeups, armed, menuOpen, bootVars, popup, listVars, cardVars, fileVars, g,
                 pageVars, watchVars, snap>>

\* ... and then wakes the menu thread.
HookWakes ==
  /\ place \notin Frozen /\ tapHook \in {"boot", "tap"} /\ tapHook' = "idle"
  /\ Wake
  /\ UNCHANGED <<armed, menuOpen, bootVars, popup, listVars, cardVars, fileVars, g,
                 pageVars, watchVars, snap>>

-----------------------------------------------------------------------------
(* The menu thread outside the browser *)

\* menu_thread up to its loop: the settings, the clock baseline, the overlay hook.
Start ==
  /\ place = "start" /\ place' = "sleep" /\ armed' = TRUE
  /\ UNCHANGED <<tapHook, menuOpen, wakeups, bootVars, popup, listVars, cardVars, fileVars,
                 g, pageVars, watchVars, snap>>

\* sceKernelSleepThread with a wake-up queued.
NoSleep ==
  /\ place = "sleep" /\ wakeups > 0 /\ wakeups' = wakeups - 1 /\ place' = "awake"
  /\ UNCHANGED <<hookVars, menuOpen, bootVars, popup, listVars, cardVars, fileVars, g, pageVars,
                 watchVars, snap>>

Content(x) == IF x \in cut \/ x \notin exists THEN Defaults ELSE file[x]

\* The boot sequence reads the running game's values; the prompts for an overclock or for
\* the capture follow.
Boot ==
  /\ place = "awake" /\ bootPending /\ bootPending' = FALSE
  /\ g' = [g EXCEPT !.limit = Content(RunningGame).limit, !.skip = Content(RunningGame).skip]
  /\ \E overclock \in BOOLEAN :
       LET ask == overclock \/ (g'.skip # Default /\ g'.skip[2] = CaptureMode) IN
       IF ask THEN place' = "prompts" /\ menuOpen' = TRUE /\ popup' = FALSE
              ELSE place' = "watch" /\ UNCHANGED <<menuOpen, popup>>
  /\ UNCHANGED <<hookVars, wakeups, launch, tries, listVars, cardVars, fileVars, pageVars,
                 watchVars, snap>>

\* boot_frozen_prompts returned, answered or not frozen at all.
PromptsDone ==
  /\ place = "prompts" /\ place' = "watch" /\ popup' = TRUE /\ menuOpen' = FALSE
  /\ UNCHANGED <<hookVars, wakeups, bootVars, listVars, cardVars, fileVars, g, pageVars,
                 watchVars, snap>>

\* The watcher starts; game_autoopen_enabled and game_has_save decide on the auto-open.
WatcherStarts ==
  /\ place = "watch"
  /\ videoThread' = IF g.skip = Default THEN "none" ELSE IF g.skip[2] = CaptureMode THEN "capture" ELSE "timed"
  /\ \E on \in BOOLEAN :
       IF on /\ Content(RunningGame).plain # Default /\ saves[RunningGame] # <<>>
       THEN /\ launch' = TRUE /\ tries' = Tries
            /\ place' = "opening" /\ menuOpen' = TRUE /\ popup' = FALSE
       ELSE place' = "sleep" /\ UNCHANGED <<launch, tries, menuOpen, popup>>
  /\ UNCHANGED <<hookVars, wakeups, bootPending, listVars, cardVars, fileVars, g, pageVars, learned,
                 snap>>

\* A NOTE tap, or a retry of the auto-open after 150 ms.
OpenBrowser ==
  /\ \/ place = "awake" /\ ~bootPending
     \/ place = "retry"
  /\ place' = "opening" /\ menuOpen' = TRUE /\ popup' = FALSE
  /\ UNCHANGED <<hookVars, wakeups, bootVars, listVars, cardVars, fileVars, g, pageVars,
                 watchVars, snap>>

\* No attempt of eight froze the game with the card free.
OpenFails ==
  /\ place = "opening" /\ popup' = TRUE /\ menuOpen' = FALSE
  /\ tries' = Max0(tries - 1)
  /\ IF tries' = 0 THEN place' = "sleep" /\ launch' = FALSE
                   ELSE place' = "retry" /\ UNCHANGED launch
  /\ UNCHANGED <<hookVars, wakeups, bootPending, listVars, cardVars, fileVars, g, pageVars, watchVars,
                 snap>>

\* run_save_browser returned: back to sleep, the auto-open used up.  The next open sets the
\* list anew.
Return ==
  /\ popup' = TRUE /\ menuOpen' = FALSE /\ place' = "sleep"
  /\ tries' = 0 /\ launch' = FALSE
  /\ folder' = RunningGame /\ rows' = <<>> /\ sel' = 0 /\ showNew' = TRUE /\ gone' = FALSE
  /\ slot' = AnySlot

-----------------------------------------------------------------------------
(* The browser *)

Listed(x) == Reverse(saves[x])

\* enumerate_saves and load_game_settings for the folder; the newest save or the first row.
ShowList(x, withNew, newest) ==
  /\ folder' = x /\ showNew' = withNew /\ rows' = Listed(x) /\ gone' = FALSE
  /\ g' = Content(x)
  /\ sel' = IF newest /\ withNew /\ saves[x] # <<>> THEN 1 ELSE 0
  /\ exists' = exists \cup {x} /\ UNCHANGED slot

Opened ==
  /\ place = "opening" /\ place' = "browser" /\ launch' = FALSE
  /\ \E last \in BOOLEAN : ShowList(RunningGame, ~launch, last)   \* g_default_slot
  /\ UNCHANGED <<hookVars, menuOpen, wakeups, bootPending, popup, tries, saves, fileVars, pageVars,
                 watchVars, snap>>

Move ==
  /\ place = "browser" /\ sel' \in {sel - 1, sel + 1} \cap (0 .. Total - 1)
  /\ UNCHANGED <<place, hookVars, menuOpen, wakeups, bootVars, popup, folder, rows, showNew, slot,
                 gone, cardVars, fileVars, g, pageVars, watchVars, snap>>

Close ==
  /\ place = "browser" /\ Return
  /\ UNCHANGED <<hookVars, wakeups, bootPending, cardVars, fileVars, g, pageVars, watchVars,
                 snap>>

\* L: the list of games, and back without a choice.
ToGames ==
  /\ place \in {"browser", "games"} /\ place' = IF place = "browser" THEN "games" ELSE "browser"
  /\ UNCHANGED <<hookVars, menuOpen, wakeups, bootVars, popup, listVars, cardVars, fileVars, g,
                 pageVars, watchVars, snap>>

\* run_game_browser returned a folder.
Pick ==
  /\ place = "games" /\ place' = "browser"
  /\ \E x \in exists, last \in BOOLEAN : ShowList(x, showNew, last)
  /\ UNCHANGED <<hookVars, menuOpen, wakeups, bootVars, popup, saves, fileVars, pageVars,
                 watchVars, snap>>

\* delete_game_folder.  The rows of the folder shown stay.
DeleteGame ==
  /\ place = "games" /\ edits < Edits /\ edits' = edits + 1
  /\ \E x \in exists :
       /\ exists' = exists \ {x} /\ saves' = [saves EXCEPT ![x] = <<>>]
       /\ file' = [file EXCEPT ![x] = Defaults] /\ cut' = cut \ {x}
       /\ gone' = (gone \/ x = folder)
  /\ UNCHANGED <<place, hookVars, menuOpen, wakeups, bootVars, popup, folder, rows, sel, showNew,
                 slot, g, changed, watchVars, snap>>

OnSave  == rows # <<>> /\ (showNew => sel >= 1)
Chosen  == rows[IF showNew THEN sel ELSE sel + 1]
\* names are used once
Without(x, s) ==
  LET at == CHOOSE i \in DOMAIN saves[x] : saves[x][i] = s
  IN IF s \in Range(saves[x]) THEN RemoveAt(saves[x], at) ELSE saves[x]

\* Triangle, confirmed: the save and its pictures.
Delete ==
  /\ place = "browser" /\ OnSave /\ edits < Edits /\ edits' = edits + 1
  /\ saves' = [saves EXCEPT ![folder] = Without(folder, Chosen)]
  /\ rows' = Reverse(saves'[folder])
  /\ LET total == Len(rows') + (IF showNew THEN 1 ELSE 0) IN
       sel' = IF sel >= total THEN Max0(total - 1) ELSE sel
  /\ UNCHANGED <<place, hookVars, menuOpen, wakeups, bootVars, popup, folder, showNew, slot, gone,
                 exists, fileVars, g, changed, watchVars, snap>>

LoadOnly == folder # RunningGame

Closing(to) == place' = to /\ menuOpen' = FALSE

\* X: a new save under a new name, or over the chosen one; the game runs again for 100 ms.
\* Too little RAM and an answer of no leave the browser as it is.
Save ==
  /\ place = "browser" /\ ~LoadOnly
  /\ \/ showNew /\ sel = 0 /\ Len(rows) < RowCap /\ slot' \in SaveSlots \ Range(saves[folder])
     \/ OnSave /\ slot' = Chosen
  /\ Closing("gap")
  /\ UNCHANGED <<hookVars, wakeups, bootVars, popup, folder, rows, sel, showNew, gone, cardVars,
                 fileVars, g, pageVars, watchVars, snap>>

\* FreezeSave freezes the game again ...
Saving ==
  /\ place = "gap" /\ place' = "saving"
  /\ UNCHANGED <<hookVars, menuOpen, wakeups, bootVars, popup, listVars, cardVars, fileVars, g,
                 pageVars, watchVars, snap>>

\* ... writes the slot, or fails and may leave it gone, and resumes the game.
Saved ==
  /\ place = "saving" /\ place' = "crc"
  /\ \/ /\ folder \in exists
        /\ saves' = [saves EXCEPT ![folder] = Append(Without(folder, slot), slot)]
        /\ snap' = IF armed \/ bootPending \/ tapHook # "idle" \/ videoThread # "none" THEN NoSnap
                   ELSE [slot |-> slot, menuOpen |-> menuOpen, wakeups |-> wakeups, g |-> g]
     \/ /\ saves' \in {saves, [saves EXCEPT ![folder] = Without(folder, slot)]}
        /\ snap' = IF saves' = saves THEN snap ELSE NoSnap
  /\ UNCHANGED <<hookVars, menuOpen, wakeups, bootVars, popup, listVars, exists, fileVars, g,
                 pageVars, watchVars>>

\* The CRC is finished with the game running, and run_save_browser returns.
Finished ==
  /\ place = "crc" /\ Return
  /\ UNCHANGED <<hookVars, wakeups, bootPending, cardVars, fileVars, g, pageVars, watchVars,
                 snap>>

\* Square, confirmed.
Load ==
  /\ place = "browser" /\ ~LoadOnly /\ OnSave /\ slot' = Chosen /\ Closing("loading")
  /\ UNCHANGED <<hookVars, wakeups, bootVars, popup, folder, rows, sel, showNew, gone, cardVars,
                 fileVars, g, pageVars, watchVars, snap>>

\* A load that gives up returns; one that is applied returns from the save it captured.
\* Bound: only a save of this session, taken with the boot and the watcher behind it.
LoadReturns ==
  /\ place = "loading"
  /\ \/ place' = "crc" /\ UNCHANGED <<menuOpen, wakeups, armed, bootPending, tapHook, g, videoThread>>
     \/ /\ snap # NoSnap /\ slot = snap.slot /\ slot \in Range(saves[folder]) /\ place' = "crc"
        /\ menuOpen' = snap.menuOpen /\ wakeups' = snap.wakeups /\ g' = snap.g
        /\ armed' = FALSE /\ bootPending' = FALSE /\ tapHook' = "idle" /\ videoThread' = "none"
  /\ UNCHANGED <<launch, tries, popup, listVars, cardVars, fileVars, pageVars, learned,
                 snap>>

-----------------------------------------------------------------------------
(* The page of per-game settings *)

EnterPage ==
  /\ place = "browser" /\ place' = "page" /\ changed' = FALSE /\ g' = Content(folder)
  /\ UNCHANGED <<hookVars, menuOpen, wakeups, bootVars, popup, listVars, cardVars, fileVars, edits,
                 watchVars, snap>>

\* Frame Limit, Intro Video Skip, and Auto-Open and Compression.
Press ==
  /\ place = "page" /\ edits < Edits /\ edits' = edits + 1 /\ changed' = TRUE
  /\ \/ g' = [g EXCEPT !.plain = <<folder, edits'>>]
     \/ g' = [g EXCEPT !.limit = <<folder, edits'>>]
     \/ \E mode \in {Default, <<folder, CaptureMode>>, <<folder, Timed>>} \ {g.skip} :
          g' = [g EXCEPT !.skip = mode]
  /\ UNCHANGED <<place, hookVars, menuOpen, wakeups, bootVars, popup, listVars, cardVars, fileVars,
                 watchVars, snap>>

\* O, or X on Screen Tuning, which closes the browser too: save_game_settings opens ...
LeavePage ==
  /\ place = "page"
  /\ IF changed THEN place' = "trunc" ELSE place' = "write"
  /\ UNCHANGED <<hookVars, menuOpen, wakeups, bootVars, popup, listVars, cardVars, fileVars, g,
                 pageVars, watchVars, snap>>

\* ... the folder, which it makes, and truncates the file ...
Truncate ==
  /\ place = "trunc" /\ place' = "write" /\ cut' = cut \cup {folder} /\ exists' = exists \cup {folder}
  /\ UNCHANGED <<hookVars, menuOpen, wakeups, bootVars, popup, listVars, saves, file, g,
                 pageVars, watchVars, snap>>

\* ... and writes; the frame limit goes back to the running game's.
Write ==
  /\ place = "write"
  /\ IF changed
     THEN file' = [file EXCEPT ![folder] = g] /\ cut' = cut \ {folder}
     ELSE UNCHANGED fileVars
  /\ g' = [g EXCEPT !.limit = IF folder = RunningGame /\ changed THEN g.limit ELSE Content(RunningGame).limit]
  /\ changed' = FALSE
  /\ \/ place' = "browser" /\ UNCHANGED <<popup, menuOpen, tries, launch, listVars>>
     \/ Return
  /\ UNCHANGED <<hookVars, wakeups, bootPending, cardVars, edits, watchVars, snap>>

-----------------------------------------------------------------------------
(* The video watcher *)

Watching(to) ==
  /\ videoThread' = to
  /\ UNCHANGED <<place, hookVars, menuOpen, wakeups, bootVars, popup, listVars, exists, saves,
                 pageVars, snap>>

\* The window of a timed run is over, or nothing was captured.
WatcherEnds ==
  videoThread \in {"capture", "timed"} /\ Watching("none") /\ UNCHANGED <<fileVars, g, learned>>

\* The key was let go: the window is learned, and vskip_save_learned ...
Learn ==
  /\ videoThread = "capture" /\ Watching("read") /\ g' = [g EXCEPT !.skip = <<RunningGame, Timed>>]
  /\ UNCHANGED <<fileVars, learned>>

\* Variant: the file is not read first.
ReadNothing ==
  videoThread = "read" /\ Watching("trunc") /\ learned' = [Defaults EXCEPT !.skip = g.skip]
  /\ UNCHANGED <<fileVars, g>>

\* ... reads the file and puts its own two words in ...
ReadBack ==
  /\ videoThread = "read" /\ Watching("trunc")
  /\ learned' = [Content(RunningGame) EXCEPT !.skip = g.skip]
  /\ UNCHANGED <<fileVars, g>>

\* ... truncates it, after making the folder ...
TruncateLearned ==
  /\ videoThread = "trunc" /\ videoThread' = "write" /\ cut' = cut \cup {RunningGame}
  /\ exists' = exists \cup {RunningGame}
  /\ UNCHANGED <<place, hookVars, menuOpen, wakeups, bootVars, popup, listVars, saves, file, g,
                 pageVars, learned, snap>>

\* ... and writes it.
WriteLearned ==
  /\ videoThread = "write" /\ Watching("none")
  /\ IF RunningGame \in exists
     THEN file' = [file EXCEPT ![RunningGame] = learned] /\ cut' = cut \ {RunningGame}
     ELSE UNCHANGED fileVars
  /\ learned' = Defaults /\ UNCHANGED g

-----------------------------------------------------------------------------
Storing == videoThread \in {"read", "trunc", "write"}

MenuNext ==
  /\ \/ Hook \/ HookWakes \/ Start \/ NoSleep \/ Boot \/ PromptsDone \/ WatcherStarts \/ OpenBrowser
     \/ OpenFails \/ Opened \/ Move \/ Close \/ ToGames \/ Pick \/ DeleteGame \/ Delete \/ Save
     \/ Saving \/ Saved \/ Finished \/ Load \/ LoadReturns \/ EnterPage \/ Press \/ LeavePage
     \/ Truncate \/ Write \/ WatcherEnds \/ Learn \/ ReadBack \/ TruncateLearned \/ WriteLearned
  /\ mixed' = (mixed \/ (Storing' /\ place' \in Browsing \ {"opening"}))

MenuSpec == MenuInit /\ [][MenuNext]_menuVars

-----------------------------------------------------------------------------
(* Properties *)

Of(v, x) == v[1] \in {"default", x}

\* The pages edit one set of globals for every folder (menu.c:902-907, videoskip.c:303-305):
\* a folder's file never holds a value chosen for another game.  The mode and window of
\* the video skip excepted once a window was stored while the browser was open.
FilesOwn ==
  \A x \in Games : Of(file[x].plain, x) /\ Of(file[x].limit, x) /\ (mixed \/ Of(file[x].skip, x))

\* What a page stored stays stored, whatever the watcher writes, except in that case.
EditsKept == \A x \in exists \cap exists' : mixed' \/ file'[x].plain[2] >= file[x].plain[2]

\* A save is written with the running game's compression, and only into its folder; other
\* folders only ever lose saves (menu.c:2689).
SavesOwn ==
  /\ place' = "saving" => Of(g'.plain, RunningGame)
  /\ \A x \in Games \ {RunningGame} : Range(saves'[x]) \subseteq Range(saves[x])

\* The rows are the folder's saves, so that what a key acts on is what it names, unless the
\* folder was deleted from the list of games.
RowsOnCard == place = "browser" /\ ~gone => rows = Listed(folder)

\* A tap is never lost: the flag that silences the hook is up only while the thread is
\* awake or will be woken.
NoDeadTap == place = "sleep" /\ menuOpen => wakeups > 0 \/ tapHook = "tap"

\* HOME is blocked exactly while the browser or a prompt is up (menu.c:3034-36).
PopupMatches == popup = (place \notin Browsing \cup {"prompts"})

\* The view without New Savegame is the one of the boot auto-open only (menu.c:2702).
ManualShowsNew == place = "browser" /\ tries = 0 => showNew

\* Said by menu.c:2403-05 of leaving the page, and not so after picking another folder: the
\* game is never paced with another game's limit.
LimitIsGames == place \notin Browsing => Of(g.limit, RunningGame)

\* The browser, the hook and the card agree on what is shown, woken and blocked.
BrowserAgrees == RowsOnCard /\ NoDeadTap /\ PopupMatches /\ ManualShowsNew

\* Every folder keeps its own settings and saves, whoever writes and whatever is browsed.
FilesKept == [][FilesOwn' /\ EditsKept /\ SavesOwn]_menuVars
=============================================================================
