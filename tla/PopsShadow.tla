------------------------------ MODULE PopsShadow ------------------------------
(***************************************************************************)
(* Screen tuning of a PS1 game.  POPS draws into one buffer of its own, so *)
(* the worker copies and corrects it into one of two shadow buffers, and   *)
(* the vblank interrupt points the display controller at the buffer that   *)
(* is ready.  The shadow must be left whenever nobody refreshes it: for    *)
(* the browser, an operation, POPS's own menu, a suspend and the exit.     *)
(* The shadow buffers are 0 and 1, POPS's own buffer is Pops.              *)
(***************************************************************************)
EXTENDS Integers

CONSTANT Stable    \* ticks the display must stay put before the shadow (ST_DB_STABLE)

ASSUME PopsAssumption == Stable \in Nat \ {0}

Shadow == {0, 1}
Pops   == 2
NoBuffer   == -1

VARIABLES
  wanted,      \* "off", "hud" (the HUD alone) or "on" (a correction or an overlay)
  menuUp,        \* g_menu_open
  hold,        \* g_st_op_hold, or a firmware dialog (st_dlg_blocked)
  flipping,    \* POPS flipped less than ST_DB_IDLE_US ago
  popsMenu,    \* g_in_pops_menu
  suspended,   \* g_st_suspended
  resuming,    \* g_st_resume_pending
  quit,        \* g_quit
  scanout,     \* base address register of the display controller
  redirected,  \* g_pops_redirected
  src,         \* g_pops_src
  dbState,       \* g_shadow_state: 0 waiting, 3 running, 9 no memory
  front,       \* g_db_front
  ready,       \* g_db_ready
  stable,      \* g_db_stable
  block,       \* the shadow block is allocated (g_shadow_memid)
  isr,         \* g_db_vbl_on
  worker,      \* where st_worker is
  cut          \* history: "gate" once the interrupt stood down with a buffer not
               \* yet shown, "copy" once a suspend came in a first copy

gates   == <<wanted, menuUp, hold, flipping>>
power   == <<suspended, resuming, quit>>
display == <<scanout, redirected, src, front, ready>>
setup   == <<dbState, stable, block, isr>>
popsVars == <<gates, popsMenu, power, display, setup, worker, cut>>

Places == {"none", "top", "vblank", "timer", "tick", "both", "back0", "back1",
           "stand", "leave", "yield"}

PopsTypeOK ==
  /\ wanted \in {"off", "hud", "on"}
  /\ {menuUp, hold, flipping, popsMenu, suspended, resuming, quit} \subseteq BOOLEAN
  /\ scanout \in Shadow \cup {Pops} /\ redirected \in BOOLEAN
  /\ src \in Shadow \cup {Pops, NoBuffer}
  /\ dbState \in {0, 3, 9} /\ stable \in 0 .. Stable
  /\ {block, isr} \subseteq BOOLEAN
  /\ front \in Shadow \cup {NoBuffer} /\ ready \in Shadow \cup {NoBuffer}
  /\ worker \in Places /\ cut \subseteq {"gate", "copy"}

\* The buffers the worker is writing.
Writing ==
  CASE worker = "both"  -> Shadow
    [] worker = "back0" -> {0}
    [] worker = "back1" -> {1}
    [] OTHER            -> {}

PopsInit ==
  /\ wanted \in {"off", "on"}
  /\ menuUp = FALSE /\ hold = FALSE /\ flipping = FALSE /\ popsMenu = FALSE
  /\ suspended = FALSE /\ resuming = FALSE /\ quit = FALSE
  /\ scanout = Pops /\ redirected = FALSE /\ src = NoBuffer
  /\ dbState = 0 /\ stable = 0 /\ block = FALSE /\ isr = FALSE
  /\ front = NoBuffer /\ ready = NoBuffer /\ worker = "none" /\ cut = {}

-----------------------------------------------------------------------------
(* Around the pass: the user, POPS, the menu thread *)

\* The settings pages, the HUD and the overlay switches.
Choose(w) ==
  /\ wanted # w /\ wanted' = w
  /\ UNCHANGED <<menuUp, hold, flipping, popsMenu, power, display, setup, worker, cut>>

\* Opening and closing the browser; a save or a load raises the hold as it closes,
\* and the end of the operation lowers it.
Menu ==
  /\ menuUp' = ~menuUp
  /\ IF menuUp THEN hold' \in BOOLEAN ELSE ~hold /\ UNCHANGED hold
  /\ UNCHANGED <<wanted, flipping, popsMenu, power, display, setup, worker, cut>>

Dialog ==
  /\ ~menuUp /\ hold' = ~hold
  /\ UNCHANGED <<wanted, menuUp, flipping, popsMenu, power, display, setup, worker, cut>>

\* st_flip_hook, and the display call it passes on: POPS shows its own menu.
Flip ==
  /\ isr
  /\ flipping' = TRUE /\ scanout' = Pops
  /\ popsMenu' = (popsMenu \/ ~menuUp)
  /\ UNCHANGED <<wanted, menuUp, hold, power, redirected, src, front, ready, setup, worker, cut>>

FlipsIdle ==
  /\ flipping /\ flipping' = FALSE
  /\ UNCHANGED <<wanted, menuUp, hold, popsMenu, power, display, setup, worker, cut>>

\* st_ensure_started, from the overlay hook on every POPS boot and from each control.
WorkerStarts ==
  /\ worker = "none" /\ ~quit
  /\ isr' = TRUE /\ worker' = "top"
  /\ UNCHANGED <<gates, popsMenu, power, display, dbState, stable, block, cut>>

-----------------------------------------------------------------------------
(* The vblank: the interrupt flips, and a waiting worker wakes *)

\* Variant: the interrupt looks at what is ready, not at whether it may redirect.
MayFlipAlways == dbState = 3 /\ ready # NoBuffer /\ ~popsMenu /\ ~menuUp /\ ~hold /\ ~suspended

\* The conditions of st_db_vblank_flip.
MayFlip ==
  /\ dbState = 3 /\ redirected /\ ready # NoBuffer
  /\ ~popsMenu /\ ~menuUp /\ ~hold /\ ~suspended

\* st_db_vblank_flip, and fps_wait_vblank_real returning in the worker.
Vblank ==
  /\ IF isr /\ MayFlip
     THEN scanout' = ready /\ front' = ready /\ UNCHANGED cut
     ELSE /\ UNCHANGED <<scanout, front>>
          /\ cut' = IF ready \notin {NoBuffer, front} THEN cut \cup {"gate"} ELSE cut
  /\ worker' = IF worker = "vblank" THEN "tick" ELSE worker
  /\ UNCHANGED <<gates, popsMenu, power, redirected, src, ready, setup>>

-----------------------------------------------------------------------------
(* The worker *)

\* The two exits of st_worker.  st_pops_restore clears the flag first, so that the
\* interrupt cannot flip between its two stores.
End ==
  /\ worker = "top" /\ (quit \/ wanted = "off")
  /\ redirected' = FALSE
  /\ worker' = IF redirected THEN "leave" ELSE "none"
  /\ UNCHANGED <<gates, popsMenu, power, scanout, src, front, ready, setup, cut>>

\* The worker stays while the HUD, the pass or an overlay wants it; while it is
\* stood down for a suspend it idles until the game has been shown again.
Reacquire ==
  /\ worker = "top" /\ ~quit /\ wanted # "off" /\ suspended /\ resuming
  /\ suspended' = FALSE /\ resuming' = FALSE
  /\ redirected' = FALSE /\ front' = NoBuffer /\ ready' = NoBuffer
  /\ stable' = 0 /\ dbState' = IF dbState = 9 THEN 9 ELSE 0
  /\ worker' = IF menuUp THEN "timer" ELSE "vblank"
  /\ UNCHANGED <<gates, popsMenu, quit, scanout, src, block, isr, cut>>

\* A vblank paces the tick, a 16 ms timer the wait while the browser is open.
Pace ==
  /\ worker = "top" /\ ~quit /\ wanted # "off" /\ ~suspended
  /\ worker' = IF menuUp THEN "timer" ELSE "vblank"
  /\ UNCHANGED <<gates, popsMenu, power, display, setup, cut>>

TimerEnds ==
  /\ worker = "timer" /\ worker' = "tick"
  /\ cut' = IF ready \notin {NoBuffer, front} THEN cut \cup {"gate"} ELSE cut
  /\ UNCHANGED <<gates, popsMenu, power, display, setup>>

\* No tick while the browser is open.
SkipTick ==
  /\ worker = "tick" /\ menuUp
  /\ worker' = "top"
  /\ UNCHANGED <<gates, popsMenu, power, display, setup, cut>>

StandDown == quit \/ suspended \/ wanted # "on" \/ hold

\* st_pops_tick, off or gated: st_pops_restore, then both indices are dropped.
TickStands ==
  /\ worker = "tick" /\ ~menuUp /\ StandDown
  /\ redirected' = FALSE
  /\ IF redirected
     THEN worker' = "stand" /\ UNCHANGED <<front, ready>>
     ELSE worker' = "top" /\ front' = NoBuffer /\ ready' = NoBuffer
  /\ UNCHANGED <<gates, popsMenu, power, scanout, src, setup, cut>>

\* POPS flips: its own menu is up, the shadow starts over afterwards.
TickYields ==
  /\ worker = "tick" /\ ~menuUp /\ ~StandDown /\ flipping
  /\ redirected' = FALSE
  /\ IF redirected
     THEN worker' = "yield" /\ UNCHANGED <<front, ready, dbState>>
     ELSE /\ worker' = "top" /\ front' = NoBuffer /\ ready' = NoBuffer
          /\ dbState' = IF dbState = 9 THEN 9 ELSE 0
  /\ UNCHANGED <<gates, popsMenu, power, scanout, src, stable, block, isr, cut>>

\* Variant: the second half of st_pops_restore is forgotten.
HandBackNot ==
  /\ worker \in {"stand", "leave", "yield"}
  /\ worker' = IF worker = "leave" THEN "none" ELSE "top"
  /\ UNCHANGED <<gates, popsMenu, power, display, setup, cut>>

\* The second half of st_pops_restore, and what each caller does after it: an exit
\* of the worker keeps state and indices.
HandBack ==
  /\ worker \in {"stand", "leave", "yield"}
  /\ scanout' = src
  /\ worker' = IF worker = "leave" THEN "none" ELSE "top"
  /\ IF worker = "leave" THEN UNCHANGED <<front, ready>> ELSE front' = NoBuffer /\ ready' = NoBuffer
  /\ dbState' = IF worker = "yield" /\ dbState # 9 THEN 0 ELSE dbState
  /\ UNCHANGED <<gates, popsMenu, power, redirected, src, stable, block, isr, cut>>

Engaged == worker = "tick" /\ ~menuUp /\ ~StandDown /\ ~flipping

\* The buffer that is not being displayed.
Back == IF front = 0 THEN "back1" ELSE "back0"

\* Running: both buffers after a stand-down, the back one otherwise; if the register
\* does not hold a shadow, POPS has re-pointed it and the source follows.
TickCopies ==
  /\ Engaged /\ dbState = 3
  /\ popsMenu' = FALSE
  /\ IF ready = NoBuffer
     THEN worker' = "both" /\ UNCHANGED src
     ELSE worker' = Back /\ src' = IF scanout \in Shadow THEN src ELSE scanout
  /\ UNCHANGED <<gates, power, scanout, redirected, front, ready, setup, cut>>

\* The first copy re-arms the interrupt and writes the register itself.
BothCopied ==
  /\ worker = "both" /\ worker' = "top"
  /\ redirected' = TRUE /\ front' = 0 /\ ready' = 1 /\ scanout' = 0
  /\ UNCHANGED <<gates, popsMenu, power, src, setup, cut>>

BackCopied ==
  /\ worker \in {"back0", "back1"} /\ worker' = "top"
  /\ ready' = IF worker = "back0" THEN 0 ELSE 1
  /\ UNCHANGED <<gates, popsMenu, power, scanout, redirected, src, front, setup, cut>>

\* Waiting for a display that stays put; a display that is off starts the count over.
TickWaits ==
  /\ Engaged /\ dbState # 3 /\ (dbState = 0 => stable < Stable)
  /\ popsMenu' = FALSE
  /\ stable' \in IF dbState = 9 THEN {stable} ELSE {0, stable + 1}
  /\ worker' = "top"
  /\ UNCHANGED <<gates, power, display, dbState, block, isr, cut>>

\* Stable: allocate once, latch the source, and run; without memory, give up.
TickLatches ==
  /\ Engaged /\ dbState = 0 /\ stable = Stable
  /\ popsMenu' = FALSE /\ worker' = "top"
  /\ \/ /\ block' = TRUE /\ dbState' = 3
        /\ src' = scanout /\ front' = NoBuffer /\ ready' = NoBuffer /\ redirected' = TRUE
     \/ /\ ~block /\ dbState' = 9
        /\ UNCHANGED <<block, src, front, ready, redirected>>
  /\ UNCHANGED <<gates, power, scanout, stable, isr, cut>>

-----------------------------------------------------------------------------
(* Suspend, resume and game exit *)

\* st_pops_restore as its callers below reach it: the flag r is looked at first.
Restored(r) == IF r THEN src ELSE scanout

\* st_pwr_suspend: the flag is cleared, then st_pops_restore finds it clear.
Suspend ==
  /\ ~suspended /\ ~quit
  /\ suspended' = TRUE /\ redirected' = FALSE
  /\ scanout' = Restored(FALSE)
  /\ front' = NoBuffer /\ ready' = NoBuffer
  /\ cut' = IF worker = "both" THEN cut \cup {"copy"} ELSE cut
  /\ UNCHANGED <<gates, popsMenu, resuming, quit, src, setup, worker>>

\* The firmware latches POPS's buffer again; st_pwr_resume arms the re-acquisition.
PowerResumes ==
  /\ suspended /\ ~resuming
  /\ scanout' = Pops /\ resuming' = TRUE
  /\ UNCHANGED <<gates, popsMenu, suspended, quit, redirected, src, front, ready, setup,
                 worker, cut>>

\* st_stop: the flag is cleared, the interrupt and the flip hook are removed, and
\* st_pops_restore finds the flag clear.
Stop ==
  /\ ~quit /\ ~suspended
  /\ quit' = TRUE /\ redirected' = FALSE /\ isr' = FALSE
  /\ scanout' = Restored(FALSE)
  /\ UNCHANGED <<gates, popsMenu, suspended, resuming, src, front, ready, dbState, stable,
                 block, worker, cut>>

\* Once the worker has ended the block is freed.
Free ==
  /\ quit /\ block /\ worker = "none"
  /\ block' = FALSE /\ dbState' = 0
  /\ UNCHANGED <<gates, popsMenu, power, display, stable, isr, worker, cut>>

-----------------------------------------------------------------------------
Environment ==
  \/ \E w \in {"off", "hud", "on"} : Choose(w)
  \/ Menu \/ Dialog \/ Flip \/ FlipsIdle \/ WorkerStarts \/ Suspend \/ PowerResumes \/ Stop \/ Free

Worker ==
  \/ End \/ Reacquire \/ Pace \/ TimerEnds \/ SkipTick \/ TickStands \/ TickYields
  \/ HandBack \/ TickCopies \/ BothCopied \/ BackCopied \/ TickWaits \/ TickLatches

PopsNext == Environment \/ Vblank \/ Worker

\* The worker is the only ready thread of its priority for the time of a frame, and
\* vblanks come as long as there is a display.
PopsFairness == WF_popsVars(Worker) /\ WF_popsVars(Vblank)
PopsSpec == PopsInit /\ [][PopsNext]_popsVars /\ PopsFairness

-----------------------------------------------------------------------------
(* Properties *)

\* The display never shows a shadow buffer that no worker refreshes: each way the
\* worker ends hands the display back, whatever the interrupt does in between
\* (screen_tuning.c:1532), unless a suspend landed in the copy of both buffers.
ShadowHasWorker ==
  scanout \in Shadow /\ ~suspended /\ ~quit => worker # "none" \/ "copy" \in cut

\* In undisturbed play no frame is torn: the display never scans a buffer that is being
\* filled, even when a copy outlasts a vblank (screen_tuning.c:1666), unless the
\* interrupt stood down, or a tick was not paced by a vblank, with a buffer not yet
\* shown, or a suspend landed in the copy of both buffers.
PlayIsWhole == scanout \in Writing => cut # {}

\* The source of the copies is POPS's buffer and never a shadow, which would be
\* corrected again and again and never show a new frame (screen_tuning.c:1700),
\* unless a suspend landed in the copy of both buffers.
SourceIsPops == src \in Shadow => "copy" \in cut

\* When everything is switched off for good, the display ends up on POPS's buffer
\* (screen_tuning.c:1999).
PopsGivesBack ==
  <>[](wanted = "off" /\ ~quit /\ ~suspended /\ cut = {}) => <>[](scanout = Pops)

\* The display never shows a buffer that is stale, half written, or copied from itself, but
\* for the cases each part names.
ScanoutIsSound == PopsTypeOK /\ ShadowHasWorker /\ PlayIsWhole /\ SourceIsPops
=============================================================================
