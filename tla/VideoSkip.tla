------------------------------- MODULE VideoSkip -------------------------------
(***************************************************************************)
(* Intro Video Skip.  A watcher thread opens a window, for as long as the  *)
(* user holds Right (capture) or for the learned time (timed).  While it   *)
(* is open the entry of the game's video player, or of sceMpegCreate, is   *)
(* overwritten with a stub, and a skip button is pulsed.  The game loads   *)
(* and unloads modules meanwhile; the hook that sees a load runs on the    *)
(* game's thread.  Time is counted in polls of the watcher; the prompt and *)
(* the per-game file are MenuThread's.                                     *)
(***************************************************************************)
EXTENDS Integers

CONSTANTS
  Cap,        \* polls after which the watcher gives up (VSKIP_CAP_US)
  Reaction,   \* polls taken off a capture (VSKIP_REACTION_MS)
  Grace       \* polls a capture waits for the hold button (2 s)

ASSUME VideoAssumption == Cap \in Nat \ {0} /\ Reaction \in Nat /\ Grace \in 1 .. Cap

Slots   == {1, 2}                        \* places a module can be loaded at
Modules == {"player", "mpeg", "other"}   \* psmf player, sceMpeg_library, anything else
NoSlot  == 0

VARIABLES
  mode,        \* g_video_skip: "capture" or "timed"
  ms,          \* g_video_skip_ms, in polls
  held,        \* the user holds D-pad Right
  heldOnce,    \* x_was_held
  elapsed,     \* polls since the anchor
  watcher,     \* where video_skip_thread is
  window,      \* g_vskip_window
  injecting,   \* g_vskip_inject
  mem,         \* per place, who is loaded there and what its entry holds
  statusFn,    \* g_psmf_status_fn
  patched,     \* g_vskip_patched
  vsaved,      \* g_vskip_saved: whose words they are
  createFn,    \* g_mpeg_create_fn
  createPatched, \* g_mpeg_create_patched
  csaved,      \* g_mpeg_create_save: whose words they are
  hook,        \* where video_skip_probe is
  touched      \* history: "stale" once a patch was written to a place its module had
               \* left, "late" once the hook patched after the watcher had ended

capture  == <<mode, ms, held, heldOnce, elapsed>>
psmf     == <<statusFn, patched, vsaved>>
mpeg     == <<createFn, createPatched, csaved>>
videoVars == <<capture, watcher, window, injecting, mem, psmf, mpeg, hook, touched>>

Empty  == [owner |-> "none", words |-> "own"]
Owners == Modules \cup {"none"}

VideoTypeOK ==
  /\ mode \in {"capture", "timed"} /\ ms \in 0 .. Cap /\ elapsed \in 0 .. Cap
  /\ {held, heldOnce, window, injecting, patched, createPatched} \subseteq BOOLEAN
  /\ watcher \in {"none", "poll", "fire", "create", "closing", "done"}
  /\ mem \in [Slots -> [owner : Owners, words : {"own", "skip", "fail", "alien"}]]
  /\ statusFn \in Slots \cup {NoSlot} /\ createFn \in Slots \cup {NoSlot}
  /\ vsaved \in Owners /\ csaved \in Owners
  /\ hook \in {"idle", "patch"} /\ touched \subseteq {"stale", "late"}

VideoInit ==
  /\ mode \in {"capture", "timed"} /\ ms \in (IF mode = "timed" THEN 0 .. Cap ELSE {0})
  /\ held = FALSE /\ heldOnce = FALSE /\ elapsed = 0 /\ watcher = "none"
  /\ window = FALSE /\ injecting = FALSE /\ mem = [s \in Slots |-> Empty]
  /\ statusFn = NoSlot /\ patched = FALSE /\ vsaved = "none"
  /\ createFn = NoSlot /\ createPatched = FALSE /\ csaved = "none"
  /\ hook = "idle" /\ touched = {}

Loaded(m) == {s \in Slots : mem[s].owner = m}
Alive     == watcher \notin {"none", "done"}

\* What writing the saved words of owner o back to place s leaves there.
Restored(s, o) == [mem[s] EXCEPT !.words = IF o = mem[s].owner THEN "own" ELSE "alien"]

\* Variant: the words are written back whatever the place holds.
GivenBackBlindly(fn, stub, o, name, flag) ==
  mem' = IF fn # NoSlot /\ flag THEN [mem EXCEPT ![fn] = Restored(fn, o)] ELSE mem

\* vskip_unpatch and vskip_create_restore: only where the stub still is, in the module
\* it was written to.
GivenBack(fn, stub, o, name, flag) ==
  mem' = IF fn # NoSlot /\ flag /\ mem[fn].words = stub /\ mem[fn].owner = name
         THEN [mem EXCEPT ![fn] = Restored(fn, o)] ELSE mem

\* vskip_create_patch: the three words of sceMpegCreate at place s.
PatchCreate(s) ==
  IF s = NoSlot \/ createPatched
  THEN UNCHANGED <<mem, createPatched, csaved>>
  ELSE /\ csaved' = mem[s].owner /\ createPatched' = TRUE
       /\ mem' = [mem EXCEPT ![s].words = "fail"]

-----------------------------------------------------------------------------
(* The game: it loads and unloads modules; the hook sees each load. *)

\* A load by the game, and video_skip_probe for anything that is no codec.
LoadModule(s, m) ==
  /\ hook = "idle" /\ mem[s].owner = "none" /\ Loaded(m) = {}
  /\ LET fresh == [mem EXCEPT ![s] = [owner |-> m, words |-> "own"]] IN
     CASE m = "other" ->
            mem' = fresh /\ UNCHANGED <<statusFn, mpeg, hook>>
       [] m = "player" ->
            /\ statusFn' = s
            /\ createPatched' = FALSE
            /\ mem' = IF createFn # NoSlot /\ createPatched /\ fresh[createFn].words = "fail"
                         /\ fresh[createFn].owner = "mpeg"
                      THEN [fresh EXCEPT ![createFn].words =
                              IF csaved = "mpeg" THEN "own" ELSE "alien"]
                      ELSE fresh
            /\ UNCHANGED <<createFn, csaved, hook>>
       [] m = "mpeg" ->
            /\ mem' = fresh /\ createPatched' = FALSE
            /\ hook' = IF window /\ statusFn = NoSlot THEN "patch" ELSE "idle"
            /\ UNCHANGED <<statusFn, createFn, csaved>>
  /\ UNCHANGED <<capture, watcher, window, injecting, patched, vsaved, touched>>

\* The hook's patch, after it has looked at the window.
ProbePatch ==
  /\ hook = "patch" /\ hook' = "idle"
  /\ LET s == CHOOSE x \in Loaded("mpeg") : TRUE IN createFn' = s /\ PatchCreate(s)
  /\ touched' = IF Alive THEN touched ELSE touched \cup {"late"}
  /\ UNCHANGED <<capture, watcher, window, injecting, psmf>>

UnloadModule(s) ==
  /\ hook = "idle" /\ mem[s].owner # "none"
  /\ mem' = [mem EXCEPT ![s] = Empty]
  /\ UNCHANGED <<capture, watcher, window, injecting, psmf, mpeg, hook, touched>>

Hold ==
  /\ mode = "capture" /\ Alive
  /\ held' = ~held
  /\ UNCHANGED <<mode, ms, heldOnce, elapsed, watcher, window, injecting, mem, psmf, mpeg, hook,
                 touched>>

-----------------------------------------------------------------------------
(* The watcher: video_skip_thread *)

StartWatcher ==
  /\ watcher = "none" /\ watcher' = "poll"
  /\ held' \in IF mode = "capture" THEN BOOLEAN ELSE {FALSE}
  /\ UNCHANGED <<mode, ms, heldOnce, elapsed, window, injecting, mem, psmf, mpeg, hook, touched>>

\* The clamp of a learned window; its upper end is beyond the cap.
Clipped(n) == IF n < 0 THEN 0 ELSE n

\* One poll of a capture: fire while Right is held, learn when it is let go.
PollCapture ==
  /\ watcher = "poll" /\ mode = "capture" /\ elapsed < Cap
  /\ heldOnce' = (heldOnce \/ held)
  /\ CASE ~heldOnce' /\ elapsed >= Grace ->
            watcher' = "closing" /\ UNCHANGED <<mode, ms, window, injecting>>
       [] heldOnce' /\ ~held ->
            /\ ms' = Clipped(elapsed - Reaction) /\ mode' = "timed"
            /\ watcher' = "closing" /\ UNCHANGED <<window, injecting>>
       [] OTHER ->
            /\ window' = held /\ watcher' = "fire"
            /\ injecting' = (injecting /\ held) /\ UNCHANGED <<mode, ms>>
  /\ UNCHANGED <<held, elapsed, mem, psmf, mpeg, hook, touched>>

\* One poll of a timed run.
PollTimed ==
  /\ watcher = "poll" /\ mode = "timed" /\ elapsed < Cap
  /\ IF elapsed < ms
     THEN window' = TRUE /\ watcher' = "fire"
     ELSE watcher' = "closing" /\ UNCHANGED window
  /\ UNCHANGED <<capture, injecting, mem, psmf, mpeg, hook, touched>>

\* The cap ends any run.
PollCapped ==
  /\ watcher = "poll" /\ elapsed = Cap /\ watcher' = "closing"
  /\ UNCHANGED <<capture, window, injecting, mem, psmf, mpeg, hook, touched>>

NextPoll == elapsed' = elapsed + 1 /\ watcher' = "poll"

\* With a player seen, its status function is stubbed, wherever that place is now;
\* without one, a button is pulsed and the watcher looks for the codec.
Fire ==
  /\ watcher = "fire"
  /\ CASE window /\ statusFn # NoSlot /\ ~patched ->
            /\ vsaved' = mem[statusFn].owner /\ patched' = TRUE
            /\ mem' = [mem EXCEPT ![statusFn].words = "skip"]
            /\ touched' = IF mem[statusFn].owner = "player" THEN touched
                          ELSE touched \cup {"stale"}
            /\ NextPoll /\ UNCHANGED injecting
       [] window /\ statusFn = NoSlot ->
            /\ injecting' = TRUE
            /\ IF ~createPatched /\ Loaded("mpeg") # {}
               THEN watcher' = "create" /\ UNCHANGED elapsed
               ELSE NextPoll
            /\ UNCHANGED <<mem, patched, vsaved, touched>>
       [] OTHER ->
            NextPoll /\ UNCHANGED <<injecting, mem, patched, vsaved, touched>>
  /\ UNCHANGED <<mode, ms, held, heldOnce, window, statusFn, mpeg, hook>>

\* The codec was resident: its address is asked for, and its entry stubbed.
FireCreate ==
  /\ watcher = "create"
  /\ createFn' \in IF Loaded("mpeg") = {} THEN {NoSlot} ELSE Loaded("mpeg")
  /\ PatchCreate(createFn')
  /\ NextPoll
  /\ UNCHANGED <<mode, ms, held, heldOnce, window, injecting, psmf, hook, touched>>

\* The end: everything is lowered, and the stubs are taken back.
EndWatcher ==
  /\ watcher = "closing"
  /\ IF window \/ injecting
     THEN window' = FALSE /\ injecting' = FALSE /\ UNCHANGED <<watcher, mem, patched, createPatched>>
     ELSE /\ UNCHANGED <<window, injecting>>
          /\ IF patched
             THEN /\ GivenBack(statusFn, "skip", vsaved, "player", patched)
                  /\ patched' = FALSE /\ UNCHANGED <<watcher, createPatched>>
             ELSE /\ GivenBack(createFn, "fail", csaved, "mpeg", createPatched)
                  /\ createPatched' = FALSE /\ watcher' = "done" /\ UNCHANGED patched
  /\ UNCHANGED <<capture, statusFn, vsaved, createFn, csaved, hook, touched>>

-----------------------------------------------------------------------------
VideoNext ==
  \/ \E s \in Slots, m \in Modules : LoadModule(s, m)
  \/ \E s \in Slots : UnloadModule(s)
  \/ ProbePatch \/ Hold \/ StartWatcher \/ PollCapture \/ PollTimed \/ PollCapped \/ Fire
  \/ FireCreate \/ EndWatcher

VideoSpec == VideoInit /\ [][VideoNext]_videoVars

-----------------------------------------------------------------------------
(* Properties *)

\* No stub outlives the watcher in a module that is loaded, however loads and unloads
\* fall between its steps, unless the hook looked at the window before it closed and
\* patched after (videoskip.c:205); a stale write may hit the other library.
NoStubLeft ==
  watcher = "done" =>
    \A s \in Slots : mem[s].words \in {"skip", "fail"} => touched # {}

\* Code of another module is never overwritten, and a module never gets words back that
\* are not its own, unless the status function was stubbed after its player had been
\* unloaded (videoskip.c:415).
OthersIntact ==
  \A s \in Slots : mem[s].owner = "other" \/ mem[s].words = "alien" =>
                     mem[s].words = "own" \/ "stale" \in touched

\* Across loads and unloads the stubs are taken back where they were put, and only there.
StubsAreOwn == NoStubLeft /\ OthersIntact
=============================================================================
