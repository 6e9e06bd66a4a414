------------------------------ MODULE ScreenHud -------------------------------
(***************************************************************************)
(* The live screen-tuning HUD: the menu thread puts it up, the game's own  *)
(* controller reads move the two values, and the worker thread writes them *)
(* to the card once the HUD is down.  The worker ends itself when there is *)
(* nothing to correct, and whoever makes a value count again starts it.    *)
(***************************************************************************)
EXTENDS KeyRepeat

CONSTANTS
  Axes,     \* the settings tuned: "temp" (Left and Right), "gamma" (Down and Up)
  HudLow,   \* lowest value of a setting (gamma 50, temperature 0)
  HudTop    \* highest value (200); HudOff, the value that corrects nothing, lies between

HudOff == HudLow + 1

ASSUME HudAssumption ==
  /\ Axes \subseteq {"temp", "gamma"} /\ Axes # {} /\ HudLow \in Nat /\ HudTop \in Nat /\ HudTop > HudOff

VARIABLES
  value,    \* g_st_temp and g_st_gamma
  screen,   \* screen.cfg
  hud,      \* g_st_hud
  edited,   \* g_st_hud_dirty
  held,     \* gh_hold_l, _r and _u, _d: per setting how long, and which way
  keys,     \* g_hud_prev: the X/O keys of the previous sample
  menuUp,   \* g_menu_open
  started,  \* g_st_worker_started
  worker,   \* the worker: "none", "top", "save" (flag cleared), "write" (words gathered),
            \* "check", "leave" (decided to end), "wait"
  words     \* what the worker is writing

hudVars == <<value, screen, hud, edited, held, keys, menuUp, started, worker, words>>

Dirs == Axes \X {-1, 1}

\* st_active: either setting corrects something
Correcting(v) == \E a \in Axes : v[a] # HudOff

\* st_ensure_started: nothing when the worker counts as started
Ensure(need) ==
  IF need /\ ~started THEN started' = TRUE /\ worker' = "top" ELSE UNCHANGED <<started, worker>>

\* the menu page's X on Screen Tuning: worker first, then the HUD, then the page closes
OpenHud ==
  /\ menuUp /\ Ensure(TRUE)
  /\ hud' = TRUE /\ keys' = TRUE /\ menuUp' = FALSE
  /\ UNCHANGED <<value, screen, edited, held, words>>

\* the menu comes up (also over the HUD) and goes; its chart may set a value to something
\* else, and writes it itself, long after a write the worker had begun is over
MenuComes == /\ ~menuUp /\ menuUp' = TRUE
             /\ UNCHANGED <<value, screen, hud, edited, held, keys, started, worker, words>>
MenuGoes  == /\ menuUp /\ menuUp' = FALSE
             /\ UNCHANGED <<value, screen, hud, edited, held, keys, started, worker, words>>
MenuChart ==
  /\ menuUp /\ worker \notin {"save", "write"}
  /\ \E a \in Axes, x \in HudLow .. HudTop : value' = [value EXCEPT ![a] = x]
  /\ screen' = value' /\ Ensure(Correcting(value'))
  /\ UNCHANGED <<hud, edited, held, keys, menuUp, words>>

\* one direction of st_hud_input: held it repeats, released it steps once if it was short
StepsNow(d, down) ==
  LET mine == held[d[1]].dir = d[2]
      n    == IF mine THEN held[d[1]].n ELSE 0
  IN IF down THEN Fires(n + 1) ELSE mine /\ Released(held[d[1]]) # 0

\* st_hud_input, on the game's thread: a read sees at most one direction, and X or O
ReadPad(d, close) ==
  LET step(a) == LET s == {e \in Dirs : e[1] = a /\ StepsNow(e, e = d)}
                     by == {e[2] : e \in s}
                 IN (IF 1 \in by THEN 1 ELSE 0) - (IF -1 \in by THEN 1 ELSE 0)
      new == [a \in Axes |-> Inside(value[a], step(a), HudLow, HudTop)]
      moved == {a \in Axes : new[a] # value[a]}
  IN /\ hud /\ ~menuUp
     /\ value' = new /\ edited' = (edited \/ moved # {})
     /\ held' = [a \in Axes |-> HoldOf(held[a], IF d[1] = a THEN d[2] ELSE 0)]
     /\ hud' = ~(close /\ ~keys) /\ keys' = close
     /\ Ensure(Correcting(new))
     /\ UNCHANGED <<screen, menuUp, words>>

\* the top of the worker's loop: the flag is cleared before the values are read
Top ==
  /\ worker = "top"
  /\ IF edited /\ ~hud /\ ~menuUp THEN worker' = "save" /\ edited' = FALSE
     ELSE worker' = "check" /\ UNCHANGED edited
  /\ UNCHANGED <<value, screen, hud, held, keys, menuUp, started, words>>

\* st_save_game_gamma on the worker: the words are gathered, then written
Gather ==
  /\ worker = "save" /\ worker' = "write" /\ words' = value
  /\ UNCHANGED <<value, screen, hud, edited, held, keys, menuUp, started>>

\* Variant: the mark is cleared behind the write.
WriteThenClear ==
  /\ worker = "write" /\ worker' = "check" /\ screen' = words /\ edited' = FALSE
  /\ UNCHANGED <<value, hud, held, keys, menuUp, started, words>>

Write ==
  /\ worker = "write" /\ worker' = "check" /\ screen' = words
  /\ UNCHANGED <<value, hud, edited, held, keys, menuUp, started, words>>

\* nothing to correct, no HUD (and no POPS overlay): the worker decides to end
Check ==
  /\ worker = "check"
  /\ worker' = IF ~Correcting(value) /\ ~hud THEN "leave" ELSE "wait"
  /\ UNCHANGED <<value, screen, hud, edited, held, keys, menuUp, started, words>>

LeaveHud ==
  /\ worker = "leave" /\ worker' = "none" /\ started' = FALSE
  /\ UNCHANGED <<value, screen, hud, edited, held, keys, menuUp, words>>

\* a vblank or an event, or 16 ms
Wakes ==
  /\ worker = "wait" /\ worker' = "top"
  /\ UNCHANGED <<value, screen, hud, edited, held, keys, menuUp, started, words>>

HudInit ==
  /\ value \in [Axes -> {HudOff, HudTop}] /\ screen = value /\ words = value
  /\ hud = FALSE /\ edited = FALSE /\ keys = FALSE /\ menuUp = FALSE
  /\ held = [a \in Axes |-> [n |-> 0, dir |-> 0]]
  /\ started = Correcting(value) /\ worker = IF Correcting(value) THEN "top" ELSE "none"

HudNext ==
  \/ OpenHud \/ MenuComes \/ MenuGoes \/ MenuChart
  \/ \E d \in Dirs \cup {<<"none", 0>>}, close \in BOOLEAN : ReadPad(d, close)
  \/ Top \/ Gather \/ Write \/ Check \/ LeaveHud \/ Wakes

HudSpec == HudInit /\ [][HudNext]_hudVars

HudTypeOK ==
  /\ \A a \in Axes : value[a] \in HudLow .. HudTop /\ screen[a] \in HudLow .. HudTop
  /\ \A a \in Axes : held[a].n \in 0 .. 25
  /\ worker \in {"none", "top", "save", "write", "check", "leave", "wait"}
  /\ {hud, edited, keys, menuUp, started} \subseteq BOOLEAN

\* A value the card does not have is marked, or on its way to it: no edit falls between the
\* worker's clearing of the flag and its write, whoever edits meanwhile.
UnsavedIsMarked ==
  screen # value => edited \/ worker = "save" \/ (worker = "write" /\ words = value)
===============================================================================
