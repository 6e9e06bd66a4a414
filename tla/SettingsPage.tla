----------------------------- MODULE SettingsPage -----------------------------
(***************************************************************************)
(* The settings page, its overclock sub-page and the screen test chart, as *)
(* the loops that run every 40 ms and turn pad samples into settings, and  *)
(* the three files the settings are kept in.  A run picks one group of     *)
(* rows, lets the files hold odd words for that group and presses editing  *)
(* keys on these rows only; every row can be walked over.                  *)
(***************************************************************************)
EXTENDS KeyRepeat, FiniteSets

CONSTANTS
  Groups,      \* the groups of settings the run edits, a subset of DOMAIN Fields
  LimitTop,    \* highest frame limit (60)
  GammaLow,    \* lowest gamma * 100 (50); 100 is off
  GammaTop,    \* highest gamma * 100 (200)
  TempTop,     \* coldest colour temperature (200)
  Neutral,     \* neutral colour temperature (100)
  MahTop,      \* highest capacity the page offers (8000)
  MahAccepted, \* highest capacity the file may hold (20000)
  LearnMax,    \* longest intro (VSKIP_LEARN_MAX_MS, 120000)
  Steps        \* clock steps (OC_STEPS, 25)

LimitLow == 20
MahLow   == 1000

ASSUME PageAssumption ==
  /\ {LimitTop, GammaLow, GammaTop, TempTop, Neutral, MahTop, MahAccepted, LearnMax, Steps} \subseteq Nat
  /\ LimitTop > LimitLow /\ GammaLow <= 100 /\ GammaTop >= 100 /\ Neutral <= TempTop /\ MahTop >= MahLow
  /\ MahAccepted >= MahTop + 100 /\ LearnMax >= 100 /\ Steps > 0

\* the rows a group lives on, and its settings
PageFields == [debug |-> {"debug", "uart"}, fps |-> {"mode", "rate"}, batt |-> {"batt", "mah"},
           charge |-> {"charge"}, clock |-> {"oc", "stable"}, limit |-> {"limit"},
           video |-> {"skip", "ms"}, flags |-> {"slot", "cpu", "autoload"}, corner |-> {"pos"},
           gamma |-> {"gamma"}, temp |-> {"temp"}]
RowsOf == [debug |-> {8}, fps |-> {2}, batt |-> {5}, charge |-> {6}, clock |-> {7},
           limit |-> {11}, video |-> {12}, flags |-> {1, 4, 13}, corner |-> {3},
           gamma |-> {9}, temp |-> {9}]
\* the rows between the first one and the group's, the shorter way round: where a run walks
Reach  == [g \in DOMAIN PageFields |->
             IF g \in {"limit", "video", "gamma", "temp"}
             THEN {1} \cup {r \in 1 .. 13 : \E q \in RowsOf[g] : r >= q}
             ELSE IF g = "flags" THEN 1 .. 4 \cup {13}
             ELSE {r \in 1 .. 13 : \E q \in RowsOf[g] : r <= q}]
GlobalFields == {"debug", "uart", "mode", "rate", "batt", "mah", "charge", "oc", "stable",
                 "slot", "cpu", "pos"}
GameFields   == {"autoload", "limit", "skip", "ms"}
ScreenFields == {"gamma", "temp"}
AllFields    == GlobalFields \cup GameFields \cup ScreenFields

ASSUME GroupsAssumption == Groups \subseteq DOMAIN PageFields

\* words a file of another build, or a damaged one, may hold for a setting
Corner == [debug |-> {3, 4}, uart |-> {0, 7}, mode |-> {1, 4}, rate |-> {0, 9, 11},
           batt |-> {0, 5}, mah |-> {-1, 950, MahTop + 50, MahAccepted + 1},
           charge |-> {-1, 69, 72, 97, 100}, oc |-> {-1, Steps - 1, Steps}, stable |-> {0, 2},
           limit |-> {19, LimitTop, LimitTop + 1}, skip |-> {1, 2, 3},
           ms |-> {-1, 50, LearnMax, LearnMax + 1}, slot |-> {0, 5}, cpu |-> {1}, autoload |-> {9},
           pos |-> {3, 4}, gamma |-> {GammaLow - 1, GammaTop, GammaTop + 1}, temp |-> {-1, TempTop, TempTop + 1}]

VARIABLES
  group,    \* the group of settings this run edits
  val,      \* the settings in memory
  file,     \* the words of settings.cfg, gameset.cfg and screen.cfg
  at,       \* "game", "rows" (the page), "clock" (the sub-page), "chart"
  sel,      \* the highlighted row
  prev,     \* keys at the previous sample
  window,   \* samples the 50 ms after a row change may still cover
  hold,     \* samples the direction of a repeating setting has been held, and its sign
  dirty,    \* what has changed since it was last saved: "global", "game", "chart"
  press,    \* history: the last press of a direction on a repeating setting
  phantom   \* history: a repeating setting stepped although no direction was pressed

pageVars == <<group, val, file, at, sel, prev, window, hold, dirty, press, phantom>>

Defaults == [f \in AllFields |-> CASE f = "rate" -> 10 [] f = "slot" -> 1 [] f = "gamma" -> 100
                                   [] f = "temp" -> Neutral [] OTHER -> 0]

InOr(w, S, d) == IF w \in S THEN w ELSE d
Flag(w)       == IF w # 0 THEN 1 ELSE 0

(******************************** the files ********************************)

\* Variant: the loader takes the header comment's range.
ChargeAsCommented == {0} \cup 80 .. 95   \* the range the header comment gives

\* the thresholds a file may hold
ChargeWords == {0, 100} \cup 70 .. 95

\* load_settings; a file of another generation or size leaves the defaults
LoadGlobal(f, w) ==
  CASE f = "debug" -> InOr(w.debug, 0 .. 3, 0)
    [] f = "oc" -> InOr(w.oc, 0 .. Steps - 1, 0)
    [] f = "rate" -> InOr(w.rate, 1 .. 10, 10)
    [] f = "mah" -> InOr(w.mah, 0 .. MahAccepted, 0)
    [] f = "charge" -> InOr(w.charge, ChargeWords, 0)
    [] f \in {"mode", "batt", "pos"} -> InOr(w[f], 0 .. 3, 0)
    [] OTHER -> Flag(w[f])

\* load_game_settings; a timer without a time is a capture
LoadGame(f, w) ==
  LET ms   == InOr(w.ms, 0 .. LearnMax, 0)
      skip == InOr(w.skip, {1, 2}, 0)
  IN CASE f = "limit" -> InOr(w.limit, LimitLow .. LimitTop, 0)
       [] f = "skip" -> IF skip = 2 /\ ms = 0 THEN 1 ELSE skip
       [] f = "ms" -> ms
       [] OTHER -> Flag(w[f])

\* st_load_game_gamma
LoadScreen(f, w) == IF f = "gamma" THEN InOr(w.gamma, GammaLow .. GammaTop, 100)
                    ELSE InOr(w.temp, 0 .. TempTop, Neutral)

Loaded(w) == [f \in AllFields |-> IF f \in GlobalFields THEN LoadGlobal(f, w)
                                  ELSE IF f \in GameFields THEN LoadGame(f, w) ELSE LoadScreen(f, w)]

(****************************** one key press ******************************)

\* a value of 0 .. top that wraps
Cycle(x, p, top) ==
  LET a == IF "L" \in p THEN (IF x > 0 THEN x - 1 ELSE top) ELSE x
  IN IF "R" \in p THEN (IF a < top THEN a + 1 ELSE 0) ELSE a

\* a value of lo .. hi that stays at its ends; `more` and `less` are the keys
Bounded(x, p, less, more, lo, hi) ==
  LET a == IF more \in p /\ x < hi THEN x + 1 ELSE x
  IN IF less \in p /\ a > lo THEN a - 1 ELSE a

\* Show FPS: Triangle and X set the rate while a mode is on, Left and Right the mode
EditFps(v, p) ==
  [v EXCEPT !.rate = IF v.mode > 0 THEN Bounded(@, p, "X", "T", 1, 10) ELSE @,
            !.mode = Cycle(@, p, 3)]

\* Battery Status: Triangle and X set the capacity, Left and Right the mode
EditBattery(v, p) ==
  LET up   == IF "T" \notin p THEN v.mah ELSE IF v.mah = 0 THEN MahLow
              ELSE IF v.mah < MahTop THEN v.mah + 100 ELSE v.mah
      down == IF "X" \notin p THEN up ELSE IF up <= MahLow THEN 0 ELSE up - 100
  IN [v EXCEPT !.mah = down, !.batt = Cycle(@, p, 3)]

ChargeSteps == <<0, 95, 90, 85, 80, 75, 70, 100>>

\* Stop Charging: a threshold between two steps counts as the lower one
EditCharge(v, p) ==
  LET at0 == CHOOSE i \in 1 .. 8 :
               IF v.charge >= 100 THEN i = 8
               ELSE IF v.charge < 70 THEN i = 1
               ELSE i \in 2 .. 7 /\ v.charge >= ChargeSteps[i] /\ (i > 2 => v.charge < ChargeSteps[i - 1])
  IN IF p \cap {"L", "R"} = {} THEN v ELSE [v EXCEPT !.charge = ChargeSteps[Cycle(at0 - 1, p, 7) + 1]]

\* Overclock: no wrap; a newly picked step is not vouched for, Triangle vouches for it
EditClock(v, p) ==
  LET marked == IF v.oc > 0 /\ "T" \in p THEN 1 - v.stable ELSE v.stable
  IN IF p \cap {"L", "R"} = {} THEN [v EXCEPT !.stable = marked]
     ELSE [v EXCEPT !.oc = LET a == IF "L" \in p /\ @ > 0 THEN @ - 1 ELSE @
                           IN IF "R" \in p /\ a < Steps - 1 THEN a + 1 ELSE a,
                    !.stable = 0]

\* Debug Messages: the fifth mode of the row is the UART flag
EditDebug(v, p) ==
  LET mode == IF v.uart = 1 /\ v.debug = 0 THEN 4 ELSE v.debug
      new  == Cycle(mode, p, 4)
  IN IF p \cap {"L", "R"} = {} THEN v
     ELSE IF new = 4 THEN [v EXCEPT !.uart = 1, !.debug = 0] ELSE [v EXCEPT !.uart = 0, !.debug = new]

\* Intro Video Skip: the timer can be chosen once a time is learned; Triangle and X move it
EditVideo(v, p) ==
  LET by == (IF "T" \in p THEN 100 ELSE 0) - (IF "X" \in p THEN 100 ELSE 0)
      ms == IF v.ms + by < 100 THEN 100 ELSE IF v.ms + by > LearnMax THEN LearnMax ELSE v.ms + by
      w  == IF v.skip = 2 /\ p \cap {"T", "X"} # {} THEN [v EXCEPT !.ms = ms] ELSE v
  IN IF p \cap {"L", "R"} = {} THEN w
     ELSE [w EXCEPT !.skip = IF @ = 0 THEN 1 ELSE IF @ = 1 /\ w.ms > 0 THEN 2 ELSE 0]

Toggle(v, f, p) == IF p \cap {"L", "R"} = {} THEN v ELSE [v EXCEPT ![f] = 1 - @]

Edited(row, v, p) ==
  CASE row = 1 -> Toggle(v, "slot", p)
    [] row = 2 -> EditFps(v, p)
    [] row = 3 -> [v EXCEPT !.pos = Cycle(@, p, 3)]
    [] row = 4 -> Toggle(v, "cpu", p)
    [] row = 5 -> EditBattery(v, p)
    [] row = 6 -> EditCharge(v, p)
    [] row = 7 -> EditClock(v, p)
    [] row = 8 -> EditDebug(v, p)
    [] row = 12 -> EditVideo(v, p)
    [] row = 13 -> Toggle(v, "autoload", p)
    [] OTHER -> v

\* the keys that make a row count as changed
Touches(row, v, p) ==
  LET sides == p \cap {"L", "R"} # {}
      marks == p \cap {"T", "X"} # {}
  IN CASE row = 2 -> sides \/ (v.mode > 0 /\ marks)
       [] row = 5 -> sides \/ marks
       [] row = 7 -> sides \/ (v.oc > 0 /\ "T" \in p)
       [] row = 12 -> sides \/ (v.skip = 2 /\ marks)
       [] row \in {1, 3, 4, 6, 8, 13} -> sides
       [] OTHER -> FALSE

(**************************** held directions ******************************)

\* the frame limit wraps through 0, OFF
LimitAfter(x, step) ==
  CASE step = 0 -> x
    [] step = 1 -> IF x = 0 THEN LimitLow ELSE IF x >= LimitTop THEN 0 ELSE x + 1
    [] step = -1 -> IF x = 0 THEN LimitTop ELSE IF x <= LimitLow THEN 0 ELSE x - 1

GammaAfter(x, step) == Inside(x, step, GammaLow, GammaTop)
TempAfter(x, step)  == Inside(x, step, 0, TempTop)

\* the direction of two keys, the second before the first
Sign(keys, less, more) == IF more \in keys THEN 1 ELSE IF less \in keys THEN -1 ELSE 0

NoPress == [dir |-> 0, n |-> 0, steps |-> 0, clean |-> FALSE]

\* history of one press: `d` the direction the pad shows, `step` what the loop did; a press
\* that is cut short, or finds the hold of an earlier one, is not followed
NextPress(d, step, ok) ==
  LET fresh == d # 0 /\ d # press.dir
      grow(n, top) == IF n < top THEN n + 1 ELSE top
      was   == IF fresh THEN NoPress ELSE press
  IN IF ok /\ (IF fresh THEN hold.dir # d ELSE press.clean)
     THEN [dir |-> d, n |-> IF d = 0 THEN was.n ELSE grow(was.n, 9),
           steps |-> IF step = 0 THEN was.steps ELSE grow(was.steps, 2), clean |-> TRUE]
     ELSE [NoPress EXCEPT !.dir = d]

(********************************* the page ********************************)

Keys == {{}, {"L"}, {"R"}, {"L", "R"}, {"U"}, {"D"}, {"R", "D"}, {"T"}, {"X"}, {"O"}, {"E"}}

\* the row Up or Down leads to
Walked(row, p) ==
  IF "U" \in p THEN (IF row > 1 THEN row - 1 ELSE 13)
  ELSE IF "D" \in p THEN (IF row < 13 THEN row + 1 ELSE 1) ELSE row

\* run_settings_menu begins: this game's settings are read again
Open ==
  /\ at = "game"
  /\ at' = "rows" /\ sel' = 1 /\ window' = 0 /\ hold' = [n |-> 0, dir |-> 0] /\ dirty' = {}
  /\ prev' \in {{}, {"R"}}
  /\ val' = [f \in AllFields |-> IF f \in GameFields THEN LoadGame(f, file) ELSE val[f]]
  /\ press' = NoPress
  /\ UNCHANGED <<group, file, phantom>>

\* which file an iteration leaves to be written
Marked(row, v, p, step) ==
  (IF Touches(row, v, p) THEN {IF row \in {12, 13} THEN "game" ELSE "global"} ELSE {})
    \cup (IF step # 0 THEN {"game"} ELSE {})

\* save_settings, save_game_settings and st_save_game_gamma write every word of their file
Written(marks, v) ==
  LET S == UNION {IF m = "global" THEN GlobalFields ELSE IF m = "game" THEN GameFields
                  ELSE ScreenFields : m \in marks}
  IN [f \in AllFields |-> IF f \in S THEN v[f] ELSE file[f]]

\* one iteration of run_settings_menu.  Left and Right do not count for 50 ms after a row
\* change; the frame limit repeats while held; E (the right trigger) shows help.
Row(now) ==
  LET new    == now \ prev
      row    == Walked(sel, new)
      moved  == row # sel
  IN \E w \in IF moved THEN {2} ELSE IF window = 2 THEN {0, 1} ELSE {0} :
     LET p    == IF w > 0 THEN new \ {"L", "R"} ELSE new
         held == IF w > 0 THEN now \ {"L", "R"} ELSE now
         help == "E" \in new
         dir  == Sign(held, "L", "R")
         step == IF row = 11 /\ ~help THEN StepOf(hold, dir) ELSE 0
         v    == Edited(row, [val EXCEPT !.limit = LimitAfter(@, step)], p)
         d    == Sign(now, "L", "R")
         marks == dirty \cup (IF help THEN {} ELSE Marked(row, val, p, step))
     IN /\ at = "rows" /\ row \in Reach[group] /\ sel' = row /\ window' = w
        /\ row \notin RowsOf[group] \/ row = 9 \/ (row = 7 /\ "X" \in p)
             => p \cap {"L", "R", "T", "X"} = {}
        /\ row = 11 /\ group # "limit" => now \cap {"L", "R"} = {}
        /\ prev' \in IF help THEN {{}, {"R"}} ELSE {now}
        /\ hold' = IF row = 11 /\ ~help THEN HoldOf(hold, dir) ELSE hold
        /\ val' = IF help THEN val ELSE v
        /\ press' = IF group = "limit" THEN NextPress(d, step, row = 11 /\ ~moved /\ w = 0 /\ ~help) ELSE press
        /\ phantom' = (phantom \/ (step # 0 /\ d = 0 /\ press.dir = 0))
        /\ dirty' = marks
        /\ IF "O" \in p /\ ~help THEN at' = "game" /\ file' = Written(marks, v)
           ELSE UNCHANGED <<at, file>>
        /\ UNCHANGED group

\* X on the overclock row opens the sub-page, Triangle on the screen row the chart
Enter ==
  /\ at = "rows" /\ window = 0
  /\ \/ sel = 7 /\ group = "clock" /\ at' = "clock" /\ UNCHANGED <<hold, press>>
     \/ /\ sel = 9 /\ group \in {"gamma", "temp"} /\ at' = "chart"
        /\ hold' = [n |-> 0, dir |-> 0]
        /\ press' = NoPress
  /\ prev' \in {{}, {"R"}}
  /\ UNCHANGED <<group, val, file, sel, window, dirty, phantom>>

\* run_oc_menu, the clock and the vouch rows; its other rows are the rails'
Clock(now) ==
  LET p == now \ prev
  IN /\ at = "clock" /\ prev' = now
     /\ val' \in {IF p \cap {"L", "R"} # {} THEN EditClock(val, p \cap {"L", "R"}) ELSE val}
               \cup (IF p \cap {"L", "R", "X"} # {} THEN {[val EXCEPT !.stable = 1 - @]} ELSE {})
     /\ dirty' = IF p \cap {"L", "R", "X"} # {} THEN dirty \cup {"global"} ELSE dirty
     /\ at' = IF "O" \in p THEN "rows" ELSE "clock"
     /\ UNCHANGED <<group, file, sel, window, hold, press, phantom>>

\* one iteration of run_st_test; leaving it writes screen.cfg, and the page will write
\* settings.cfg
Chart(now) ==
  LET p    == now \ prev
      keys == IF group = "temp" THEN now ELSE now \ {"L", "R"}
      dir  == IF group = "temp" THEN Sign(now, "L", "R") ELSE Sign(now, "D", "U")
      step == StepOf(hold, dir)
      v    == IF group = "temp" THEN [val EXCEPT !.temp = TempAfter(@, step)]
              ELSE [val EXCEPT !.gamma = GammaAfter(@, step)]
      moved == v # val
      marks == dirty \cup (IF moved THEN {"chart"} ELSE {})
      done  == p \cap {"T", "O"} # {}
  IN /\ at = "chart" /\ prev' = now
     /\ (IF group = "temp" THEN {"U", "D"} ELSE {"L", "R"}) \cap now = {}
     /\ val' = v /\ hold' = IF done THEN [n |-> 0, dir |-> 0] ELSE HoldOf(hold, dir)
     /\ press' = IF done THEN NoPress ELSE NextPress(dir, step, TRUE)
     /\ phantom' = (phantom \/ (step # 0 /\ dir = 0 /\ press.dir = 0))
     /\ at' = IF done THEN "rows" ELSE "chart"
     /\ file' = IF done THEN Written(marks \cap {"chart"}, v) ELSE file
     /\ dirty' = IF done /\ "chart" \in marks THEN {"global"} \cup (marks \ {"chart"}) ELSE marks
     /\ UNCHANGED <<group, sel, window>>

PageInit ==
  /\ group \in Groups
  /\ file \in {[f \in AllFields |-> IF f \in PageFields[group] THEN c[f] ELSE Defaults[f]] :
               c \in {g \in [PageFields[group] -> UNION {Corner[f] : f \in PageFields[group]}] :
                        \A f \in PageFields[group] : g[f] \in Corner[f]}}
  /\ val = Loaded(file)
  /\ at = "game" /\ sel = 1 /\ prev = {} /\ window = 0 /\ hold = [n |-> 0, dir |-> 0] /\ dirty = {}
  /\ press = NoPress /\ phantom = FALSE

PageNext == Open \/ Enter \/ \E now \in Keys : Row(now) \/ Clock(now) \/ Chart(now)

PageSpec == PageInit /\ [][PageNext]_pageVars

(******************************** properties *******************************)

PageTypeOK ==
  /\ at \in {"game", "rows", "clock", "chart"} /\ sel \in 1 .. 13 /\ window \in 0 .. 2
  /\ hold.n \in 0 .. 25 /\ hold.dir \in -1 .. 1 /\ dirty \subseteq {"global", "game", "chart"}
  /\ val.mode \in 0 .. 3 /\ val.rate \in 1 .. 10 /\ val.debug \in 0 .. 3 /\ val.uart \in 0 .. 1
  /\ val.batt \in 0 .. 3 /\ val.mah \in 0 .. MahAccepted /\ val.charge \in 0 .. 100
  /\ val.oc \in 0 .. Steps - 1 /\ val.skip \in 0 .. 2 /\ val.ms \in 0 .. LearnMax
  /\ val.limit \in {0} \cup LimitLow .. LimitTop
  /\ val.gamma \in GammaLow .. GammaTop /\ val.temp \in 0 .. TempTop

\* What the player left the page with is what the next boot comes up with: every edit of
\* every row marks its file, and the checks of the loaders reject nothing a page can make.
BootKeeps == at = "game" => Loaded(file) = val

\* A press of a repeating direction that is not cut short by a row change moves the setting:
\* a short one by exactly one step when it is released, a longer one without a second step
\* until the repeat begins (fl_repeat_fire and the release branches agree).
PressSteps ==
  press.clean /\ press.dir = 0 =>
    /\ press.n \in 1 .. 8 => press.steps = 1
    /\ press.n >= 9 => press.steps = 2

\* A timer of the video skip always has a time, so that the boot watcher never fires at 0.
TimerHasTime == val.skip = 2 => val.ms > 0

\* A repeating setting steps only while, or right after, its direction is held: the comment
\* at menu.c:2147 promises that a row just reached is not adjusted by a stale direction.
StaleNeverSteps == ~phantom

\* What the player sets on a page takes, as far as it was pressed, and is kept.
PageKeeps == BootKeeps /\ PressSteps /\ TimerHasTime
===============================================================================
