------------------------------- MODULE FramePace ------------------------------
(***************************************************************************)
(* The frame limiter: a game's frame, begun by a display list, is slept    *)
(* onto a grid of the chosen period where the list is queued or, when that *)
(* sleep is refused, where the frame is presented.                         *)
(***************************************************************************)
EXTENDS Integers

CONSTANTS
  Periods,    \* frame periods the player may choose, in ticks (g_fl_target_us)
  CounterWrap,       \* the clock counts modulo this (2^32 microseconds)
  Overrun,       \* ticks a sleep may overrun
  LatchAt,    \* refusals after which the list site is not tried (GE_REFUSE_LATCH, 8)
  ReprobeEvery, \* lists after which it is tried again (256)
  TwoThreads, \* one thread of the game queues the lists and another one presents
  Horizon     \* bound: ticks of the run

ASSUME PaceAssumption ==
  /\ CounterWrap \in Nat \ {0} /\ Periods \subseteq 1 .. CounterWrap - 1 /\ {LatchAt, ReprobeEvery, Horizon} \subseteq Nat \ {0}
  /\ Overrun \in Nat /\ TwoThreads \in BOOLEAN

Sites == {"list", "present"}

VARIABLES
  time,     \* time since the start; the kernel's counter is clock % Wrap
  limit,     \* the period of the player's choice
  period,    \* g_fl_target_us, the period of g_fl_cached_for
  anchor,    \* g_fl_anchor_us, 0 is none
  owed,   \* g_fl_pending
  presented, \* g_fl_saw_present
  refused,   \* g_fl_ge_refused
  probe,     \* g_fl_reprobe
  browsing,  \* g_menu_open
  sleeper,   \* per site: the tick its sleep was asked to end, -1 awake
  due,       \* history: the first tick at which so many frames may have passed, -1 without a grid
  slept      \* history: sleeps ended since a frame was last marked

paceVars == <<time, limit, period, anchor, owed, presented, refused, probe, browsing, sleeper, due, slept>>

Counter == time % CounterWrap
Awake(site) == sleeper[site] = -1

\* the thread that comes to this site is not asleep at one
Free(site) == IF TwoThreads THEN Awake(site) ELSE \A s \in Sites : Awake(s)

PaceInit ==
  /\ time \in 0 .. 1 /\ limit \in Periods /\ period = 0 /\ anchor = 0 /\ owed = FALSE
  /\ presented = FALSE /\ refused = 0 /\ probe = 0 /\ browsing = FALSE
  /\ sleeper = [s \in Sites |-> -1] /\ due = -1 /\ slept = 0

-----------------------------------------------------------------------------
(* The two sites *)

\* Variant: a refused call moves the anchor.
RefusalAdvances(site, tries) ==
  /\ refused' = IF site = "list" /\ tries < LatchAt THEN tries + 1 ELSE tries
  /\ anchor' = (anchor + period') % CounterWrap

\* a refused sleep leaves the mark and the grid to the other site
Refusal(site, tries) ==
  /\ refused' = IF site = "list" /\ tries < LatchAt THEN tries + 1 ELSE tries
  /\ UNCHANGED anchor

\* frame_limit_pace up to the sleep, for a marked frame: the first frame of a grid and one that
\* is slower than the cap pass at once, another one sleeps unless the kernel refuses
Pace(site, tries) ==
  LET elapsed == (Counter - anchor) % CounterWrap
      passes  == anchor = 0 \/ elapsed >= period'
  IN \/ /\ passes
        /\ anchor' = Counter /\ owed' = FALSE /\ refused' = tries
        /\ due' = (IF anchor = 0 THEN time ELSE due + period') /\ UNCHANGED sleeper
     \/ /\ ~passes /\ Refusal(site, tries)
        /\ owed' = TRUE /\ UNCHANGED <<due, sleeper>>
     \/ /\ ~passes
        /\ sleeper' = [sleeper EXCEPT ![site] = time + period' - elapsed]
        /\ owed' = TRUE /\ refused' = tries /\ UNCHANGED <<anchor, due>>

\* frame_limit_pace behind the sleep
Awakes(site) ==
  /\ sleeper[site] # -1 /\ time >= sleeper[site]
  /\ sleeper' = [sleeper EXCEPT ![site] = -1]
  /\ refused' = IF site = "list" THEN 0 ELSE refused
  /\ owed' = FALSE /\ anchor' = (anchor + period) % CounterWrap
  /\ due' = (IF due = -1 THEN -1 ELSE due + period) /\ slept' = slept + 1
  /\ UNCHANGED <<time, limit, period, presented, probe, browsing>>

\* frame_limit_ge: with the menu open everything starts over ...
ListInMenu ==
  /\ browsing /\ Free("list")
  /\ anchor' = 0 /\ owed' = FALSE /\ presented' = FALSE /\ due' = -1
  /\ UNCHANGED <<time, limit, period, refused, probe, browsing, sleeper, slept>>

\* ... from an interrupt, or for another list of a frame already paced, nothing happens ...
ListSkipped ==
  /\ ~browsing /\ Free("list") /\ period' = limit
  /\ UNCHANGED <<time, limit, anchor, owed, presented, refused, probe, browsing, sleeper, due, slept>>

\* ... and the first list after a present begins a frame, paced here unless the site is latched
List ==
  /\ ~browsing /\ Free("list") /\ (presented \/ owed)
  /\ period' = limit /\ presented' = FALSE /\ slept' = (IF presented THEN 0 ELSE slept)
  /\ IF refused >= LatchAt
     THEN /\ probe' = (probe + 1) % ReprobeEvery
          /\ IF probe' = 0 THEN Pace("list", 0)
             ELSE owed' = TRUE /\ UNCHANGED <<anchor, refused, sleeper, due>>
     ELSE UNCHANGED probe /\ Pace("list", refused)
  /\ UNCHANGED <<time, limit, browsing>>

PresentKeeps == UNCHANGED owed

\* frame_limit_present without a sleep: nothing is pending, or the flip comes from an interrupt
Present ==
  /\ ~browsing /\ presented' = TRUE /\ PresentKeeps
  /\ UNCHANGED <<time, limit, period, anchor, refused, probe, browsing, sleeper, due, slept>>

\* frame_limit_present on a thread, with a frame that is not paced yet
PresentPaces ==
  /\ ~browsing /\ owed /\ Free("present")
  /\ presented' = TRUE /\ UNCHANGED period /\ Pace("present", refused)
  /\ UNCHANGED <<time, limit, probe, browsing, slept>>

-----------------------------------------------------------------------------
(* The menu and the clock *)

TurnMenu ==
  /\ browsing' = ~browsing /\ limit' \in (IF browsing THEN Periods ELSE {limit})
  /\ UNCHANGED <<time, period, anchor, owed, presented, refused, probe, sleeper, due, slept>>

PassTick ==
  /\ time < Horizon /\ \A s \in Sites : Awake(s) \/ time < sleeper[s] + Overrun
  /\ time' = time + 1
  /\ UNCHANGED <<limit, period, anchor, owed, presented, refused, probe, browsing, sleeper, due, slept>>

PaceNext ==
  \/ \E site \in Sites : Awakes(site)
  \/ ListInMenu \/ ListSkipped \/ List \/ Present \/ PresentPaces \/ TurnMenu \/ PassTick

PaceSpec == PaceInit /\ [][PaceNext]_paceVars

-----------------------------------------------------------------------------
(* Properties *)

PaceTypeOK ==
  /\ anchor \in 0 .. CounterWrap - 1 /\ refused \in 0 .. LatchAt /\ probe \in 0 .. ReprobeEvery - 1
  /\ period \in Periods \cup {0}

\* No more frames pass than the cap allows: since the grid began, every frame after the first has
\* taken a period, whatever sleeps were refused, overran or came late to the other site, and over
\* a wrap of the clock (a grid point that falls on 0 begins a new grid).
CapHolds == due <= time

\* A frame is slept for once (sysstats.c:1064-1065, "something marks frames more than once each ...
\* Should be impossible now", and 893-896).
PacedOnce == slept <= 1

\* Between the two sites a frame is slept for once, and the cap holds.
PacedRight == CapHolds /\ PacedOnce
===============================================================================
