------------------------------ MODULE FrameCount ------------------------------
(***************************************************************************)
(* The frame counter: which of the three hooks counts a frame, the window  *)
(* the rate is shown for, and the 1% low over the last frametimes.         *)
(***************************************************************************)
EXTENDS Integers, Sequences, SequencesExt, FiniteSetsExt

CONSTANTS
  Floor,     \* a present closer to the last frame shows it again (FPS_REPRESENT_FLOOR_US)
  Quiet,     \* presents further apart than this do not count as a burst (200 ms)
  Lull,      \* a list counts only so long after a counted vertical blank (50 ms)
  Window,    \* the rate is shown for at least this long (fps_window_us)
  LowEvery,  \* the 1% low is made anew this often (1 s)
  Second,    \* ticks of a second
  Slots,     \* frametimes kept (FPS_FT_BUF_SIZE)
  Worst,     \* of them the slowest are averaged (FPS_LOW_K)
  FlipCap,   \* presents of a burst are counted up to here (10)
  End        \* bound: ticks of the run

ASSUME CountAssumption ==
  /\ {Floor, Quiet, Lull, Window, LowEvery, Second, Slots, Worst, FlipCap, End} \subseteq Nat \ {0}
  /\ Worst <= Slots /\ FlipCap >= 3

VARIABLES
  tick,      \* sceKernelGetSystemTimeLow
  last,      \* g_fps_last_tick_us, 0 is none
  opened, inWindow, rate,  \* g_fps_window_start_us, g_fps_window_count, g_fps_value
  flipAt, flips,            \* g_fps_recent_setfb_time, g_fps_recent_setfb_count
  blankAt,   \* g_fps_recent_vblank_time
  ring, place,               \* g_fps_ft_buf, g_fps_ft_idx
  lowAt, low,               \* g_fps_lows_last_calc_us, g_fps_low1_value
  frames,    \* history: when the last frames were counted
  run,       \* history: presents in a row, none Quiet behind the one before it, up to 4
  mixed      \* history: another hook counted while such a run was going on

countVars == <<tick, last, opened, inWindow, rate, flipAt, flips, blankAt, ring, place, lowAt, low, frames, run, mixed>>
mine == <<last, opened, inWindow, rate, ring, place, lowAt, low, frames>>

CountInit ==
  /\ tick \in Quiet .. Quiet + 1 /\ last = 0 /\ opened = 0 /\ inWindow = 0 /\ rate = 0
  /\ flipAt = 0 /\ flips = 0 /\ blankAt = 0 /\ ring = [i \in 1 .. Slots |-> 0] /\ place = 1
  /\ lowAt = 0 /\ low = 0 /\ frames = <<>> /\ run = 0 /\ mixed = FALSE

Total(times) == FoldLeft(LAMBDA a, b : a + b, 0, times)

\* fps_calc_1pct_low: v sinks among the slowest so far, kept in ascending order
Sunk(top, v) ==
  LET k == CHOOSE k \in 0 .. Len(top) : (k < Len(top) => v <= top[k + 1]) /\ \A i \in 1 .. k : top[i] < v
  IN SubSeq(top, 1, k) \o <<v>> \o SubSeq(top, k + 1, Len(top))
Slower(top, v) ==
  IF v = 0 THEN top ELSE IF Len(top) < Worst THEN Sunk(top, v)
  ELSE IF v > top[1] THEN Sunk(Tail(top), v) ELSE top
Low(times) ==
  LET top == FoldLeft(Slower, <<>>, times)
  IN IF top = <<>> THEN low ELSE (Len(top) * Second) \div Total(top)

NoTick == UNCHANGED mine

\* fps_tick, for a frame that is no re-present
CountFrame ==
  /\ frames' = Append(IF Len(frames) > Slots THEN Tail(frames) ELSE frames, tick) /\ last' = tick
  /\ IF last = 0 THEN UNCHANGED <<ring, place, lowAt, low>>
     ELSE /\ ring' = [ring EXCEPT ![place] = tick - last] /\ place' = (place % Slots) + 1
          /\ IF tick - lowAt >= LowEvery THEN low' = Low(ring') /\ lowAt' = tick
             ELSE UNCHANGED <<low, lowAt>>
  /\ IF tick - opened < Window
     THEN inWindow' = inWindow + 1 /\ UNCHANGED <<opened, rate>>
     ELSE /\ rate' = ((inWindow + 1) * Second) \div (tick - opened)
          /\ opened' = tick /\ inWindow' = 0

\* Variant: a frame that comes too soon moves the start of the next.
FpsTickRestarts ==
  IF last # 0 /\ tick - last < Floor
  THEN last' = tick /\ UNCHANGED <<opened, inWindow, rate, ring, place, lowAt, low, frames>>
  ELSE CountFrame
\* fps_tick: the frame shown again changes nothing, not even the clock it is measured from
FpsTick == IF last # 0 /\ tick - last < Floor THEN NoTick ELSE CountFrame

Running == IF tick - flipAt < Quiet THEN run ELSE 0

\* fps_display_set_frame_buf_patched
Flip ==
  /\ flips' = IF tick - flipAt < Quiet THEN (IF flips < FlipCap THEN flips + 1 ELSE flips) ELSE 0
  /\ flipAt' = tick /\ run' = (IF Running > 3 THEN 4 ELSE Running + 1)
  /\ FpsTick /\ UNCHANGED <<tick, blankAt, mixed>>

\* the presents come often enough to be counted alone
FlipsCount == tick - flipAt < Quiet /\ flips >= 3

\* fps_maybe_tick_from_vblank
Blank ==
  /\ ~FlipsCount /\ FpsTick /\ blankAt' = tick
  /\ mixed' = (mixed \/ (Running > 3 /\ frames' # frames))
  /\ UNCHANGED <<tick, flipAt, flips, run>>

\* fps_maybe_tick_from_ge
Listed ==
  /\ ~FlipsCount /\ (blankAt = 0 \/ tick - blankAt >= Lull) /\ FpsTick
  /\ mixed' = (mixed \/ (Running > 3 /\ frames' # frames))
  /\ UNCHANGED <<tick, flipAt, flips, blankAt, run>>

Elapse == /\ tick < End /\ tick' = tick + 1
          /\ UNCHANGED <<last, opened, inWindow, rate, flipAt, flips, blankAt, ring, place, lowAt, low, frames, run, mixed>>

CountNext == Flip \/ Blank \/ Listed \/ Elapse
CountSpec == CountInit /\ [][CountNext]_countVars

-----------------------------------------------------------------------------
(* Properties *)

CountTypeOK ==
  /\ place \in 1 .. Slots /\ flips \in 0 .. FlipCap /\ rate \in 0 .. Second \div Floor + Second
  /\ \A i \in 1 .. Slots : ring[i] = 0 \/ ring[i] >= Floor

\* The kept frametimes are the gaps between the last counted frames, none left out: a present that
\* shows a frame again is merged into it, it does not restart the clock (fps_tick's comment).
FrametimesAddUp == frames # <<>> => Total(ring) = frames[Len(frames)] - frames[1]

\* The 1% low just made is the mean of the slowest frametimes there are.
Taken == {i \in 1 .. Slots : ring[i] > 0}
LowIsWorst ==
  lowAt = tick /\ lowAt = last /\ lowAt > 0 =>
    \E T \in SUBSET Taken :
      /\ Cardinality(T) = IF Cardinality(Taken) < Worst THEN Cardinality(Taken) ELSE Worst
      /\ \A i \in T, j \in Taken \ T : ring[i] >= ring[j]
      /\ low = (Cardinality(T) * Second) \div Total([i \in 1 .. Slots |-> IF i \in T THEN ring[i] ELSE 0])

\* Once a game presents steadily only its presents are counted, whatever it waits for and however
\* many lists it queues (the cascade of sysstats.c:28-44).
TiersYield == ~mixed

\* The figures shown are the frames': each counted once, by one tier, the slowest found.
CountsAreTrue == FrametimesAddUp /\ LowIsWorst /\ TiersYield
===============================================================================
