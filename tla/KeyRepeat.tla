------------------------------- MODULE KeyRepeat ------------------------------
(***************************************************************************)
(* A held direction as the settings loops and the live HUD count it: in    *)
(* samples, with a first step after a pause, repeats that come faster, and *)
(* one step on the release of a press too short for any.                   *)
(***************************************************************************)
EXTENDS Integers

\* fl_repeat_fire: once at the 5th sample, again from the 9th on, faster from the 24th
Fires(n) == n = 5 \/ (n >= 9 /\ (n - 9) % (IF n >= 24 THEN 2 ELSE 3) = 0)

\* from the 24th sample on two counts repeat for ever
Folded(n) == IF n > 25 THEN n - 2 ELSE n

\* the step a release makes: a press too short to repeat counts once
Released(h) == IF h.n \in 1 .. 4 THEN h.dir ELSE 0

\* one sample with the direction `dir`: the step it makes, and what is held after it
StepOf(h, dir) ==
  IF dir = 0 THEN Released(h)
  ELSE LET n == IF dir # h.dir THEN 1 ELSE h.n + 1 IN IF Fires(n) THEN dir ELSE 0
HoldOf(h, dir) ==
  IF dir = 0 THEN [n |-> 0, dir |-> 0]
  ELSE [n |-> Folded(IF dir # h.dir THEN 1 ELSE h.n + 1), dir |-> dir]

\* one step, but not past the ends
Inside(x, step, lo, hi) ==
  IF step = -1 /\ x > lo THEN x - 1 ELSE IF step = 1 /\ x < hi THEN x + 1 ELSE x
===============================================================================
