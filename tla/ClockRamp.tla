------------------------------- MODULE ClockRamp -------------------------------
(***************************************************************************)
(* oc_adjust_domain_ratios: the four fields of the two clock-domain ratio  *)
(* registers walk to their targets in bounded steps, with interrupts off.  *)
(* Three fields go to Full; the numerator of the bus goes to the gear that *)
(* realises the chosen bus clock at the frequency of the chosen step.      *)
(* Frequencies are in units of 100 kHz, bus clocks in MHz.                 *)
(***************************************************************************)
EXTENDS Integers

CONSTANTS
  Full,    \* the 1:1 ratio, and the mask of a field (code: 0x1ff)
  Step,    \* most a field moves in one round (code: 18)
  Guard,   \* rounds after which the walk gives up (code: 64)
  Freqs,   \* g_oc_freq_x10
  Buses,   \* g_oc_bus_tab, 0 = sync
  Starts   \* values the firmware may have left in a field

ASSUME RampAssumption ==
  /\ Full \in Nat \ {0} /\ Step \in Nat \ {0} /\ Guard \in Nat
  /\ Guard * Step >= Full
  /\ Freqs \subseteq Nat \ {0} /\ Buses \subseteq Nat
  /\ Starts \subseteq 0 .. Full

Fields == {"cpuNum", "cpuDen", "busNum", "busDen"}

VARIABLES
  field,   \* the four fields
  target,  \* their targets
  round,   \* guard
  walking

rampVars == <<field, target, round, walking>>

RampTypeOK ==
  /\ field \in [Fields -> 0 .. Full]
  /\ target \in [Fields -> 0 .. Full]
  /\ round \in 0 .. Guard
  /\ walking \in BOOLEAN

\* num = 511 * 2 * bus / pll, rounded, between 1 and the 1:1 ratio.
BusGear(bus, freq) ==
  LET n == (20 * Full * bus + freq \div 2) \div freq IN
  IF bus = 0 THEN Full ELSE IF n < 1 THEN 1 ELSE IF n > Full THEN Full ELSE n

Targets(gear) == [f \in Fields |-> IF f = "busNum" THEN gear ELSE Full]

RampInit ==
  /\ field \in [Fields -> Starts]
  /\ \E bus \in Buses, freq \in Freqs : target = Targets(BusGear(bus, freq))
  /\ round = 0 /\ walking = TRUE

\* oc_ramp1: one field, one round, in either direction.
Ramp1(v, t) ==
  IF v < t THEN (IF v + Step > t THEN t ELSE v + Step)
  ELSE IF v > t THEN (IF v < t + Step THEN t ELSE v - Step)
  ELSE v

\* Variant: the walk only goes up.
RampUp ==
  /\ walking /\ round < Guard /\ field # target
  /\ field' = [f \in Fields |-> IF field[f] < target[f] THEN Ramp1(field[f], target[f])
                                                        ELSE field[f]]
  /\ round' = round + 1
  /\ UNCHANGED <<target, walking>>

Ramp ==
  /\ walking /\ round < Guard /\ field # target
  /\ field' = [f \in Fields |-> Ramp1(field[f], target[f])]
  /\ round' = round + 1
  /\ UNCHANGED <<target, walking>>

\* The loop ends at the targets or when its guard runs out.
Leave ==
  /\ walking /\ (field = target \/ round = Guard)
  /\ walking' = FALSE
  /\ UNCHANGED <<field, target, round>>

RampNext == Ramp \/ Leave

RampSpec == RampInit /\ [][RampNext]_rampVars

\* The walk ends because every field is at its target, never because the guard
\* ran out with a domain left in between (overclock.c:137).
RampArrives == ~walking => field = target

\* No field steps past its target on the way, so no domain is ever clocked beyond
\* both where it was and where it is going (overclock.c:95).
NeverPast ==
  \A f \in Fields :
    \/ field[f] <= field'[f] /\ field'[f] <= target[f]
    \/ target[f] <= field'[f] /\ field'[f] <= field[f]

\* The ramp lands on its targets and passes none on the way.
RampLands == [][RampArrives' /\ NeverPast]_rampVars
=============================================================================
