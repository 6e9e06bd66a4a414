------------------------------- MODULE MCRoutines ------------------------------
(***************************************************************************)
(* For TLC: the parts that run by themselves, one at a time: the settings  *)
(* page and the live HUD, the formats and curves, the counters, the clock  *)
(* ramp and the rails. They share no state.                                *)
(***************************************************************************)
EXTENDS ClockRamp, PommelRails, SettingsPage, ScreenHud, ScreenCurve, FrameCount, SaveFormat

VARIABLE part

AllBuses  == {0, 111, 133, 166, 190, 222, 266}
AllFreqs  == {3330, 3417, 3504, 3591, 3700, 3787, 3874, 3961, 4070, 4157, 4244, 4331, 4440,
              4527, 4614, 4701, 4810, 4897, 4984, 5071, 5180, 5267, 5354, 5441, 5550}
Corners   == {0, 511}

TwoRails   == {"ddr", "selector2"}
TwoBuiltin == [r \in TwoRails |-> IF r = "ddr" THEN 1 ELSE 2]

SectionChunks == [ram |-> 4, vram |-> 2, kernel |-> 2]

RoutinesInit ==
  /\ part \in {"ramp", "rails", "page", "hud", "curve", "count", "format"}
  /\ RampInit   /\ (part # "ramp" => field = [f \in Fields |-> 0] /\ target = Targets(BusGear(0, 3330)))
  /\ Init       /\ (part # "rails" => rail = Builtin /\ dead = {})
  /\ PageInit   /\ (part # "page" => group = "corner" /\ file.pos = 3)
  /\ HudInit    /\ (part # "hud" => value = [a \in Axes |-> HudOff])
  /\ CurveInit  /\ (part # "curve" => pops /\ gamma = 100 /\ temp = 100)
  /\ CountInit  /\ (part # "count" => tick = Quiet)
  /\ FormatInit /\ (part # "format" => ~compress)

RoutinesNext ==
  \/ part = "ramp" /\ RampNext
     /\ UNCHANGED <<part, vars, pageVars, hudVars, curveVars, countVars, formatVars>>
  \/ part = "rails" /\ Next
     /\ UNCHANGED <<part, rampVars, pageVars, hudVars, curveVars, countVars, formatVars>>
  \/ part = "page" /\ PageNext
     /\ UNCHANGED <<part, rampVars, vars, hudVars, curveVars, countVars, formatVars>>
  \/ part = "hud" /\ HudNext
     /\ UNCHANGED <<part, rampVars, vars, pageVars, curveVars, countVars, formatVars>>
  \/ part = "curve" /\ CurveNext
     /\ UNCHANGED <<part, rampVars, vars, pageVars, hudVars, countVars, formatVars>>
  \/ part = "count" /\ CountNext
     /\ UNCHANGED <<part, rampVars, vars, pageVars, hudVars, curveVars, formatVars>>
  \/ part = "format" /\ FormatNext
     /\ UNCHANGED <<part, rampVars, vars, pageVars, hudVars, curveVars, countVars>>

\* The types of the part at work; the others keep their initial states.
RoutineTypesOK ==
  CASE part = "ramp"  -> RampTypeOK  [] part = "rails" -> TypeOK [] part = "page" -> PageTypeOK
    [] part = "hud"   -> HudTypeOK   [] part = "curve" -> CurveTypeOK
    [] part = "count" -> CountTypeOK [] part = "format" -> FormatTypeOK
===============================================================================
