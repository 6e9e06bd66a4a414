----------------------------- MODULE RoutineProofs -----------------------------
(***************************************************************************)
(* Proofs about the parts that run by themselves: the clock ramp, the      *)
(* rails of the core voltage, the live HUD, the settings page, the bytes   *)
(* of a savegame, the frame counter; at the end, the types of all of them. *)
(***************************************************************************)
EXTENDS MCRoutines, CheatDbProofs, CurveProofs

-----------------------------------------------------------------------------
(* The ramp arrives, for every width of a field, every step and every      *)
(* guard with Guard * Step >= Full: after n rounds a field is at its       *)
(* target or within Full - n * Step of it.                                 *)

\* How far a field may still be from its target.
NearTarget(f) ==
  \/ field[f] = target[f]
  \/ /\ field[f] - target[f] <= Full - round * Step
     /\ target[f] - field[f] <= Full - round * Step

RampInv == RampTypeOK /\ (\A f \in Fields : NearTarget(f)) /\ RampArrives

\* The solved gear fits its field.
LEMMA GearFits ==
  ASSUME NEW bus \in Nat, NEW freq \in Nat \ {0}
  PROVE  BusGear(bus, freq) \in 0 .. Full
<1>1. /\ Full \in Nat \ {0}
      /\ (20 * Full * bus + freq \div 2) \div freq \in Int
  BY RampAssumption
<1> QED
  BY <1>1 DEF BusGear

\* One round moves a field by Step, or onto its target, and never past it.
LEMMA OneRound ==
  ASSUME NEW v \in 0 .. Full, NEW t \in 0 .. Full
  PROVE  LET w == Ramp1(v, t) IN
           /\ w \in 0 .. Full
           /\ (v <= w /\ w <= t) \/ (t <= w /\ w <= v)
           /\ w = t \/ w - t <= v - t - Step \/ t - w <= t - v - Step
BY RampAssumption DEF Ramp1

LEMMA InitRamp == RampInit => RampInv
<1> SUFFICES ASSUME RampInit PROVE RampInv
  OBVIOUS
<1>1. field \in [Fields -> 0 .. Full]
  BY RampAssumption DEF RampInit
<1>2. target \in [Fields -> 0 .. Full]
  <2>1. PICK bus \in Buses, freq \in Freqs : target = Targets(BusGear(bus, freq))
    BY DEF RampInit
  <2>2. BusGear(bus, freq) \in 0 .. Full
    BY GearFits, RampAssumption
  <2> QED
    BY <2>1, <2>2, RampAssumption DEF Targets
<1>3. RampTypeOK
  BY <1>1, <1>2, RampAssumption DEF RampInit, RampTypeOK
<1>4. round * Step = 0
  BY RampAssumption DEF RampInit
<1>5. \A f \in Fields : NearTarget(f)
  BY <1>1, <1>2, <1>4, RampAssumption DEF NearTarget
<1> QED
  BY <1>3, <1>5 DEF RampInit, RampInv, RampArrives

LEMMA RampStep == RampInv /\ [RampNext]_rampVars => RampInv'
<1> SUFFICES ASSUME RampInv, [RampNext]_rampVars PROVE RampInv'
  OBVIOUS
<1> USE RampAssumption
<1>1. CASE Ramp
  <2> USE <1>1 DEF Ramp
  <2>1. \A f \in Fields : /\ field[f] \in 0 .. Full /\ target[f] \in 0 .. Full
                          /\ field'[f] = Ramp1(field[f], target[f])
                          /\ target'[f] = target[f]
    BY DEF RampInv, RampTypeOK
  <2>2. RampTypeOK'
    <3>1. \A f \in Fields : Ramp1(field[f], target[f]) \in 0 .. Full
      BY <2>1, OneRound
    <3> QED
      BY <3>1 DEF RampInv, RampTypeOK
  <2>3. round' * Step = round * Step + Step /\ round * Step \in Nat
    BY DEF RampInv, RampTypeOK
  <2>4. ASSUME NEW f \in Fields PROVE NearTarget(f)'
    <3> DEFINE v == field[f]  t == target[f]  w == Ramp1(v, t)
               gone == round * Step  more == round' * Step
    <3>1. v \in 0 .. Full /\ t \in 0 .. Full /\ w \in 0 .. Full
      BY <2>1, OneRound
    <3>2. /\ (v <= w /\ w <= t) \/ (t <= w /\ w <= v)
          /\ w = t \/ w - t <= v - t - Step \/ t - w <= t - v - Step
      BY <2>1, OneRound
    <3>3. \/ v = t
          \/ v - t <= Full - gone /\ t - v <= Full - gone
      BY DEF RampInv, NearTarget
    <3>4. more = gone + Step /\ gone \in Nat
      BY <2>3
    <3>5. w = t \/ (w - t <= Full - more /\ t - w <= Full - more)
      <4> HIDE DEF w, v, t, gone, more
      <4> QED
        BY <3>1, <3>2, <3>3, <3>4
    <3> QED
      BY <3>5, <2>1 DEF NearTarget
  <2> QED
    BY <2>2, <2>4 DEF RampInv, RampArrives
<1>2. CASE Leave
  <2> USE <1>2 DEF Leave
  <2>1. RampTypeOK' /\ \A f \in Fields : NearTarget(f)'
    BY DEF RampInv, RampTypeOK, NearTarget
  <2>2. field = target
    <3>1. CASE field = target
      BY <3>1
    <3>2. CASE round = Guard
      <4>1. ASSUME NEW f \in Fields PROVE field[f] = target[f]
        <5>1. field[f] \in 0 .. Full /\ target[f] \in 0 .. Full /\ NearTarget(f)
          BY DEF RampInv, RampTypeOK
        <5>2. round * Step \in Nat /\ round * Step >= Full
          BY <3>2
        <5> QED
          BY <5>1, <5>2 DEF NearTarget
      <4> QED
        BY <4>1 DEF RampInv, RampTypeOK
    <3> QED
      BY <3>1, <3>2
  <2> QED
    BY <2>1, <2>2 DEF RampInv, RampArrives
<1>3. CASE UNCHANGED rampVars
  BY <1>3 DEF RampInv, RampTypeOK, NearTarget, RampArrives, rampVars
<1> QED
  BY <1>1, <1>2, <1>3 DEF RampNext

\* The loop that runs with interrupts off ends with every field at its target
\* (overclock.c:138), for every start value and every bus target.
THEOREM RampReachesTargets == RampSpec => []RampArrives
<1>1. RampInv => RampArrives
  BY DEF RampInv
<1> QED
  BY <1>1, InitRamp, RampStep, PTL DEF RampSpec

\* No field leaves the interval between where it is and where it goes
\* (overclock.c:93).
THEOREM RampNeverPast == RampSpec => [][NeverPast]_rampVars
<1>1. RampInv /\ [RampNext]_rampVars => [NeverPast]_rampVars
  <2> SUFFICES ASSUME RampInv, RampNext PROVE NeverPast
    OBVIOUS
  <2>1. CASE Ramp
    <3>1. ASSUME NEW f \in Fields PROVE /\ field[f] \in 0 .. Full /\ target[f] \in 0 .. Full
                                        /\ field'[f] = Ramp1(field[f], target[f])
      BY <2>1 DEF Ramp, RampInv, RampTypeOK
    <3> QED
      BY <3>1, OneRound DEF NeverPast
  <2>2. CASE Leave
    <3>1. ASSUME NEW f \in Fields
          PROVE  field[f] \in Int /\ target[f] \in Int /\ field'[f] = field[f]
      BY <2>2, RampAssumption DEF Leave, RampInv, RampTypeOK
    <3> QED
      BY <3>1, <2>2, RampAssumption DEF RampInv, NeverPast
  <2> QED
    BY <2>1, <2>2 DEF RampNext
<1> QED
  BY <1>1, InitRamp, RampStep, PTL DEF RampSpec

\* Together: the property the run checks, for every value and every target.
THEOREM RampIsSound == RampSpec => RampLands
BY RampReachesTargets, RampNeverPast, PTL DEF RampLands

-----------------------------------------------------------------------------
(* The rails, for any set of them, any number of levels and any baseline.  *)

\* A level is never the mark of an unknown code.
LEMMA LevelsKnown == Unknown \notin Levels
BY RailsAssumption DEF Levels, Unknown

LEMMA ClampFits == ASSUME NEW level \in Int PROVE Clamp(level) \in Levels
BY RailsAssumption DEF Clamp, Levels

\* Putting the baseline back keeps the types, and what is shown of a rail that was
\* shown right.
LEMMA RestoreKeeps ==
  ASSUME NEW b \in Belief, NEW n \in Belief, NEW was \in [Rails -> Levels],
         Restore(b, n, was),
         \A r \in Rails : b[r] # Unknown => Code(b, n, r) = was[r]
  PROVE  /\ rail' \in [Rails -> Levels] /\ base' \in Belief /\ now' \in Belief
         /\ \A r \in Rails : base'[r] # Unknown => Code(base', now', r) = rail'[r]
<1>1. rail' \in [Rails -> Levels] /\ base' \in Belief /\ now' \in Belief
  BY RailsAssumption DEF Restore, Belief
<1>2. ASSUME NEW r \in Rails, base'[r] # Unknown
      PROVE  Code(base', now', r) = rail'[r]
  <2>1. CASE r \in Strays(b, n)
    <3>1. now'[r] = Builtin[r] /\ rail'[r] = Builtin[r]
      BY <2>1 DEF Restore
    <3>2. Builtin[r] # Unknown
      BY LevelsKnown, RailsAssumption
    <3> QED
      BY <3>1, <3>2 DEF Code
  <2>2. CASE r \notin Strays(b, n)
    <3>1. now'[r] = n[r] /\ base'[r] = b[r] /\ rail'[r] = was[r]
      BY <2>2 DEF Restore
    <3> QED
      BY <1>2, <3>1 DEF Code
  <2> QED
    BY <2>1, <2>2
<1> QED
  BY <1>1, <1>2

\* What a plugin start reads of the registers.
LEMMA ReadShown ==
  ASSUME NEW read, read = [r \in Rails |-> IF r \in dead THEN Unknown ELSE rail[r]],
         rail \in [Rails -> Levels]
  PROVE  /\ read \in Belief /\ Forgotten \in Belief
         /\ \A r \in Rails : read[r] # Unknown => Code(read, Forgotten, r) = rail[r]
         /\ \A r \in Rails \ dead : Code(read, Forgotten, r) = rail[r]
BY DEF Belief, Forgotten, Code

RestoreType(b, n, was) ==
  Restore(b, n, was) => rail' \in [Rails -> Levels] /\ base' \in Belief /\ now' \in Belief

LEMMA RestoreTypes ==
  ASSUME NEW b \in Belief, NEW n \in Belief, NEW was \in [Rails -> Levels]
  PROVE  RestoreType(b, n, was)
BY RailsAssumption DEF RestoreType, Restore, Belief

\* A press writes a level.
LEMMA PressFits ==
  ASSUME TypeOK, NEW r \in Rails, Press(r)
  PROVE  \E level \in Levels : /\ rail' = [rail EXCEPT ![r] = level]
                               /\ now' = [now EXCEPT ![r] = level]
<1>1. Code(base, now, r) \in Int
  BY RailsAssumption DEF TypeOK, Belief, Code, Levels, Unknown
<1>2. PICK d \in {-1, 1} : /\ rail' = [rail EXCEPT ![r] = Clamp(Code(base, now, r) + d)]
                           /\ now' = [now EXCEPT ![r] = Clamp(Code(base, now, r) + d)]
  BY DEF Press
<1>3. Clamp(Code(base, now, r) + d) \in Levels
  BY <1>1, ClampFits
<1> QED
  BY <1>2, <1>3

LEMMA RailStep == TypeOK /\ [Next]_vars => TypeOK'
<1> SUFFICES ASSUME TypeOK, [Next]_vars PROVE TypeOK'
  OBVIOUS
<1>1. CASE Start
  <2> DEFINE read == [r \in Rails |-> IF r \in dead THEN Unknown ELSE rail[r]]
  <2>1. read \in Belief /\ Forgotten \in Belief
    BY ReadShown DEF TypeOK
  <2>2. rail' \in [Rails -> Levels] /\ base' \in Belief /\ now' \in Belief
    BY <1>1, <2>1, RestoreTypes DEF Start, TypeOK, RestoreType
  <2> QED
    BY <1>1, <2>2 DEF Start, TypeOK
<1>2. CASE AdoptDefaults
  <2>1. rail' \in [Rails -> Levels] /\ base' \in Belief /\ now' \in Belief
    BY <1>2, RestoreTypes DEF AdoptDefaults, TypeOK, RestoreType
  <2> QED
    BY <1>2, <2>1 DEF AdoptDefaults, TypeOK
<1>3. CASE SaveSettings
  BY <1>3 DEF SaveSettings, TypeOK
<1>4. CASE LoseSettings
  BY <1>4 DEF LoseSettings, TypeOK
<1>5. CASE SaveState
  BY <1>5 DEF SaveState, TypeOK
<1>6. CASE LoadState
  <2>1. slot \in [base : Belief, now : Belief, valid : BOOLEAN]
    BY <1>6 DEF LoadState, TypeOK
  <2> QED
    BY <1>6, <2>1 DEF LoadState, TypeOK
<1>7. CASE ExitGame \/ PowerLost
  <2>1. Forgotten \in Belief
    BY DEF Forgotten, Belief
  <2> QED
    BY <1>7, <2>1 DEF ExitGame, PowerLost, Gone, TypeOK
<1>8. ASSUME NEW r \in Rails, Press(r) PROVE TypeOK'
  <2>1. PICK level \in Levels : /\ rail' = [rail EXCEPT ![r] = level]
                                /\ now' = [now EXCEPT ![r] = level]
    BY <1>8, PressFits
  <2> QED
    BY <1>8, <2>1 DEF Press, TypeOK, Belief
<1>9. CASE UNCHANGED vars
  BY <1>9 DEF vars, TypeOK
<1> QED
  BY <1>1, <1>2, <1>3, <1>4, <1>5, <1>6, <1>7, <1>8, <1>9 DEF Next

LEMMA InitRails == Init => TypeOK
BY DEF Init, TypeOK, Forgotten, Belief

LEMMA ShownStep ==
  ASSUME TypeOK, RailAsShown, [Next]_vars
  PROVE  RailAsShown'
<1> SUFFICES ASSUME ~loaded' PROVE RailAsShown'
  BY DEF RailAsShown
<1>1. CASE Start
  <2> DEFINE read == [r \in Rails |-> IF r \in dead THEN Unknown ELSE rail[r]]
  <2>1. /\ read \in Belief /\ Forgotten \in Belief
        /\ \A r \in Rails : read[r] # Unknown => Code(read, Forgotten, r) = rail[r]
    BY ReadShown DEF TypeOK
  <2>2. CASE card
    <3>1. Restore(read, Forgotten, rail)
      BY <1>1, <2>2 DEF Start
    <3>2. rail \in [Rails -> Levels]
      BY DEF TypeOK
    <3> HIDE DEF read
    <3> QED
      BY <2>1, <3>1, <3>2, RestoreKeeps DEF RailAsShown
  <2>3. CASE ~card
    <3>1. base' = read /\ now' = Forgotten /\ rail' = rail
      BY <1>1, <2>3 DEF Start
    <3> QED
      BY <2>1, <3>1 DEF RailAsShown
  <2> QED
    BY <2>2, <2>3
<1>2. CASE AdoptDefaults
  <2>1. /\ base \in Belief /\ now \in Belief /\ rail \in [Rails -> Levels]
        /\ Restore(base, now, rail)
        /\ \A r \in Rails : base[r] # Unknown => Code(base, now, r) = rail[r]
    BY <1>2 DEF AdoptDefaults, TypeOK, RailAsShown
  <2> QED
    BY <2>1, RestoreKeeps DEF RailAsShown
<1>3. CASE SaveSettings \/ LoseSettings \/ SaveState
  BY <1>3 DEF SaveSettings, LoseSettings, SaveState, RailAsShown, Code
<1>4. CASE LoadState
  BY <1>4 DEF LoadState
<1>5. CASE ExitGame \/ PowerLost
  BY <1>5 DEF ExitGame, PowerLost, Gone, RailAsShown
<1>6. ASSUME NEW r \in Rails, Press(r) PROVE RailAsShown'
  <2>1. PICK level \in Levels : /\ rail' = [rail EXCEPT ![r] = level]
                                /\ now' = [now EXCEPT ![r] = level]
    BY <1>6, PressFits
  <2>2. on /\ ~loaded /\ base' = base /\ now' \in Belief
    BY <1>6, <2>1 DEF Press, TypeOK, Belief
  <2>3. ASSUME NEW q \in Rails, base'[q] # Unknown
        PROVE  Code(base', now', q) = rail'[q]
    <3>1. CASE q = r
      BY <2>1, <3>1, LevelsKnown DEF TypeOK, Belief, Code
    <3>2. CASE q # r
      BY <2>1, <2>2, <2>3, <3>2 DEF TypeOK, Belief, Code, RailAsShown
    <3> QED
      BY <3>1, <3>2
  <2> QED
    BY <2>3 DEF RailAsShown
<1>7. CASE UNCHANGED vars
  BY <1>7 DEF vars, RailAsShown, Code
<1> QED
  BY <1>1, <1>2, <1>3, <1>4, <1>5, <1>6, <1>7 DEF Next

\* The state keeps its types.
THEOREM RailTypes == Spec => []TypeOK
BY InitRails, RailStep, PTL DEF Spec

\* Until a save state is loaded the rows show what the rails run at, through any
\* number of boots, presses and crashes.
THEOREM RailsStayShown == Spec => []RailAsShown
<1>1. Init => RailAsShown
  BY DEF Init, RailAsShown
<1>2. TypeOK /\ RailAsShown /\ [Next]_vars => RailAsShown'
  BY ShownStep
<1> QED
  BY <1>1, <1>2, InitRails, RailStep, PTL DEF Spec

\* A kept baseline brings back every register that answers, loads or not.
THEOREM StartsRecover == Spec => [][StartRecovers]_vars
<1>1. TypeOK /\ [Next]_vars
        => [StartRecovers]_vars
  <2> SUFFICES ASSUME TypeOK, Start, card, NEW r \in Rails \ dead
               PROVE  rail'[r] = Builtin[r]
    BY DEF StartRecovers
  <2> DEFINE read == [q \in Rails |-> IF q \in dead THEN Unknown ELSE rail[q]]
  <2>1. Code(read, Forgotten, r) = rail[r] /\ rail[r] # Unknown
    BY ReadShown, LevelsKnown DEF TypeOK
  <2>2. Restore(read, Forgotten, rail)
    BY DEF Start
  <2> HIDE DEF read
  <2>3. CASE r \in Strays(read, Forgotten)
    BY <2>2, <2>3 DEF Restore
  <2>4. CASE r \notin Strays(read, Forgotten)
    BY <2>1, <2>2, <2>4 DEF Restore, Strays
  <2> QED
    BY <2>3, <2>4
<1> QED
  BY <1>1, InitRails, RailStep, PTL DEF Spec

\* Together: the property the run checks, for any number of rails and levels.
THEOREM RailsAreHeld == Spec => RailsHold
BY RailsStayShown, StartsRecover, PTL DEF RailsHold

-----------------------------------------------------------------------------
(* The live HUD: an edit marks itself, and the worker's write never undoes   *)
(* the mark of an edit that fell behind its gathering of the words.          *)

HudInv ==
  /\ value \in [Axes -> Int]
  /\ started \in BOOLEAN /\ (worker = "none" <=> ~started)
  /\ worker = "write" /\ words # value => edited
  /\ UnsavedIsMarked

\* Starting the worker takes none that runs away from where it is.
LEMMA EnsureStarts ==
  ASSUME HudInv, NEW need, Ensure(need)
  PROVE  /\ started' \in BOOLEAN /\ (worker' = "none" <=> ~started')
         /\ worker' = worker \/ (worker = "none" /\ worker' = "top")
<1>1. CASE need /\ ~started
  BY <1>1 DEF HudInv, Ensure
<1>2. CASE ~(need /\ ~started)
  BY <1>2 DEF HudInv, Ensure
<1>. QED
  BY <1>1, <1>2

LEMMA HudStep == HudInv /\ [HudNext]_hudVars => HudInv'
<1>. SUFFICES ASSUME HudInv, [HudNext]_hudVars PROVE HudInv'
  OBVIOUS
<1>. USE DEF UnsavedIsMarked
<1>1. CASE OpenHud
  <2>1. Ensure(TRUE) /\ UNCHANGED <<value, screen, edited, words>>
    BY <1>1 DEF OpenHud
  <2>. QED
    BY <2>1, EnsureStarts DEF HudInv
<1>2. CASE MenuComes
  BY <1>2 DEF MenuComes, HudInv
<1>3. CASE MenuGoes
  BY <1>3 DEF MenuGoes, HudInv
<1>4. CASE MenuChart
  <2>1. PICK a \in Axes, x \in HudLow .. HudTop : value' = [value EXCEPT ![a] = x]
    BY <1>4 DEF MenuChart
  <2>2. /\ screen' = value' /\ UNCHANGED <<edited, words>> /\ worker \notin {"save", "write"}
        /\ Ensure(Correcting(value'))
    BY <1>4 DEF MenuChart
  <2>3. value' \in [Axes -> Int]
    BY <2>1, HudAssumption DEF HudInv
  <2>. QED
    BY <2>2, <2>3, EnsureStarts DEF HudInv
<1>5. CASE \E d \in Dirs \cup {<<"none", 0>>}, close \in BOOLEAN : ReadPad(d, close)
  <2>1. PICK d \in Dirs \cup {<<"none", 0>>}, close \in BOOLEAN : ReadPad(d, close)
    BY <1>5
  <2>. DEFINE step(a) == LET s == {e \in Dirs : e[1] = a /\ StepsNow(e, e = d)}
                             by == {e[2] : e \in s}
                         IN (IF 1 \in by THEN 1 ELSE 0) - (IF -1 \in by THEN 1 ELSE 0)
              new == [a \in Axes |-> Inside(value[a], step(a), HudLow, HudTop)]
  <2>2. /\ value' \in [Axes -> Int] /\ UNCHANGED <<screen, words>>
        /\ edited => edited'
        /\ (\E a \in Axes : value'[a] # value[a]) => edited'
    <3>1. /\ value' = new /\ edited' = (edited \/ {a \in Axes : new[a] # value[a]} # {})
          /\ UNCHANGED <<screen, words>>
      BY <2>1 DEF ReadPad
    <3>2. \A s : \A x \in Int : Inside(x, s, HudLow, HudTop) \in Int
      BY DEF Inside
    <3>. HIDE DEF step
    <3>3. new \in [Axes -> Int]
      BY <3>2 DEF HudInv
    <3>. HIDE DEF new
    <3>4. edited \/ {a \in Axes : new[a] # value[a]} # {} => edited'
      BY <3>1
    <3>5. (\E a \in Axes : new[a] # value[a]) => {a \in Axes : new[a] # value[a]} # {}
      OBVIOUS
    <3>. QED
      BY <3>1, <3>3, <3>4, <3>5
  <2>3. PICK need : Ensure(need)
    BY <2>1 DEF ReadPad
  <2>4. value' # value => edited'
    BY <2>2 DEF HudInv
  <2>. QED
    BY <2>2, <2>3, <2>4, EnsureStarts DEF HudInv
<1>6. CASE Top
  BY <1>6 DEF Top, HudInv
<1>7. CASE Gather
  BY <1>7 DEF Gather, HudInv
<1>8. CASE Write
  BY <1>8 DEF Write, HudInv
<1>9. CASE Check
  BY <1>9 DEF Check, HudInv
<1>10. CASE LeaveHud
  BY <1>10 DEF LeaveHud, HudInv
<1>11. CASE Wakes
  BY <1>11 DEF Wakes, HudInv
<1>12. CASE UNCHANGED hudVars
  BY <1>12 DEF hudVars, HudInv
<1>. QED
  BY <1>1, <1>2, <1>3, <1>4, <1>5, <1>6, <1>7, <1>8, <1>9, <1>10, <1>11, <1>12 DEF HudNext

LEMMA HudInitially == HudInit => HudInv
<1>. SUFFICES ASSUME HudInit PROVE HudInv
  OBVIOUS
<1>1. value \in [Axes -> Int]
  BY HudAssumption DEF HudInit, HudOff
<1>2. started \in BOOLEAN
  BY DEF HudInit, Correcting
<1>3. screen = value /\ words = value /\ (worker = "none" <=> ~started) /\ worker # "write"
  BY DEF HudInit
<1>. QED
  BY <1>1, <1>2, <1>3 DEF HudInv, UnsavedIsMarked

\* A value the card does not have is marked or on its way to it (screen_tuning.c:1933),
\* wherever an edit falls between the worker's steps: for any settings and any range.
THEOREM EditsStayMarked == HudSpec => []UnsavedIsMarked
<1>1. HudInv => UnsavedIsMarked
  BY DEF HudInv
<1>. QED
  BY <1>1, HudInitially, HudStep, PTL DEF HudSpec

-----------------------------------------------------------------------------
(* The settings page: what the player leaves it with is what the next boot *)
(* comes up with, and a press is worth what it was held, for every range   *)
(* of the settings.                                                        *)

\* The settings a page can make: what every loader accepts.
Legal(v) ==
  /\ v \in [AllFields -> Int]
  /\ v.debug \in 0 .. 3 /\ v.uart \in 0 .. 1 /\ v.mode \in 0 .. 3 /\ v.rate \in 1 .. 10
  /\ v.batt \in 0 .. 3 /\ v.mah \in 0 .. MahAccepted /\ v.charge \in ChargeWords
  /\ v.oc \in 0 .. Steps - 1 /\ v.stable \in 0 .. 1 /\ v.slot \in 0 .. 1 /\ v.cpu \in 0 .. 1
  /\ v.pos \in 0 .. 3 /\ v.limit \in {0} \cup LimitLow .. LimitTop /\ v.skip \in 0 .. 2
  /\ v.ms \in 0 .. LearnMax /\ (v.skip = 2 => v.ms > 0) /\ v.autoload \in 0 .. 1
  /\ v.gamma \in GammaLow .. GammaTop /\ v.temp \in 0 .. TempTop

\* The ranges of the settings.
LEMMA PageSizes ==
  /\ LimitTop \in Nat /\ GammaLow \in Nat /\ GammaTop \in Nat /\ TempTop \in Nat /\ Neutral \in Nat
  /\ MahTop \in Nat /\ MahAccepted \in Nat /\ LearnMax \in Nat /\ Steps \in Nat
  /\ LimitTop > 20 /\ GammaLow <= 100 /\ GammaTop >= 100 /\ Neutral <= TempTop /\ MahTop >= 1000
  /\ MahAccepted >= MahTop + 100 /\ LearnMax >= 100 /\ Steps > 0
BY PageAssumption DEF LimitLow, MahLow

\* The settings by name.
LEMMA FieldNames ==
  \A f \in AllFields :
    f \in {"debug", "uart", "mode", "rate", "batt", "mah", "charge", "oc", "stable", "slot", "cpu",
           "pos", "autoload", "limit", "skip", "ms", "gamma", "temp"}
BY DEF AllFields, GlobalFields, GameFields, ScreenFields

\* The loaders make something legal of any words at all ...
LEMMA LoadedLegal == ASSUME NEW w PROVE Legal(Loaded(w))
<1> DEFINE v == Loaded(w)
<1> USE PageSizes DEF InOr, Flag
<1>1. /\ v.debug \in 0 .. 3 /\ v.uart \in 0 .. 1 /\ v.mode \in 0 .. 3 /\ v.rate \in 1 .. 10
      /\ v.batt \in 0 .. 3 /\ v.mah \in 0 .. MahAccepted /\ v.charge \in ChargeWords
      /\ v.oc \in 0 .. Steps - 1 /\ v.stable \in 0 .. 1 /\ v.slot \in 0 .. 1 /\ v.cpu \in 0 .. 1
      /\ v.pos \in 0 .. 3
  BY DEF Loaded, LoadGlobal, GlobalFields, AllFields, ChargeWords
<1>2. /\ v.limit \in {0} \cup LimitLow .. LimitTop /\ v.skip \in 0 .. 2
      /\ v.ms \in 0 .. LearnMax /\ (v.skip = 2 => v.ms > 0) /\ v.autoload \in 0 .. 1
  BY DEF Loaded, LoadGame, GlobalFields, GameFields, AllFields
<1>3. v.gamma \in GammaLow .. GammaTop /\ v.temp \in 0 .. TempTop
  BY DEF Loaded, LoadScreen, GlobalFields, GameFields, ScreenFields, AllFields
<1>4. v \in [AllFields -> Int]
  <2>1. v = [f \in AllFields |-> v[f]]
    BY DEF Loaded
  <2>2. \A f \in AllFields : v[f] \in Int
    <3> HIDE DEF v
    <3> QED
      BY <1>1, <1>2, <1>3, FieldNames DEF ChargeWords, LimitLow
  <2> HIDE DEF v
  <2> QED
    BY <2>1, <2>2
<1> QED
  BY <1>1, <1>2, <1>3, <1>4 DEF Legal

\* ... and take what is legal for what it is.
LEMMA LoadsLegal ==
  ASSUME NEW v, Legal(v), NEW w
  PROVE  /\ (\A f \in GlobalFields : w[f] = v[f]) => \A f \in GlobalFields : LoadGlobal(f, w) = v[f]
         /\ (\A f \in GameFields : w[f] = v[f]) => \A f \in GameFields : LoadGame(f, w) = v[f]
         /\ (\A f \in ScreenFields : w[f] = v[f]) => \A f \in ScreenFields : LoadScreen(f, w) = v[f]
<1> USE PageSizes DEF Legal, InOr, Flag
<1>1. ASSUME \A f \in GlobalFields : w[f] = v[f], NEW f \in GlobalFields
      PROVE  LoadGlobal(f, w) = v[f]
  BY <1>1 DEF LoadGlobal, GlobalFields
<1>2. ASSUME \A f \in GameFields : w[f] = v[f], NEW f \in GameFields
      PROVE  LoadGame(f, w) = v[f]
  BY <1>2 DEF LoadGame, GameFields
<1>3. ASSUME \A f \in ScreenFields : w[f] = v[f], NEW f \in ScreenFields
      PROVE  LoadScreen(f, w) = v[f]
  BY <1>3 DEF LoadScreen, ScreenFields
<1> QED
  BY <1>1, <1>2, <1>3

\* A loader looks at the words of its own file only.
LEMMA LoadsByFile ==
  ASSUME NEW w, NEW u
  PROVE  /\ (\A f \in GlobalFields : w[f] = u[f])
            => \A f \in GlobalFields : LoadGlobal(f, w) = LoadGlobal(f, u)
         /\ (\A f \in GameFields : w[f] = u[f])
            => \A f \in GameFields : LoadGame(f, w) = LoadGame(f, u)
         /\ (\A f \in ScreenFields : w[f] = u[f])
            => \A f \in ScreenFields : LoadScreen(f, w) = LoadScreen(f, u)
<1>1. ASSUME \A f \in GlobalFields : w[f] = u[f], NEW f \in GlobalFields
      PROVE  LoadGlobal(f, w) = LoadGlobal(f, u)
  BY <1>1 DEF LoadGlobal, GlobalFields
<1>2. ASSUME \A f \in GameFields : w[f] = u[f], NEW f \in GameFields
      PROVE  LoadGame(f, w) = LoadGame(f, u)
  BY <1>2 DEF LoadGame, GameFields
<1>3. ASSUME \A f \in ScreenFields : w[f] = u[f], NEW f \in ScreenFields
      PROVE  LoadScreen(f, w) = LoadScreen(f, u)
  BY <1>3 DEF LoadScreen, ScreenFields
<1> QED
  BY <1>1, <1>2, <1>3

\* What one press makes of a value stays in the range of its row.
LEMMA CycleFits ==
  ASSUME NEW top \in Nat, NEW x \in 0 .. top, NEW p
  PROVE  Cycle(x, p, top) \in 0 .. top /\ (p \cap {"L", "R"} = {} => Cycle(x, p, top) = x)
BY DEF Cycle

\* The same for a value that stops at its ends ...
LEMMA BoundedFits ==
  ASSUME NEW lo \in Int, NEW hi \in Int, NEW x \in lo .. hi, NEW p, NEW less, NEW more
  PROVE  Bounded(x, p, less, more, lo, hi) \in lo .. hi
         /\ (less \notin p /\ more \notin p => Bounded(x, p, less, more, lo, hi) = x)
BY DEF Bounded

\* ... and for the charge threshold, from any of the thresholds a file may hold.
LEMMA ChargeFits ==
  ASSUME NEW v, Legal(v), NEW p
  PROVE  Legal(EditCharge(v, p))
<1> DEFINE ChargeAt(i) == IF v.charge >= 100 THEN i = 8
                      ELSE IF v.charge < 70 THEN i = 1
                      ELSE /\ i \in 2 .. 7 /\ v.charge >= ChargeSteps[i]
                           /\ i > 2 => v.charge < ChargeSteps[i - 1]
           at0 == CHOOSE i \in 1 .. 8 : ChargeAt(i)
           n == Cycle(at0 - 1, p, 7) + 1
<1>1. v.charge \in {0, 100} \cup 70 .. 95
  BY DEF Legal, ChargeWords
<1>2. \E i \in 1 .. 8 : ChargeAt(i)
  <2>1. CASE v.charge = 100
    BY <2>1
  <2>2. CASE v.charge = 0
    BY <2>2
  <2>3. CASE v.charge = 95
    <3>1. ChargeAt(2)
      BY <2>3 DEF ChargeSteps
    <3> QED BY <3>1
  <2>4. CASE v.charge \in 90 .. 94
    <3>1. ChargeAt(3)
      BY <2>4 DEF ChargeSteps
    <3> QED BY <3>1
  <2>5. CASE v.charge \in 85 .. 89
    <3>1. ChargeAt(4)
      BY <2>5 DEF ChargeSteps
    <3> QED BY <3>1
  <2>6. CASE v.charge \in 80 .. 84
    <3>1. ChargeAt(5)
      BY <2>6 DEF ChargeSteps
    <3> QED BY <3>1
  <2>7. CASE v.charge \in 75 .. 79
    <3>1. ChargeAt(6)
      BY <2>7 DEF ChargeSteps
    <3> QED BY <3>1
  <2>8. CASE v.charge \in 70 .. 74
    <3>1. ChargeAt(7)
      BY <2>8 DEF ChargeSteps
    <3> QED BY <3>1
  <2> HIDE DEF ChargeAt
  <2> QED
    BY <1>1, <2>1, <2>2, <2>3, <2>4, <2>5, <2>6, <2>7, <2>8
<1>3. at0 \in 1 .. 8
  <2> HIDE DEF ChargeAt
  <2> QED
    BY <1>2
<1> HIDE DEF at0
<1>4. n \in 1 .. 8
  <2>1. at0 - 1 \in 0 .. 7
    BY <1>3
  <2>2. Cycle(at0 - 1, p, 7) \in 0 .. 7
    BY <2>1, CycleFits
  <2> QED
    BY <2>2
<1>5. ChargeSteps[n] \in ChargeWords
  <2> HIDE DEF n
  <2> QED
    BY <1>4 DEF ChargeSteps, ChargeWords
<1>6. EditCharge(v, p) = v \/ EditCharge(v, p) = [v EXCEPT !.charge = ChargeSteps[n]]
  BY DEF EditCharge, at0
<1>7. "charge" \in AllFields
  BY DEF AllFields, GlobalFields
<1> HIDE DEF n
<1>8. ASSUME NEW x \in ChargeWords PROVE Legal([v EXCEPT !.charge = x])
  BY <1>7, <1>8 DEF Legal, AllFields, GlobalFields, GameFields, ScreenFields, ChargeWords
<1> QED
  BY <1>5, <1>6, <1>8

\* An edit of `row` gives `v` the legal settings `e`, of one file, and none if it does not count.
GoodEdit(row, v, e, touches) ==
  /\ Legal(e)
  /\ \A f \in AllFields \ (IF row \in {12, 13} THEN GameFields ELSE GlobalFields) : e[f] = v[f]
  /\ ~touches => \A f \in AllFields : e[f] = v[f]

\* The clock's row, also as the sub-page edits it.
LEMMA ClockFits ==
  ASSUME NEW v, Legal(v), NEW p
  PROVE  GoodEdit(7, v, EditClock(v, p), p \cap {"L", "R"} # {} \/ (v.oc > 0 /\ "T" \in p))
<1> DEFINE marked == IF v.oc > 0 /\ "T" \in p THEN 1 - v.stable ELSE v.stable
           a == IF "L" \in p /\ v.oc > 0 THEN v.oc - 1 ELSE v.oc
           c == IF "R" \in p /\ a < Steps - 1 THEN a + 1 ELSE a
<1>1. v \in [AllFields -> Int] /\ v.oc \in 0 .. Steps - 1 /\ v.stable \in 0 .. 1
  BY DEF Legal
<1>2. EditClock(v, p) = IF p \cap {"L", "R"} = {} THEN [v EXCEPT !.stable = marked]
                        ELSE [v EXCEPT !.oc = c, !.stable = 0]
  BY <1>1 DEF EditClock, AllFields, GlobalFields
<1>3. marked \in 0 .. 1 /\ (~(v.oc > 0 /\ "T" \in p) => marked = v.stable)
  BY <1>1
<1>4. c \in 0 .. Steps - 1
  <2>1. a \in 0 .. Steps - 1
    BY <1>1, PageSizes
  <2> HIDE DEF a
  <2> QED
    BY <2>1, PageSizes
<1> HIDE DEF marked, c
<1>5. CASE p \cap {"L", "R"} = {}
  <2>1. EditClock(v, p) = [v EXCEPT !.stable = marked]
    BY <1>2, <1>5
  <2>2. Legal(EditClock(v, p))
    BY <1>3, <2>1 DEF Legal, AllFields, GlobalFields, GameFields, ScreenFields
  <2> QED
    BY <1>1, <1>3, <1>5, <2>1, <2>2 DEF GoodEdit, GlobalFields, AllFields
<1>6. CASE p \cap {"L", "R"} # {}
  <2>1. EditClock(v, p) = [v EXCEPT !.oc = c, !.stable = 0]
    BY <1>2, <1>6
  <2> DEFINE e == EditClock(v, p)
  <2>2. /\ e \in [AllFields -> Int] /\ e.oc = c /\ e.stable = 0
        /\ \A h \in AllFields : h \notin {"oc", "stable"} => e[h] = v[h]
    <3>1. "oc" \in AllFields /\ "stable" \in AllFields /\ c \in Int /\ 0 \in Int
      BY <1>4, PageSizes DEF AllFields, GlobalFields
    <3>2. v \in [AllFields -> Int]
      BY <1>1
    <3> QED
      BY <2>1, <3>1, <3>2
  <2> HIDE DEF e
  <2>3. Legal(e)
    BY <1>4, <2>2, PageSizes DEF Legal, AllFields, GlobalFields, GameFields, ScreenFields
  <2>4. Legal(EditClock(v, p))
    BY <2>3 DEF e
  <2>5. \A h \in AllFields : h \notin {"oc", "stable"} => EditClock(v, p)[h] = v[h]
    BY <2>2 DEF e
  <2> QED
    BY <1>6, <2>4, <2>5 DEF GoodEdit, GlobalFields
<1> QED
  BY <1>5, <1>6

\* Every row makes a good edit of any pressed keys.
LEMMA EditFits ==
  ASSUME NEW v, Legal(v), NEW row, NEW p
  PROVE  GoodEdit(row, v, Edited(row, v, p), Touches(row, v, p))
<1> DEFINE e == Edited(row, v, p)
           sides == p \cap {"L", "R"} # {}
           marks == p \cap {"T", "X"} # {}
<1> USE DEF GoodEdit
<1>0. /\ v \in [AllFields -> Int] /\ v.debug \in 0 .. 3 /\ v.uart \in 0 .. 1 /\ v.mode \in 0 .. 3
      /\ v.rate \in 1 .. 10 /\ v.batt \in 0 .. 3 /\ v.mah \in 0 .. MahAccepted
      /\ v.oc \in 0 .. Steps - 1
      /\ v.stable \in 0 .. 1 /\ v.slot \in 0 .. 1 /\ v.cpu \in 0 .. 1 /\ v.pos \in 0 .. 3
      /\ v.skip \in 0 .. 2 /\ v.ms \in 0 .. LearnMax /\ (v.skip = 2 => v.ms > 0)
      /\ v.autoload \in 0 .. 1
  BY DEF Legal
<1>1. ASSUME row \in {1, 4, 13}
      PROVE  GoodEdit(row, v, e, Touches(row, v, p))
  <2> DEFINE g == IF row = 1 THEN "slot" ELSE IF row = 4 THEN "cpu" ELSE "autoload"
  <2>1. e = Toggle(v, g, p) /\ (Touches(row, v, p) <=> sides)
    BY <1>1 DEF Edited, Touches
  <2>2. g \in AllFields /\ g \in {"slot", "cpu", "autoload"} /\ v[g] \in 0 .. 1
        /\ g \in (IF row \in {12, 13} THEN GameFields ELSE GlobalFields)
    BY <1>0, <1>1 DEF AllFields, GlobalFields, GameFields
  <2>3. CASE ~sides
    BY <2>1, <2>3 DEF Toggle
  <2>4. CASE sides
    <3>1. e = [v EXCEPT ![g] = 1 - v[g]]
      BY <2>1, <2>4 DEF Toggle
    <3> DEFINE x == 1 - v[g]
    <3>2. x \in 0 .. 1
      BY <2>2
    <3> HIDE DEF x, g, e, sides
    <3>3. e \in [AllFields -> Int] /\ e[g] = x /\ \A h \in AllFields : h # g => e[h] = v[h]
      BY <1>0, <2>2, <3>1, <3>2 DEF x
    <3>4. Legal(e)
      BY <2>2, <3>2, <3>3 DEF Legal, AllFields, GlobalFields, GameFields, ScreenFields
    <3> QED
      BY <2>1, <2>2, <2>4, <3>3, <3>4
  <2> QED
    BY <2>3, <2>4
<1>2. ASSUME row = 2
      PROVE  GoodEdit(row, v, e, Touches(row, v, p))
  <2> DEFINE r == IF v.mode > 0 THEN Bounded(v.rate, p, "X", "T", 1, 10) ELSE v.rate
             m == Cycle(v.mode, p, 3)
  <2>1. e = [v EXCEPT !.rate = r, !.mode = m]
    BY <1>0, <1>2 DEF Edited, EditFps, AllFields, GlobalFields
  <2>2. r \in 1 .. 10 /\ (~(v.mode > 0 /\ marks) => r = v.rate)
    <3>0. v.rate \in 1 .. 10 /\ 1 \in Int /\ 10 \in Int
      BY <1>0
    <3>1. Bounded(v.rate, p, "X", "T", 1, 10) \in 1 .. 10
          /\ ("X" \notin p /\ "T" \notin p => Bounded(v.rate, p, "X", "T", 1, 10) = v.rate)
      BY <3>0, BoundedFits
    <3> QED
      BY <1>0, <3>1
  <2>3. m \in 0 .. 3 /\ (~sides => m = v.mode)
    BY <1>0, CycleFits
  <2>4. Touches(row, v, p) <=> sides \/ (v.mode > 0 /\ marks)
    BY <1>2 DEF Touches
  <2> HIDE DEF r, m, e, sides, marks
  <2>5. /\ e \in [AllFields -> Int] /\ e.rate = r /\ e.mode = m
        /\ \A h \in AllFields : h \notin {"rate", "mode"} => e[h] = v[h]
    <3>1. "rate" \in AllFields /\ "mode" \in AllFields
      BY DEF AllFields, GlobalFields
    <3>2. v \in [AllFields -> Int] /\ r \in Int /\ m \in Int
      BY <1>0, <2>2, <2>3
    <3> QED
      BY <2>1, <3>1, <3>2
  <2>6. Legal(e)
    BY <2>2, <2>3, <2>5 DEF Legal, AllFields, GlobalFields, GameFields, ScreenFields
  <2> QED
    BY <1>2, <2>2, <2>3, <2>4, <2>5, <2>6 DEF GlobalFields
<1>3. ASSUME row = 3
      PROVE  GoodEdit(row, v, e, Touches(row, v, p))
  <2> DEFINE m == Cycle(v.pos, p, 3)
  <2>1. e = [v EXCEPT !.pos = m]
    BY <1>0, <1>3 DEF Edited, AllFields, GlobalFields
  <2>2. m \in 0 .. 3 /\ (~sides => m = v.pos)
    BY <1>0, CycleFits
  <2>3. Touches(row, v, p) <=> sides
    BY <1>3 DEF Touches
  <2> HIDE DEF m, e, sides, marks
  <2>4. Legal(e)
    BY <2>1, <2>2 DEF Legal, AllFields, GlobalFields, GameFields, ScreenFields
  <2> QED
    BY <1>0, <1>3, <2>1, <2>2, <2>3, <2>4 DEF GlobalFields, AllFields
<1>5. ASSUME row = 5
      PROVE  GoodEdit(row, v, e, Touches(row, v, p))
  <2> DEFINE up == IF "T" \notin p THEN v.mah ELSE IF v.mah = 0 THEN MahLow
                   ELSE IF v.mah < MahTop THEN v.mah + 100 ELSE v.mah
             down == IF "X" \notin p THEN up ELSE IF up <= MahLow THEN 0 ELSE up - 100
             m == Cycle(v.batt, p, 3)
  <2>1. e = [v EXCEPT !.mah = down, !.batt = m]
    BY <1>0, <1>5 DEF Edited, EditBattery, AllFields, GlobalFields
  <2>2. down \in 0 .. MahAccepted /\ (~marks => down = v.mah)
    <3>1. up \in 0 .. MahAccepted
      BY <1>0, PageSizes DEF MahLow
    <3>2. "T" \notin p => up = v.mah
      OBVIOUS
    <3> HIDE DEF up
    <3> QED
      BY <3>1, <3>2, PageSizes DEF MahLow
  <2>3. m \in 0 .. 3 /\ (~sides => m = v.batt)
    BY <1>0, CycleFits
  <2>4. Touches(row, v, p) <=> sides \/ marks
    BY <1>5 DEF Touches
  <2> HIDE DEF down, m, e, sides, marks
  <2>5. /\ e \in [AllFields -> Int] /\ e.mah = down /\ e.batt = m
        /\ \A h \in AllFields : h \notin {"mah", "batt"} => e[h] = v[h]
    <3>1. "mah" \in AllFields /\ "batt" \in AllFields
      BY DEF AllFields, GlobalFields
    <3>2. v \in [AllFields -> Int] /\ down \in Int /\ m \in Int
      BY <1>0, <2>2, <2>3, PageSizes
    <3> QED
      BY <2>1, <3>1, <3>2
  <2>6. Legal(e)
    BY <2>2, <2>3, <2>5, PageSizes DEF Legal, AllFields, GlobalFields, GameFields, ScreenFields
  <2> QED
    BY <1>5, <2>2, <2>3, <2>4, <2>5, <2>6 DEF GlobalFields
<1>6. ASSUME row = 6
      PROVE  GoodEdit(row, v, e, Touches(row, v, p))
  <2>1. e = EditCharge(v, p)
    BY <1>6 DEF Edited
  <2>2. Legal(e)
    BY <2>1, ChargeFits
  <2>3. e = v \/ \E x : e = [v EXCEPT !.charge = x]
    BY <2>1 DEF EditCharge
  <2>4. ~sides => e = v
    BY <2>1 DEF EditCharge
  <2>5. Touches(row, v, p) <=> sides
    BY <1>6 DEF Touches
  <2> HIDE DEF e, sides, marks
  <2> QED
    BY <1>0, <1>6, <2>2, <2>3, <2>4, <2>5 DEF GlobalFields, AllFields
<1>7. ASSUME row = 7
      PROVE  GoodEdit(row, v, e, Touches(row, v, p))
  <2>1. e = EditClock(v, p)
    BY <1>7 DEF Edited
  <2>2. Touches(row, v, p) <=> sides \/ (v.oc > 0 /\ "T" \in p)
    BY <1>7 DEF Touches
  <2> HIDE DEF e
  <2> QED
    BY <1>7, <2>1, <2>2, ClockFits
<1>8. ASSUME row = 8
      PROVE  GoodEdit(row, v, e, Touches(row, v, p))
  <2> DEFINE mode == IF v.uart = 1 /\ v.debug = 0 THEN 4 ELSE v.debug
             new == Cycle(mode, p, 4)
  <2>1. e = IF ~sides THEN v ELSE IF new = 4 THEN [v EXCEPT !.uart = 1, !.debug = 0]
            ELSE [v EXCEPT !.uart = 0, !.debug = new]
    BY <1>8 DEF Edited, EditDebug
  <2>2. new \in 0 .. 4
    <3>1. mode \in 0 .. 4
      BY <1>0
    <3> HIDE DEF mode
    <3> QED
      BY <3>1, CycleFits
  <2>3. Touches(row, v, p) <=> sides
    BY <1>8 DEF Touches
  <2> HIDE DEF e, new, sides, marks
  <2>4. e = v \/ (sides /\ \E u \in 0 .. 1, d \in 0 .. 3 : e = [v EXCEPT !.uart = u, !.debug = d])
    <3>1. CASE ~sides
      BY <2>1, <3>1
    <3>2. CASE sides /\ new = 4
      <4>1. e = [v EXCEPT !.uart = 1, !.debug = 0] /\ 1 \in 0 .. 1 /\ 0 \in 0 .. 3
        BY <2>1, <3>2
      <4> QED
        BY <3>2, <4>1
    <3>3. CASE sides /\ new # 4
      <4>1. e = [v EXCEPT !.uart = 0, !.debug = new] /\ 0 \in 0 .. 1 /\ new \in 0 .. 3
        BY <2>1, <2>2, <3>3
      <4> QED
        BY <3>3, <4>1
    <3> QED
      BY <3>1, <3>2, <3>3
  <2>5. CASE e = v
    BY <2>5
  <2>6. CASE e # v
    <3>1. sides
      BY <2>4, <2>6
    <3>2. PICK u \in 0 .. 1, d \in 0 .. 3 : e = [v EXCEPT !.uart = u, !.debug = d]
      BY <2>4, <2>6
    <3>3. /\ e \in [AllFields -> Int] /\ e.uart = u /\ e.debug = d
          /\ \A h \in AllFields : h \notin {"uart", "debug"} => e[h] = v[h]
      <4>1. "uart" \in AllFields /\ "debug" \in AllFields /\ u \in Int /\ d \in Int
        BY DEF AllFields, GlobalFields
      <4> QED
        BY <1>0, <3>2, <4>1
    <3>4. Legal(e)
      BY <3>3 DEF Legal, AllFields, GlobalFields, GameFields, ScreenFields
    <3> QED
      BY <1>8, <2>3, <3>1, <3>3, <3>4 DEF GlobalFields
  <2> QED
    BY <2>5, <2>6
<1>12. ASSUME row = 12
       PROVE  GoodEdit(row, v, e, Touches(row, v, p))
  <2> DEFINE by == (IF "T" \in p THEN 100 ELSE 0) - (IF "X" \in p THEN 100 ELSE 0)
             ms == IF v.ms + by < 100 THEN 100
                   ELSE IF v.ms + by > LearnMax THEN LearnMax ELSE v.ms + by
             w == IF v.skip = 2 /\ marks THEN [v EXCEPT !.ms = ms] ELSE v
             k == IF w.skip = 0 THEN 1 ELSE IF w.skip = 1 /\ w.ms > 0 THEN 2 ELSE 0
  <2>1. e = IF ~sides THEN w ELSE [w EXCEPT !.skip = k]
    BY <1>12 DEF Edited, EditVideo
  <2>2. ms \in 0 .. LearnMax /\ ms > 0
    <3>1. by \in {-100, 0, 100}
      OBVIOUS
    <3> HIDE DEF by
    <3> QED
      BY <1>0, <3>1, PageSizes
  <2>3. Touches(row, v, p) <=> sides \/ (v.skip = 2 /\ marks)
    BY <1>12 DEF Touches
  <2> HIDE DEF ms, e, sides, marks
  <2>4. Legal(w) /\ \A f \in AllFields : f # "ms" => w[f] = v[f]
    BY <2>2, PageSizes DEF Legal, AllFields, GlobalFields, GameFields, ScreenFields
  <2>5. ~(v.skip = 2 /\ marks) => w = v
    OBVIOUS
  <2> HIDE DEF w
  <2>6. k \in 0 .. 2 /\ (k = 2 => w.ms > 0)
    OBVIOUS
  <2> HIDE DEF k
  <2>7. Legal(e)
    BY <2>1, <2>4, <2>6 DEF Legal, AllFields, GlobalFields, GameFields, ScreenFields
  <2>8. \A f \in AllFields : f \notin {"ms", "skip"} => e[f] = v[f]
    BY <2>1, <2>4 DEF Legal
  <2> QED
    BY <1>12, <2>1, <2>3, <2>5, <2>7, <2>8 DEF GameFields
<1>14. ASSUME row \notin {1, 2, 3, 4, 5, 6, 7, 8, 12, 13}
       PROVE  GoodEdit(row, v, e, Touches(row, v, p))
  <2>1. e = v
    BY <1>14 DEF Edited
  <2> QED
    BY <2>1
<1> QED
  BY <1>1, <1>2, <1>3, <1>5, <1>6, <1>7, <1>8, <1>12, <1>14

\* What a repeating setting counts, and the files that can be marked.
Holds == [n : 0 .. 25, dir : -1 .. 1]
Marks == {"global", "game", "chart"}

\* One sample of a held direction ...
LEMMA HoldFits ==
  ASSUME NEW h \in Holds, NEW dir \in -1 .. 1
  PROVE  StepOf(h, dir) \in -1 .. 1 /\ HoldOf(h, dir) \in Holds
BY DEF Holds, StepOf, Released, HoldOf, Folded

\* ... and what its step makes of the frame limit.
LEMMA LimitFits ==
  ASSUME NEW x \in {0} \cup LimitLow .. LimitTop, NEW step \in -1 .. 1
  PROVE  /\ LimitAfter(x, step) \in {0} \cup LimitLow .. LimitTop
         /\ step = 0 => LimitAfter(x, step) = x
BY PageSizes DEF LimitAfter, LimitLow

\* A file that is not marked loads what is in memory.
Agree(w, v, marks) ==
  /\ "global" \notin marks => \A f \in GlobalFields : LoadGlobal(f, w) = v[f]
  /\ "game" \notin marks => \A f \in GameFields : LoadGame(f, w) = v[f]
  /\ "chart" \notin marks => \A f \in ScreenFields : LoadScreen(f, w) = v[f]

\* Nothing marked: the next boot loads what is in memory.
LEMMA LoadedMeans ==
  ASSUME NEW w, NEW v, v \in [AllFields -> Int]
  PROVE  Loaded(w) = v <=> Agree(w, v, {})
<1>1. GlobalFields \cap GameFields = {} /\ (GlobalFields \cup GameFields) \cap ScreenFields = {}
  BY DEF GlobalFields, GameFields, ScreenFields
<1>2. AllFields = GlobalFields \cup GameFields \cup ScreenFields
  BY DEF AllFields
<1>3. \A f \in AllFields : Loaded(w)[f] = IF f \in GlobalFields THEN LoadGlobal(f, w)
                            ELSE IF f \in GameFields THEN LoadGame(f, w) ELSE LoadScreen(f, w)
  BY DEF Loaded
<1>4. Loaded(w) = [f \in AllFields |-> Loaded(w)[f]] /\ v = [f \in AllFields |-> v[f]]
  BY DEF Loaded
<1>5. Loaded(w) = v <=> \A f \in AllFields : Loaded(w)[f] = v[f]
  BY <1>4
<1>6. ASSUME \A f \in AllFields : Loaded(w)[f] = v[f]
      PROVE  Agree(w, v, {})
  BY <1>1, <1>2, <1>3, <1>6 DEF Agree
<1>7. ASSUME Agree(w, v, {}), NEW f \in AllFields
      PROVE  Loaded(w)[f] = v[f]
  BY <1>1, <1>2, <1>3, <1>7 DEF Agree
<1> QED
  BY <1>5, <1>6, <1>7

\* Writing what is marked makes the files agree.
LEMMA WrittenAgrees ==
  ASSUME NEW v, Legal(v), NEW marks \in SUBSET Marks, NEW some \in SUBSET marks,
         Agree(file, v, marks)
  PROVE  Agree(Written(some, v), v, marks \ some)
<1> DEFINE u == Written(some, v)
           S == UNION {IF m = "global" THEN GlobalFields ELSE IF m = "game" THEN GameFields
                       ELSE ScreenFields : m \in some}
<1>1. GlobalFields \cap GameFields = {} /\ (GlobalFields \cup GameFields) \cap ScreenFields = {}
      /\ GlobalFields \subseteq AllFields /\ GameFields \subseteq AllFields
      /\ ScreenFields \subseteq AllFields
  BY DEF AllFields, GlobalFields, GameFields, ScreenFields
<1>2. /\ \A f \in GlobalFields : f \in S <=> "global" \in some
      /\ \A f \in GameFields : f \in S <=> "game" \in some
      /\ \A f \in ScreenFields : f \in S <=> "chart" \in some
  BY <1>1 DEF Marks
<1>3. \A f \in AllFields : u[f] = IF f \in S THEN v[f] ELSE file[f]
  BY DEF Written
<1> HIDE DEF u, S
<1>4. ASSUME "global" \notin marks \ some PROVE \A f \in GlobalFields : LoadGlobal(f, u) = v[f]
  <2>1. CASE "global" \in some
    <3>1. \A f \in GlobalFields : u[f] = v[f]
      BY <1>1, <1>2, <1>3, <2>1
    <3> QED
      BY <3>1, LoadsLegal
  <2>2. CASE "global" \notin some
    <3>1. \A f \in GlobalFields : u[f] = file[f]
      BY <1>1, <1>2, <1>3, <2>2
    <3>2. \A f \in GlobalFields : LoadGlobal(f, u) = LoadGlobal(f, file)
      BY <3>1, LoadsByFile
    <3> QED
      BY <1>4, <2>2, <3>2 DEF Agree
  <2> QED
    BY <2>1, <2>2
<1>5. ASSUME "game" \notin marks \ some PROVE \A f \in GameFields : LoadGame(f, u) = v[f]
  <2>1. CASE "game" \in some
    <3>1. \A f \in GameFields : u[f] = v[f]
      BY <1>1, <1>2, <1>3, <2>1
    <3> QED
      BY <3>1, LoadsLegal
  <2>2. CASE "game" \notin some
    <3>1. \A f \in GameFields : u[f] = file[f]
      BY <1>1, <1>2, <1>3, <2>2
    <3>2. \A f \in GameFields : LoadGame(f, u) = LoadGame(f, file)
      BY <3>1, LoadsByFile
    <3> QED
      BY <1>5, <2>2, <3>2 DEF Agree
  <2> QED
    BY <2>1, <2>2
<1>6. ASSUME "chart" \notin marks \ some PROVE \A f \in ScreenFields : LoadScreen(f, u) = v[f]
  <2>1. CASE "chart" \in some
    <3>1. \A f \in ScreenFields : u[f] = v[f]
      BY <1>1, <1>2, <1>3, <2>1
    <3> QED
      BY <3>1, LoadsLegal
  <2>2. CASE "chart" \notin some
    <3>1. \A f \in ScreenFields : u[f] = file[f]
      BY <1>1, <1>2, <1>3, <2>2
    <3>2. \A f \in ScreenFields : LoadScreen(f, u) = LoadScreen(f, file)
      BY <3>1, LoadsByFile
    <3> QED
      BY <1>6, <2>2, <3>2 DEF Agree
  <2> QED
    BY <2>1, <2>2
<1> QED
  BY <1>4, <1>5, <1>6 DEF Agree, u

\* The places of the page; the chart's file is written before the page goes on.
PlaceTypes ==
  /\ at \in {"game", "rows", "clock", "chart"} /\ hold \in Holds /\ dirty \in SUBSET Marks
  /\ at \in {"rows", "clock"} => "chart" \notin dirty
  /\ at = "chart" => group \in {"gamma", "temp"}

\* Behind the page every file is written, on it every file but the marked ones.
Stored == IF at = "game" THEN Agree(file, val, {}) ELSE Agree(file, val, dirty)

\* What the history of a press says of the hold it follows: how far the press is, and what it
\* has done by then.
Followed(q, h) ==
  /\ q.dir \in -1 .. 1 /\ q.n \in 0 .. 9 /\ q.steps \in 0 .. 2
  /\ q.clean /\ q.dir = 0
     => h.n = 0 /\ (q.n \in 1 .. 8 => q.steps = 1) /\ (q.n >= 9 => q.steps = 2)
  /\ q.clean /\ q.dir # 0
     => /\ h.dir = q.dir /\ h.n \in 1 .. 25 /\ q.n = (IF h.n < 9 THEN h.n ELSE 9)
        /\ q.steps = (IF h.n < 5 THEN 0 ELSE IF h.n < 9 THEN 1 ELSE 2)

PressInv == Followed(press, hold) /\ (at # "chart" /\ group # "limit" => ~press.clean)

KeptInv == PlaceTypes /\ Legal(val) /\ Stored /\ PressInv

\* A sample that the hold counts, and ...
LEMMA PressGoesOn ==
  ASSUME Followed(press, hold), hold \in Holds, NEW d \in -1 .. 1
  PROVE  Followed(NextPress(d, StepOf(hold, d), TRUE), HoldOf(hold, d))
<1> DEFINE step == StepOf(hold, d)
           h == HoldOf(hold, d)
           q == NextPress(d, step, TRUE)
           fresh == d # 0 /\ d # press.dir
           goes == IF fresh THEN hold.dir # d ELSE press.clean
           n0 == IF fresh THEN 0 ELSE press.n
           s0 == IF fresh THEN 0 ELSE press.steps
           n1 == IF d = 0 THEN n0 ELSE IF n0 < 9 THEN n0 + 1 ELSE 9
           s1 == IF step = 0 THEN s0 ELSE IF s0 < 2 THEN s0 + 1 ELSE 2
<1>1. /\ press.dir \in -1 .. 1 /\ press.n \in 0 .. 9 /\ press.steps \in 0 .. 2
      /\ hold.n \in 0 .. 25 /\ hold.dir \in -1 .. 1
  BY DEF Followed, Holds
<1>2. /\ q.dir = d
      /\ goes => q.n = n1 /\ q.steps = s1
      /\ ~goes => q.n = 0 /\ q.steps = 0 /\ ~q.clean
  <2>1. CASE goes
    <3>1. q = [dir |-> d, n |-> n1, steps |-> s1, clean |-> TRUE]
      BY <1>1, <2>1 DEF NextPress, NoPress
    <3> HIDE DEF q, n1, s1, goes
    <3> QED
      BY <2>1, <3>1
  <2>2. CASE ~goes
    <3>1. q = [NoPress EXCEPT !.dir = d]
      BY <2>2 DEF NextPress
    <3>2. q.dir = d /\ q.n = 0 /\ q.steps = 0 /\ q.clean = FALSE
      BY <3>1 DEF NoPress
    <3> QED
      BY <2>2, <3>2
  <2> QED
    BY <2>1, <2>2
<1>3. CASE ~goes
  <2> HIDE DEF q, goes, h
  <2>1. q.dir = d /\ q.n = 0 /\ q.steps = 0 /\ ~q.clean
    BY <1>2, <1>3
  <2>2. Followed(q, h)
    BY <2>1 DEF Followed
  <2> QED
    BY <2>2 DEF q, h, step
<1>4. CASE goes /\ fresh
  <2>1. h.n = 1 /\ h.dir = d /\ step = 0
    BY <1>1, <1>4 DEF HoldOf, StepOf, Folded, Fires
  <2>2. n1 = 1 /\ s1 = 0 /\ d # 0
    BY <1>4, <2>1
  <2> HIDE DEF h, q, step, n1, s1, goes
  <2>3. q.n = 1 /\ q.steps = 0 /\ q.dir = d
    BY <1>2, <1>4, <2>2
  <2>4. Followed(q, h)
    BY <2>1, <2>2, <2>3 DEF Followed
  <2> QED
    BY <2>4 DEF q, h, step
<1>5. CASE goes /\ ~fresh /\ d # 0
  <2> DEFINE n == hold.n + 1
  <2>1. press.clean /\ press.dir = d
    BY <1>5
  <2>2. /\ hold.dir = d /\ hold.n \in 1 .. 25 /\ press.n = (IF hold.n < 9 THEN hold.n ELSE 9)
        /\ press.steps = (IF hold.n < 5 THEN 0 ELSE IF hold.n < 9 THEN 1 ELSE 2)
    BY <1>5, <2>1 DEF Followed
  <2>3. h.n = Folded(n) /\ h.dir = d /\ (step = IF Fires(n) THEN d ELSE 0)
    BY <1>5, <2>2 DEF HoldOf, StepOf
  <2>4. /\ n \in 2 .. 26 /\ Folded(n) \in 1 .. 25
        /\ n < 9 => Folded(n) = n
        /\ n >= 9 => Folded(n) >= 9
    BY <2>2 DEF Folded
  <2>5. /\ n < 5 => ~Fires(n)
        /\ n = 5 => Fires(n)
        /\ n \in 6 .. 8 => ~Fires(n)
        /\ n = 9 => Fires(n)
    BY <2>2 DEF Fires
  <2>6. q.n = (IF press.n < 9 THEN press.n + 1 ELSE 9)
        /\ q.steps = (IF step = 0 THEN press.steps
                      ELSE IF press.steps < 2 THEN press.steps + 1 ELSE 2)
    BY <1>2, <1>5
  <2> HIDE DEF h, q, step
  <2>7. q.n = (IF h.n < 9 THEN h.n ELSE 9)
    BY <2>2, <2>3, <2>4, <2>6
  <2>8. q.steps = (IF h.n < 5 THEN 0 ELSE IF h.n < 9 THEN 1 ELSE 2)
    BY <1>5, <2>2, <2>3, <2>4, <2>5, <2>6
  <2>9. Followed(q, h)
    BY <1>2, <1>5, <2>2, <2>3, <2>4, <2>7, <2>8 DEF Followed
  <2> QED
    BY <2>9 DEF q, h, step
<1>6. CASE goes /\ d = 0
  <2>1. press.clean
    BY <1>6
  <2>2. h.n = 0 /\ step = Released(hold)
    BY <1>6 DEF HoldOf, StepOf
  <2>3. q.n = press.n
        /\ q.steps = (IF step = 0 THEN press.steps
                      ELSE IF press.steps < 2 THEN press.steps + 1 ELSE 2)
    BY <1>2, <1>6
  <2> HIDE DEF h, q, step
  <2>4. (q.n \in 1 .. 8 => q.steps = 1) /\ (q.n >= 9 => q.steps = 2)
    BY <1>1, <2>1, <2>2, <2>3 DEF Followed, Released
  <2>5. q.n \in 0 .. 9 /\ q.steps \in 0 .. 2
    BY <1>1, <2>3
  <2>6. Followed(q, h)
    BY <1>2, <1>6, <2>2, <2>4, <2>5 DEF Followed
  <2> QED
    BY <2>6 DEF q, h, step
<1> QED
  BY <1>3, <1>4, <1>5, <1>6

\* ... one that it does not, after which the press is no longer followed.
LEMMA PressCut ==
  ASSUME NEW d \in -1 .. 1, NEW step, NEW h
  PROVE  Followed(NextPress(d, step, FALSE), h) /\ ~NextPress(d, step, FALSE).clean
<1>1. NextPress(d, step, FALSE) = [NoPress EXCEPT !.dir = d]
  BY DEF NextPress
<1> DEFINE q == NextPress(d, step, FALSE)
<1>2. q.dir = d /\ q.n = 0 /\ q.steps = 0 /\ q.clean = FALSE
  BY <1>1 DEF NoPress
<1> HIDE DEF q
<1>3. Followed(q, h) /\ ~q.clean
  BY <1>2 DEF Followed
<1> QED
  BY <1>3 DEF q

\* One iteration of the page: an edit marks its file, leaving writes the marked ones.
LEMMA RowKeeps ==
  ASSUME KeptInv, NEW pad \in Keys, Row(pad)
  PROVE  KeptInv'
<1>0. at = "rows" /\ hold \in Holds /\ dirty \in SUBSET Marks /\ "chart" \notin dirty
      /\ Agree(file, val, dirty) /\ Legal(val) /\ group' = group
     /\ PressInv
  BY DEF Row, KeptInv, PlaceTypes, Stored
<1> DEFINE new == pad \ prev
           row == Walked(sel, new)
           onward == row # sel
           P(w) == IF w > 0 THEN new \ {"L", "R"} ELSE new
           Held(w) == IF w > 0 THEN pad \ {"L", "R"} ELSE pad
           help == "E" \in new
           St(w) == IF row = 11 /\ ~help THEN StepOf(hold, Sign(Held(w), "L", "R")) ELSE 0
           V0(w) == [val EXCEPT !.limit = LimitAfter(@, St(w))]
           V(w) == Edited(row, V0(w), P(w))
           M(w) == dirty \cup (IF help THEN {} ELSE Marked(row, val, P(w), St(w)))
<1> DEFINE d == Sign(pad, "L", "R")
<1>1. PICK w \in IF onward THEN {2} ELSE IF window = 2 THEN {0, 1} ELSE {0} :
        /\ at = "rows" /\ row \in Reach[group] /\ sel' = row /\ window' = w
        /\ row \notin RowsOf[group] \/ row = 9 \/ (row = 7 /\ "X" \in P(w))
             => P(w) \cap {"L", "R", "T", "X"} = {}
        /\ row = 11 /\ group # "limit" => pad \cap {"L", "R"} = {}
        /\ prev' \in IF help THEN {{}, {"R"}} ELSE {pad}
        /\ hold' = IF row = 11 /\ ~help THEN HoldOf(hold, Sign(Held(w), "L", "R")) ELSE hold
        /\ val' = IF help THEN val ELSE V(w)
        /\ press' = IF group = "limit"
                    THEN NextPress(d, St(w), row = 11 /\ ~onward /\ w = 0 /\ ~help) ELSE press
        /\ phantom' = (phantom \/ (St(w) # 0 /\ d = 0 /\ press.dir = 0))
        /\ dirty' = M(w)
        /\ IF "O" \in P(w) /\ ~help THEN at' = "game" /\ file' = Written(M(w), V(w))
           ELSE UNCHANGED <<at, file>>
        /\ UNCHANGED group
  BY Zenon DEF Row
<1> DEFINE p == P(w)
           dir == Sign(Held(w), "L", "R")
           step == St(w)
           v0 == V0(w)
           e == V(w)
           marks == M(w)
<1>2. dir \in -1 .. 1
  BY DEF Sign
<1>3. step \in -1 .. 1 /\ (row # 11 => step = 0) /\ hold' \in Holds
  <2>1. StepOf(hold, dir) \in -1 .. 1 /\ HoldOf(hold, dir) \in Holds
    BY <1>0, <1>2, HoldFits
  <2>2. hold' = IF row = 11 /\ ~help THEN HoldOf(hold, dir) ELSE hold
    BY <1>1
  <2>3. step = IF row = 11 /\ ~help THEN StepOf(hold, dir) ELSE 0
    OBVIOUS
  <2> HIDE DEF dir, row, help, step
  <2> QED
    BY <1>0, <2>1, <2>2, <2>3
<1>4. /\ v0 \in [AllFields -> Int] /\ v0.limit = LimitAfter(val.limit, step)
      /\ \A f \in AllFields : f # "limit" => v0[f] = val[f]
  <2>1. "limit" \in AllFields /\ val \in [AllFields -> Int]
    BY <1>0 DEF AllFields, GameFields, Legal
  <2>2. LimitAfter(val.limit, step) \in Int
    BY <1>0, <1>3, LimitFits DEF Legal, LimitLow
  <2>3. v0 = [val EXCEPT !.limit = LimitAfter(val.limit, step)]
    BY <2>1
  <2> HIDE DEF v0, step
  <2> QED
    BY <2>1, <2>2, <2>3
<1>5. Legal(v0) /\ (step = 0 => \A f \in AllFields : v0[f] = val[f])
  <2>1. val.limit \in {0} \cup LimitLow .. LimitTop
    BY <1>0 DEF Legal
  <2>2. v0.limit \in {0} \cup LimitLow .. LimitTop /\ (step = 0 => v0.limit = val.limit)
    BY <1>3, <1>4, <2>1, LimitFits
  <2> HIDE DEF v0, step
  <2>3. Legal(v0)
    BY <1>0, <1>4, <2>2 DEF Legal, AllFields, GlobalFields, GameFields, ScreenFields
  <2> QED
    BY <1>4, <2>2, <2>3
<1>6. GoodEdit(row, v0, e, Touches(row, v0, p))
  BY <1>5, EditFits
<1>7. Touches(row, v0, p) <=> Touches(row, val, p)
  <2>1. v0.mode = val.mode /\ v0.oc = val.oc /\ v0.skip = val.skip
    BY <1>4 DEF AllFields, GlobalFields, GameFields
  <2> HIDE DEF v0, p, row
  <2> QED
    BY <2>1 DEF Touches
<1>8. marks = dirty \cup (IF help THEN {} ELSE Marked(row, val, p, step))
  OBVIOUS
<1>9. row \in {12, 13} => step = 0
  BY <1>3
<1> DEFINE ok == row = 11 /\ ~onward /\ w = 0 /\ ~help
<1>15. /\ group = "limit" => press' = NextPress(d, step, ok)
       /\ group # "limit" => press' = press
  BY <1>1
<1>16. ok => dir = d /\ step = StepOf(hold, d) /\ hold' = HoldOf(hold, d)
  BY <1>1
<1>17. PressInv'
  <2>0. d \in -1 .. 1
    BY DEF Sign
  <2> HIDE DEF ok, d, step, dir
  <2>1. CASE group = "limit" /\ ok
    <3>1. press' = NextPress(d, step, TRUE)
      BY <1>15, <2>1 DEF NextPress
    <3>2. Followed(press', hold')
      BY <1>0, <1>16, <2>0, <2>1, <3>1, PressGoesOn DEF PressInv
    <3> QED
      BY <1>0, <2>1, <3>2 DEF PressInv
  <2>2. CASE group = "limit" /\ ~ok
    <3>1. press' = NextPress(d, step, FALSE)
      BY <1>15, <2>2 DEF NextPress
    <3>2. Followed(press', hold')
      BY <2>0, <3>1, PressCut
    <3> QED
      BY <1>0, <2>2, <3>2 DEF PressInv
  <2>3. CASE group # "limit"
    <3>1. press' = press /\ ~press.clean
      BY <1>0, <1>15, <2>3 DEF PressInv
    <3> QED
      BY <1>0, <2>3, <3>1 DEF PressInv, Followed
  <2> QED
    BY <2>1, <2>2, <2>3
<1> HIDE DEF ok, d, p, dir, step, v0, e, marks, help, row, new, onward, P, Held, St, V0, V, M
<1>10. marks \in SUBSET Marks /\ "chart" \notin marks /\ dirty \subseteq marks
  BY <1>0, <1>8 DEF Marked, Marks
<1>11. Legal(val') /\ Agree(file, val', marks)
  <2>1. CASE help
    <3>1. val' = val /\ marks = dirty
      BY <1>1, <1>8, <2>1
    <3> QED
      BY <1>0, <3>1
  <2>2. CASE ~help
    <3>1. val' = e
      BY <1>1, <2>2 DEF e
    <3>2. Legal(e)
      BY <1>6 DEF GoodEdit
    <3>3. ASSUME "global" \notin marks, NEW f \in GlobalFields
          PROVE  e[f] = val[f]
      <4>1. f \in AllFields /\ f # "limit" /\ f \notin GameFields
        BY DEF AllFields, GlobalFields, GameFields
      <4>2. row \in {12, 13} \/ ~Touches(row, v0, p)
        BY <1>7, <1>8, <2>2, <3>3 DEF Marked
      <4>3. e[f] = v0[f]
        BY <1>6, <4>1, <4>2 DEF GoodEdit
      <4> QED
        BY <1>4, <4>1, <4>3
    <3>4. ASSUME "game" \notin marks, NEW f \in GameFields
          PROVE  e[f] = val[f]
      <4>1. f \in AllFields /\ f \notin GlobalFields
        BY DEF AllFields, GlobalFields, GameFields
      <4>2. step = 0 /\ (row \notin {12, 13} \/ ~Touches(row, v0, p))
        BY <1>7, <1>8, <2>2, <3>4 DEF Marked
      <4>3. e[f] = v0[f]
        BY <1>6, <4>1, <4>2 DEF GoodEdit
      <4> QED
        BY <1>5, <4>1, <4>2, <4>3
    <3>5. ASSUME NEW f \in ScreenFields
          PROVE  e[f] = val[f]
      <4>1. f \in AllFields /\ f # "limit" /\ f \notin GameFields /\ f \notin GlobalFields
        BY DEF AllFields, GlobalFields, GameFields, ScreenFields
      <4>3. e[f] = v0[f]
        BY <1>6, <4>1 DEF GoodEdit
      <4> QED
        BY <1>4, <4>1, <4>3
    <3> QED
      BY <1>0, <1>10, <3>1, <3>2, <3>3, <3>4, <3>5 DEF Agree
  <2> QED
    BY <2>1, <2>2
<1>12. dirty' = marks
  BY <1>1 DEF marks
<1>13. CASE "O" \in p /\ ~help
  <2>1. at' = "game" /\ file' = Written(marks, e) /\ val' = e
    BY <1>1, <1>13 DEF p, marks, e
  <2>2. Agree(file', val', marks \ marks)
    BY <1>10, <1>11, <2>1, WrittenAgrees
  <2>3. marks \ marks = {}
    OBVIOUS
  <2> QED
    BY <1>3, <1>10, <1>11, <1>12, <1>17, <2>1, <2>2, <2>3 DEF KeptInv, PlaceTypes, Stored
<1>14. CASE ~("O" \in p /\ ~help)
  <2>1. at' = "rows" /\ file' = file
    BY <1>0, <1>1, <1>14 DEF p
  <2> QED
    BY <1>3, <1>10, <1>11, <1>12, <1>17, <2>1 DEF KeptInv, PlaceTypes, Stored
<1> QED
  BY <1>13, <1>14

\* Opening the page reads this game's settings again, and finds the ones in memory.
LEMMA OpenKeeps ==
  ASSUME KeptInv, Open
  PROVE  KeptInv'
<1>1. /\ at = "game" /\ at' = "rows" /\ hold' = [n |-> 0, dir |-> 0] /\ dirty' = {}
      /\ val' = [f \in AllFields |-> IF f \in GameFields THEN LoadGame(f, file) ELSE val[f]]
      /\ press' = NoPress /\ group' = group /\ file' = file
  BY DEF Open
<1>2. Legal(val) /\ Agree(file, val, {})
  BY <1>1 DEF KeptInv, Stored
<1>3. val \in [AllFields -> Int] /\ GameFields \subseteq AllFields
  BY <1>2 DEF Legal, AllFields
<1>4. \A f \in GameFields : LoadGame(f, file) = val[f]
  BY <1>2 DEF Agree
<1>5. val' = val
  <2>1. val' = [f \in AllFields |-> val[f]]
    BY <1>1, <1>3, <1>4
  <2> QED
    BY <1>3, <2>1
<1>6. PressInv' /\ hold' \in Holds
  BY <1>1 DEF PressInv, Followed, NoPress, Holds
<1> QED
  BY <1>1, <1>2, <1>5, <1>6 DEF KeptInv, PlaceTypes, Stored

\* The sub-page and the chart begin with nothing changed.
LEMMA EnterKeeps ==
  ASSUME KeptInv, Enter
  PROVE  KeptInv'
<1>1. /\ at = "rows" /\ UNCHANGED <<group, val, file, dirty>>
      /\ \/ group = "clock" /\ at' = "clock" /\ UNCHANGED <<hold, press>>
         \/ /\ group \in {"gamma", "temp"} /\ at' = "chart"
            /\ hold' = [n |-> 0, dir |-> 0] /\ press' = NoPress
  BY DEF Enter
<1>2. Legal(val) /\ Agree(file, val, dirty) /\ PressInv /\ PlaceTypes
  BY <1>1 DEF KeptInv, Stored
<1>3. PressInv' /\ hold' \in Holds
  <2>1. CASE group = "clock" /\ at' = "clock" /\ UNCHANGED <<hold, press>>
    BY <1>1, <1>2, <2>1 DEF PressInv, PlaceTypes
  <2>2. CASE /\ group \in {"gamma", "temp"} /\ at' = "chart"
             /\ hold' = [n |-> 0, dir |-> 0] /\ press' = NoPress
    BY <2>2 DEF PressInv, Followed, NoPress, Holds
  <2> QED
    BY <1>1, <2>1, <2>2
<1>4. at' \in {"clock", "chart"} /\ (at' = "chart" => group' \in {"gamma", "temp"})
  BY <1>1
<1> QED
  BY <1>1, <1>2, <1>3, <1>4 DEF KeptInv, PlaceTypes, Stored

\* The sub-page edits the settings of settings.cfg and marks it.
LEMMA ClockKeeps ==
  ASSUME KeptInv, NEW pad \in Keys, Clock(pad)
  PROVE  KeptInv'
<1> DEFINE p == pad \ prev
           sides == p \cap {"L", "R"} # {}
           pressed == p \cap {"L", "R", "X"} # {}
           e == EditClock(val, p \cap {"L", "R"})
           flipped == [val EXCEPT !.stable = 1 - @]
<1>1. /\ at = "clock"
      /\ val' \in {IF sides THEN e ELSE val} \cup (IF pressed THEN {flipped} ELSE {})
      /\ dirty' = IF pressed THEN dirty \cup {"global"} ELSE dirty
      /\ at' \in {"rows", "clock"} /\ UNCHANGED <<group, file, hold, press>>
  BY DEF Clock
<1>2. Legal(val) /\ Agree(file, val, dirty) /\ PressInv /\ PlaceTypes
  BY <1>1 DEF KeptInv, Stored
<1>3. sides => pressed
  OBVIOUS
<1>4. Legal(e) /\ \A f \in AllFields \ GlobalFields : e[f] = val[f]
  BY <1>2, ClockFits DEF GoodEdit
<1>5. Legal(flipped) /\ \A f \in AllFields \ GlobalFields : flipped[f] = val[f]
  <2> DEFINE x == 1 - val.stable
  <2>1. x \in 0 .. 1 /\ val \in [AllFields -> Int] /\ "stable" \in AllFields
    BY <1>2 DEF Legal, AllFields, GlobalFields
  <2>2. flipped = [val EXCEPT !.stable = x]
    BY <2>1
  <2> HIDE DEF x, flipped
  <2>3. /\ flipped \in [AllFields -> Int] /\ flipped.stable = x
        /\ \A f \in AllFields : f # "stable" => flipped[f] = val[f]
    BY <2>1, <2>2
  <2>4. Legal(flipped)
    BY <1>2, <2>1, <2>3 DEF Legal, AllFields, GlobalFields, GameFields, ScreenFields
  <2> QED
    BY <2>3, <2>4 DEF GlobalFields
<1> HIDE DEF e, flipped, sides, pressed
<1>6. /\ Legal(val')
      /\ \A f \in AllFields \ GlobalFields : val'[f] = val[f]
      /\ ~pressed => val' = val
  BY <1>1, <1>2, <1>3, <1>4, <1>5
<1>7. Agree(file, val', dirty')
  <2>1. CASE pressed
    <3>1. dirty' = dirty \cup {"global"}
      BY <1>1, <2>1
    <3>2. /\ \A f \in GameFields : f \in AllFields \ GlobalFields
          /\ \A f \in ScreenFields : f \in AllFields \ GlobalFields
      BY DEF AllFields, GlobalFields, GameFields, ScreenFields
    <3> QED
      BY <1>2, <1>6, <3>1, <3>2 DEF Agree
  <2>2. CASE ~pressed
    BY <1>1, <1>2, <1>6, <2>2
  <2> QED
    BY <2>1, <2>2
<1>8. dirty' \in SUBSET Marks /\ "chart" \notin dirty'
  BY <1>1, <1>2 DEF PlaceTypes, Marks
<1>9. PressInv'
  BY <1>1, <1>2 DEF PressInv
<1> QED
  BY <1>1, <1>2, <1>6, <1>7, <1>8, <1>9 DEF KeptInv, PlaceTypes, Stored

\* A setting of the chart within its range, the others untouched ...
LEMMA ScreenFits ==
  ASSUME NEW v, Legal(v), NEW f \in ScreenFields, NEW x \in Int,
         x \in (IF f = "gamma" THEN GammaLow .. GammaTop ELSE 0 .. TempTop)
  PROVE  /\ Legal([v EXCEPT ![f] = x])
         /\ \A h \in AllFields \ ScreenFields : [v EXCEPT ![f] = x][h] = v[h]
<1> DEFINE e == [v EXCEPT ![f] = x]
<1>1. v \in [AllFields -> Int] /\ f \in AllFields /\ f \in {"gamma", "temp"}
  BY DEF Legal, AllFields, ScreenFields
<1>2. e \in [AllFields -> Int] /\ e[f] = x /\ \A h \in AllFields : h # f => e[h] = v[h]
  BY <1>1
<1> HIDE DEF e
<1>3. Legal(e)
  <2>1. CASE f = "gamma"
    BY <1>1, <1>2, <2>1 DEF Legal, AllFields, GlobalFields, GameFields, ScreenFields
  <2>2. CASE f = "temp"
    BY <1>1, <1>2, <2>2 DEF Legal, AllFields, GlobalFields, GameFields, ScreenFields
  <2> QED
    BY <1>1, <2>1, <2>2
<1>4. \A h \in AllFields \ ScreenFields : e[h] = v[h]
  BY <1>1, <1>2 DEF ScreenFields
<1> QED
  BY <1>3, <1>4 DEF e

\* ... which one step does not leave.
LEMMA InsideFits ==
  ASSUME NEW lo \in Int, NEW hi \in Int, NEW x \in lo .. hi, NEW step
  PROVE  Inside(x, step, lo, hi) \in lo .. hi
BY DEF Inside

\* The chart edits the settings of screen.cfg, marks it, and writes it when it is left.
LEMMA ChartKeeps ==
  ASSUME KeptInv, NEW pad \in Keys, Chart(pad)
  PROVE  KeptInv'
<1> DEFINE p == pad \ prev
           dir == IF group = "temp" THEN Sign(pad, "L", "R") ELSE Sign(pad, "D", "U")
           step == StepOf(hold, dir)
           v == IF group = "temp" THEN [val EXCEPT !.temp = TempAfter(@, step)]
                ELSE [val EXCEPT !.gamma = GammaAfter(@, step)]
           changed == v # val
           marks == dirty \cup (IF changed THEN {"chart"} ELSE {})
           ends == p \cap {"T", "O"} # {}
<1>1. /\ at = "chart" /\ val' = v /\ group' = group
      /\ hold' = (IF ends THEN [n |-> 0, dir |-> 0] ELSE HoldOf(hold, dir))
      /\ press' = (IF ends THEN NoPress ELSE NextPress(dir, step, TRUE))
      /\ at' = (IF ends THEN "rows" ELSE "chart")
      /\ file' = (IF ends THEN Written(marks \cap {"chart"}, v) ELSE file)
      /\ dirty' = (IF ends /\ "chart" \in marks THEN {"global"} \cup (marks \ {"chart"}) ELSE marks)
  BY Zenon DEF Chart
<1>2. Legal(val) /\ Agree(file, val, dirty) /\ PressInv /\ PlaceTypes /\ hold \in Holds
      /\ group \in {"gamma", "temp"} /\ dirty \in SUBSET Marks
  BY <1>1 DEF KeptInv, Stored, PlaceTypes
<1>3. dir \in -1 .. 1
  BY DEF Sign
<1>4. step \in -1 .. 1 /\ HoldOf(hold, dir) \in Holds
  <2> HIDE DEF dir
  <2> QED
    BY <1>2, <1>3, HoldFits
<1>5. Legal(v) /\ \A f \in AllFields \ ScreenFields : v[f] = val[f]
  <2> HIDE DEF step
  <2>0. /\ val \in [AllFields -> Int] /\ "temp" \in ScreenFields /\ "gamma" \in ScreenFields
        /\ ScreenFields \subseteq AllFields
        /\ val.temp \in 0 .. TempTop /\ val.gamma \in GammaLow .. GammaTop
    BY <1>2 DEF Legal, AllFields, ScreenFields
  <2>1. CASE group = "temp"
    <3> DEFINE x == TempAfter(val.temp, step)
    <3>1. v = [val EXCEPT !.temp = x]
      BY <2>0, <2>1
    <3>2. x \in 0 .. TempTop /\ x \in Int
      <4>1. 0 \in Int /\ TempTop \in Int /\ val.temp \in 0 .. TempTop
        BY <2>0, PageSizes
      <4>2. x \in 0 .. TempTop
        BY <4>1, InsideFits DEF TempAfter
      <4> QED
        BY <4>1, <4>2
    <3> HIDE DEF x, v
    <3> QED
      BY <1>2, <2>0, <3>1, <3>2, ScreenFits
  <2>2. CASE group # "temp"
    <3> DEFINE x == GammaAfter(val.gamma, step)
    <3>1. v = [val EXCEPT !.gamma = x]
      BY <2>0, <2>2
    <3>2. x \in GammaLow .. GammaTop /\ x \in Int
      <4>1. GammaLow \in Int /\ GammaTop \in Int /\ val.gamma \in GammaLow .. GammaTop
        BY <2>0, PageSizes
      <4>2. x \in GammaLow .. GammaTop
        BY <4>1, InsideFits DEF GammaAfter
      <4> QED
        BY <4>1, <4>2
    <3> HIDE DEF x, v
    <3> QED
      BY <1>2, <2>0, <3>1, <3>2, ScreenFits
  <2> QED
    BY <2>1, <2>2
<1>6. marks \in SUBSET Marks /\ dirty \subseteq marks /\ (v # val => "chart" \in marks)
  BY <1>2 DEF Marks
<1> HIDE DEF v, marks, step, changed, dir, ends
<1>7. Agree(file, v, marks)
  <2>1. /\ \A f \in GlobalFields : f \in AllFields \ ScreenFields
        /\ \A f \in GameFields : f \in AllFields \ ScreenFields
    BY DEF AllFields, GlobalFields, GameFields, ScreenFields
  <2> QED
    BY <1>2, <1>5, <1>6, <2>1 DEF Agree
<1>8. CASE ends
  <2> DEFINE some == marks \cap {"chart"}
  <2>1. /\ file' = Written(some, v) /\ val' = v /\ at' = "rows"
        /\ hold' = [n |-> 0, dir |-> 0] /\ press' = NoPress
    BY <1>1, <1>8
  <2>2. Agree(Written(some, v), v, marks \ some)
    BY <1>5, <1>6, <1>7, WrittenAgrees
  <2>3. marks \ some \subseteq dirty' /\ dirty' \in SUBSET Marks /\ "chart" \notin dirty'
    BY <1>1, <1>6, <1>8 DEF Marks
  <2>4. Agree(file', val', dirty')
    BY <2>1, <2>2, <2>3 DEF Agree
  <2>5. PressInv' /\ hold' \in Holds
    BY <2>1 DEF PressInv, Followed, NoPress, Holds
  <2> QED
    BY <1>1, <1>5, <2>1, <2>3, <2>4, <2>5 DEF KeptInv, PlaceTypes, Stored
<1>9. CASE ~ends
  <2>1. file' = file /\ val' = v /\ at' = "chart" /\ dirty' = marks /\ hold' = HoldOf(hold, dir)
        /\ press' = NextPress(dir, StepOf(hold, dir), TRUE) /\ group' = group
    BY <1>1, <1>9 DEF step
  <2>2. PressInv'
    BY <1>2, <1>3, <2>1, PressGoesOn DEF PressInv
  <2> QED
    BY <1>2, <1>4, <1>5, <1>6, <1>7, <2>1, <2>2 DEF KeptInv, PlaceTypes, Stored
<1> QED
  BY <1>8, <1>9

LEMMA PageInitially == PageInit => KeptInv
<1> SUFFICES ASSUME PageInit PROVE KeptInv
  OBVIOUS
<1>1. /\ at = "game" /\ val = Loaded(file) /\ hold = [n |-> 0, dir |-> 0]
      /\ dirty = {} /\ press = NoPress
  BY DEF PageInit
<1>2. Legal(val)
  BY <1>1, LoadedLegal
<1>3. Agree(file, val, {})
  BY <1>1, <1>2, LoadedMeans DEF Legal
<1>4. PressInv /\ hold \in Holds
  BY <1>1 DEF PressInv, Followed, NoPress, Holds
<1> QED
  BY <1>1, <1>2, <1>3, <1>4 DEF KeptInv, PlaceTypes, Stored

LEMMA PageStep == KeptInv /\ [PageNext]_pageVars => KeptInv'
<1> SUFFICES ASSUME KeptInv, [PageNext]_pageVars PROVE KeptInv'
  OBVIOUS
<1>1. CASE Open
  BY <1>1, OpenKeeps
<1>2. CASE Enter
  BY <1>2, EnterKeeps
<1>3. ASSUME NEW pad \in Keys, Row(pad) PROVE KeptInv'
  BY <1>3, RowKeeps
<1>4. ASSUME NEW pad \in Keys, Clock(pad) PROVE KeptInv'
  BY <1>4, ClockKeeps
<1>5. ASSUME NEW pad \in Keys, Chart(pad) PROVE KeptInv'
  BY <1>5, ChartKeeps
<1>6. CASE UNCHANGED pageVars
  BY <1>6 DEF pageVars, KeptInv, PlaceTypes, Stored, Agree, PressInv
<1> QED
  BY <1>1, <1>2, <1>3, <1>4, <1>5, <1>6 DEF PageNext

\* For every range of the settings and every group of rows, with odd words in the files: what
\* the page is left with is what the next boot loads, a press of a repeating direction makes
\* the steps it was held for, and a timer of the video skip has a time (load_settings,
\* save_settings, run_settings_menu and fl_repeat_fire of menu.c).
THEOREM PageIsKept == PageSpec => []PageKeeps
<1>1. KeptInv /\ [PageNext]_pageVars => KeptInv'
  BY PageStep
<1>2. KeptInv => PageKeeps
  <2> SUFFICES ASSUME KeptInv PROVE PageKeeps
    OBVIOUS
  <2>1. BootKeeps
    BY LoadedMeans DEF BootKeeps, KeptInv, Stored, Legal
  <2>2. PressSteps
    BY DEF PressSteps, KeptInv, PressInv, Followed
  <2>3. TimerHasTime
    BY DEF TimerHasTime, KeptInv, Legal
  <2> QED
    BY <2>1, <2>2, <2>3 DEF PageKeeps
<1> QED
  BY <1>1, <1>2, PageInitially, PTL DEF PageSpec


-----------------------------------------------------------------------------
(* What lies on the card and in the buffer, with the chunk a reader expects *)

Recs   == [section : Sections \cup {"pad"}, n : Nat, at : Nat, len : Nat \ {0}]
Labels == [sec : Sections, n : Nat \ {0}]

EndAt(r) == r.at + r.len
\* the chunk expected behind a record met when p was
Behind(r, p) == IF r.section = "pad" THEN p.n ELSE p.n + 1

\* one behind the other; within a section without a gap, chunk after chunk
Laid(m, p) ==
  /\ m \in Seq(Recs) /\ p \in Seq(Labels) /\ Len(p) = Len(m)
  /\ \A k \in 1 .. Len(m) : m[k].section # "pad" => m[k].section = p[k].sec /\ m[k].n = p[k].n
  /\ \A j, k \in 1 .. Len(m) : j < k => EndAt(m[j]) <= m[k].at
  /\ \A k \in 1 .. Len(m) - 1 : p[k + 1].sec = p[k].sec =>
       m[k + 1].at = EndAt(m[k]) /\ p[k + 1].n = Behind(m[k], p[k])

\* q may follow p
Joins(m, p, a, q) ==
  m # <<>> /\ a # <<>> =>
    LET i == Len(m)
    IN /\ EndAt(m[i]) <= a[1].at
       /\ q[1].sec = p[i].sec => a[1].at = EndAt(m[i]) /\ q[1].n = Behind(m[i], p[i])

LEMMA Recs1 == ASSUME NEW r \in Recs
  PROVE r.at \in Nat /\ r.len \in Nat /\ r.len > 0 /\ r.n \in Nat /\ EndAt(r) \in Nat /\ EndAt(r) > r.at
BY DEF Recs, EndAt

LEMMA LaidJoin ==
  ASSUME NEW m, NEW p, NEW a, NEW q, Laid(m, p), Laid(a, q), Joins(m, p, a, q)
  PROVE  Laid(m \o a, p \o q)
<1> DEFINE M == m \o a  P == p \o q  i == Len(m)  n == Len(a)
<1>1. /\ m \in Seq(Recs) /\ a \in Seq(Recs) /\ p \in Seq(Labels) /\ q \in Seq(Labels)
      /\ Len(p) = i /\ Len(q) = n /\ i \in Nat /\ n \in Nat
  BY DEF Laid
<1>2. M \in Seq(Recs) /\ P \in Seq(Labels) /\ Len(M) = i + n /\ Len(P) = i + n
  BY <1>1
<1>3. ASSUME NEW k \in 1 .. i + n
      PROVE  /\ k <= i => k \in 1 .. i /\ M[k] = m[k] /\ P[k] = p[k]
             /\ k > i => k - i \in 1 .. n /\ M[k] = a[k - i] /\ P[k] = q[k - i]
  BY <1>1
<1>4. /\ \A k \in 1 .. i : m[k] \in Recs /\ p[k] \in Labels
      /\ \A k \in 1 .. n : a[k] \in Recs /\ q[k] \in Labels
  BY <1>1
<1> HIDE DEF M, P, i, n
<1>5. ASSUME NEW k \in 1 .. i + n, M[k].section # "pad" PROVE M[k].section = P[k].sec /\ M[k].n = P[k].n
  <2>1. CASE k <= i
    BY <2>1, <1>3, <1>5 DEF Laid, i
  <2>2. CASE k > i
    BY <2>2, <1>3, <1>5 DEF Laid, n
  <2> QED BY <2>1, <2>2, <1>1
<1>6. ASSUME i >= 1, n >= 1
      PROVE  /\ EndAt(m[i]) <= a[1].at
             /\ q[1].sec = p[i].sec => a[1].at = EndAt(m[i]) /\ q[1].n = Behind(m[i], p[i])
  <2>1. m # <<>> /\ a # <<>>
    BY <1>6, <1>1 DEF i, n
  <2> QED BY <2>1 DEF Joins, i
<1>7. ASSUME NEW j \in 1 .. i + n, NEW k \in 1 .. i + n, j < k PROVE EndAt(M[j]) <= M[k].at
  <2>1. CASE k <= i
    <3>1. j <= i
      BY <2>1, <1>7, <1>1
    <3> QED BY <2>1, <3>1, <1>3, <1>7 DEF Laid, i
  <2>2. CASE j > i
    <3>1. k > i /\ j - i < k - i
      BY <2>2, <1>7, <1>1
    <3> QED BY <2>2, <3>1, <1>3 DEF Laid, n
  <2>3. CASE j <= i /\ k > i
    <3>0. i \in 1 .. i /\ 1 \in 1 .. n /\ k - i \in 1 .. n /\ j \in 1 .. i /\ i >= 1 /\ n >= 1
      BY <2>3, <1>1
    <3>1. EndAt(m[j]) <= EndAt(m[i])
      <4>1. CASE j = i
        <5>1. EndAt(m[i]) \in Nat
          BY <3>0, <1>4, Recs1
        <5> QED BY <4>1, <5>1
      <4>2. CASE j < i
        <5>1. EndAt(m[j]) <= m[i].at
          BY <4>2, <3>0 DEF Laid, i
        <5>2. m[i].at < EndAt(m[i]) /\ m[i].at \in Nat /\ EndAt(m[i]) \in Nat /\ EndAt(m[j]) \in Nat
          BY <3>0, <1>4, Recs1
        <5> QED BY <5>1, <5>2
      <4> QED BY <4>1, <4>2, <3>0
    <3>2. a[1].at <= a[k - i].at
      <4>1. CASE k - i = 1
        <5>1. a[1].at \in Nat
          BY <3>0, <1>4, Recs1
        <5> QED BY <4>1, <5>1
      <4>2. CASE 1 < k - i
        <5>1. EndAt(a[1]) <= a[k - i].at
          BY <4>2, <3>0 DEF Laid, n
        <5>2. a[1].at < EndAt(a[1]) /\ a[1].at \in Nat /\ EndAt(a[1]) \in Nat /\ a[k - i].at \in Nat
          BY <3>0, <1>4, Recs1
        <5> QED BY <5>1, <5>2
      <4> QED BY <4>1, <4>2, <3>0
    <3>3. EndAt(m[i]) <= a[1].at
      BY <3>0, <1>6
    <3>4. {EndAt(m[j]), EndAt(m[i]), a[1].at, a[k - i].at} \subseteq Nat
      BY <3>0, <1>4, Recs1
    <3>5. M[j] = m[j] /\ M[k] = a[k - i]
      BY <2>3, <1>3
    <3> QED BY <3>1, <3>2, <3>3, <3>4, <3>5
  <2> QED BY <2>1, <2>2, <2>3, <1>1
<1>8. ASSUME NEW k \in 1 .. i + n - 1, P[k + 1].sec = P[k].sec
      PROVE  M[k + 1].at = EndAt(M[k]) /\ P[k + 1].n = Behind(M[k], P[k])
  <2>0. k \in 1 .. i + n /\ k + 1 \in 1 .. i + n
    BY <1>1
  <2>1. CASE k < i
    <3>1. k \in 1 .. i - 1 /\ k <= i /\ k + 1 <= i
      BY <2>1, <1>1
    <3> QED BY <2>0, <3>1, <1>3, <1>8 DEF Laid, i
  <2>2. CASE k = i
    <3>1. i >= 1 /\ n >= 1 /\ k <= i /\ k + 1 > i /\ (k + 1) - i = 1
      BY <2>2, <1>1
    <3>2. M[k] = m[i] /\ P[k] = p[i] /\ M[k + 1] = a[1] /\ P[k + 1] = q[1]
      BY <2>0, <2>2, <3>1, <1>3
    <3> QED BY <3>1, <3>2, <1>6, <1>8
  <2>3. CASE k > i
    <3>1. k - i \in 1 .. n - 1 /\ (k + 1) - i = (k - i) + 1 /\ k + 1 > i
      BY <2>3, <1>1
    <3>2. M[k] = a[k - i] /\ P[k] = q[k - i] /\ M[k + 1] = a[(k - i) + 1] /\ P[k + 1] = q[(k - i) + 1]
      BY <2>0, <2>3, <3>1, <1>3
    <3> QED BY <3>1, <3>2, <1>8 DEF Laid, n
  <2> QED BY <2>1, <2>2, <2>3, <1>1
<1>9. Laid(M, P)
  <2>1. \A k \in 1 .. Len(M) : M[k].section # "pad" => M[k].section = P[k].sec /\ M[k].n = P[k].n
    BY <1>2, <1>5
  <2>2. \A j, k \in 1 .. Len(M) : j < k => EndAt(M[j]) <= M[k].at
    BY <1>2, <1>7
  <2>3. \A k \in 1 .. Len(M) - 1 : P[k + 1].sec = P[k].sec =>
          M[k + 1].at = EndAt(M[k]) /\ P[k + 1].n = Behind(M[k], P[k])
    <3>1. Len(M) - 1 = i + n - 1
      BY <1>1, <1>2
    <3> QED BY <1>8, <3>1
  <2> QED BY <1>2, <2>1, <2>2, <2>3 DEF Laid
<1> QED BY <1>9 DEF M, P

LEMMA LaidOne ==
  ASSUME NEW r \in Recs, NEW l \in Labels, r.section # "pad" => r.section = l.sec /\ r.n = l.n
  PROVE  Laid(<<r>>, <<l>>) /\ <<r>> # <<>> /\ Len(<<r>>) = 1 /\ <<r>>[1] = r /\ <<l>>[1] = l
<1> DEFINE m == <<r>>  p == <<l>>
<1>1. m \in Seq(Recs) /\ p \in Seq(Labels) /\ Len(m) = 1 /\ Len(p) = 1 /\ m[1] = r /\ p[1] = l /\ m # <<>>
  OBVIOUS
<1> HIDE DEF m, p
<1>2. \A k \in 1 .. Len(m) : k = 1
  BY <1>1
<1>3. 1 .. Len(m) - 1 = {}
  BY <1>1
<1>4. \A j, k \in 1 .. Len(m) : ~(j < k)
  BY <1>1
<1> QED BY <1>1, <1>2, <1>3, <1>4 DEF Laid, m, p

\* where the last of them ends
LEMMA EndOfLast ==
  ASSUME NEW m, m \in Seq(Recs)
  PROVE  /\ EndOf(m) \in Nat
         /\ m = <<>> => EndOf(m) = 0
         /\ m # <<>> => Len(m) \in 1 .. Len(m) /\ m[Len(m)] \in Recs /\ EndOf(m) = EndAt(m[Len(m)])
<1>1. CASE m = <<>>
  BY <1>1 DEF EndOf
<1>2. CASE m # <<>>
  <2>1. Len(m) \in Nat /\ Len(m) > 0
    BY <1>2
  <2>2. Len(m) \in 1 .. Len(m) /\ m[Len(m)] \in Recs
    BY <2>1
  <2>3. EndOf(m) = EndAt(m[Len(m)])
    BY <1>2 DEF EndOf, EndAt, Last
  <2> QED BY <1>2, <2>2, <2>3, Recs1
<1> QED BY <1>1, <1>2

\* the buffer's records at their place in the file
Placed(a, by) == [k \in 1 .. Len(a) |-> [a[k] EXCEPT !.at = @ + by]]

LEMMA PlacedLaid ==
  ASSUME NEW a, NEW q, NEW by \in Nat, Laid(a, q), a # <<>>
  PROVE  /\ Laid(Placed(a, by), q) /\ Len(Placed(a, by)) = Len(a) /\ Placed(a, by) # <<>>
         /\ Placed(a, by)[1].at = by + a[1].at
         /\ EndOf(Placed(a, by)) = by + EndOf(a)
         /\ Placed(a, by)[Len(a)].section = a[Len(a)].section
<1> DEFINE m == Placed(a, by)  n == Len(a)
<1>1. a \in Seq(Recs) /\ q \in Seq(Labels) /\ Len(q) = n /\ n \in Nat /\ n > 0
  BY DEF Laid
<1>2. \A k \in 1 .. n : a[k] \in Recs /\ q[k] \in Labels
  BY <1>1
<1>3. ASSUME NEW k \in 1 .. n
      PROVE  /\ m[k] \in Recs /\ m[k].section = a[k].section /\ m[k].n = a[k].n /\ m[k].at = by + a[k].at
             /\ EndAt(m[k]) = by + EndAt(a[k]) /\ EndAt(a[k]) \in Nat
  <2>1. m[k] = [a[k] EXCEPT !.at = @ + by]
    BY DEF Placed
  <2>2. a[k] \in Recs
    BY <1>2
  <2> HIDE DEF m
  <2> QED BY <2>1, <2>2 DEF Recs, EndAt
<1>4. m \in Seq(Recs) /\ Len(m) = n
  <2>1. m \in [1 .. n -> Recs]
    BY <1>3 DEF Placed
  <2> HIDE DEF m
  <2> QED BY <1>1, <2>1
<1> HIDE DEF m
<1>5. Laid(m, q)
  <2>1. \A k \in 1 .. Len(m) : m[k].section # "pad" => m[k].section = q[k].sec /\ m[k].n = q[k].n
    BY <1>3, <1>4 DEF Laid, n
  <2>2. ASSUME NEW j \in 1 .. n, NEW k \in 1 .. n, j < k PROVE EndAt(m[j]) <= m[k].at
    <3>1. EndAt(a[j]) <= a[k].at
      BY <2>2 DEF Laid, n
    <3>2. a[k].at \in Nat
      BY <1>2, Recs1
    <3> QED BY <3>1, <3>2, <1>3
  <2>3. ASSUME NEW k \in 1 .. n - 1, q[k + 1].sec = q[k].sec
        PROVE  m[k + 1].at = EndAt(m[k]) /\ q[k + 1].n = Behind(m[k], q[k])
    <3>1. a[k + 1].at = EndAt(a[k]) /\ q[k + 1].n = Behind(a[k], q[k]) /\ k \in 1 .. n /\ k + 1 \in 1 .. n
      BY <2>3, <1>1 DEF Laid, n
    <3> HIDE DEF n
    <3> QED BY <3>1, <1>3 DEF Behind
  <2>4. \A j, k \in 1 .. Len(m) : j < k => EndAt(m[j]) <= m[k].at
    BY <2>2, <1>4
  <2>5. \A k \in 1 .. Len(m) - 1 : q[k + 1].sec = q[k].sec => m[k + 1].at = EndAt(m[k]) /\ q[k + 1].n = Behind(m[k], q[k])
    <3>1. Len(m) - 1 = n - 1
      BY <1>4
    <3> HIDE DEF n
    <3> QED BY <2>3, <3>1
  <2> QED BY <1>1, <1>4, <2>1, <2>4, <2>5 DEF Laid
<1>6. m # <<>> /\ 1 \in 1 .. n /\ n \in 1 .. n
  BY <1>1, <1>4
<1>7. EndOf(m) = by + EndOf(a)
  <2>1. EndOf(m) = EndAt(m[n]) /\ EndOf(a) = EndAt(a[n])
    BY <1>1, <1>4, <1>6, EndOfLast
  <2> QED BY <2>1, <1>3, <1>6
<1> QED BY <1>3, <1>4, <1>5, <1>6, <1>7 DEF m, n

-----------------------------------------------------------------------------
(* A section on the card *)

\* its first record lies at start
Begun(m, p, S, start) == \E k \in 1 .. Len(m) : m[k].at = start /\ p[k].sec = S /\ p[k].n = 1

\* ... and its last is followed by nothing of it that a reader would still expect
Whole(m, p, S, start) ==
  /\ Begun(m, p, S, start)
  /\ \A k \in 1 .. Len(m) : p[k].sec = S /\ (k < Len(m) => p[k + 1].sec # S) => Behind(m[k], p[k]) = Chunks[S] + 1

\* what a reader expects next of S at the end
Expect(m, p, S) == IF m = <<>> \/ p[Len(m)].sec # S THEN 1 ELSE Behind(m[Len(m)], p[Len(m)])

\* the writer of S stands at pos: behind its records, or where the first will be
Stands(m, p, S, start, spot) ==
  \/ m # <<>> /\ p[Len(m)].sec = S /\ spot = EndOf(m) /\ Begun(m, p, S, start)
  \/ spot = start /\ EndOf(m) <= spot /\ \A k \in 1 .. Len(m) : p[k].sec # S

\* nothing else follows a record of S
Trailing(m, p, S) == \A k \in 1 .. Len(m) - 1 : p[k].sec = S => p[k + 1].sec = S

\* ... and has written a behind it
HasWritten(m, p, a, q, S, start) ==
  /\ Laid(m \o a, p \o q)
  /\ Stands(m \o a, p \o q, S, start, EndOf(m \o a))
  /\ EndOf(m \o a) = EndOf(a)
  /\ Expect(m \o a, p \o q, S) = Behind(a[Len(a)], q[Len(a)])
  /\ \A k \in 1 .. Len(m \o a) : (k \in 1 .. Len(m) /\ (p \o q)[k] = p[k]) \/ (p \o q)[k].sec = S
  /\ \A T \in Sections \ {S}, s \in Nat : Whole(m, p, T, s) => Whole(m \o a, p \o q, T, s)
  /\ Trailing(m, p, S) => Trailing(m \o a, p \o q, S)

LEMMA SectionWritten ==
  ASSUME NEW m, NEW p, NEW a, NEW q, NEW S \in Sections, NEW start, NEW spot,
         Laid(m, p), Laid(a, q), a # <<>>, \A k \in 1 .. Len(a) : q[k].sec = S,
         a[1].at = spot, q[1].n = Expect(m, p, S), Stands(m, p, S, start, spot)
  PROVE  HasWritten(m, p, a, q, S, start)
<1> DEFINE M == m \o a  P == p \o q  i == Len(m)  n == Len(a)
<1>1. /\ m \in Seq(Recs) /\ a \in Seq(Recs) /\ p \in Seq(Labels) /\ q \in Seq(Labels)
      /\ Len(p) = i /\ Len(q) = n /\ i \in Nat /\ n \in Nat
  BY DEF Laid
<1>2. n >= 1 /\ (m # <<>> => i >= 1) /\ (m = <<>> => i = 0)
  BY <1>1
<1>3. /\ \A k \in 1 .. i : m[k] \in Recs /\ p[k] \in Labels
      /\ \A k \in 1 .. n : a[k] \in Recs /\ q[k] \in Labels
  BY <1>1
<1>4. Joins(m, p, a, q)
  <2>1. SUFFICES ASSUME m # <<>>
                 PROVE  /\ EndAt(m[i]) <= a[1].at
                        /\ q[1].sec = p[i].sec => a[1].at = EndAt(m[i]) /\ q[1].n = Behind(m[i], p[i])
    BY DEF Joins
  <2>2. EndOf(m) = EndAt(m[i]) /\ EndOf(m) \in Nat /\ i \in 1 .. i
    BY <1>1, <2>1, EndOfLast
  <2>3. q[1].sec = S
    BY <1>2, <1>1
  <2>4. CASE p[i].sec = S /\ spot = EndOf(m)
    <3>1. Expect(m, p, S) = Behind(m[i], p[i])
      BY <2>1, <2>4 DEF Expect
    <3> QED BY <2>2, <2>4, <3>1
  <2>5. CASE EndOf(m) <= spot /\ \A k \in 1 .. Len(m) : p[k].sec # S
    BY <2>2, <2>3, <2>5
  <2> QED BY <2>4, <2>5 DEF Stands
<1>5. Laid(M, P)
  BY <1>4, LaidJoin
<1>6. M \in Seq(Recs) /\ Len(M) = i + n
  BY <1>1
<1>7. ASSUME NEW k \in 1 .. i + n
      PROVE  /\ k <= i => k \in 1 .. i /\ M[k] = m[k] /\ P[k] = p[k]
             /\ k > i => k - i \in 1 .. n /\ M[k] = a[k - i] /\ P[k] = q[k - i]
  BY <1>1
<1> HIDE DEF M, P, i, n
<1>8. i + n \in 1 .. i + n /\ i + n > i /\ (i + n) - i = n /\ n \in 1 .. n /\ 1 \in 1 .. n /\ i + 1 \in 1 .. i + n /\ i + 1 > i /\ (i + 1) - i = 1
  BY <1>1, <1>2
<1>9. M[i + n] = a[n] /\ P[i + n] = q[n] /\ M[i + 1] = a[1] /\ P[i + 1] = q[1]
  BY <1>7, <1>8
<1>10. M # <<>> /\ EndOf(M) = EndOf(a) /\ EndOf(a) = EndAt(a[n])
  <2>1. M # <<>>
    BY <1>6, <1>1, <1>2
  <2>2. EndOf(M) = EndAt(M[i + n])
    BY <1>6, <2>1, EndOfLast
  <2>3. EndOf(a) = EndAt(a[n])
    BY <1>1, EndOfLast DEF n
  <2> QED BY <2>1, <2>2, <2>3, <1>9
<1>11. Expect(M, P, S) = Behind(a[n], q[n])
  <2>1. q[n].sec = S
    BY <1>8 DEF n
  <2> QED BY <2>1, <1>6, <1>9, <1>10 DEF Expect
<1>12. Begun(M, P, S, start)
  <2>1. CASE Begun(m, p, S, start)
    <3>1. PICK k \in 1 .. i : m[k].at = start /\ p[k].sec = S /\ p[k].n = 1
      BY <2>1 DEF Begun, i
    <3>2. k \in 1 .. i + n /\ k <= i
      BY <1>1
    <3> QED BY <3>1, <3>2, <1>6, <1>7 DEF Begun
  <2>2. CASE spot = start /\ \A k \in 1 .. Len(m) : p[k].sec # S
    <3>1. Expect(m, p, S) = 1
      <4>1. m # <<>> => i \in 1 .. Len(m)
        BY <1>1, <1>2 DEF i
      <4> QED BY <4>1, <2>2 DEF Expect, i
    <3>2. q[1].sec = S
      BY <1>8 DEF n
    <3> QED BY <2>2, <3>1, <3>2, <1>6, <1>8, <1>9 DEF Begun
  <2> QED BY <2>1, <2>2 DEF Stands
<1>13. Stands(M, P, S, start, EndOf(M))
  <2>1. P[Len(M)].sec = S
    BY <1>6, <1>8, <1>9 DEF n
  <2> QED BY <2>1, <1>10, <1>12 DEF Stands
<1>14. ASSUME NEW k \in 1 .. Len(M) PROVE (k \in 1 .. i /\ P[k] = p[k]) \/ P[k].sec = S
  <2>1. k \in 1 .. i + n
    BY <1>6
  <2>2. CASE k <= i
    BY <2>1, <2>2, <1>7
  <2>3. CASE k > i
    BY <2>1, <2>3, <1>7 DEF n
  <2> QED BY <2>1, <2>2, <2>3, <1>1
<1>15. ASSUME NEW T \in Sections \ {S}, NEW s \in Nat, Whole(m, p, T, s) PROVE Whole(M, P, T, s)
  <2>1. PICK k \in 1 .. i : m[k].at = s /\ p[k].sec = T /\ p[k].n = 1
    BY <1>15 DEF Whole, Begun, i
  <2>2. k \in 1 .. i + n /\ k <= i
    BY <1>1
  <2>3. Begun(M, P, T, s)
    BY <2>1, <2>2, <1>6, <1>7 DEF Begun
  <2>4. ASSUME NEW j \in 1 .. Len(M), P[j].sec = T, j < Len(M) => P[j + 1].sec # T
        PROVE  Behind(M[j], P[j]) = Chunks[T] + 1
    <3>1. j \in 1 .. i /\ P[j] = p[j] /\ j \in 1 .. i + n
      BY <2>4, <1>14, <1>6
    <3>2. M[j] = m[j]
      BY <3>1, <1>7, <1>1
    <3>3. j < i => p[j + 1].sec # T
      <4>1. SUFFICES ASSUME j < i PROVE p[j + 1].sec # T
        OBVIOUS
      <4>2. j + 1 \in 1 .. i + n /\ j + 1 <= i /\ j < Len(M)
        BY <3>1, <4>1, <1>1, <1>6
      <4> QED BY <4>2, <2>4, <1>7
    <3> QED BY <3>1, <3>2, <3>3, <2>4, <1>15 DEF Whole, i
  <2> QED BY <2>3, <2>4 DEF Whole
<1>16. ASSUME Trailing(m, p, S) PROVE Trailing(M, P, S)
  <2>1. SUFFICES ASSUME NEW k \in 1 .. Len(M) - 1, P[k].sec = S PROVE P[k + 1].sec = S
    BY DEF Trailing
  <2>2. k \in 1 .. i + n /\ k + 1 \in 1 .. i + n
    BY <1>6, <1>1
  <2>3. CASE k + 1 <= i
    <3>1. k <= i /\ k \in 1 .. Len(m) - 1
      BY <2>2, <2>3, <1>1 DEF i
    <3> QED BY <2>1, <2>2, <2>3, <3>1, <1>7, <1>16 DEF Trailing
  <2>4. CASE k + 1 > i
    BY <2>2, <2>4, <1>7 DEF n
  <2> QED BY <2>2, <2>3, <2>4, <1>1
<1> QED BY <1>5, <1>10, <1>11, <1>13, <1>14, <1>15, <1>16 DEF M, P, i, n, HasWritten

-----------------------------------------------------------------------------
(* The grid *)

LEMMA UpOnGrid == ASSUME NEW n \in Nat
  PROVE  Up(n) \in Nat /\ Up(n) % Grid = 0 /\ n <= Up(n) /\ Up(n) < n + Grid
<1>1. Grid \in Nat /\ Grid > 0
  BY FormatAssumption
<1> DEFINE g == Grid  a == n + g - 1  q == a \div g
<1>2. a \in Nat
  BY <1>1
<1>3. q \in Nat /\ g * q <= a /\ a < g * q + g
  <2> HIDE DEF a, g
  <2> QED BY <1>1, <1>2 DEF g
<1>4. Up(n) = q * g
  BY DEF Up
<1> HIDE DEF q
<1>5. q * g = g * q /\ (q * g) % g = 0 /\ q * g \in Nat
  <2> HIDE DEF g
  <2> QED BY <1>1, <1>3 DEF g
<1> QED BY <1>1, <1>3, <1>4, <1>5 DEF g

LEMMA GridSum == ASSUME NEW a \in Nat, NEW b \in Nat, a % Grid = 0, b % Grid = 0
  PROVE  (a + b) % Grid = 0
<1> DEFINE g == Grid  i == a \div g  j == b \div g
<1>1. g \in Nat /\ g > 0
  BY FormatAssumption
<1> HIDE DEF g
<1>2. i \in Int /\ j \in Int /\ a = g * i /\ b = g * j
  BY <1>1 DEF g
<1> HIDE DEF i, j
<1>3. a + b = (i + j) * g
  BY <1>1, <1>2
<1>4. ((i + j) * g) % g = 0
  <2>1. \A k \in Int : (k * g) % g = 0
    BY <1>1
  <2> QED BY <2>1, <1>2
<1> QED BY <1>3, <1>4 DEF g

-----------------------------------------------------------------------------
(* The invariant: labels for the card's records and the buffer's *)

Earlier == CASE phase = "ram" -> {} [] phase = "vram" -> {"ram"} [] OTHER -> {"ram", "vram"}

WriterInv(p, q) ==
  /\ chunk <= Chunks[phase] + 1
  /\ Laid(fill, q) /\ \A k \in 1 .. Len(fill) : q[k].sec = phase
  /\ fill # <<>> => /\ fill[1].at = 0 /\ q[1].n = Expect(medium, p, phase)
                    /\ Behind(fill[Len(fill)], q[Len(fill)]) = chunk
  /\ fill = <<>> /\ certain => Expect(medium, p, phase) = chunk
  /\ Stands(medium, p, phase, starts[phase], pos)
  /\ \A k \in 1 .. Len(medium) : p[k].sec \in Earlier \cup {phase}
  /\ \A S \in Earlier : Whole(medium, p, S, starts[S])
  /\ ~batched \/ ~certain \/ chunk > Chunks[phase] => fill = <<>>
  /\ ~certain => chunk > Chunks[phase] /\ phase = "kernel"
  /\ Trailing(medium, p, phase)
  /\ batched => pos % Grid = 0 \/ (phase = "vram" /\ chunk > Chunks[phase])
  /\ phase = "vram" => EndOf(fill) <= (chunk - 1) * (Grid + RecordHead)

Readable == {"ram", "vram"} \cup (IF certain THEN {"kernel"} ELSE {})

ReaderInv(p) ==
  /\ chunk <= Chunks[Section] + 1
  /\ restored = [k \in 1 .. chunk - 1 |-> [section |-> Section, n |-> k]]
  /\ \A S \in Readable : Whole(medium, p, S, starts[S])
  /\ Section \in Readable
  /\ chunk <= Chunks[Section] =>
       \E k \in 1 .. Len(medium) : medium[k].at = cursor /\ p[k].sec = Section /\ p[k].n = chunk

FormatTypes ==
  /\ compress \in BOOLEAN /\ batched \in Batches /\ certain \in BOOLEAN
  /\ phase \in Sections \cup {"read ram", "read vram", "read kernel", "whole", "failed", "frozen"}
  /\ chunk \in Nat \ {0} /\ pos \in Nat /\ cursor \in Nat /\ starts \in [Sections -> Nat]
  /\ flushed[1] % Grid = 0 /\ (flushed[3] # "vram" => flushed[2] % Grid = 0)

FormatInv ==
  /\ FormatTypes
  /\ \E p : /\ Laid(medium, p)
            /\ Writing => \E q : WriterInv(p, q)
            /\ Reading => ReaderInv(p)

LEMMA ChunkCounts == ASSUME NEW S \in Sections PROVE Chunks[S] \in Nat /\ Chunks[S] >= 1
BY FormatAssumption

LEMMA EncodedLen == ASSUME NEW len \in Encoded PROVE len \in Nat \ {0} /\ len <= Grid + RecordHead
<1>1. Grid \in Nat /\ Grid > 0 /\ RecordHead \in Nat /\ RecordHead > 0
  BY FormatAssumption
<1>2. \A cs \in Packed \cup {Grid} : cs \in Nat /\ cs >= 1 /\ cs <= Grid
  BY <1>1, FormatAssumption
<1>3. CASE compress
  <2>1. PICK cs \in Packed \cup {Grid} : len = cs + RecordHead
    BY <1>3 DEF Encoded
  <2> QED BY <2>1, <1>1, <1>2
<1>4. CASE ~compress
  BY <1>4, <1>1 DEF Encoded
<1> QED BY <1>3, <1>4

LEMMA LaidNothing == Laid(<<>>, <<>>)
<1>1. <<>> \in Seq(Recs) /\ <<>> \in Seq(Labels) /\ Len(<<>>) = 0
  OBVIOUS
<1> QED BY <1>1 DEF Laid

LEMMA FormatInitially == FormatInit => FormatInv
<1> SUFFICES ASSUME FormatInit PROVE FormatInv
  OBVIOUS
<1>0. phase = "ram" /\ chunk = 1 /\ fill = <<>> /\ medium = <<>> /\ pos = Up(1) /\ certain = TRUE
      /\ starts = [ram |-> Up(1), vram |-> 0, kernel |-> 0] /\ cursor = 0 /\ flushed = <<0, 0, "ram">>
  BY DEF FormatInit
<1>1. Up(1) \in Nat /\ Up(1) % Grid = 0 /\ Grid \in Nat /\ Grid > 0 /\ RecordHead \in Nat
  <2>1. 1 \in Nat
    OBVIOUS
  <2>2. Up(1) \in Nat /\ Up(1) % Grid = 0
    BY <2>1, UpOnGrid, Zenon
  <2> QED BY <2>2, FormatAssumption
<1>2. starts \in [Sections -> Nat] /\ starts["ram"] = Up(1)
  BY <1>0, <1>1 DEF Sections
<1>3. 0 % Grid = 0
  BY <1>1
<1>4. FormatTypes
  <2>1. compress \in BOOLEAN /\ batched \in Batches
    BY DEF FormatInit
  <2>2. flushed[1] = 0 /\ flushed[2] = 0 /\ flushed[3] = "ram"
    BY <1>0
  <2> QED BY <1>0, <1>1, <1>2, <1>3, <2>1, <2>2 DEF FormatTypes, Sections
<1>5. WriterInv(<<>>, <<>>)
  <2>1. Chunks["ram"] \in Nat /\ Chunks["ram"] >= 1
    BY ChunkCounts DEF Sections
  <2>2. Len(fill) = 0 /\ Len(medium) = 0 /\ EndOf(medium) = 0 /\ EndOf(fill) = 0
    BY <1>0 DEF EndOf
  <2>3. Stands(medium, <<>>, phase, starts[phase], pos)
    BY <1>0, <1>1, <1>2, <2>2 DEF Stands
  <2>4. Expect(medium, <<>>, phase) = 1
    BY <1>0 DEF Expect
  <2>5. Laid(fill, <<>>) /\ \A k \in 1 .. Len(fill) : FALSE
    BY <1>0, <2>2, LaidNothing
  <2>6. chunk <= Chunks[phase] + 1
    BY <1>0, <2>1
  <2>7. Earlier = {} /\ \A k \in 1 .. Len(medium) : FALSE
    BY <1>0, <2>2 DEF Earlier
  <2>8. phase # "vram" /\ pos % Grid = 0
    BY <1>0, <1>1
  <2>9. Trailing(medium, <<>>, phase)
    BY <2>2 DEF Trailing
  <2> QED BY <1>0, <2>3, <2>4, <2>5, <2>6, <2>7, <2>8, <2>9 DEF WriterInv
<1>6. Writing /\ ~Reading /\ Laid(medium, <<>>)
  BY <1>0, LaidNothing DEF Writing, Reading, Sections
<1> QED BY <1>4, <1>5, <1>6 DEF FormatInv

\* the types alone
LEMMA TypesStep == ASSUME FormatTypes, FormatNext, pos' \in Nat, cursor' \in Nat,
                          flushed'[1] % Grid = 0, flushed'[3] # "vram" => flushed'[2] % Grid = 0
                   PROVE FormatTypes'
<1> DEFINE Phases == Sections \cup {"read ram", "read vram", "read kernel", "whole", "failed", "frozen"}
           Rest == /\ compress' = compress /\ batched' \in Batches /\ certain' \in BOOLEAN
                   /\ phase' \in Phases /\ chunk' \in Nat \ {0} /\ starts' \in [Sections -> Nat]
<1>0. /\ compress \in BOOLEAN /\ batched \in Batches /\ certain \in BOOLEAN /\ phase \in Phases
      /\ chunk \in Nat \ {0} /\ starts \in [Sections -> Nat] /\ chunk + 1 \in Nat \ {0} /\ 1 \in Nat \ {0}
  <2>1. chunk \in Nat \ {0}
    BY DEF FormatTypes
  <2>2. chunk + 1 \in Nat \ {0} /\ 1 \in Nat \ {0}
    BY <2>1
  <2> QED BY <2>1, <2>2 DEF FormatTypes
<1> SUFFICES Rest
  BY <1>0 DEF FormatTypes, Batches
<1> HIDE DEF Phases
<1>1. CASE Batch
  BY <1>1, <1>0 DEF Batch
<1>2. CASE WriteChunk
  BY <1>2, <1>0 DEF WriteChunk
<1>3. CASE GiveUp
  <2>1. phase' \in Phases
    BY <1>3, <1>0 DEF GiveUp, Phases
  <2>2. chunk' \in Nat \ {0}
    <3>1. CASE phase = "kernel"
      <4>1. chunk' = Chunks[phase] + 1 /\ Chunks[phase] \in Nat
        BY <1>3, <3>1, ChunkCounts DEF GiveUp, Writing
      <4> QED BY <4>1
    <3>2. CASE phase # "kernel"
      BY <1>3, <1>0, <3>2 DEF GiveUp
    <3> QED BY <3>1, <3>2
  <2> QED BY <1>3, <1>0, <2>1, <2>2 DEF GiveUp
<1>4. CASE NextSection
  <2>1. phase' \in Phases /\ batched' \in Batches
    BY <1>4, <1>0 DEF NextSection, Phases, Sections
  <2>2. starts' \in [Sections -> Nat]
    <3>1. starts' = [starts EXCEPT !["vram"] = pos'] \/ starts' = [starts EXCEPT !["kernel"] = pos']
      BY <1>4 DEF NextSection
    <3> QED BY <3>1, <1>0
  <2> QED BY <1>4, <1>0, <2>1, <2>2 DEF NextSection
<1>5. CASE Begin
  BY <1>5, <1>0 DEF Begin, Seek, Phases, Batches
<1>6. CASE SectionRead
  BY <1>6, <1>0 DEF SectionRead, Seek, Phases, Batches
<1>7. CASE ReadRecord
  BY <1>7, <1>0 DEF ReadRecord, SkipPad
<1>8. CASE ReadFails
  BY <1>8, <1>0 DEF ReadFails, Phases
<1> QED BY <1>1, <1>2, <1>3, <1>4, <1>5, <1>6, <1>7, <1>8 DEF FormatNext

-----------------------------------------------------------------------------
(* The writer's steps *)

\* one more in the buffer
HasAppended(f, q, r, l, g, h) ==
  /\ Laid(g, h) /\ g # <<>> /\ Len(g) = Len(f) + 1 /\ g[Len(g)] = r /\ h[Len(g)] = l
  /\ EndOf(g) = EndOf(f) + r.len
  /\ f = <<>> => g[1] = r /\ h[1] = l
  /\ f # <<>> => g[1] = f[1] /\ h[1] = q[1]
  /\ \A k \in 1 .. Len(g) : (k \in 1 .. Len(f) /\ h[k] = q[k]) \/ h[k] = l

\* ... and it may follow
MayAppend(f, q, r, l) ==
  /\ r.section # "pad" => r.section = l.sec /\ r.n = l.n
  /\ r.at = EndOf(f) /\ (f # <<>> => l.n = Behind(f[Len(f)], q[Len(f)]))

LEMMA BufferMore ==
  ASSUME NEW f, NEW q, NEW r \in Recs, NEW l \in Labels, Laid(f, q), MayAppend(f, q, r, l)
  PROVE  HasAppended(f, q, r, l, f \o <<r>>, q \o <<l>>)
<1>0. /\ r.section # "pad" => r.section = l.sec /\ r.n = l.n
      /\ r.at = EndOf(f) /\ (f # <<>> => l.n = Behind(f[Len(f)], q[Len(f)]))
  BY DEF MayAppend
<1> DEFINE g == f \o <<r>>  h == q \o <<l>>
<1>1. f \in Seq(Recs) /\ q \in Seq(Labels) /\ Len(f) \in Nat /\ Len(q) = Len(f)
  BY DEF Laid
<1>2. Laid(<<r>>, <<l>>) /\ <<r>> # <<>> /\ Len(<<r>>) = 1 /\ <<r>>[1] = r /\ <<l>>[1] = l
  BY <1>0, LaidOne
<1>3. Joins(f, q, <<r>>, <<l>>)
  <2>1. ASSUME f # <<>> PROVE EndAt(f[Len(f)]) = r.at /\ r.at \in Nat
    BY <2>1, <1>0, <1>1, EndOfLast
  <2> QED BY <2>1, <1>0, <1>2 DEF Joins
<1>4. Laid(g, h)
  BY <1>2, <1>3, LaidJoin
<1>5. g \in Seq(Recs) /\ Len(g) = Len(f) + 1 /\ g[Len(f) + 1] = r /\ h[Len(f) + 1] = l /\ g # <<>>
  BY <1>1
<1>6. \A k \in 1 .. Len(f) : g[k] = f[k] /\ h[k] = q[k]
  BY <1>1
<1>7. f = <<>> => Len(f) = 0
  OBVIOUS
<1>8. f # <<>> => 1 \in 1 .. Len(f)
  BY <1>1
<1> HIDE DEF g, h
<1>9. EndOf(g) = EndOf(f) + r.len
  BY <1>0, <1>5, EndOfLast DEF EndAt
<1>10. \A k \in 1 .. Len(g) : (k \in 1 .. Len(f) /\ h[k] = q[k]) \/ h[k] = l
  <2>1. ASSUME NEW k \in 1 .. Len(g) PROVE k \in 1 .. Len(f) \/ k = Len(f) + 1
    BY <1>1, <1>5
  <2> QED BY <2>1, <1>5, <1>6
<1>11. f = <<>> => g[1] = r /\ h[1] = l
  BY <1>5, <1>7
<1>12. f # <<>> => g[1] = f[1] /\ h[1] = q[1]
  BY <1>6, <1>8
<1>13. HasAppended(f, q, r, l, g, h)
  BY <1>4, <1>5, <1>9, <1>10, <1>11, <1>12 DEF HasAppended
<1> QED BY <1>13 DEF g, h

\* what holds while a section is written
LEMMA WriterTypes == ASSUME FormatTypes, Writing
  PROVE  /\ phase \in Sections /\ Chunks[phase] \in Nat /\ Chunks[phase] >= 1 /\ chunk \in Nat /\ chunk >= 1
         /\ pos \in Nat /\ starts[phase] \in Nat /\ ~Reading
<1>1. phase \in Sections /\ starts \in [Sections -> Nat] /\ pos \in Nat /\ chunk \in Nat \ {0}
  BY DEF FormatTypes, Writing
<1>2. ~Reading
  BY <1>1 DEF Sections, Reading
<1>3. Chunks[phase] \in Nat /\ Chunks[phase] >= 1 /\ starts[phase] \in Nat
  BY <1>1, ChunkCounts
<1> QED BY <1>1, <1>2, <1>3

LEMMA WriteChunkKeeps == ASSUME FormatInv, WriteChunk PROVE FormatInv'
<1>1. FormatTypes /\ Writing /\ ~batched /\ chunk <= Chunks[phase] /\ chunk' = chunk + 1
      /\ UNCHANGED <<compress, batched, phase, certain, fill, starts, cursor, restored, flushed>>
  BY DEF FormatInv, WriteChunk
<1>2. PICK p : Laid(medium, p) /\ \E q : WriterInv(p, q)
  BY <1>1 DEF FormatInv
<1>3. PICK q : WriterInv(p, q)
  BY <1>2
<1>4. /\ phase \in Sections /\ Chunks[phase] \in Nat /\ chunk \in Nat /\ chunk >= 1 /\ pos \in Nat
      /\ starts[phase] \in Nat /\ ~Reading
  BY <1>1, WriterTypes
<1>5. PICK len \in Encoded :
        /\ medium' = Append(medium, [section |-> phase, n |-> chunk, at |-> pos, len |-> len])
        /\ pos' = pos + len
  BY DEF WriteChunk
<1>6. len \in Nat \ {0}
  BY EncodedLen
<1> DEFINE r == [section |-> phase, n |-> chunk, at |-> pos, len |-> len]  l == [sec |-> phase, n |-> chunk]
           a == <<r>>  b == <<l>>
<1>0. PICK P : P = p \o b
  OBVIOUS
<1>7. r \in Recs /\ l \in Labels /\ r.section = l.sec /\ r.n = l.n /\ l.sec = phase /\ l.n = chunk /\ r.at = pos /\ EndAt(r) = pos + len
      /\ r.section # "pad"
  BY <1>4, <1>6 DEF Recs, Labels, EndAt, Sections
<1> HIDE DEF r, l
<1>8. Laid(a, b) /\ a # <<>> /\ Len(a) = 1 /\ a[1] = r /\ b[1] = l
  BY <1>7, LaidOne
<1>9. fill = <<>> /\ certain /\ Expect(medium, p, phase) = chunk /\ Stands(medium, p, phase, starts[phase], pos)
  BY <1>1, <1>3, <1>4 DEF WriterInv
<1>10. medium' = medium \o a
  <2>1. medium \in Seq(Recs)
    BY <1>2 DEF Laid
  <2>2. medium' = Append(medium, r)
    BY <1>5 DEF r
  <2>3. Append(medium, r) = medium \o <<r>>
    BY <1>7, <2>1
  <2> QED BY <2>2, <2>3
<1> HIDE DEF a, b
<1>11. \A k \in 1 .. Len(a) : b[k].sec = phase
  BY <1>7, <1>8
<1>12. HasWritten(medium, p, a, b, phase, starts[phase])
  <2>1. a[1].at = pos /\ b[1].n = Expect(medium, p, phase)
    BY <1>7, <1>8, <1>9
  <2> QED BY <1>2, <1>4, <1>8, <1>9, <1>11, <2>1, SectionWritten, Zenon
<1>13. EndOf(a) = pos + len
  <2>1. a \in Seq(Recs)
    BY <1>8 DEF Laid
  <2> QED BY <2>1, <1>7, <1>8, EndOfLast
<1>14. Behind(a[Len(a)], b[Len(a)]) = chunk + 1
  BY <1>7, <1>8 DEF Behind
<1>15. WriterInv(P, q)'
  <2>1. Stands(medium', P, phase', starts'[phase'], pos') /\ Expect(medium', P, phase') = chunk'
    BY <1>0, <1>1, <1>5, <1>10, <1>12, <1>13, <1>14 DEF HasWritten
  <2>2. Earlier' = Earlier /\ Earlier \subseteq Sections \ {phase}
    BY <1>1 DEF Earlier, Sections
  <2>3. \A k \in 1 .. Len(medium') : P[k].sec \in Earlier \cup {phase}
    BY <1>0, <1>3, <1>10, <1>12 DEF WriterInv, HasWritten
  <2>4. \A S \in Earlier : Whole(medium', P, S, starts[S])
    <3>1. \A S \in Earlier : starts[S] \in Nat
      BY <1>1, <2>2 DEF FormatTypes
    <3> QED BY <1>0, <1>3, <1>10, <1>12, <2>2, <3>1 DEF WriterInv, HasWritten
  <2>5. chunk + 1 <= Chunks[phase] + 1
    BY <1>1, <1>4
  <2>6. phase = "vram" => EndOf(fill) <= ((chunk + 1) - 1) * (Grid + RecordHead)
    <3>1. EndOf(fill) = 0 /\ Grid + RecordHead \in Nat
      BY <1>9, FormatAssumption DEF EndOf
    <3> DEFINE w == Grid + RecordHead
    <3> HIDE DEF w
    <3> QED BY <3>1, <1>4 DEF w
  <2>7. Laid(fill, q) /\ \A k \in 1 .. Len(fill) : q[k].sec = phase
    BY <1>3 DEF WriterInv
  <2>8. Trailing(medium', P, phase)
    BY <1>0, <1>3, <1>10, <1>12 DEF WriterInv, HasWritten
  <2> QED BY <1>1, <1>9, <2>1, <2>2, <2>3, <2>4, <2>5, <2>6, <2>7, <2>8 DEF WriterInv
<1>16. FormatTypes'
  <2>1. pos' \in Nat
    BY <1>4, <1>5, <1>6
  <2>2. cursor' \in Nat /\ flushed'[1] % Grid = 0 /\ (flushed'[3] # "vram" => flushed'[2] % Grid = 0)
    BY <1>1 DEF FormatTypes
  <2>3. FormatNext
    BY DEF FormatNext
  <2> QED BY <1>1, <2>1, <2>2, <2>3, TypesStep
<1>17. Writing' /\ ~Reading'
  BY <1>1, <1>4 DEF Writing, Reading
<1>18. Laid(medium', P)
  BY <1>0, <1>10, <1>12 DEF HasWritten
<1> QED BY <1>15, <1>16, <1>17, <1>18 DEF FormatInv

\* the pad of a flush fills its cluster
LEMMA PadFills == ASSUME NEW n \in Nat
  PROVE Pads(n) \in Nat \ {0} /\ (n + Pads(n)) \in Nat /\ (n + Pads(n)) % Grid = 0
<1>1. RecordHead \in Nat /\ RecordHead > 0
  BY FormatAssumption
<1> DEFINE u == Up(n + RecordHead)
<1>2. u \in Nat /\ u % Grid = 0 /\ n + RecordHead <= u
  <2>1. n + RecordHead \in Nat
    BY <1>1
  <2> QED BY <2>1, UpOnGrid
<1>3. Pads(n) = u - n
  BY DEF Pads
<1> HIDE DEF u
<1>4. n + Pads(n) = u
  BY <1>2, <1>3
<1> QED BY <1>1, <1>2, <1>3, <1>4

\* save_region_records with the buffer
LEMMA BatchKeeps == ASSUME FormatInv, Batch PROVE FormatInv'
<1>1. FormatTypes /\ Writing /\ batched /\ chunk <= Chunks[phase] /\ chunk' = chunk + 1
      /\ UNCHANGED <<compress, batched, phase, certain, starts, cursor, restored>>
  BY DEF FormatInv, Batch
<1>2. PICK p : Laid(medium, p) /\ \E q : WriterInv(p, q)
  BY <1>1 DEF FormatInv
<1>3. PICK q : WriterInv(p, q)
  BY <1>2
<1>4. /\ phase \in Sections /\ Chunks[phase] \in Nat /\ chunk \in Nat /\ chunk >= 1 /\ pos \in Nat
      /\ starts[phase] \in Nat /\ ~Reading
  BY <1>1, WriterTypes
<1>5. PICK len \in Encoded :
        LET records == Append(fill, [section |-> phase, n |-> chunk, at |-> EndOf(fill), len |-> len])
        IN IF MightOverrun(EndOf(records)) \/ chunk = Chunks[phase] THEN Flush(records)
           ELSE fill' = records /\ UNCHANGED <<medium, pos, flushed>>
  BY DEF Batch
<1>6. len \in Nat \ {0} /\ len <= Grid + RecordHead
  BY EncodedLen
<1>7. Laid(fill, q) /\ fill \in Seq(Recs) /\ EndOf(fill) \in Nat /\ Len(fill) \in Nat /\ \A k \in 1 .. Len(fill) : q[k].sec = phase
  <2>1. Laid(fill, q) /\ fill \in Seq(Recs) /\ \A k \in 1 .. Len(fill) : q[k].sec = phase
    BY <1>3 DEF WriterInv, Laid
  <2> QED BY <2>1, EndOfLast
<1> DEFINE r0 == [section |-> phase, n |-> chunk, at |-> EndOf(fill), len |-> len]
<1>8. PICK r : r = r0
  OBVIOUS
<1>9. PICK l : l = [sec |-> phase, n |-> chunk]
  OBVIOUS
<1>10. /\ r \in Recs /\ l \in Labels /\ r.section = l.sec /\ r.n = l.n /\ l.sec = phase /\ l.n = chunk
       /\ r.at = EndOf(fill) /\ r.len = len /\ r.section # "pad"
  BY <1>4, <1>6, <1>7, <1>8, <1>9 DEF Recs, Labels, Sections
<1>11. PICK g : g = fill \o <<r>>
  OBVIOUS
<1>12. PICK h : h = q \o <<l>>
  OBVIOUS
<1>13. g = Append(fill, r0)
  BY <1>7, <1>8, <1>11
<1> HIDE DEF r0
<1>14. fill # <<>> => /\ fill[1].at = 0 /\ q[1].n = Expect(medium, p, phase)
                      /\ l.n = Behind(fill[Len(fill)], q[Len(fill)])
  BY <1>3, <1>10 DEF WriterInv
<1>15. /\ Laid(g, h) /\ g # <<>> /\ Len(g) = Len(fill) + 1 /\ g[Len(g)] = r /\ h[Len(g)] = l
       /\ EndOf(g) = EndOf(fill) + r.len
       /\ fill = <<>> => g[1] = r /\ h[1] = l
       /\ fill # <<>> => g[1] = fill[1] /\ h[1] = q[1]
       /\ \A k \in 1 .. Len(g) : (k \in 1 .. Len(fill) /\ h[k] = q[k]) \/ h[k] = l
  <2>1. MayAppend(fill, q, r, l)
    BY <1>10, <1>14 DEF MayAppend
  <2>2. HasAppended(fill, q, r, l, fill \o <<r>>, q \o <<l>>)
    BY <1>7, <1>10, <2>1, BufferMore, Zenon
  <2>3. HasAppended(fill, q, r, l, g, h)
    BY <2>2, <1>11, <1>12
  <2> QED BY <2>3 DEF HasAppended
<1>16. certain /\ (fill = <<>> => Expect(medium, p, phase) = chunk) /\ Stands(medium, p, phase, starts[phase], pos)
  BY <1>1, <1>3, <1>4 DEF WriterInv
<1>17. g[1].at = 0 /\ h[1].n = Expect(medium, p, phase)
  <2>1. fill = <<>> => EndOf(fill) = 0
    BY DEF EndOf
  <2> QED BY <2>1, <1>10, <1>14, <1>15, <1>16
<1>18. \A k \in 1 .. Len(g) : h[k].sec = phase
  BY <1>7, <1>10, <1>15
<1>19. Behind(g[Len(g)], h[Len(g)]) = chunk + 1
  BY <1>10, <1>15 DEF Behind
<1>20. EndOf(g) \in Nat /\ (phase = "vram" => EndOf(g) <= chunk * (Grid + RecordHead))
  <2> DEFINE w == Grid + RecordHead
  <2>1. w \in Nat
    BY FormatAssumption
  <2>2. phase = "vram" => EndOf(fill) <= (chunk - 1) * w
    BY <1>3 DEF WriterInv
  <2>3. r.len \in Nat /\ r.len <= w
    BY <1>6, <1>10
  <2> HIDE DEF w
  <2>4. (chunk - 1) * w + w = chunk * w /\ (chunk - 1) * w \in Int
    BY <1>4, <2>1
  <2>5. EndOf(g) \in Nat
    BY <1>7, <1>15, <2>3
  <2>6. phase = "vram" => EndOf(g) <= chunk * w
    BY <1>7, <1>15, <2>1, <2>2, <2>3, <2>4
  <2> QED BY <2>5, <2>6 DEF w
<1>21. Earlier' = Earlier /\ Earlier \subseteq Sections \ {phase} /\ \A S \in Earlier : starts[S] \in Nat
  BY <1>1 DEF Earlier, Sections, FormatTypes
<1>22. chunk + 1 <= Chunks[phase] + 1 /\ (chunk + 1) - 1 = chunk
  BY <1>1, <1>4
<1>23. Writing' /\ ~Reading'
  BY <1>1, <1>4 DEF Writing, Reading
<1>24. FormatNext
  BY DEF FormatNext
<1>25. CASE ~(MightOverrun(EndOf(g)) \/ chunk = Chunks[phase])
  <2>1. fill' = g /\ UNCHANGED <<medium, pos, flushed>>
    BY <1>5, <1>13, <1>25 DEF r0
  <2>2. pos % Grid = 0 /\ ~(chunk + 1 > Chunks[phase])
    <3>1. ~(chunk > Chunks[phase]) /\ ~(chunk + 1 > Chunks[phase])
      BY <1>1, <1>4, <1>25
    <3> QED BY <3>1, <1>1, <1>3 DEF WriterInv
  <2>3. WriterInv(p, h)'
    <3>1. \A k \in 1 .. Len(medium) : p[k].sec \in Earlier \cup {phase}
      BY <1>3 DEF WriterInv
    <3>2. \A S \in Earlier : Whole(medium, p, S, starts[S])
      BY <1>3 DEF WriterInv
    <3>3. Trailing(medium, p, phase)
      BY <1>3 DEF WriterInv
    <3> QED BY <1>1, <1>15, <1>16, <1>17, <1>18, <1>19, <1>20, <1>21, <1>22, <2>1, <2>2, <3>1, <3>2, <3>3 DEF WriterInv
  <2>4. FormatTypes'
    <3>1. pos' \in Nat /\ cursor' \in Nat /\ flushed'[1] % Grid = 0 /\ (flushed'[3] # "vram" => flushed'[2] % Grid = 0)
      BY <1>1, <2>1 DEF FormatTypes
    <3> QED BY <1>1, <1>24, <3>1, TypesStep
  <2>5. Laid(medium', p)
    BY <1>2, <2>1
  <2> QED BY <1>23, <2>3, <2>4, <2>5 DEF FormatInv
<1>26. CASE MightOverrun(EndOf(g)) \/ chunk = Chunks[phase]
  <2>1. Flush(g)
    BY <1>5, <1>13, <1>26 DEF r0
  <2> DEFINE len0 == EndOf(g)
             all0 == g \o (IF phase # "vram" THEN <<[section |-> "pad", n |-> 0, at |-> len0, len |-> Pads(len0)]>> ELSE <<>>)
  <2>2. PICK all : all = all0
    OBVIOUS
  <2>3. /\ medium' = medium \o Placed(all, pos) /\ pos' = pos + EndOf(all) /\ fill' = <<>>
        /\ flushed' = <<pos, pos', phase>>
    BY <2>1, <2>2 DEF Flush, Placed, IsPadded
  <2>4. PICK b : /\ Laid(all, b) /\ all # <<>> /\ all[1].at = 0 /\ b[1].n = Expect(medium, p, phase)
                 /\ \A k \in 1 .. Len(all) : b[k].sec = phase
                 /\ Behind(all[Len(all)], b[Len(all)]) = chunk + 1
                 /\ EndOf(all) \in Nat /\ (phase # "vram" => EndOf(all) % Grid = 0)
    <3>1. CASE phase = "vram"
      <4>1. all = g \o <<>> /\ g \in Seq(Recs)
        BY <2>2, <3>1, <1>15 DEF Laid
      <4>2. all = g
        BY <4>1
      <4> QED BY <3>1, <4>2, <1>15, <1>17, <1>18, <1>19, <1>20
    <3>2. CASE phase # "vram"
      <4> DEFINE pd == [section |-> "pad", n |-> 0, at |-> len0, len |-> Pads(len0)]  lb == [sec |-> phase, n |-> chunk + 1]
      <4>1. all = g \o <<pd>>
        BY <2>2, <3>2
      <4>2. Pads(len0) \in Nat \ {0} /\ (len0 + Pads(len0)) \in Nat /\ (len0 + Pads(len0)) % Grid = 0
        BY <1>20, PadFills
      <4>3. pd \in Recs /\ lb \in Labels /\ pd.section = "pad" /\ pd.at = EndOf(g) /\ pd.len = Pads(len0)
            /\ lb.n = chunk + 1 /\ lb.sec = phase
        BY <1>4, <1>20, <4>2 DEF Recs, Labels
      <4> HIDE DEF pd, lb
      <4>4. PICK b : b = h \o <<lb>>
        OBVIOUS
      <4>5. /\ Laid(all, b) /\ all # <<>> /\ all[Len(all)] = pd /\ b[Len(all)] = lb
            /\ EndOf(all) = EndOf(g) + pd.len /\ all[1] = g[1] /\ b[1] = h[1]
            /\ \A k \in 1 .. Len(all) : (k \in 1 .. Len(g) /\ b[k] = h[k]) \/ b[k] = lb
        <5>1. MayAppend(g, h, pd, lb)
          BY <1>15, <1>19, <4>3 DEF MayAppend
        <5>2. HasAppended(g, h, pd, lb, g \o <<pd>>, h \o <<lb>>)
          BY <1>15, <4>3, <5>1, BufferMore, Zenon
        <5>3. HasAppended(g, h, pd, lb, all, b)
          BY <5>2, <4>1, <4>4
        <5>4. g # <<>>
          BY <1>15
        <5> QED BY <5>3, <5>4 DEF HasAppended
      <4>6. Behind(all[Len(all)], b[Len(all)]) = chunk + 1
        BY <4>3, <4>5 DEF Behind
      <4>7. EndOf(all) = len0 + Pads(len0)
        BY <4>3, <4>5
      <4> QED BY <1>17, <1>18, <4>2, <4>3, <4>5, <4>6, <4>7
    <3> QED BY <3>1, <3>2
  <2> HIDE DEF all0, len0
  <2>5. PICK a : a = Placed(all, pos)
    OBVIOUS
  <2>6. /\ Laid(a, b) /\ Len(a) = Len(all) /\ a # <<>> /\ a[1].at = pos /\ EndOf(a) = pos'
        /\ a[Len(all)].section = all[Len(all)].section
    <3>1. pos + 0 = pos
      BY <1>4
    <3> QED BY <1>4, <2>3, <2>4, <2>5, <3>1, PlacedLaid
  <2>7. HasWritten(medium, p, a, b, phase, starts[phase])
    <3>1. \A k \in 1 .. Len(a) : b[k].sec = phase
      BY <2>4, <2>6
    <3> QED BY <1>2, <1>4, <1>16, <2>4, <2>6, <3>1, SectionWritten, Zenon
  <2>8. PICK P : P = p \o b
    OBVIOUS
  <2>9. pos % Grid = 0
    <3>1. ~(chunk > Chunks[phase])
      BY <1>1, <1>4
    <3> QED BY <3>1, <1>1, <1>3 DEF WriterInv
  <2>10. pos' \in Nat /\ (phase # "vram" => pos' % Grid = 0)
    <3>1. pos' = pos + EndOf(all) /\ EndOf(all) \in Nat
      BY <2>3, <2>4
    <3>2. pos' \in Nat
      BY <1>4, <3>1
    <3>3. ASSUME phase # "vram" PROVE pos' % Grid = 0
      <4>1. EndOf(all) % Grid = 0
        BY <2>4, <3>3
      <4>2. (pos + EndOf(all)) % Grid = 0
        BY <1>4, <2>9, <3>1, <4>1, GridSum, Zenon
      <4> QED BY <3>1, <4>2
    <3> QED BY <3>2, <3>3
  <2>11. phase = "vram" => chunk = Chunks[phase]
    <3>1. SUFFICES ASSUME phase = "vram", chunk # Chunks[phase] PROVE FALSE
      OBVIOUS
    <3>2. EndOf(g) + Bound + RecordHead > Buffer - Grid
      BY <1>26, <3>1 DEF MightOverrun, Limit, IsPadded
    <3>3. Chunks["vram"] * (Grid + RecordHead) + Bound + RecordHead <= Buffer - Grid
          /\ {Grid, RecordHead, Bound, Buffer} \subseteq Nat
      BY FormatAssumption
    <3> DEFINE w == Grid + RecordHead
    <3>4. chunk * w <= Chunks["vram"] * w /\ w \in Nat /\ {chunk * w, Chunks["vram"] * w} \subseteq Int
      <4>1. w \in Nat
        BY <3>3
      <4> HIDE DEF w
      <4>2. Chunks["vram"] \in Nat /\ chunk <= Chunks["vram"]
        BY <1>1, <1>4, <3>1
      <4>3. \A i, j \in Nat : i <= j => i * w <= j * w
        BY <4>1
      <4> QED BY <4>1, <4>2, <4>3, <1>4
    <3>5. EndOf(g) <= chunk * w
      BY <1>20, <3>1
    <3> HIDE DEF w
    <3>6. Chunks["vram"] * w + Bound + RecordHead <= Buffer - Grid
      BY <3>3 DEF w
    <3> QED BY <1>20, <3>2, <3>3, <3>4, <3>5, <3>6
  <2>12. WriterInv(P, <<>>)'
    <3>1. Stands(medium', P, phase', starts'[phase'], pos') /\ Expect(medium', P, phase') = chunk'
      <4>1. Behind(a[Len(a)], b[Len(a)]) = Behind(all[Len(all)], b[Len(all)])
        BY <2>6 DEF Behind
      <4> QED BY <1>1, <2>3, <2>4, <2>5, <2>6, <2>7, <2>8, <4>1 DEF HasWritten
    <3>2. \A k \in 1 .. Len(medium') : P[k].sec \in Earlier \cup {phase}
      <4>1. \A k \in 1 .. Len(medium) : p[k].sec \in Earlier \cup {phase}
        BY <1>3 DEF WriterInv
      <4> QED BY <2>3, <2>5, <2>7, <2>8, <4>1 DEF HasWritten
    <3>3. \A S \in Earlier : Whole(medium', P, S, starts[S])
      <4>1. \A S \in Earlier : Whole(medium, p, S, starts[S])
        BY <1>3 DEF WriterInv
      <4> QED BY <1>21, <2>3, <2>5, <2>7, <2>8, <4>1 DEF HasWritten
    <3>4. phase = "vram" => EndOf(<<>>) <= chunk * (Grid + RecordHead)
      <4>1. Grid + RecordHead \in Nat
        BY FormatAssumption
      <4> DEFINE w == Grid + RecordHead
      <4> HIDE DEF w
      <4>2. chunk * w >= 0
        BY <4>1, <1>4 DEF w
      <4> QED BY <4>2 DEF EndOf, w
    <3>5. Laid(<<>>, <<>>) /\ Len(<<>>) = 0 /\ \A k \in 1 .. 0 : FALSE
      BY LaidNothing
    <3>6. pos' % Grid = 0 \/ (phase = "vram" /\ chunk + 1 > Chunks[phase])
      <4>1. chunk = Chunks[phase] => chunk + 1 > Chunks[phase]
        BY <1>4
      <4> QED BY <4>1, <2>10, <2>11
    <3>7. Trailing(medium', P, phase)
      <4>1. Trailing(medium, p, phase)
        BY <1>3 DEF WriterInv
      <4> QED BY <2>3, <2>5, <2>7, <2>8, <4>1 DEF HasWritten
    <3> QED BY <1>1, <1>16, <1>21, <1>22, <2>3, <3>1, <3>2, <3>3, <3>4, <3>5, <3>6, <3>7 DEF WriterInv
  <2>13. FormatTypes'
    <3>1. cursor' \in Nat
      BY <1>1 DEF FormatTypes
    <3>2. flushed'[1] = pos /\ flushed'[2] = pos' /\ flushed'[3] = phase
      BY <2>3
    <3>3. flushed'[1] % Grid = 0 /\ (flushed'[3] # "vram" => flushed'[2] % Grid = 0)
      BY <2>9, <2>10, <3>2
    <3> QED BY <1>1, <1>24, <2>10, <3>1, <3>3, TypesStep
  <2>14. Laid(medium', P)
    BY <2>3, <2>5, <2>7, <2>8 DEF HasWritten
  <2> QED BY <1>23, <2>12, <2>13, <2>14 DEF FormatInv
<1> QED BY <1>25, <1>26

\* a section whose chunks are all written, unless it was cut short
LEMMA SectionDone ==
  ASSUME NEW p, NEW q, Laid(medium, p), WriterInv(p, q), FormatTypes, Writing, chunk > Chunks[phase]
  PROVE  /\ certain => Whole(medium, p, phase, starts[phase]) /\ pos = EndOf(medium)
         /\ \A S \in Earlier : Whole(medium, p, S, starts[S])
         /\ \A k \in 1 .. Len(medium) : p[k].sec \in Earlier \cup {phase}
         /\ fill = <<>> /\ (~certain => phase = "kernel") /\ EndOf(medium) \in Nat
<1>1. /\ phase \in Sections /\ Chunks[phase] \in Nat /\ Chunks[phase] >= 1 /\ chunk \in Nat /\ chunk >= 1
      /\ pos \in Nat /\ starts[phase] \in Nat /\ chunk <= Chunks[phase] + 1
  BY WriterTypes DEF WriterInv
<1>2. chunk = Chunks[phase] + 1 /\ chunk # 1
  BY <1>1
<1>3. fill = <<>>
  BY DEF WriterInv
<1>4. medium \in Seq(Recs) /\ p \in Seq(Labels) /\ Len(p) = Len(medium) /\ Len(medium) \in Nat
  BY DEF Laid
<1>5. ASSUME certain PROVE Whole(medium, p, phase, starts[phase]) /\ pos = EndOf(medium)
  <2>1. Expect(medium, p, phase) = chunk
    BY <1>3, <1>5 DEF WriterInv
  <2>2. medium # <<>> /\ p[Len(medium)].sec = phase /\ Behind(medium[Len(medium)], p[Len(medium)]) = chunk
    BY <2>1, <1>2 DEF Expect
  <2>3. Len(medium) \in 1 .. Len(medium)
    BY <1>4, <2>2, EndOfLast
  <2>4. pos = EndOf(medium) /\ Begun(medium, p, phase, starts[phase])
    BY <2>2, <2>3 DEF WriterInv, Stands
  <2>5. ASSUME NEW k \in 1 .. Len(medium), p[k].sec = phase, k < Len(medium) => p[k + 1].sec # phase
        PROVE  Behind(medium[k], p[k]) = Chunks[phase] + 1
    <3>1. k \in 1 .. Len(medium) - 1 => p[k + 1].sec = phase
      BY <2>5 DEF WriterInv, Trailing
    <3>2. k = Len(medium)
      BY <2>5, <3>1, <1>4
    <3> QED BY <2>2, <3>2, <1>2
  <2> QED BY <2>4, <2>5 DEF Whole
<1>6. EndOf(medium) \in Nat
  BY <1>4, EndOfLast
<1> QED BY <1>3, <1>5, <1>6 DEF WriterInv

\* the card is full, or the buffer is taken away
LEMMA GiveUpKeeps == ASSUME FormatInv, GiveUp PROVE FormatInv'
<1>1. FormatTypes /\ Writing /\ certain /\ certain' = FALSE /\ fill' = <<>>
      /\ UNCHANGED <<compress, batched, medium, pos, starts, cursor, restored, flushed>>
  BY DEF FormatInv, GiveUp
<1>2. PICK p : Laid(medium, p) /\ \E q : WriterInv(p, q)
  BY <1>1 DEF FormatInv
<1>3. PICK q : WriterInv(p, q)
  BY <1>2
<1>4. /\ phase \in Sections /\ Chunks[phase] \in Nat /\ chunk \in Nat /\ chunk >= 1 /\ ~Reading
  BY <1>1, WriterTypes
<1>5. FormatTypes'
  <2>1. pos' \in Nat /\ cursor' \in Nat
    BY <1>1 DEF FormatTypes
  <2>2. flushed'[1] % Grid = 0 /\ (flushed'[3] # "vram" => flushed'[2] % Grid = 0)
    BY <1>1 DEF FormatTypes
  <2>3. FormatNext
    BY DEF FormatNext
  <2> QED BY <1>1, <2>1, <2>2, <2>3, TypesStep
<1>6. Laid(medium', p)
  BY <1>1, <1>2
<1>7. CASE phase # "kernel"
  <2>1. phase' = "failed"
    BY <1>7 DEF GiveUp
  <2>2. ~Writing' /\ ~Reading'
    BY <2>1 DEF Writing, Reading, Sections
  <2> QED BY <1>5, <1>6, <2>2 DEF FormatInv
<1>8. CASE phase = "kernel"
  <2>1. phase' = phase /\ chunk' = Chunks[phase] + 1
    BY <1>8 DEF GiveUp
  <2>2. Writing' /\ ~Reading' /\ Earlier' = Earlier
    BY <2>1, <1>8 DEF Writing, Reading, Sections, Earlier
  <2>3. Laid(<<>>, <<>>) /\ Len(<<>>) = 0 /\ \A k \in 1 .. 0 : FALSE
    BY LaidNothing
  <2>4. batched => pos % Grid = 0
    BY <1>3, <1>8 DEF WriterInv
  <2>5. chunk' > Chunks[phase]
    BY <1>4, <2>1
  <2>6. WriterInv(p, <<>>)'
    BY <1>1, <1>3, <1>8, <2>1, <2>2, <2>3, <2>4, <2>5 DEF WriterInv
  <2> QED BY <1>5, <1>6, <2>2, <2>6 DEF FormatInv
<1> QED BY <1>7, <1>8

\* FreezeSave: the next section
LEMMA NextSectionKeeps == ASSUME FormatInv, NextSection PROVE FormatInv'
<1>1. FormatTypes /\ Writing /\ phase # "kernel" /\ chunk > Chunks[phase] /\ chunk' = 1
      /\ UNCHANGED <<compress, certain, fill, medium, cursor, restored, flushed>>
  BY DEF FormatInv, NextSection
<1>2. PICK p : Laid(medium, p) /\ \E q : WriterInv(p, q)
  BY <1>1 DEF FormatInv
<1>3. PICK q : WriterInv(p, q)
  BY <1>2
<1>4. /\ phase \in Sections /\ pos \in Nat /\ ~Reading /\ starts \in [Sections -> Nat]
      /\ cursor \in Nat /\ batched \in Batches
  BY <1>1, WriterTypes DEF FormatTypes
<1>5. /\ certain => Whole(medium, p, phase, starts[phase]) /\ pos = EndOf(medium)
      /\ \A S \in Earlier : Whole(medium, p, S, starts[S])
      /\ \A k \in 1 .. Len(medium) : p[k].sec \in Earlier \cup {phase}
      /\ fill = <<>> /\ (~certain => phase = "kernel") /\ EndOf(medium) \in Nat
  BY <1>1, <1>2, <1>3, SectionDone
<1>6. /\ certain /\ Whole(medium, p, phase, starts[phase]) /\ pos = EndOf(medium)
  BY <1>1, <1>5
<1>7. medium \in Seq(Recs) /\ Len(medium) \in Nat
  BY <1>2 DEF Laid
<1>8. Laid(<<>>, <<>>) /\ Len(<<>>) = 0 /\ \A k \in 1 .. 0 : FALSE
  BY LaidNothing
<1>9. \A S \in Sections : Chunks[S] \in Nat /\ Chunks[S] >= 1 /\ 1 <= Chunks[S] + 1 /\ ~(1 > Chunks[S])
  <2>1. \A n \in Nat : n >= 1 => 1 <= n + 1 /\ ~(1 > n)
    OBVIOUS
  <2> QED BY <2>1, ChunkCounts
<1>10. EndOf(<<>>) = 0
  BY DEF EndOf
<1>11. ASSUME NEW S \in Sections, \A k \in 1 .. Len(medium) : p[k].sec # S
       PROVE  Expect(medium, p, S) = 1 /\ Trailing(medium, p, S)
  <2>1. medium # <<>> => Len(medium) \in 1 .. Len(medium)
    BY <1>7, EndOfLast
  <2>2. \A k \in 1 .. Len(medium) - 1 : k \in 1 .. Len(medium)
    BY <1>7
  <2> QED BY <2>1, <2>2, <1>11 DEF Expect, Trailing
<1>12. ASSUME pos' \in Nat PROVE FormatTypes'
  <2>1. cursor' \in Nat
    BY <1>1, <1>4
  <2>2. flushed'[1] % Grid = 0 /\ (flushed'[3] # "vram" => flushed'[2] % Grid = 0)
    BY <1>1 DEF FormatTypes
  <2>3. FormatNext
    BY DEF FormatNext
  <2> QED BY <1>1, <1>12, <2>1, <2>2, <2>3, TypesStep
<1>13. CASE phase = "ram"
  <2>1. phase' = "vram" /\ starts' = [starts EXCEPT !["vram"] = pos] /\ pos' = pos /\ batched' = batched
    BY <1>13 DEF NextSection
  <2>2. Earlier = {} /\ Earlier' = {"ram"} /\ starts'["vram"] = pos /\ starts'["ram"] = starts["ram"]
    BY <1>4, <1>13, <2>1 DEF Earlier, Sections
  <2>3. \A k \in 1 .. Len(medium) : p[k].sec = "ram"
    BY <1>5, <1>13, <2>2
  <2>4. Expect(medium, p, "vram") = 1 /\ Trailing(medium, p, "vram")
    BY <1>11, <2>3 DEF Sections
  <2>5. Stands(medium, p, "vram", pos, pos)
    BY <1>5, <1>6, <2>3 DEF Stands
  <2>6. Whole(medium, p, "ram", starts["ram"])
    BY <1>6, <1>13
  <2>7. batched => pos % Grid = 0
    BY <1>3, <1>13 DEF WriterInv
  <2>8. EndOf(<<>>) <= (1 - 1) * (Grid + RecordHead)
    <3>1. Grid + RecordHead \in Nat
      BY FormatAssumption
    <3> QED BY <3>1, <1>10
  <2>9. 1 <= Chunks["vram"] + 1 /\ ~(1 > Chunks["vram"])
    BY <1>9 DEF Sections
  <2>10. WriterInv(p, <<>>)'
    BY <1>1, <1>5, <1>6, <1>8, <2>1, <2>2, <2>3, <2>4, <2>5, <2>6, <2>7, <2>8, <2>9 DEF WriterInv
  <2>11. Writing' /\ ~Reading'
    BY <2>1 DEF Writing, Reading, Sections
  <2>12. Laid(medium', p)
    BY <1>1, <1>2
  <2> QED BY <1>4, <1>12, <2>1, <2>10, <2>11, <2>12 DEF FormatInv
<1>14. CASE phase = "vram"
  <2>1. PICK len \in Contexts : pos' = KernelPlace(len) /\ starts' = [starts EXCEPT !["kernel"] = pos']
    BY <1>14 DEF NextSection
  <2>2. phase' = "kernel" /\ batched' \in Batches
    BY <1>14 DEF NextSection
  <2>3. Earlier = {"ram"} /\ Earlier' = {"ram", "vram"}
    BY <1>14, <2>2 DEF Earlier
  <2>4. pos' \in Nat /\ pos' % Grid = 0 /\ pos <= pos'
    <3>1. len \in Nat
      BY FormatAssumption
    <3>2. pos + len \in Nat /\ pos <= pos + len
      BY <3>1, <1>4
    <3>3. Up(pos + len) \in Nat /\ Up(pos + len) % Grid = 0 /\ pos + len <= Up(pos + len)
      BY <3>2, UpOnGrid
    <3>4. pos' = Up(pos + len)
      BY <2>1 DEF KernelPlace
    <3> QED BY <1>4, <3>2, <3>3, <3>4
  <2>5. starts'["kernel"] = pos' /\ starts'["ram"] = starts["ram"] /\ starts'["vram"] = starts["vram"]
    BY <1>4, <2>1 DEF Sections
  <2>6. \A k \in 1 .. Len(medium) : p[k].sec \in {"ram", "vram"} /\ p[k].sec # "kernel"
    BY <1>5, <1>14, <2>3
  <2>7. Expect(medium, p, "kernel") = 1 /\ Trailing(medium, p, "kernel")
    BY <1>11, <2>6 DEF Sections
  <2>8. Stands(medium, p, "kernel", pos', pos')
    BY <1>5, <1>6, <2>4, <2>6 DEF Stands
  <2>9. Whole(medium, p, "ram", starts["ram"]) /\ Whole(medium, p, "vram", starts["vram"])
    BY <1>5, <1>6, <1>14, <2>3
  <2>10. 1 <= Chunks["kernel"] + 1 /\ ~(1 > Chunks["kernel"])
    BY <1>9 DEF Sections
  <2>11. WriterInv(p, <<>>)'
    BY <1>1, <1>5, <1>6, <1>8, <2>2, <2>3, <2>4, <2>5, <2>6, <2>7, <2>8, <2>9, <2>10 DEF WriterInv
  <2>12. Writing' /\ ~Reading'
    BY <2>2 DEF Writing, Reading, Sections
  <2>13. Laid(medium', p)
    BY <1>1, <1>2
  <2> QED BY <1>12, <2>4, <2>11, <2>12, <2>13 DEF FormatInv
<1> QED BY <1>1, <1>4, <1>13, <1>14 DEF Sections

-----------------------------------------------------------------------------
(* The reader's steps *)

\* a reader that stands where a section that is whole begins
LEMMA ReaderBegins ==
  ASSUME NEW p, NEW S \in Sections, Whole(medium, p, S, starts[S])
  PROVE  \E k \in 1 .. Len(medium) : medium[k].at = starts[S] /\ p[k].sec = S /\ p[k].n = 1
BY DEF Whole, Begun

LEMMA BeginsReading ==
  ASSUME NEW p, FormatTypes, Laid(medium, p), \A S \in Readable : Whole(medium, p, S, starts[S]),
         UNCHANGED <<certain, medium, starts, flushed>>, FormatNext, Reading', Seek(Section'), Section' \in Readable
  PROVE  FormatInv'
<1>1. Section' \in Sections
  BY DEF Section, Sections
<1> DEFINE S0 == Section'
<1>0. PICK S \in Sections : S = S0
  BY <1>1
<1>2. pos' = starts[S] /\ cursor' = starts[S] /\ chunk' = 1 /\ restored' = <<>>
  BY <1>0 DEF Seek
<1>3. starts[S] \in Nat
  BY DEF FormatTypes
<1>4. flushed'[1] % Grid = 0 /\ (flushed'[3] # "vram" => flushed'[2] % Grid = 0)
  BY DEF FormatTypes
<1>5. FormatTypes'
  BY <1>2, <1>3, <1>4, TypesStep
<1>6. Readable' = Readable /\ S \in Readable
  BY <1>0 DEF Readable
<1>7. ReaderInv(p)'
  <2>1. PICK k \in 1 .. Len(medium) : medium[k].at = starts[S] /\ p[k].sec = S /\ p[k].n = 1
    BY <1>6, ReaderBegins
  <2>2. 1 <= Chunks[S] + 1
    <3>1. Chunks[S] \in Nat
      BY ChunkCounts
    <3> QED BY <3>1
  <2>3. <<>> = [i \in 1 .. 1 - 1 |-> [section |-> S, n |-> i]]
    OBVIOUS
  <2> QED BY <1>0, <1>2, <1>6, <2>1, <2>2, <2>3 DEF ReaderInv
<1>8. ~Writing'
  BY DEF Reading, Writing, Sections
<1> QED BY <1>5, <1>7, <1>8 DEF FormatInv

LEMMA BeginKeeps == ASSUME FormatInv, Begin PROVE FormatInv'
<1>1. /\ FormatTypes /\ phase = "kernel" /\ chunk > Chunks[phase]
      /\ UNCHANGED <<compress, certain, fill, medium, starts, flushed>>
  BY DEF FormatInv, Begin
<1>2. Writing
  BY <1>1 DEF Writing, Sections
<1>3. PICK p : Laid(medium, p) /\ \E q : WriterInv(p, q)
  BY <1>2 DEF FormatInv
<1>4. PICK q : WriterInv(p, q)
  BY <1>3
<1>5. /\ certain => Whole(medium, p, phase, starts[phase])
      /\ \A S \in Earlier : Whole(medium, p, S, starts[S])
  BY <1>1, <1>2, <1>3, <1>4, SectionDone
<1>6. Earlier = {"ram", "vram"}
  BY <1>1 DEF Earlier
<1>7. \A S \in Readable : Whole(medium, p, S, starts[S])
  BY <1>1, <1>5, <1>6 DEF Readable
<1>8. FormatNext
  BY DEF FormatNext
<1>9. CASE phase' = "read ram" /\ Seek("ram")
  <2>1. Section' = "ram" /\ Reading' /\ "ram" \in Readable
    BY <1>9 DEF Section, Reading, Readable
  <2> QED BY <1>1, <1>3, <1>7, <1>8, <1>9, <2>1, BeginsReading
<1>10. CASE certain /\ phase' = "read kernel" /\ Seek("kernel")
  <2>1. Section' = "kernel" /\ Reading' /\ "kernel" \in Readable
    BY <1>10 DEF Section, Reading, Readable
  <2> QED BY <1>1, <1>3, <1>7, <1>8, <1>10, <2>1, BeginsReading
<1> QED BY <1>9, <1>10 DEF Begin

\* restore_region_records: the region is whole
LEMMA SectionReadKeeps == ASSUME FormatInv, SectionRead PROVE FormatInv'
<1>1. /\ FormatTypes /\ Reading /\ UNCHANGED <<compress, certain, fill, medium, starts, flushed>>
  BY DEF FormatInv, SectionRead
<1>2. PICK p : Laid(medium, p) /\ ReaderInv(p)
  BY <1>1 DEF FormatInv
<1>3. \A S \in Readable : Whole(medium, p, S, starts[S])
  BY <1>2 DEF ReaderInv
<1>4. FormatNext
  BY DEF FormatNext
<1>5. CASE phase' = "read ram" /\ Seek("ram")
  <2>1. Section' = "ram" /\ Reading' /\ "ram" \in Readable
    BY <1>5 DEF Section, Reading, Readable
  <2> QED BY <1>1, <1>2, <1>3, <1>4, <1>5, <2>1, BeginsReading
<1>6. CASE phase' = "read vram" /\ Seek("vram")
  <2>1. Section' = "vram" /\ Reading' /\ "vram" \in Readable
    BY <1>6 DEF Section, Reading, Readable
  <2> QED BY <1>1, <1>2, <1>3, <1>4, <1>6, <2>1, BeginsReading
<1>7. CASE phase' = "whole" /\ UNCHANGED <<pos, cursor, chunk, restored, batched>>
  <2>1. pos' \in Nat /\ cursor' \in Nat
    BY <1>1, <1>7 DEF FormatTypes
  <2>2. flushed'[1] % Grid = 0 /\ (flushed'[3] # "vram" => flushed'[2] % Grid = 0)
    BY <1>1 DEF FormatTypes
  <2>3. FormatTypes'
    BY <1>1, <1>4, <2>1, <2>2, TypesStep
  <2>4. ~Writing' /\ ~Reading' /\ Laid(medium', p)
    BY <1>1, <1>2, <1>7 DEF Writing, Reading, Sections
  <2> QED BY <2>3, <2>4 DEF FormatInv
<1>8. phase \in {"read ram", "read vram", "read kernel"}
  BY <1>1 DEF Reading
<1> QED BY <1>5, <1>6, <1>7, <1>8 DEF SectionRead

\* ... a read fails
LEMMA ReadFailsKeeps == ASSUME FormatInv, ReadFails PROVE FormatInv'
<1>1. /\ FormatTypes /\ Reading /\ phase' = "frozen"
      /\ UNCHANGED <<compress, batched, certain, chunk, fill, medium, pos, starts, cursor, restored, flushed>>
  BY DEF FormatInv, ReadFails
<1>2. PICK p : Laid(medium, p)
  BY DEF FormatInv
<1>3. pos' \in Nat /\ cursor' \in Nat
  BY <1>1 DEF FormatTypes
<1>4. flushed'[1] % Grid = 0 /\ (flushed'[3] # "vram" => flushed'[2] % Grid = 0)
  BY <1>1 DEF FormatTypes
<1>5. FormatTypes'
  <2>1. FormatNext
    BY DEF FormatNext
  <2> QED BY <1>1, <1>3, <1>4, <2>1, TypesStep
<1>6. ~Writing' /\ ~Reading' /\ Laid(medium', p)
  BY <1>1, <1>2 DEF Writing, Reading, Sections
<1> QED BY <1>5, <1>6 DEF FormatInv

\* ... what is found at the cursor is the chunk expected there, or a pad in front of it
LEMMA ReaderStands ==
  ASSUME NEW p, FormatTypes, Reading, Laid(medium, p), ReaderInv(p), chunk <= Chunks[Section], NEW k \in Here
  PROVE  /\ k \in 1 .. Len(medium) /\ medium[k] \in Recs /\ medium[k].at = cursor
         /\ p[k].sec = Section /\ p[k].n = chunk
<1>1. medium \in Seq(Recs) /\ Len(medium) \in Nat
  BY DEF Laid
<1>2. k \in 1 .. Len(medium) /\ medium[k].at = cursor
  BY DEF Here
<1>3. PICK j \in 1 .. Len(medium) : medium[j].at = cursor /\ p[j].sec = Section /\ p[j].n = chunk
  BY DEF ReaderInv
<1>4. medium[k] \in Recs /\ medium[j] \in Recs
  BY <1>1, <1>2, <1>3
<1>5. ~(j < k) /\ ~(k < j)
  <2>1. EndAt(medium[k]) > medium[k].at /\ EndAt(medium[j]) > medium[j].at
    BY <1>4, Recs1
  <2>2. {EndAt(medium[k]), EndAt(medium[j]), medium[k].at, medium[j].at} \subseteq Nat
    BY <1>4, Recs1
  <2>3. (j < k => EndAt(medium[j]) <= medium[k].at) /\ (k < j => EndAt(medium[k]) <= medium[j].at)
    BY <1>2, <1>3 DEF Laid
  <2> QED BY <1>2, <1>3, <2>1, <2>2, <2>3
<1>6. j = k
  BY <1>1, <1>2, <1>3, <1>5
<1> QED BY <1>2, <1>3, <1>4, <1>6

\* ... and behind it lies the one expected next
LEMMA ReaderGoesOn ==
  ASSUME NEW p, NEW S \in Sections, NEW s, NEW m, Laid(m, p), Whole(m, p, S, s),
         NEW k \in 1 .. Len(m), p[k].sec = S, Behind(m[k], p[k]) <= Chunks[S]
  PROVE  \E i \in 1 .. Len(m) : m[i].at = EndAt(m[k]) /\ p[i].sec = S /\ p[i].n = Behind(m[k], p[k])
<1>1. Len(m) \in Nat /\ m[k] \in Recs /\ p[k] \in Labels
  BY DEF Laid
<1>2. Behind(m[k], p[k]) # Chunks[S] + 1
  <2>1. Behind(m[k], p[k]) \in Nat /\ Chunks[S] \in Nat
    BY <1>1, ChunkCounts DEF Behind, Labels
  <2> QED BY <2>1
<1>3. k < Len(m) /\ p[k + 1].sec = S
  BY <1>2 DEF Whole
<1>4. k \in 1 .. Len(m) - 1 /\ k + 1 \in 1 .. Len(m)
  BY <1>1, <1>3
<1>5. m[k + 1].at = EndAt(m[k]) /\ p[k + 1].n = Behind(m[k], p[k])
  BY <1>3, <1>4 DEF Laid
<1> QED BY <1>3, <1>4, <1>5

LEMMA ReadRecordKeeps == ASSUME FormatInv, ReadRecord PROVE FormatInv'
<1>1. /\ FormatTypes /\ Reading /\ chunk <= Chunks[Section]
      /\ UNCHANGED <<compress, batched, phase, certain, fill, medium, starts, flushed>>
  BY DEF FormatInv, ReadRecord
<1>2. PICK p : Laid(medium, p) /\ ReaderInv(p)
  BY <1>1 DEF FormatInv
<1>3. PICK k \in Here :
        LET r == medium[k]
        IN /\ cursor + r.len <= Eof /\ pos' = Ahead(r.len) /\ cursor' = cursor + r.len
           /\ IF r.section = "pad" THEN SkipPad(r)
              ELSE chunk' = chunk + 1 /\ restored' = Append(restored, [section |-> r.section, n |-> r.n])
  BY DEF ReadRecord
<1>4. PICK r : r = medium[k]
  OBVIOUS
<1>5. /\ k \in 1 .. Len(medium) /\ r \in Recs /\ r.at = cursor /\ p[k].sec = Section /\ p[k].n = chunk
  BY <1>1, <1>2, <1>4, ReaderStands
<1>6. r.len \in Nat /\ cursor \in Nat /\ cursor' = cursor + r.len /\ cursor' \in Nat /\ cursor' = EndAt(r)
      /\ chunk \in Nat \ {0} /\ pos \in Nat
  <2>1. cursor \in Nat /\ r.len \in Nat /\ chunk \in Nat \ {0} /\ pos \in Nat
    BY <1>1, <1>5, Recs1 DEF FormatTypes
  <2> QED BY <2>1, <1>3, <1>4, <1>5 DEF EndAt
<1>7. pos' \in Nat
  <2>1. EndOf(medium) \in Nat /\ Unit \in Nat
    <3>1. medium \in Seq(Recs)
      BY <1>2 DEF Laid
    <3> QED BY <3>1, EndOfLast, FormatAssumption
  <2>2. pos' = Ahead(r.len)
    BY <1>3, <1>4
  <2> QED BY <1>6, <2>1, <2>2 DEF Ahead, Lesser, Eof
<1>8. FormatTypes'
  <2>1. flushed'[1] % Grid = 0 /\ (flushed'[3] # "vram" => flushed'[2] % Grid = 0)
    BY <1>1 DEF FormatTypes
  <2>2. FormatNext
    BY DEF FormatNext
  <2> QED BY <1>1, <1>6, <1>7, <2>1, <2>2, TypesStep
<1>9. Section' = Section /\ Section \in Sections /\ Readable' = Readable /\ Reading' /\ ~Writing'
  BY <1>1 DEF Section, Readable, Reading, Writing, Sections
<1>10. PICK S \in Sections : S = Section
  BY <1>9
<1>11. chunk' = Behind(r, p[k]) /\ (r.section = "pad" => restored' = restored)
       /\ (r.section # "pad" => restored' = Append(restored, [section |-> S, n |-> chunk]))
  <2>1. CASE r.section = "pad"
    BY <2>1, <1>3, <1>4, <1>5 DEF SkipPad, Behind
  <2>2. CASE r.section # "pad"
    <3>1. r.section = Section /\ r.n = chunk
      BY <2>2, <1>2, <1>4, <1>5 DEF Laid
    <3> QED BY <2>2, <1>3, <1>4, <1>5, <1>10, <3>1 DEF Behind
  <2> QED BY <2>1, <2>2
<1>12. chunk' <= Chunks[S] + 1 /\ (chunk' = chunk \/ chunk' = chunk + 1) /\ (r.section = "pad" <=> chunk' = chunk)
  <2>1. Chunks[S] \in Nat /\ chunk <= Chunks[S]
    BY <1>1, <1>10, ChunkCounts
  <2> QED BY <2>1, <1>5, <1>6, <1>11 DEF Behind
<1>13. restored = [i \in 1 .. chunk - 1 |-> [section |-> S, n |-> i]]
  BY <1>2, <1>10 DEF ReaderInv
<1>14. restored' = [i \in 1 .. chunk' - 1 |-> [section |-> S, n |-> i]]
  <2>1. CASE r.section = "pad"
    BY <2>1, <1>11, <1>12, <1>13
  <2>2. CASE r.section # "pad"
    <3> DEFINE e == [section |-> S, n |-> chunk]  f == [i \in 1 .. chunk - 1 |-> [section |-> S, n |-> i]]
               c == [i \in 1 .. chunk |-> [section |-> S, n |-> i]]
    <3>0. chunk' = chunk + 1 /\ chunk' - 1 = chunk
      BY <2>2, <1>6, <1>12
    <3>1. restored' = Append(f, e) /\ chunk' - 1 = chunk
      <4>1. restored' = Append(restored, e)
        BY <2>2, <1>11
      <4> QED BY <4>1, <3>0, <1>13
    <3>2. Append(f, e) = c
      BY <1>6
    <3> QED BY <3>1, <3>2
  <2> QED BY <2>1, <2>2
<1>15. \A T \in Readable : Whole(medium, p, T, starts[T])
  BY <1>2 DEF ReaderInv
<1>16. S \in Readable
  BY <1>2, <1>10 DEF ReaderInv
<1>17. ASSUME chunk' <= Chunks[S]
       PROVE  \E i \in 1 .. Len(medium) : medium[i].at = cursor' /\ p[i].sec = S /\ p[i].n = chunk'
  <2>1. Whole(medium, p, S, starts[S])
    BY <1>15, <1>16
  <2>2. p[k].sec = S /\ Behind(medium[k], p[k]) <= Chunks[S]
    BY <1>4, <1>5, <1>10, <1>11, <1>17
  <2>3. \E i \in 1 .. Len(medium) :
          medium[i].at = EndAt(medium[k]) /\ p[i].sec = S /\ p[i].n = Behind(medium[k], p[k])
    BY <1>2, <1>5, <2>1, <2>2, ReaderGoesOn
  <2> QED BY <2>3, <1>4, <1>6, <1>11
<1>18. ReaderInv(p)'
  BY <1>1, <1>9, <1>10, <1>12, <1>14, <1>15, <1>16, <1>17 DEF ReaderInv
<1>19. Laid(medium', p)
  BY <1>1, <1>2
<1> QED BY <1>8, <1>9, <1>18, <1>19 DEF FormatInv

-----------------------------------------------------------------------------
(* What the invariant says of the card *)

LEMMA FormatStays == ASSUME FormatInv, [FormatNext]_formatVars PROVE FormatInv'
<1>1. CASE UNCHANGED formatVars
  <2>1. PICK p : Laid(medium, p) /\ (Writing => \E q : WriterInv(p, q)) /\ (Reading => ReaderInv(p))
    BY DEF FormatInv
  <2>2. FormatTypes'
    BY <1>1 DEF FormatInv, FormatTypes, formatVars, Batches
  <2>3. Laid(medium', p)
    BY <1>1, <2>1 DEF formatVars
  <2>4. Reading' => ReaderInv(p)'
    BY <1>1, <2>1 DEF formatVars, Reading, ReaderInv, Section, Readable
  <2>5. ASSUME Writing' PROVE \E q : WriterInv(p, q)'
    <3>1. PICK q : WriterInv(p, q)
      BY <1>1, <2>1, <2>5 DEF formatVars, Writing
    <3>2. WriterInv(p, q)'
      BY <1>1, <3>1 DEF formatVars, WriterInv, Earlier
    <3> QED BY <3>2
  <2> QED BY <2>2, <2>3, <2>4, <2>5 DEF FormatInv
<1>2. CASE FormatNext
  BY <1>2, BatchKeeps, WriteChunkKeeps, GiveUpKeeps, NextSectionKeeps, BeginKeeps, SectionReadKeeps,
     ReadRecordKeeps, ReadFailsKeeps, Zenon DEF FormatNext
<1> QED BY <1>1, <1>2

LEMMA FormatReadsBack == FormatInv => SectionsReadBack
<1> SUFFICES ASSUME FormatInv PROVE SectionsReadBack
  OBVIOUS
<1>1. PICK p : Laid(medium, p) /\ (Reading => ReaderInv(p))
  BY DEF FormatInv
<1>2. medium \in Seq(Recs) /\ Len(medium) \in Nat
  BY <1>1 DEF Laid
<1>3. ASSUME NEW k \in 1 .. Len(medium) - 1 PROVE EndOf(SubSeq(medium, 1, k)) <= medium[k + 1].at
  <2> DEFINE f == SubSeq(medium, 1, k)
  <2>1. k \in 1 .. Len(medium) /\ k + 1 \in 1 .. Len(medium) /\ k < k + 1 /\ k \in Nat /\ k >= 1
    BY <1>2
  <2>2. f \in Seq(Recs) /\ Len(f) = k /\ f[k] = medium[k]
    BY <1>2, <2>1
  <2>3. f # <<>>
    BY <2>1, <2>2
  <2> HIDE DEF f
  <2>4. EndOf(f) = EndAt(medium[k])
    BY <2>2, <2>3, EndOfLast
  <2>5. EndAt(medium[k]) <= medium[k + 1].at
    BY <1>1, <2>1 DEF Laid
  <2> QED BY <2>4, <2>5 DEF f
<1>4. FlushesOnGrid
  BY <1>3 DEF FlushesOnGrid, FormatInv, FormatTypes
<1>5. ASSUME Reading
      PROVE  /\ restored = [k \in 1 .. chunk - 1 |-> [section |-> Section, n |-> k]]
             /\ chunk <= Chunks[Section] => \E k \in Here : medium[k].section \in {"pad", Section}
  <2>1. ReaderInv(p)
    BY <1>1, <1>5
  <2>2. ASSUME chunk <= Chunks[Section] PROVE \E k \in Here : medium[k].section \in {"pad", Section}
    <3>1. PICK k \in 1 .. Len(medium) : medium[k].at = cursor /\ p[k].sec = Section /\ p[k].n = chunk
      BY <2>1, <2>2 DEF ReaderInv
    <3>2. k \in Here /\ (medium[k].section # "pad" => medium[k].section = Section)
      BY <1>1, <3>1 DEF Here, Laid
    <3> QED BY <3>2
  <2> QED BY <2>1, <2>2 DEF ReaderInv
<1> QED BY <1>4, <1>5 DEF SectionsReadBack, ReadsBack

\* What a save writes is laid out without a gap on the card's grid, flush after flush, and reading
\* it back meets the chunks of every section, all and in order, whether the writer and the reader
\* used the buffer or not (save_region_records, iobuf_flush_padded, restore_region_records).
THEOREM SectionsStayReadable == FormatSpec => []SectionsReadBack
<1>1. FormatInv /\ [FormatNext]_formatVars => FormatInv'
  BY FormatStays
<1> QED BY FormatInitially, FormatReadsBack, <1>1, PTL DEF FormatSpec

\* a record of the card is as long as a chunk may get, and a pad's load is shorter than the grid
Fine(r) == r.len <= Grid + RecordHead /\ (r.section = "pad" => r.len - RecordHead \in 0 .. Grid - 1)

\* the buffer has room for the chunk that is encoded next, and for what is read ahead
RoomInv ==
  /\ ~Writing => fill = <<>>
  /\ \A k \in 1 .. Len(fill) : fill[k].section # "pad" /\ Fine(fill[k])
  /\ \A k \in 1 .. Len(medium) : Fine(medium[k])
  /\ EndOf(fill) + Bound + RecordHead <= Limit
  /\ Reading /\ batched => pos - cursor \in 0 .. Buffer - Grid

LEMMA Sizes ==
  /\ Grid \in Nat /\ RecordHead \in Nat /\ Bound \in Nat /\ Buffer \in Nat /\ Unit \in Nat /\ Grid > 0 /\ RecordHead > 0 /\ Grid < Bound
  /\ RecordHead + Bound <= Unit /\ Unit <= Buffer - Grid
BY FormatAssumption

LEMMA EmptyFits == 0 + Bound + RecordHead <= Limit
BY Sizes DEF Limit

LEMMA PadFine == ASSUME NEW n \in Nat PROVE Pads(n) - RecordHead \in 0 .. Grid - 1
<1> DEFINE u == Up(n + RecordHead)
<1>1. n + RecordHead \in Nat
  BY Sizes
<1>2. u \in Nat /\ n + RecordHead <= u /\ u < n + RecordHead + Grid
  BY <1>1, UpOnGrid
<1>3. Pads(n) = u - n
  BY DEF Pads
<1> HIDE DEF u
<1> QED BY <1>2, <1>3, Sizes

LEMMA AppendFine ==
  ASSUME NEW s \in Seq(Recs), NEW r \in Recs, Fine(r), \A k \in 1 .. Len(s) : Fine(s[k])
  PROVE  \A k \in 1 .. Len(Append(s, r)) : Fine(Append(s, r)[k])
<1> DEFINE t == Append(s, r)
<1>1. Len(s) \in Nat /\ Len(t) = Len(s) + 1 /\ t[Len(s) + 1] = r /\ \A k \in 1 .. Len(s) : t[k] = s[k]
  OBVIOUS
<1> HIDE DEF t
<1>2. ASSUME NEW k \in 1 .. Len(t) PROVE Fine(t[k])
  <2>1. k \in 1 .. Len(s) \/ k = Len(s) + 1
    BY <1>1
  <2> QED BY <1>1, <2>1
<1> QED BY <1>2 DEF t

\* a record moved is as long as it was
LEMMA MovedRecord ==
  ASSUME NEW r \in Recs, NEW by \in Nat
  PROVE  LET m == [r EXCEPT !.at = @ + by] IN m \in Recs /\ m.len = r.len /\ m.section = r.section
BY DEF Recs

\* what a flush leaves on the card
LEMMA FlushRoom ==
  ASSUME NEW g \in Seq(Recs), medium \in Seq(Recs), pos \in Nat, Flush(g), \A k \in 1 .. Len(g) : g[k].section # "pad" /\ Fine(g[k]),
         \A k \in 1 .. Len(medium) : Fine(medium[k])
  PROVE  fill' = <<>> /\ \A k \in 1 .. Len(medium') : Fine(medium'[k])
<1> DEFINE len0 == EndOf(g)
           pad == IF IsPadded THEN <<[section |-> "pad", n |-> 0, at |-> len0, len |-> Pads(len0)]>> ELSE <<>>
           all0 == g \o pad
<1>0. PICK all : all = all0
  OBVIOUS
<1>1. /\ medium' = medium \o [k \in 1 .. Len(all) |-> [all[k] EXCEPT !.at = @ + pos]]
      /\ fill' = <<>>
  BY <1>0 DEF Flush
<1>2. len0 \in Nat
  BY EndOfLast
<1>3. all \in Seq(Recs) /\ \A k \in 1 .. Len(all) : Fine(all[k])
  <2>1. CASE ~IsPadded
    <3>1. all = g \o <<>>
      BY <1>0, <2>1
    <3>2. all = g
      BY <3>1
    <3> QED BY <3>2
  <2>2. CASE IsPadded
    <3> DEFINE pd == [section |-> "pad", n |-> 0, at |-> len0, len |-> Pads(len0)]
    <3>1. all = g \o <<pd>>
      BY <1>0, <2>2
    <3>2. Pads(len0) \in Nat \ {0} /\ Pads(len0) - RecordHead \in 0 .. Grid - 1
      BY <1>2, PadFills, PadFine
    <3>3. pd \in Recs /\ pd.section = "pad" /\ pd.len = Pads(len0)
      BY <1>2, <3>2 DEF Recs
    <3> HIDE DEF pd, len0
    <3>4. Fine(pd)
      BY <3>2, <3>3, Sizes DEF Fine
    <3>5. all = Append(g, pd)
      BY <3>1, <3>3
    <3>6. \A k \in 1 .. Len(Append(g, pd)) : Fine(Append(g, pd)[k])
      BY <3>3, <3>4, AppendFine
    <3>7. Append(g, pd) \in Seq(Recs)
      BY <3>3
    <3> QED BY <3>5, <3>6, <3>7
  <2> QED BY <2>1, <2>2
<1> HIDE DEF all0, len0, pad
<1> DEFINE a0 == [k \in 1 .. Len(all) |-> [all[k] EXCEPT !.at = @ + pos]]
<1>4. PICK a : a = a0
  OBVIOUS
<1>5. Len(all) \in Nat /\ \A k \in 1 .. Len(all) : all[k] \in Recs
  BY <1>3
<1>6. Len(a) = Len(all) /\ \A k \in 1 .. Len(all) : a[k] = [all[k] EXCEPT !.at = @ + pos]
  BY <1>4, <1>5
<1>7. ASSUME NEW k \in 1 .. Len(all)
      PROVE  a[k] \in Recs /\ a[k].len = all[k].len /\ a[k].section = all[k].section
  <2>1. a[k] = [all[k] EXCEPT !.at = @ + pos] /\ all[k] \in Recs
    BY <1>5, <1>6
  <2> QED BY <2>1, MovedRecord
<1>8. a \in Seq(Recs)
  <2>1. a = [k \in 1 .. Len(all) |-> a[k]]
    BY <1>4, <1>6
  <2> QED BY <1>5, <1>7, <2>1
<1> HIDE DEF a0
<1>9. medium' = medium \o a
  BY <1>1, <1>4 DEF a0
<1>10. /\ Len(medium) \in Nat /\ Len(medium \o a) = Len(medium) + Len(a)
       /\ \A k \in 1 .. Len(medium) : (medium \o a)[k] = medium[k]
       /\ \A k \in 1 .. Len(a) : (medium \o a)[Len(medium) + k] = a[k]
  BY <1>8
<1>11. ASSUME NEW k \in 1 .. Len(medium') PROVE Fine(medium'[k])
  <2>1. CASE k <= Len(medium)
    <3>1. k \in 1 .. Len(medium)
      BY <1>10, <2>1
    <3> QED BY <1>9, <1>10, <3>1
  <2>2. CASE k > Len(medium)
    <3>1. PICK i \in 1 .. Len(a) : k = Len(medium) + i
      <4>1. k - Len(medium) \in 1 .. Len(a) /\ k = Len(medium) + (k - Len(medium))
        BY <1>5, <1>6, <1>9, <1>10, <2>2
      <4> QED BY <4>1
    <3>2. medium'[k] = a[i]
      BY <1>9, <1>10, <3>1
    <3>3. a[i].len = all[i].len /\ a[i].section = all[i].section /\ Fine(all[i])
      BY <1>3, <1>6, <1>7, <3>1
    <3> QED BY <3>2, <3>3 DEF Fine
  <2>3. k \in Nat
    OBVIOUS
  <2> QED BY <1>10, <2>1, <2>2, <2>3
<1> QED BY <1>1, <1>11

\* the writer's record of the next chunk
LEMMA ChunkFine ==
  ASSUME NEW len \in Encoded, NEW spot \in Nat, chunk \in Nat, Writing
  PROVE  LET r == [section |-> phase, n |-> chunk, at |-> spot, len |-> len]
         IN r \in Recs /\ Fine(r) /\ r.section # "pad" /\ r.len = len
<1>1. len \in Nat \ {0} /\ len <= Grid + RecordHead
  BY EncodedLen
<1> DEFINE r == [section |-> phase, n |-> chunk, at |-> spot, len |-> len]
<1>2. r \in Recs /\ r.section # "pad" /\ r.len = len
  BY <1>1 DEF Recs, Writing, Sections
<1> HIDE DEF r
<1>3. Fine(r)
  BY <1>1, <1>2 DEF Fine
<1> QED BY <1>2, <1>3 DEF r

LEMMA BatchRoom == ASSUME FormatInv, RoomInv, Batch PROVE RoomInv'
<1>1. /\ FormatTypes /\ Writing /\ chunk \in Nat /\ pos \in Nat /\ phase \in Sections
      /\ UNCHANGED <<compress, batched, phase, certain, starts, cursor, restored>>
  BY WriterTypes DEF FormatInv, Batch
<1>2. medium \in Seq(Recs) /\ fill \in Seq(Recs)
  BY <1>1 DEF FormatInv, WriterInv, Laid
<1>3. EndOf(fill) \in Nat
  BY <1>2, EndOfLast
<1>4. PICK len \in Encoded :
        LET records == Append(fill, [section |-> phase, n |-> chunk, at |-> EndOf(fill), len |-> len])
        IN IF MightOverrun(EndOf(records)) \/ chunk = Chunks[phase] THEN Flush(records)
           ELSE fill' = records /\ UNCHANGED <<medium, pos, flushed>>
  BY DEF Batch
<1>5. PICK r : r = [section |-> phase, n |-> chunk, at |-> EndOf(fill), len |-> len]
  OBVIOUS
<1>6. r \in Recs /\ Fine(r) /\ r.section # "pad"
  BY <1>1, <1>3, <1>5, ChunkFine
<1>7. PICK g : g = Append(fill, r)
  OBVIOUS
<1>8. IF MightOverrun(EndOf(g)) \/ chunk = Chunks[phase] THEN Flush(g)
      ELSE fill' = g /\ UNCHANGED <<medium, pos, flushed>>
  BY <1>4, <1>5, <1>7
<1>9. g \in Seq(Recs) /\ \A k \in 1 .. Len(g) : Fine(g[k]) /\ g[k].section # "pad"
  <2>1. /\ g \in Seq(Recs) /\ Len(fill) \in Nat /\ Len(g) = Len(fill) + 1 /\ g[Len(fill) + 1] = r
        /\ \A k \in 1 .. Len(fill) : g[k] = fill[k]
    BY <1>2, <1>6, <1>7
  <2>2. ASSUME NEW k \in 1 .. Len(g) PROVE Fine(g[k]) /\ g[k].section # "pad"
    <3>1. k \in 1 .. Len(fill) \/ k = Len(fill) + 1
      BY <2>1
    <3> QED BY <1>6, <2>1, <3>1 DEF RoomInv
  <2> QED BY <2>1, <2>2
<1>10. Writing' /\ ~Reading' /\ Limit' = Limit
  BY <1>1, WriterTypes DEF Writing, Reading, Limit, IsPadded
<1>11. CASE MightOverrun(EndOf(g)) \/ chunk = Chunks[phase]
  <2>1. Flush(g)
    BY <1>8, <1>11
  <2>2. fill' = <<>> /\ \A k \in 1 .. Len(medium') : Fine(medium'[k])
    BY <1>1, <1>2, <1>9, <2>1, FlushRoom DEF RoomInv
  <2>3. EndOf(fill') = 0 /\ Len(fill') = 0
    BY <2>2 DEF EndOf
  <2>4. 0 + Bound + RecordHead <= Limit'
    BY <1>10, EmptyFits
  <2>5. \A k \in 1 .. Len(fill') : fill'[k].section # "pad" /\ Fine(fill'[k])
    BY <2>3
  <2> QED BY <1>10, <2>2, <2>3, <2>4, <2>5 DEF RoomInv
<1>12. CASE ~(MightOverrun(EndOf(g)) \/ chunk = Chunks[phase])
  <2>1. fill' = g /\ medium' = medium
    BY <1>8, <1>12
  <2>2. EndOf(g) \in Nat /\ Limit \in Int
    BY <1>9, EndOfLast, Sizes DEF Limit
  <2>3. EndOf(g) + Bound + RecordHead <= Limit
    BY <1>12, <2>2, Sizes DEF MightOverrun
  <2> QED BY <1>9, <1>10, <2>1, <2>3 DEF RoomInv
<1> QED BY <1>11, <1>12

LEMMA WriteChunkRoom == ASSUME FormatInv, RoomInv, WriteChunk PROVE RoomInv'
<1>1. /\ FormatTypes /\ Writing /\ chunk \in Nat /\ pos \in Nat
      /\ UNCHANGED <<compress, batched, phase, certain, fill, starts, cursor, restored, flushed>>
  BY WriterTypes DEF FormatInv, WriteChunk
<1>2. medium \in Seq(Recs)
  BY DEF FormatInv, Laid
<1>3. PICK len \in Encoded : medium' = Append(medium, [section |-> phase, n |-> chunk, at |-> pos, len |-> len])
  BY DEF WriteChunk
<1>4. PICK r : r = [section |-> phase, n |-> chunk, at |-> pos, len |-> len]
  OBVIOUS
<1>5. r \in Recs /\ Fine(r) /\ medium' = Append(medium, r)
  BY <1>1, <1>3, <1>4, ChunkFine
<1>6. \A k \in 1 .. Len(medium') : Fine(medium'[k])
  <2>1. \A k \in 1 .. Len(medium) : Fine(medium[k])
    BY DEF RoomInv
  <2>2. \A k \in 1 .. Len(Append(medium, r)) : Fine(Append(medium, r)[k])
    BY <1>2, <1>5, <2>1, AppendFine
  <2> QED BY <1>5, <2>2
<1>7. Writing' /\ ~Reading' /\ Limit' = Limit
  BY <1>1, WriterTypes DEF Writing, Reading, Limit, IsPadded
<1> QED BY <1>1, <1>6, <1>7 DEF RoomInv

\* the reader's place behind a record, and how far it has read ahead
LEMMA ReadRecordRoom == ASSUME FormatInv, RoomInv, ReadRecord PROVE RoomInv'
<1>1. /\ FormatTypes /\ Reading
      /\ UNCHANGED <<compress, batched, phase, certain, fill, medium, starts, flushed>>
  BY DEF FormatInv, ReadRecord
<1>2. medium \in Seq(Recs)
  BY DEF FormatInv, Laid
<1>3. PICK k \in Here : /\ cursor + medium[k].len <= Eof /\ pos' = Ahead(medium[k].len)
                        /\ cursor' = cursor + medium[k].len
  BY DEF ReadRecord
<1>4. PICK r : r = medium[k]
  OBVIOUS
<1>5. k \in 1 .. Len(medium) /\ r \in Recs /\ r.len \in Nat /\ r.len <= Unit
  <2>1. k \in 1 .. Len(medium)
    BY DEF Here
  <2>2. r \in Recs /\ Fine(r)
    BY <1>2, <1>4, <2>1 DEF RoomInv
  <2>3. r.len \in Nat
    BY <2>2, Recs1
  <2> QED BY <2>1, <2>2, <2>3, Sizes DEF Fine
<1>6. Writing' = Writing /\ Reading' = Reading /\ Limit' = Limit
  BY <1>1 DEF Writing, Reading, Limit, IsPadded
<1>7. ASSUME batched PROVE pos' - cursor' \in 0 .. Buffer - Grid
  <2>1. pos - cursor \in 0 .. Buffer - Grid /\ pos \in Nat /\ cursor \in Nat
    BY <1>1, <1>7 DEF RoomInv, FormatTypes
  <2>2. EndOf(medium) \in Nat
    BY <1>2, EndOfLast
  <2>3. /\ cursor + r.len <= EndOf(medium) /\ cursor' = cursor + r.len
        /\ pos' = IF cursor + r.len <= pos THEN pos ELSE Lesser(pos + Unit, EndOf(medium))
    BY <1>3, <1>4, <1>7 DEF Ahead, Eof
  <2>4. CASE cursor + r.len <= pos
    BY <1>5, <2>1, <2>3, <2>4, Sizes
  <2>5. CASE ~(cursor + r.len <= pos)
    <3>1. pos' = Lesser(pos + Unit, EndOf(medium))
      BY <2>3, <2>5
    <3>2. pos' \in Nat /\ pos' <= pos + Unit /\ (pos' = pos + Unit \/ pos' = EndOf(medium))
      BY <2>1, <2>2, <3>1, Sizes DEF Lesser
    <3>3. pos < cursor + r.len /\ cursor <= pos /\ cursor + r.len <= pos'
      <4>1. cursor <= pos
        BY <2>1, Sizes
      <4>2. pos < cursor + r.len
        BY <1>5, <2>1, <2>5
      <4>3. cursor + r.len <= pos + Unit /\ cursor + r.len <= EndOf(medium)
        BY <1>5, <2>1, <2>3, <4>1, Sizes
      <4> QED BY <3>2, <4>1, <4>2, <4>3
    <3>4. cursor' = cursor + r.len /\ cursor' \in Nat
      BY <1>5, <2>1, <2>3
    <3>5. cursor' <= pos' /\ pos < cursor'
      BY <3>3, <3>4
    <3>6. pos' - cursor' >= 0 /\ pos' - cursor' <= Unit /\ pos' - cursor' \in Int
      BY <2>1, <3>2, <3>4, <3>5, Sizes
    <3> QED BY <3>6, Sizes
  <2> QED BY <2>4, <2>5
<1> QED BY <1>1, <1>6, <1>7 DEF RoomInv

\* the steps that leave the records where they are: the buffer is empty behind them
LEMMA EmptyRoom ==
  ASSUME RoomInv, medium' = medium, fill' = <<>>, Reading' /\ batched' => pos' - cursor' \in 0 .. Buffer - Grid
  PROVE  RoomInv'
<1>1. EndOf(fill') = 0 /\ Len(fill') = 0
  BY DEF EndOf
<1>2. 0 + Bound + RecordHead <= Limit'
  BY Sizes DEF Limit
<1>3. \A k \in 1 .. Len(fill') : fill'[k].section # "pad" /\ Fine(fill'[k])
  BY <1>1
<1>4. \A k \in 1 .. Len(medium') : Fine(medium'[k])
  BY DEF RoomInv
<1> QED BY <1>1, <1>2, <1>3, <1>4 DEF RoomInv

\* where the reader seeks to it holds nothing yet
LEMMA SeekRoom == ASSUME NEW S \in Sections, FormatTypes, Seek(S) PROVE pos' - cursor' \in 0 .. Buffer - Grid
<1>1. starts[S] \in Nat /\ pos' = starts[S] /\ cursor' = pos'
  BY DEF FormatTypes, Seek
<1>2. pos' - cursor' = 0
  BY <1>1
<1> QED BY <1>2, Sizes

LEMMA RoomStays == ASSUME FormatInv, RoomInv, [FormatNext]_formatVars PROVE RoomInv'
<1>0. FormatTypes
  BY DEF FormatInv
<1>1. CASE Batch
  BY <1>1, BatchRoom
<1>2. CASE WriteChunk
  BY <1>2, WriteChunkRoom
<1>3. CASE GiveUp
  <2>1. fill' = <<>> /\ medium' = medium /\ ~Reading'
    BY <1>0, <1>3, WriterTypes DEF GiveUp, Reading
  <2> QED BY <2>1, EmptyRoom
<1>4. CASE NextSection
  <2>1. Writing /\ chunk > Chunks[phase] /\ fill' = fill /\ medium' = medium /\ phase' \in {"vram", "kernel"}
    BY <1>4 DEF NextSection
  <2>2. fill = <<>>
    BY <2>1 DEF FormatInv, WriterInv
  <2>3. ~Reading'
    BY <2>1 DEF Reading
  <2> QED BY <2>1, <2>2, <2>3, EmptyRoom
<1>5. CASE Begin
  <2>1. phase = "kernel" /\ chunk > Chunks[phase] /\ fill' = fill /\ medium' = medium
    BY <1>5 DEF Begin
  <2>2. Writing
    BY <2>1 DEF Writing, Sections
  <2>3. fill = <<>>
    BY <2>1, <2>2 DEF FormatInv, WriterInv
  <2>4. Seek("ram") \/ Seek("kernel")
    BY <1>5 DEF Begin
  <2>5. pos' - cursor' \in 0 .. Buffer - Grid
    BY <1>0, <2>4, SeekRoom DEF Sections
  <2> QED BY <2>1, <2>3, <2>5, EmptyRoom
<1>6. CASE SectionRead
  <2>1. Reading /\ fill' = fill /\ medium' = medium
    BY <1>6 DEF SectionRead
  <2>2. fill = <<>>
    BY <2>1 DEF RoomInv, Reading, Writing, Sections
  <2>3. Seek("ram") \/ Seek("vram") \/ phase' = "whole"
    BY <1>6 DEF SectionRead
  <2>4. CASE phase' = "whole"
    BY <2>1, <2>2, <2>4, EmptyRoom DEF Reading
  <2>5. CASE Seek("ram") \/ Seek("vram")
    <3>1. pos' - cursor' \in 0 .. Buffer - Grid
      BY <1>0, <2>5, SeekRoom DEF Sections
    <3> QED BY <2>1, <2>2, <3>1, EmptyRoom
  <2> QED BY <2>3, <2>4, <2>5
<1>7. CASE ReadRecord
  BY <1>7, ReadRecordRoom
<1>8. CASE ReadFails
  <2>1. Reading /\ fill' = fill /\ medium' = medium /\ phase' = "frozen"
    BY <1>8 DEF ReadFails
  <2>2. fill = <<>>
    BY <2>1 DEF RoomInv, Reading, Writing, Sections
  <2>3. ~Reading'
    BY <2>1 DEF Reading
  <2> QED BY <2>1, <2>2, <2>3, EmptyRoom
<1>9. CASE UNCHANGED formatVars
  BY <1>9 DEF formatVars, RoomInv, Writing, Reading, Limit, IsPadded
<1> QED BY <1>1, <1>2, <1>3, <1>4, <1>5, <1>6, <1>7, <1>8, <1>9 DEF FormatNext

LEMMA RoomInitially == FormatInit => RoomInv
<1> SUFFICES ASSUME FormatInit PROVE RoomInv
  OBVIOUS
<1>1. phase = "ram" /\ fill = <<>> /\ medium = <<>>
  BY DEF FormatInit
<1>2. EndOf(fill) = 0 /\ Len(fill) = 0 /\ Len(medium) = 0 /\ ~Reading
  BY <1>1 DEF EndOf, Reading
<1>3. (\A k \in 1 .. Len(fill) : FALSE) /\ (\A k \in 1 .. Len(medium) : FALSE)
  BY <1>2
<1> QED BY <1>1, <1>2, <1>3, EmptyFits DEF RoomInv

LEMMA FormatTyped == FormatInv /\ RoomInv => FormatTypeOK
BY DEF FormatInv, FormatTypes, RoomInv, Fine, FormatTypeOK

\* Whatever the chunks shrink to and wherever the sections lie, what is encoded next fits the
\* buffer, a pad's load is shorter than the card's cluster, and what is read ahead fits the buffer
\* behind what is left of the last read, for every size of chunk, buffer, flush and cluster that
\* the constants allow (save_region_records, iobuf_flush_padded, ra_need of fatsave.c).
THEOREM BuffersHold == FormatSpec => []FormatTypeOK
<1>1. FormatInit => FormatInv /\ RoomInv
  BY FormatInitially, RoomInitially
<1>2. (FormatInv /\ RoomInv) /\ [FormatNext]_formatVars => (FormatInv /\ RoomInv)'
  BY FormatStays, RoomStays
<1> QED BY <1>1, <1>2, FormatTyped, PTL DEF FormatSpec

-----------------------------------------------------------------------------
(* The frame counter, for every size of the ring and every number of       *)
(* slowest frametimes: slot j holds the gap that came Age(j) frames before *)
(* the last, so the ring adds up to the time between the first and the     *)
(* last frame kept; the insertion leaves the slowest so far in ascending   *)
(* order, and where they were; a run of four presents has raised the count *)
(* of presents to three before any other hook is heard.                    *)

\* the sum of a list, from the left
LEMMA TotalSteps ==
  ASSUME NEW n \in Nat, NEW s \in [1 .. n -> Nat]
  PROVE  \E f \in [0 .. n -> Nat] : f[0] = 0 /\ (\A i \in 1 .. n : f[i] = f[i - 1] + s[i]) /\ Total(s) = f[n]
<1> DEFINE D == DOMAIN s
           It(g) == [S \in SUBSET D |-> IF S = {} THEN 0 ELSE g[S \ {Greatest(S)}] + s[Greatest(S)]]
           op == [x \in Nat \X Nat |-> x[1] + x[2]]
<1>1. Total(s) = (CHOOSE g : g = It(g))[D]
  BY DEF Total, FoldLeft, MapThenFoldSet, Max, Greatest
<1>2. D = 1 .. n /\ op \in [Nat \X Nat -> Nat] /\ (\A a, b \in Nat : op[a, b] = a + b) /\ 0 \in Nat
  <2>1. D = 1 .. n /\ 0 \in Nat
    OBVIOUS
  <2>2. \A a, b \in Nat : a + b \in Nat
    OBVIOUS
  <2>3. op \in [Nat \X Nat -> Nat]
    BY <2>2
  <2>4. \A a, b \in Nat : op[a, b] = a + b
    OBVIOUS
  <2> QED BY <2>1, <2>3, <2>4
<1> HIDE DEF op, D
<1>3. \E g : g = It(g)
  <2>0. \E g \in [SUBSET (1 .. n) -> Nat] : Iterates(g, op, 0, s, n)
    BY <1>2, FoldExists, Zenon
  <2>1. PICK g \in [SUBSET (1 .. n) -> Nat] : \A S \in SUBSET (1 .. n) :
           g[S] = IF S = {} THEN 0 ELSE op[g[S \ {Greatest(S)}], s[Greatest(S)]]
    BY <2>0 DEF Iterates
  <2>2. ASSUME NEW S \in SUBSET D PROVE g[S] = IF S = {} THEN 0 ELSE g[S \ {Greatest(S)}] + s[Greatest(S)]
    <3>1. CASE S = {}
      BY <1>2, <2>1, <3>1
    <3>2. CASE S # {}
      <4>1. Greatest(S) \in 1 .. n
        BY <1>2, <3>2, GreatestIn
      <4>2. g[S \ {Greatest(S)}] \in Nat /\ s[Greatest(S)] \in Nat
        BY <1>2, <2>1, <4>1
      <4> QED BY <1>2, <2>1, <3>2, <4>2
    <3> QED BY <3>1, <3>2
  <2>3. g = [S \in SUBSET D |-> g[S]]
    BY <1>2
  <2>4. [S \in SUBSET D |-> g[S]] = It(g)
    BY <2>2
  <2> QED BY <2>3, <2>4
<1>4. PICK g : g = (CHOOSE h : h = It(h))
  OBVIOUS
<1>5. g = It(g)
  BY <1>3, <1>4
<1> DEFINE f == [i \in 0 .. n |-> g[1 .. i]]
<1>6. f[0] = 0
  <2>1. 1 .. 0 = {} /\ 0 \in 0 .. n /\ {} \in SUBSET D
    OBVIOUS
  <2> QED BY <2>1, <1>5
<1>7. ASSUME NEW i \in 1 .. n PROVE f[i] = f[i - 1] + s[i]
  <2>1. Greatest(1 .. i) = i /\ (1 .. i) \ {i} = 1 .. i - 1 /\ 1 .. i # {}
    <3>1. i \in Nat /\ i > 0
      OBVIOUS
    <3> QED BY <3>1, GreatestUpTo
  <2>2. 1 .. i \in SUBSET D /\ i \in 0 .. n /\ i - 1 \in 0 .. n
    <3>1. 1 .. i \subseteq 1 .. n /\ i \in 0 .. n /\ i - 1 \in 0 .. n
      OBVIOUS
    <3> QED BY <3>1, <1>2
  <2>3. g[1 .. i] = g[1 .. i - 1] + s[i]
    BY <1>5, <2>1, <2>2
  <2> QED BY <2>2, <2>3
<1>8. Total(s) = f[n]
  <2>1. Total(s) = g[D]
    BY <1>1, <1>4
  <2>2. n \in 0 .. n
    OBVIOUS
  <2> QED BY <2>1, <2>2, <1>2
<1>9. f \in [0 .. n -> Nat]
  <2> DEFINE E == {i \in 0 .. n : f[i] \in Nat}
  <2> HIDE DEF f
  <2>1. 0 \in E
    BY <1>6
  <2>2. ASSUME NEW k \in 0 .. n - 1, k \in E PROVE k + 1 \in E
    <3>1. k + 1 \in 1 .. n /\ (k + 1) - 1 = k /\ s[k + 1] \in Nat
      OBVIOUS
    <3>2. f[k + 1] = f[k] + s[k + 1]
      BY <1>7, <3>1
    <3> QED BY <2>2, <3>1, <3>2
  <2> HIDE DEF E
  <2>3. 0 .. n \subseteq E
    BY <2>1, <2>2, StepByStep
  <2>4. \A i \in 0 .. n : f[i] \in Nat
    BY <2>3 DEF E
  <2> QED BY <2>4 DEF f
<1> HIDE DEF f
<1> QED BY <1>6, <1>7, <1>8, <1>9

\* f sums s, and t is s behind m
Sums(n, s, f) == (\A i \in 0 .. n : f[i] \in Int) /\ \A i \in 1 .. n : s[i] \in Int /\ f[i] = f[i - 1] + s[i]
Alike(m, n, s, t) == \A i \in m + 1 .. n : t[i] = s[i]

Off(m, f, g, d) == g[m] = f[m] + d

\* ... so are the sums
LEMMA SumsAgree ==
  ASSUME NEW n \in Nat, NEW m \in 0 .. n, NEW s, NEW t, NEW f, NEW g, NEW d \in Int,
         Sums(n, s, f), Sums(n, t, g), Off(m, f, g, d), Alike(m, n, s, t)
  PROVE  Off(n, f, g, d)
<1> DEFINE D == {i \in 0 .. n - m : g[m + i] = f[m + i] + d}
<1>1. 0 \in D
  BY DEF Off
<1>2. ASSUME NEW i \in 0 .. (n - m) - 1, i \in D PROVE i + 1 \in D
  <2>1. g[m + i] = f[m + i] + d
    BY <1>2
  <2>2. m + (i + 1) \in 1 .. n /\ m + (i + 1) \in m + 1 .. n /\ (m + (i + 1)) - 1 = m + i /\ m + i \in 0 .. n /\ m + (i + 1) \in 0 .. n
    OBVIOUS
  <2>3. f[m + (i + 1)] = f[m + i] + s[m + (i + 1)] /\ g[m + (i + 1)] = g[m + i] + t[m + (i + 1)]
    BY <2>2 DEF Sums
  <2>4. t[m + (i + 1)] = s[m + (i + 1)] /\ s[m + (i + 1)] \in Int /\ f[m + i] \in Int
    BY <2>2 DEF Sums, Alike
  <2>5. g[m + (i + 1)] = f[m + (i + 1)] + d
    BY <2>1, <2>3, <2>4
  <2>6. i + 1 \in 0 .. n - m
    BY <2>2
  <2> HIDE DEF D
  <2> QED BY <2>5, <2>6 DEF D
<1>3. n - m \in Nat /\ n - m \in 0 .. n - m /\ m + (n - m) = n
  OBVIOUS
<1>4. n - m \in D
  <2> HIDE DEF D
  <2> QED BY <1>1, <1>2, <1>3, StepByStep
<1> QED BY <1>3, <1>4 DEF Off

\* one place changed
LEMMA TotalChange ==
  ASSUME NEW n \in Nat, NEW s \in [1 .. n -> Nat], NEW t \in [1 .. n -> Nat], NEW k \in 1 .. n,
         \A i \in 1 .. n \ {k} : t[i] = s[i]
  PROVE  Total(t) = Total(s) - s[k] + t[k] /\ Total(s) \in Nat
<1>1. PICK f \in [0 .. n -> Nat] : f[0] = 0 /\ (\A i \in 1 .. n : f[i] = f[i - 1] + s[i]) /\ Total(s) = f[n]
  BY TotalSteps
<1>2. PICK g \in [0 .. n -> Nat] : g[0] = 0 /\ (\A i \in 1 .. n : g[i] = g[i - 1] + t[i]) /\ Total(t) = g[n]
  BY TotalSteps
<1>3. g[k - 1] = f[k - 1]
  <2> DEFINE D == {i \in 0 .. k - 1 : g[i] = f[i]}
  <2>1. 0 \in D /\ k - 1 \in Nat /\ k - 1 \in 0 .. k - 1
    BY <1>1, <1>2
  <2>2. ASSUME NEW i \in 0 .. (k - 1) - 1, i \in D PROVE i + 1 \in D
    <3>1. i + 1 \in 1 .. n /\ i + 1 \in 0 .. k - 1 /\ (i + 1) - 1 = i /\ i + 1 # k
      OBVIOUS
    <3>2. t[i + 1] = s[i + 1]
      BY <3>1
    <3> QED BY <3>1, <3>2, <2>2, <1>1, <1>2
  <2> HIDE DEF D
  <2>3. 0 .. k - 1 \subseteq D
    BY <2>1, <2>2, StepByStep
  <2> QED BY <2>1, <2>3 DEF D
<1>4. g[k] = f[k] + (t[k] - s[k])
  <2>1. f[k] = f[k - 1] + s[k] /\ g[k] = g[k - 1] + t[k] /\ f[k - 1] \in Nat /\ s[k] \in Nat /\ t[k] \in Nat
    BY <1>1, <1>2
  <2> QED BY <2>1, <1>3
<1>5. g[n] = f[n] + (t[k] - s[k])
  <2>1. k \in 0 .. n /\ t[k] - s[k] \in Int
    OBVIOUS
  <2>2. Sums(n, s, f) /\ Sums(n, t, g)
    BY <1>1, <1>2 DEF Sums
  <2>3. Alike(k, n, s, t)
    <3>1. ASSUME NEW i \in k + 1 .. n PROVE i \in 1 .. n \ {k}
      OBVIOUS
    <3> QED BY <3>1 DEF Alike
  <2>4. PICK d \in Int : d = t[k] - s[k]
    BY <2>1
  <2>5. Off(k, f, g, d)
    BY <1>4, <2>4 DEF Off
  <2>6. Off(n, f, g, d)
    BY <2>1, <2>2, <2>3, <2>4, <2>5, SumsAgree, Zenon
  <2> QED BY <2>4, <2>6 DEF Off
<1>6. f[n] \in Nat /\ g[n] \in Nat /\ s[k] \in Nat /\ t[k] \in Nat
  OBVIOUS
<1> QED BY <1>1, <1>2, <1>5, <1>6

LEMMA TotalNothing ==
  ASSUME NEW n \in Nat, NEW s \in [1 .. n -> Nat], \A i \in 1 .. n : s[i] = 0
  PROVE  Total(s) = 0
<1>1. PICK f \in [0 .. n -> Nat] : f[0] = 0 /\ (\A i \in 1 .. n : f[i] = f[i - 1] + s[i]) /\ Total(s) = f[n]
  BY TotalSteps
<1> DEFINE D == {i \in 0 .. n : f[i] = 0}
<1>2. 0 \in D
  BY <1>1
<1>3. ASSUME NEW i \in 0 .. n - 1, i \in D PROVE i + 1 \in D
  <2>1. i + 1 \in 1 .. n /\ i + 1 \in 0 .. n /\ (i + 1) - 1 = i
    OBVIOUS
  <2> QED BY <2>1, <1>1, <1>3
<1> HIDE DEF D
<1>4. n \in D
  <2>1. n \in 0 .. n
    OBVIOUS
  <2> QED BY <2>1, <1>2, <1>3, StepByStep
<1> QED BY <1>1, <1>4 DEF D

\* v put in behind the first k
Inserts(n, s, t, k, v) ==
  /\ k \in 0 .. n /\ t[k + 1] = v
  /\ \A i \in 1 .. n : (i <= k => t[i] = s[i]) /\ (i > k => t[i + 1] = s[i])

LEMMA TotalInsert ==
  ASSUME NEW n \in Nat, NEW s \in [1 .. n -> Nat], NEW t \in [1 .. n + 1 -> Nat], NEW k, NEW v \in Nat,
         Inserts(n, s, t, k, v)
  PROVE  Total(t) = Total(s) + v /\ Total(s) \in Nat
<1>0. n + 1 \in Nat /\ k \in 0 .. n /\ k \in Nat
  BY DEF Inserts
<1>1. PICK f \in [0 .. n -> Nat] : f[0] = 0 /\ (\A i \in 1 .. n : f[i] = f[i - 1] + s[i]) /\ Total(s) = f[n]
  BY TotalSteps
<1>2. PICK g \in [0 .. n + 1 -> Nat] : g[0] = 0 /\ (\A i \in 1 .. n + 1 : g[i] = g[i - 1] + t[i]) /\ Total(t) = g[n + 1]
  BY <1>0, TotalSteps
<1>3. g[k] = f[k]
  <2> DEFINE D == {i \in 0 .. k : g[i] = f[i]}
  <2>1. 0 \in D /\ k \in 0 .. k
    BY <1>0, <1>1, <1>2
  <2>2. ASSUME NEW i \in 0 .. k - 1, i \in D PROVE i + 1 \in D
    <3>1. i + 1 \in 1 .. n /\ i + 1 \in 1 .. n + 1 /\ i + 1 \in 0 .. k /\ (i + 1) - 1 = i /\ i + 1 <= k
      BY <1>0
    <3>2. t[i + 1] = s[i + 1]
      BY <3>1 DEF Inserts
    <3> QED BY <3>1, <3>2, <2>2, <1>1, <1>2
  <2> HIDE DEF D
  <2>3. 0 .. k \subseteq D
    BY <1>0, <2>1, <2>2, StepByStep
  <2> QED BY <2>1, <2>3 DEF D
<1>4. g[n + 1] = f[n] + v
  <2> DEFINE D == {i \in 0 .. n - k : g[(k + i) + 1] = f[k + i] + v}
  <2>1. 0 \in D
    <3>1. k + 1 \in 1 .. n + 1 /\ (k + 1) - 1 = k /\ (k + 0) + 1 = k + 1 /\ k + 0 = k /\ 0 \in 0 .. n - k
      BY <1>0
    <3>2. g[k + 1] = g[k] + v
      BY <1>2, <3>1 DEF Inserts
    <3> QED BY <3>1, <3>2, <1>3
  <2>2. ASSUME NEW i \in 0 .. (n - k) - 1, i \in D PROVE i + 1 \in D
    <3> DEFINE j == k + (i + 1)
    <3>1. j \in 1 .. n /\ j + 1 \in 1 .. n + 1 /\ j - 1 = k + i /\ (j + 1) - 1 = j /\ j > k /\ (k + i) + 1 = j
          /\ i + 1 \in 0 .. n - k /\ j - 1 \in 0 .. n
      BY <1>0
    <3>2. g[j] = f[j - 1] + v
      BY <2>2, <3>1
    <3> HIDE DEF j
    <3>3. t[j + 1] = s[j] /\ s[j] \in Nat
      BY <3>1 DEF Inserts
    <3>4. g[j + 1] = g[j] + s[j] /\ f[j] = f[j - 1] + s[j] /\ f[j - 1] \in Nat
      BY <1>1, <1>2, <3>1, <3>3
    <3>5. g[j + 1] = f[j] + v
      <4>1. \A x, y, z \in Nat : (x + z) + y = (x + y) + z
        OBVIOUS
      <4>2. g[j + 1] = (f[j - 1] + v) + s[j] /\ f[j] + v = (f[j - 1] + s[j]) + v
        BY <3>2, <3>4
      <4> QED BY <3>3, <3>4, <4>1, <4>2
    <3> QED BY <3>1, <3>5 DEF j
  <2> HIDE DEF D
  <2>3. n - k \in Nat /\ n - k \in 0 .. n - k /\ k + (n - k) = n
    BY <1>0
  <2>4. 0 .. n - k \subseteq D
    BY <2>1, <2>2, <2>3, StepByStep
  <2>5. n - k \in D
    BY <2>3, <2>4
  <2> QED BY <2>3, <2>5 DEF D
<1>5. n \in 0 .. n
  OBVIOUS
<1> QED BY <1>1, <1>2, <1>4, <1>5

\* where v belongs
LEMMA RankExists ==
  ASSUME NEW top \in Seq(Nat), NEW v \in Nat
  PROVE  \E k \in 0 .. Len(top) : (k < Len(top) => v <= top[k + 1]) /\ \A i \in 1 .. k : top[i] < v
<1> DEFINE n == Len(top)  D == {k \in 0 .. n : \A i \in 1 .. k : top[i] < v}
<1>1. n \in Nat /\ 0 \in D /\ \A i \in 1 .. n : top[i] \in Nat
  OBVIOUS
<1>2. SUFFICES ASSUME \A k \in D : ~(k < n => v <= top[k + 1]) PROVE FALSE
  OBVIOUS
<1>3. ASSUME NEW k \in 0 .. n - 1, k \in D PROVE k + 1 \in D
  <2>1. k + 1 \in 1 .. n /\ k + 1 \in 0 .. n
    BY <1>1
  <2>2. top[k + 1] < v
    BY <1>1, <1>2, <1>3, <2>1
  <2>3. \A i \in 1 .. k + 1 : i \in 1 .. k \/ i = k + 1
    BY <2>1
  <2> QED BY <1>3, <2>1, <2>2, <2>3
<1> HIDE DEF n, D
<1>4. n \in D
  <2>1. n \in 0 .. n
    BY <1>1
  <2>2. 0 .. n \subseteq D
    BY <1>1, <1>3, StepByStep
  <2> QED BY <2>1, <2>2
<1> QED BY <1>1, <1>2, <1>4

\* ... and what comes of it
Sinks(top, v, t, k) ==
  /\ t \in Seq(Nat) /\ Len(t) = Len(top) + 1 /\ Inserts(Len(top), top, t, k, v)
  /\ (k < Len(top) => v <= top[k + 1]) /\ \A i \in 1 .. k : top[i] < v

LEMMA SunkSinks ==
  ASSUME NEW top \in Seq(Nat), NEW v \in Nat
  PROVE  \E k \in 0 .. Len(top) : Sinks(top, v, Sunk(top, v), k)
<1> DEFINE Fits(k) == (k < Len(top) => v <= top[k + 1]) /\ \A i \in 1 .. k : top[i] < v
<1>1. PICK k : k = CHOOSE x \in 0 .. Len(top) : Fits(x)
  OBVIOUS
<1>2. k \in 0 .. Len(top) /\ Fits(k)
  <2>1. \E x \in 0 .. Len(top) : Fits(x)
    BY RankExists
  <2> HIDE DEF Fits
  <2> QED BY <1>1, <2>1
<1> DEFINE a == SubSeq(top, 1, k)  b == SubSeq(top, k + 1, Len(top))  t == a \o <<v>> \o b
<1>3. Sunk(top, v) = t
  BY <1>1 DEF Sunk
<1>4. a \in Seq(Nat) /\ Len(a) = k /\ \A i \in 1 .. k : a[i] = top[i]
  BY <1>2
<1>5. b \in Seq(Nat) /\ Len(b) = Len(top) - k /\ \A i \in 1 .. Len(top) - k : b[i] = top[k + i]
  BY <1>2
<1> HIDE DEF a, b
<1> DEFINE c == a \o <<v>>
<1>c. c \in Seq(Nat) /\ Len(c) = k + 1 /\ c[k + 1] = v /\ \A i \in 1 .. k : c[i] = a[i]
  BY <1>2, <1>4
<1>t. t = c \o b
  OBVIOUS
<1>s. Sunk(top, v) = t
  BY <1>3
<1> HIDE DEF c, t
<1>6. t \in Seq(Nat) /\ Len(t) = Len(top) + 1
  BY <1>2, <1>5, <1>c, <1>t
<1>7. t[k + 1] = v
  BY <1>2, <1>5, <1>c, <1>t
<1>b. \A m \in 1 .. Len(top) - k : t[(k + 1) + m] = b[m]
  <2>1. \A x, y \in Seq(Nat) : \A m \in 1 .. Len(y) : (x \o y)[Len(x) + m] = y[m]
    OBVIOUS
  <2>2. Len(c) = k + 1 /\ Len(b) = Len(top) - k
    BY <1>5, <1>c
  <2>3. \A m \in 1 .. Len(b) : (c \o b)[Len(c) + m] = b[m]
    BY <2>1, <1>5, <1>c, Zenon
  <2>4. \A m \in 1 .. Len(b) : t[(k + 1) + m] = b[m]
    BY <2>2, <2>3, <1>t, Zenon
  <2> QED BY <2>2, <2>4, Zenon
<1>8. ASSUME NEW i \in 1 .. Len(top) PROVE (i <= k => t[i] = top[i]) /\ (i > k => t[i + 1] = top[i])
  <2>1. CASE i <= k
    BY <2>1, <1>2, <1>4, <1>5, <1>c, <1>t
  <2>2. CASE i > k
    <3>1. i - k \in 1 .. Len(top) - k /\ k + (i - k) = i /\ i + 1 = (k + 1) + (i - k)
      BY <2>2, <1>2
    <3>2. b[i - k] = top[i]
      BY <3>1, <1>5
    <3>3. t[i + 1] = b[i - k]
      BY <3>1, <1>b
    <3> QED BY <2>2, <3>2, <3>3, <1>2
  <2> QED BY <2>1, <2>2, <1>2
<1>9. Sinks(top, v, t, k)
  BY <1>2, <1>6, <1>7, <1>8 DEF Sinks, Inserts
<1> QED BY <1>2, <1>s, <1>9

Mask(times, n, T) == [i \in 1 .. n |-> IF i \in T THEN times[i] ELSE 0]

\* top holds the frametimes at T among the first i, b says where, in ascending order
Picks(times, n, top, b, T, i) ==
  /\ top \in Seq(Nat) /\ b \in [1 .. Len(top) -> 1 .. i] /\ T = {b[x] : x \in 1 .. Len(top)}
  /\ \A x \in 1 .. Len(top) : top[x] = times[b[x]] /\ top[x] > 0
  /\ \A x, y \in 1 .. Len(top) : x < y => b[x] # b[y] /\ top[x] <= top[y]
  /\ IsFiniteSet(T) /\ Cardinality(T) = Len(top)
  /\ Total(top) = Total(Mask(times, n, T))

LEMMA PicksMore ==
  ASSUME NEW n \in Nat, NEW times \in [1 .. n -> Nat], NEW i \in 0 .. n - 1, NEW top, NEW b, NEW T,
         Picks(times, n, top, b, T, i), times[i + 1] > 0
  PROVE  \E c : Picks(times, n, Sunk(top, times[i + 1]), c, T \cup {i + 1}, i + 1)
<1> DEFINE L == Len(top)
<1>1. PICK v : v = times[i + 1]
  OBVIOUS
<1>2. i + 1 \in 1 .. n /\ v \in Nat /\ v > 0 /\ i \in Nat
  BY <1>1
<1>3. /\ top \in Seq(Nat) /\ b \in [1 .. L -> 1 .. i] /\ T = {b[x] : x \in 1 .. L} /\ L \in Nat
      /\ \A x \in 1 .. L : top[x] = times[b[x]] /\ top[x] > 0 /\ top[x] \in Nat
      /\ \A x, y \in 1 .. L : x < y => b[x] # b[y] /\ top[x] <= top[y]
      /\ IsFiniteSet(T) /\ Cardinality(T) = L /\ Total(top) = Total(Mask(times, n, T))
  <2>1. top \in Seq(Nat) /\ L \in Nat
    BY DEF Picks
  <2>2. \A x \in 1 .. L : top[x] \in Nat
    BY <2>1
  <2>3. /\ b \in [1 .. L -> 1 .. i] /\ T = {b[x] : x \in 1 .. L}
        /\ \A x \in 1 .. L : top[x] = times[b[x]] /\ top[x] > 0
        /\ \A x, y \in 1 .. L : x < y => b[x] # b[y] /\ top[x] <= top[y]
        /\ IsFiniteSet(T) /\ Cardinality(T) = L /\ Total(top) = Total(Mask(times, n, T))
    BY DEF Picks
  <2> HIDE DEF L
  <2> QED BY <2>1, <2>2, <2>3
<1>4. PICK t : t = Sunk(top, v)
  OBVIOUS
<1>5. PICK k \in 0 .. L : Sinks(top, v, t, k)
  BY <1>2, <1>3, <1>4, SunkSinks
<1>6. /\ t \in Seq(Nat) /\ Len(t) = L + 1 /\ Inserts(L, top, t, k, v) /\ t[k + 1] = v
      /\ (k < L => v <= top[k + 1]) /\ \A x \in 1 .. k : top[x] < v
      /\ \A x \in 1 .. L : (x <= k => t[x] = top[x]) /\ (x > k => t[x + 1] = top[x])
  BY <1>5 DEF Sinks, Inserts
<1> DEFINE c == [x \in 1 .. L + 1 |-> IF x <= k THEN b[x] ELSE IF x = k + 1 THEN i + 1 ELSE b[x - 1]]
<1> HIDE DEF L
<1>7. ASSUME NEW x \in 1 .. L + 1
      PROVE  /\ x <= k => x \in 1 .. L /\ t[x] = top[x] /\ c[x] = b[x]
             /\ x = k + 1 => t[x] = v /\ c[x] = i + 1
             /\ x > k + 1 => x - 1 \in 1 .. L /\ x - 1 > k /\ t[x] = top[x - 1] /\ c[x] = b[x - 1]
  <2>1. CASE x <= k
    <3>1. x \in 1 .. L /\ x # k + 1 /\ ~(x > k + 1)
      <4>1. L \in Nat /\ k \in 0 .. L
        BY <1>3, <1>5
      <4> QED BY <2>1, <4>1
    <3>2. t[x] = top[x]
      BY <1>6, <2>1, <3>1
    <3>3. c[x] = b[x]
      BY <2>1
    <3> QED BY <3>1, <3>2, <3>3
  <2>2. CASE x = k + 1
    <3>1. ~(x <= k) /\ ~(x > k + 1)
      BY <1>5, <2>2
    <3>2. t[x] = v /\ c[x] = i + 1
      BY <1>6, <2>2, <3>1
    <3> QED BY <3>1, <3>2, <2>2
  <2>3. CASE x > k + 1
    <3>1. x - 1 \in 1 .. L /\ x - 1 > k /\ (x - 1) + 1 = x /\ ~(x <= k) /\ x # k + 1
      BY <1>3, <1>5, <2>3
    <3>2. t[(x - 1) + 1] = top[x - 1]
      BY <1>6, <3>1
    <3> QED BY <3>1, <3>2, <2>3
  <2> QED BY <2>1, <2>2, <2>3, <1>3
<1>8. ASSUME NEW x \in 1 .. L + 1 PROVE x <= k \/ x = k + 1 \/ x > k + 1
  BY <1>3, <1>5
<1> HIDE DEF c
<1>9. ASSUME NEW x \in 1 .. L + 1 PROVE t[x] = times[c[x]] /\ t[x] > 0 /\ c[x] \in 1 .. i + 1 /\ c[x] \in T \cup {i + 1}
  <2>1. \A y \in 1 .. L : b[y] \in 1 .. i + 1 /\ b[y] \in T
    <3>1. \A y \in 1 .. L : b[y] \in 1 .. i /\ b[y] \in T
      BY <1>3
    <3>2. \A j \in 1 .. i : j \in 1 .. i + 1
      BY <1>2
    <3> QED BY <3>1, <3>2
  <2>2. CASE x <= k
    BY <1>3, <1>7, <2>1, <2>2
  <2>3. CASE x = k + 1
    BY <1>1, <1>2, <1>7, <2>3
  <2>4. CASE x > k + 1
    <3>1. x - 1 \in 1 .. L /\ t[x] = top[x - 1] /\ c[x] = b[x - 1]
      BY <1>7, <2>4
    <3>2. top[x - 1] = times[b[x - 1]] /\ top[x - 1] > 0
      BY <1>3, <3>1
    <3> QED BY <2>1, <3>1, <3>2
  <2> QED BY <1>8, <2>2, <2>3, <2>4
<1>10. ASSUME NEW x \in 1 .. L + 1, NEW y \in 1 .. L + 1, x < y PROVE c[x] # c[y] /\ t[x] <= t[y]
  <2>1. \A z \in 1 .. L : b[z] # i + 1 /\ b[z] \in 1 .. i
    <3>1. b \in [1 .. L -> 1 .. i]
      BY <1>3
    <3>2. i + 1 \notin 1 .. i
      BY <1>2
    <3> QED BY <3>1, <3>2
  <2>2. CASE y <= k
    <3>1. x <= k
      BY <1>10, <2>2, <1>5
    <3>2. x \in 1 .. L /\ t[x] = top[x] /\ c[x] = b[x]
      BY <1>7, <3>1
    <3>3. y \in 1 .. L /\ t[y] = top[y] /\ c[y] = b[y]
      BY <1>7, <2>2
    <3>4. b[x] # b[y] /\ top[x] <= top[y]
      BY <1>3, <1>10, <3>2, <3>3
    <3> QED BY <3>2, <3>3, <3>4
  <2>3. CASE x <= k /\ y = k + 1
    <3>1. x \in 1 .. k
      BY <2>3
    <3>2. t[y] = v /\ c[x] = b[x] /\ c[y] = i + 1 /\ x \in 1 .. L /\ top[x] = t[x]
      BY <1>7, <2>3
    <3>3. top[x] < v /\ top[x] \in Nat
      BY <1>3, <1>6, <3>1, <3>2
    <3>4. t[x] <= t[y]
      BY <1>2, <3>2, <3>3
    <3> QED BY <2>1, <3>2, <3>4
  <2>4. CASE x <= k /\ y > k + 1
    <3>1. x < y - 1
      BY <2>4, <1>5
    <3>2. x \in 1 .. L /\ t[x] = top[x] /\ c[x] = b[x]
      BY <1>7, <2>4
    <3>3. y - 1 \in 1 .. L /\ t[y] = top[y - 1] /\ c[y] = b[y - 1]
      BY <1>7, <2>4
    <3>4. b[x] # b[y - 1] /\ top[x] <= top[y - 1]
      BY <1>3, <3>1, <3>2, <3>3
    <3> QED BY <3>2, <3>3, <3>4
  <2>5. CASE x = k + 1 /\ y > k + 1
    <3>1. t[x] = v /\ c[x] = i + 1 /\ y - 1 \in 1 .. L /\ y - 1 > k /\ t[y] = top[y - 1] /\ c[y] = b[y - 1]
      BY <1>7, <2>5
    <3>2. PICK z \in 1 .. L : z = y - 1
      BY <3>1
    <3>3. k < L /\ k + 1 \in 1 .. L /\ (k + 1 < z \/ k + 1 = z)
      BY <1>3, <1>5, <3>1, <3>2
    <3>4. v <= top[k + 1] /\ top[k + 1] \in Nat /\ top[z] \in Nat
      BY <1>3, <1>6, <3>3
    <3>5. top[k + 1] <= top[z]
      <4>1. CASE k + 1 = z
        BY <4>1, <3>4
      <4>2. CASE k + 1 < z
        BY <4>2, <1>3, <3>3
      <4> QED BY <4>1, <4>2, <3>3
    <3>6. v <= top[y - 1]
      BY <1>2, <3>2, <3>4, <3>5
    <3> QED BY <2>1, <3>1, <3>6
  <2>6. CASE x > k + 1
    <3>1. y > k + 1 /\ x - 1 < y - 1
      BY <1>5, <1>10, <2>6
    <3>2. x - 1 \in 1 .. L /\ t[x] = top[x - 1] /\ c[x] = b[x - 1]
      BY <1>7, <2>6
    <3>3. y - 1 \in 1 .. L /\ t[y] = top[y - 1] /\ c[y] = b[y - 1]
      BY <1>7, <3>1
    <3>4. b[x - 1] # b[y - 1] /\ top[x - 1] <= top[y - 1]
      BY <1>3, <3>1, <3>2, <3>3
    <3> QED BY <3>2, <3>3, <3>4
  <2> QED BY <1>8, <1>10, <2>2, <2>3, <2>4, <2>5, <2>6, <1>5
<1>11. T \cup {i + 1} = {c[x] : x \in 1 .. L + 1}
  <2>1. \A j \in {c[x] : x \in 1 .. L + 1} : j \in T \cup {i + 1}
    BY <1>9
  <2>2. ASSUME NEW j \in T PROVE j \in {c[x] : x \in 1 .. L + 1}
    <3>1. PICK x \in 1 .. L : j = b[x]
      BY <1>3
    <3>2. CASE x <= k
      <4>1. x \in 1 .. L + 1
        BY <1>3
      <4> QED BY <4>1, <3>1, <3>2, <1>7
    <3>3. CASE x > k
      <4>1. x + 1 \in 1 .. L + 1 /\ x + 1 > k + 1 /\ (x + 1) - 1 = x
        BY <1>3, <1>5, <3>3
      <4>2. c[x + 1] = b[x]
        BY <4>1, <1>7
      <4> QED BY <4>1, <4>2, <3>1
    <3> QED BY <3>2, <3>3, <1>5
  <2>3. k + 1 \in 1 .. L + 1
    BY <1>3, <1>5
  <2>4. c[k + 1] = i + 1
    BY <2>3, <1>7
  <2> QED BY <2>1, <2>2, <2>3, <2>4
<1>12. i + 1 \notin T
  BY <1>2, <1>3
<1>13. IsFiniteSet(T \cup {i + 1}) /\ Cardinality(T \cup {i + 1}) = L + 1
  BY <1>3, <1>12, FS_AddElement
<1>14. Total(t) = Total(top) + v /\ Total(top) \in Nat
  <2>1. top \in [1 .. L -> Nat]
    BY <1>3 DEF L
  <2>2. t \in [1 .. L + 1 -> Nat]
    BY <1>6
  <2>3. L \in Nat /\ v \in Nat /\ Inserts(L, top, t, k, v)
    BY <1>2, <1>3, <1>6
  <2> QED BY <2>1, <2>2, <2>3, TotalInsert, Zenon
<1>15. Total(Mask(times, n, T \cup {i + 1})) = Total(Mask(times, n, T)) + v
  <2>1. PICK p : p = Mask(times, n, T)
    OBVIOUS
  <2>2. PICK q : q = Mask(times, n, T \cup {i + 1})
    OBVIOUS
  <2>3. p \in [1 .. n -> Nat] /\ q \in [1 .. n -> Nat]
    BY <2>1, <2>2 DEF Mask
  <2>4. \A j \in 1 .. n \ {i + 1} : q[j] = p[j]
    BY <2>1, <2>2 DEF Mask
  <2>5. q[i + 1] = v /\ p[i + 1] = 0
    BY <2>1, <2>2, <1>1, <1>2, <1>12 DEF Mask
  <2>6. Total(q) = Total(p) - p[i + 1] + q[i + 1] /\ Total(p) \in Nat
    BY <1>2, <2>3, <2>4, TotalChange
  <2> QED BY <2>1, <2>2, <2>5, <2>6, <1>2
<1>16. c \in [1 .. L + 1 -> 1 .. i + 1]
  BY <1>9 DEF c
<1>17. Picks(times, n, t, c, T \cup {i + 1}, i + 1)
  BY <1>3, <1>6, <1>9, <1>10, <1>11, <1>13, <1>14, <1>15, <1>16 DEF Picks
<1> QED BY <1>1, <1>4, <1>17

\* the fastest of them goes
LEMMA PicksLess ==
  ASSUME NEW n \in Nat, NEW times \in [1 .. n -> Nat], NEW i \in 0 .. n, NEW top, NEW b, NEW T,
         Picks(times, n, top, b, T, i), top # <<>>
  PROVE  b[1] \in T /\ \E c : Picks(times, n, Tail(top), c, T \ {b[1]}, i)
<1> DEFINE L == Len(top)
<1>1. /\ top \in Seq(Nat) /\ b \in [1 .. L -> 1 .. i] /\ T = {b[x] : x \in 1 .. L} /\ L \in Nat
      /\ \A x \in 1 .. L : top[x] = times[b[x]] /\ top[x] > 0 /\ top[x] \in Nat
      /\ \A x, y \in 1 .. L : x < y => b[x] # b[y] /\ top[x] <= top[y]
      /\ IsFiniteSet(T) /\ Cardinality(T) = L /\ Total(top) = Total(Mask(times, n, T))
  <2>1. top \in Seq(Nat) /\ L \in Nat
    BY DEF Picks
  <2>2. \A x \in 1 .. L : top[x] \in Nat
    BY <2>1
  <2>3. /\ b \in [1 .. L -> 1 .. i] /\ T = {b[x] : x \in 1 .. L}
        /\ \A x \in 1 .. L : top[x] = times[b[x]] /\ top[x] > 0
        /\ \A x, y \in 1 .. L : x < y => b[x] # b[y] /\ top[x] <= top[y]
        /\ IsFiniteSet(T) /\ Cardinality(T) = L /\ Total(top) = Total(Mask(times, n, T))
    BY DEF Picks
  <2> HIDE DEF L
  <2> QED BY <2>1, <2>2, <2>3
<1>2. L >= 1 /\ 1 \in 1 .. L /\ L - 1 \in Nat
  BY <1>1
<1>3. PICK t : t = Tail(top)
  OBVIOUS
<1>4. t \in Seq(Nat) /\ Len(t) = L - 1 /\ \A x \in 1 .. L - 1 : t[x] = top[x + 1] /\ x + 1 \in 1 .. L
  BY <1>1, <1>2, <1>3
<1> DEFINE c == [x \in 1 .. L - 1 |-> b[x + 1]]
<1> HIDE DEF L
<1>5. \A x \in 1 .. L - 1 : c[x] = b[x + 1]
  OBVIOUS
<1>6. c \in [1 .. L - 1 -> 1 .. i]
  BY <1>1, <1>4
<1> HIDE DEF c
<1>7. b[1] \in T /\ b[1] \in 1 .. i
  BY <1>1, <1>2
<1>8. T \ {b[1]} = {c[x] : x \in 1 .. L - 1}
  <2>1. ASSUME NEW x \in 1 .. L - 1 PROVE c[x] \in T \ {b[1]}
    <3>1. x + 1 \in 1 .. L /\ 1 < x + 1
      BY <1>2, <1>4
    <3>2. b[x + 1] \in T
      BY <3>1, <1>1
    <3>3. b[1] # b[x + 1]
      BY <3>1, <1>1, <1>2
    <3>4. c[x] = b[x + 1]
      BY <1>5
    <3> QED BY <3>2, <3>3, <3>4
  <2>2. ASSUME NEW j \in T, j # b[1] PROVE j \in {c[x] : x \in 1 .. L - 1}
    <3>1. PICK x \in 1 .. L : j = b[x]
      BY <1>1
    <3>2. x - 1 \in 1 .. L - 1 /\ (x - 1) + 1 = x
      BY <2>2, <3>1, <1>1
    <3>3. c[x - 1] = b[x]
      BY <3>2, <1>5
    <3> QED BY <3>1, <3>2, <3>3
  <2> QED BY <2>1, <2>2
<1>9. IsFiniteSet(T \ {b[1]}) /\ Cardinality(T \ {b[1]}) = L - 1
  <2>1. IsFiniteSet(T) /\ Cardinality(T) = L
    BY <1>1
  <2> QED BY <2>1, <1>7, FS_RemoveElement
<1>10. ASSUME NEW x \in 1 .. L - 1 PROVE t[x] = times[c[x]] /\ t[x] > 0
  <2>1. t[x] = top[x + 1] /\ x + 1 \in 1 .. L /\ c[x] = b[x + 1]
    BY <1>4, <1>5
  <2> QED BY <1>1, <2>1
<1>11. ASSUME NEW x \in 1 .. L - 1, NEW y \in 1 .. L - 1, x < y PROVE c[x] # c[y] /\ t[x] <= t[y]
  <2>1. x + 1 \in 1 .. L /\ y + 1 \in 1 .. L /\ x + 1 < y + 1
    BY <1>4, <1>11
  <2>2. b[x + 1] # b[y + 1] /\ top[x + 1] <= top[y + 1]
    BY <2>1, <1>1
  <2> QED BY <2>2, <1>4, <1>5
<1>12. top[1] \in Nat /\ top[1] = times[b[1]]
  BY <1>1, <1>2
<1>13. Total(top) = Total(t) + top[1] /\ Total(t) \in Nat
  <2>1. t \in [1 .. L - 1 -> Nat] /\ top \in [1 .. (L - 1) + 1 -> Nat]
    <3>1. (L - 1) + 1 = L
      BY <1>1, <1>2
    <3> QED BY <1>1, <1>4, <3>1 DEF L
  <2>2. Inserts(L - 1, t, top, 0, top[1])
    <3>1. 0 + 1 = 1 /\ 0 \in 0 .. L - 1 /\ \A x \in 1 .. L - 1 : x > 0 /\ ~(x <= 0)
      BY <1>2
    <3> QED BY <3>1, <1>4 DEF Inserts
  <2> QED BY <1>2, <1>12, <2>1, <2>2, TotalInsert
<1>14. Total(Mask(times, n, T)) = Total(Mask(times, n, T \ {b[1]})) + top[1]
  <2>1. PICK q : q = Mask(times, n, T)
    OBVIOUS
  <2>2. PICK p : p = Mask(times, n, T \ {b[1]})
    OBVIOUS
  <2>3. p \in [1 .. n -> Nat] /\ q \in [1 .. n -> Nat]
    BY <2>1, <2>2 DEF Mask
  <2>4. \A j \in 1 .. n \ {b[1]} : q[j] = p[j]
    BY <2>1, <2>2 DEF Mask
  <2>5. b[1] \in 1 .. n
    BY <1>7
  <2>6. q[b[1]] = top[1] /\ p[b[1]] = 0
    BY <2>1, <2>2, <2>5, <1>7, <1>12 DEF Mask
  <2>7. Total(q) = Total(p) - p[b[1]] + q[b[1]] /\ Total(p) \in Nat
    BY <2>3, <2>4, <2>5, TotalChange
  <2> QED BY <2>1, <2>2, <2>6, <2>7, <1>12
<1>15. Total(t) = Total(Mask(times, n, T \ {b[1]}))
  <2>1. Total(Mask(times, n, T \ {b[1]})) \in Nat
    <3>1. Mask(times, n, T \ {b[1]}) \in [1 .. n -> Nat]
      BY DEF Mask
    <3>2. PICK f \in [0 .. n -> Nat] : Total(Mask(times, n, T \ {b[1]})) = f[n]
      BY <3>1, TotalSteps
    <3>3. n \in 0 .. n
      OBVIOUS
    <3> QED BY <3>2, <3>3
  <2> QED BY <2>1, <1>1, <1>12, <1>13, <1>14
<1>16. Picks(times, n, t, c, T \ {b[1]}, i)
  BY <1>4, <1>6, <1>8, <1>9, <1>10, <1>11, <1>15 DEF Picks
<1> QED BY <1>3, <1>7, <1>16

LEMMA SlowerTypes ==
  ASSUME NEW top \in Seq(Nat), NEW v \in Nat
  PROVE  Slower(top, v) \in Seq(Nat)
<1>1. Worst \in Nat /\ Worst > 0
  BY CountAssumption
<1>2. \A s \in Seq(Nat) : Sunk(s, v) \in Seq(Nat)
  <2>1. TAKE s \in Seq(Nat)
  <2>2. PICK k \in 0 .. Len(s) : Sinks(s, v, Sunk(s, v), k)
    BY SunkSinks
  <2> QED BY <2>2 DEF Sinks
<1>3. ~(Len(top) < Worst) => Tail(top) \in Seq(Nat)
  <2>1. SUFFICES ASSUME ~(Len(top) < Worst) PROVE Tail(top) \in Seq(Nat)
    OBVIOUS
  <2>2. top # <<>>
    BY <1>1, <2>1
  <2> QED BY <2>2
<1> QED BY <1>2, <1>3 DEF Slower

\* the slowest of the first i
TopsOf(times, n, i, top) ==
  \E b, T : /\ Picks(times, n, top, b, T, i) /\ Len(top) <= Worst
            /\ \A j \in 1 .. i : times[j] > 0 /\ j \notin T => Len(top) = Worst /\ times[j] <= top[1]

LEMMA TopsBegin ==
  ASSUME NEW n \in Nat, NEW times \in [1 .. n -> Nat]
  PROVE  TopsOf(times, n, 0, <<>>)
<1> DEFINE b == [x \in 1 .. 0 |-> x]
<1>1. PICK e : e = <<>>
  OBVIOUS
<1>2. e \in Seq(Nat) /\ Len(e) = 0 /\ e \in [1 .. 0 -> Nat] /\ 0 \in Nat
  BY <1>1
<1>3. 1 .. 0 = {} /\ b \in [1 .. 0 -> 1 .. 0]
  OBVIOUS
<1>4. Total(e) = 0
  <2>1. \A i \in 1 .. 0 : e[i] = 0
    BY <1>3
  <2> QED BY <1>2, <2>1, TotalNothing
<1>5. Total(Mask(times, n, {})) = 0
  <2>1. Mask(times, n, {}) \in [1 .. n -> Nat] /\ \A i \in 1 .. n : Mask(times, n, {})[i] = 0
    BY DEF Mask
  <2> QED BY <2>1, TotalNothing
<1>6. IsFiniteSet({}) /\ Cardinality({}) = 0
  BY FS_EmptySet
<1> HIDE DEF b
<1>7. {b[x] : x \in 1 .. 0} = {}
  BY <1>3
<1>8. Picks(times, n, e, b, {}, 0)
  BY <1>2, <1>3, <1>4, <1>5, <1>6, <1>7 DEF Picks
<1>9. Worst \in Nat /\ 0 <= Worst
  BY CountAssumption
<1> QED BY <1>1, <1>2, <1>3, <1>8, <1>9 DEF TopsOf

LEMMA TopsStep ==
  ASSUME NEW n \in Nat, NEW times \in [1 .. n -> Nat], NEW i \in 0 .. n - 1, NEW top, TopsOf(times, n, i, top)
  PROVE  TopsOf(times, n, i + 1, Slower(top, times[i + 1]))
<1>0. i + 1 \in 1 .. n /\ times[i + 1] \in Nat /\ i \in 0 .. n /\ i \in Nat
      /\ (\A j \in 1 .. i + 1 : j \in 1 .. i \/ j = i + 1) /\ \A j \in 1 .. i + 1 : times[j] \in Nat
  OBVIOUS
<1>1. PICK v : v = times[i + 1]
  OBVIOUS
<1>2. PICK b, T : /\ Picks(times, n, top, b, T, i) /\ Len(top) <= Worst
                  /\ \A j \in 1 .. i : times[j] > 0 /\ j \notin T => Len(top) = Worst /\ times[j] <= top[1]
  BY DEF TopsOf
<1>3. Worst \in Nat /\ Worst > 0 /\ top \in Seq(Nat) /\ Len(top) \in Nat
  BY <1>2, CountAssumption DEF Picks
<1>4. CASE v = 0
  <2>1. Picks(times, n, top, b, T, i + 1)
    <3>1. \A j \in 1 .. i : j \in 1 .. i + 1
      BY <1>0
    <3>2. b \in [1 .. Len(top) -> 1 .. i + 1]
      BY <1>2, <3>1 DEF Picks
    <3> QED BY <1>2, <3>2 DEF Picks
  <2>2. Slower(top, v) = top
    BY <1>4 DEF Slower
  <2>3. ASSUME NEW j \in 1 .. i + 1, times[j] > 0, j \notin T PROVE Len(top) = Worst /\ times[j] <= top[1]
    <3>0. times[i + 1] = 0 /\ ~(0 > 0)
      BY <1>1, <1>4
    <3>1. j # i + 1
      BY <2>3, <3>0, Zenon
    <3>2. j \in 1 .. i
      BY <1>0, <3>1
    <3> QED BY <1>2, <2>3, <3>2
  <2>4. TopsOf(times, n, i + 1, top)
    BY <1>2, <2>1, <2>3 DEF TopsOf
  <2> QED BY <1>1, <2>2, <2>4
<1>5. CASE v > 0 /\ Len(top) < Worst
  <2>1. Slower(top, v) = Sunk(top, v)
    BY <1>5 DEF Slower
  <2>2. PICK c : Picks(times, n, Sunk(top, v), c, T \cup {i + 1}, i + 1)
    BY <1>1, <1>2, <1>5, PicksMore
  <2>3. Len(Sunk(top, v)) <= Worst
    <3>1. PICK k \in 0 .. Len(top) : Sinks(top, v, Sunk(top, v), k)
      BY <1>0, <1>1, <1>3, SunkSinks
    <3>2. Len(Sunk(top, v)) = Len(top) + 1
      BY <3>1 DEF Sinks
    <3> QED BY <3>2, <1>3, <1>5
  <2>4. \A j \in 1 .. i + 1 : ~(times[j] > 0 /\ j \notin T \cup {i + 1})
    <3>1. Len(top) # Worst
      BY <1>3, <1>5
    <3> QED BY <3>1, <1>0, <1>2
  <2>5. TopsOf(times, n, i + 1, Sunk(top, v))
    BY <2>2, <2>3, <2>4 DEF TopsOf
  <2> QED BY <1>1, <2>1, <2>5
<1>6. CASE v > 0 /\ ~(Len(top) < Worst)
  <2>0. Len(top) = Worst /\ top # <<>> /\ 1 \in 1 .. Len(top) /\ top[1] \in Nat
    BY <1>2, <1>3, <1>6
  <2>1. CASE ~(v > top[1])
    <3>1. Slower(top, v) = top
      BY <1>3, <1>6, <2>1 DEF Slower
    <3>2. Picks(times, n, top, b, T, i + 1)
      <4>1. \A j \in 1 .. i : j \in 1 .. i + 1
        BY <1>0
      <4>2. b \in [1 .. Len(top) -> 1 .. i + 1]
        BY <1>2, <4>1 DEF Picks
      <4> QED BY <1>2, <4>2 DEF Picks
    <3>3. times[i + 1] <= top[1]
      BY <1>0, <1>1, <2>0, <2>1
    <3>4. \A j \in 1 .. i + 1 : times[j] > 0 /\ j \notin T => Len(top) = Worst /\ times[j] <= top[1]
      BY <1>0, <1>2, <2>0, <3>3
    <3>5. TopsOf(times, n, i + 1, top)
      BY <1>2, <3>2, <3>4 DEF TopsOf
    <3> QED BY <1>1, <3>1, <3>5
  <2>2. CASE v > top[1]
    <3>1. Slower(top, v) = Sunk(Tail(top), v)
      BY <1>6, <2>2 DEF Slower
    <3>2. PICK t : t = Tail(top)
      OBVIOUS
    <3>3. t \in Seq(Nat) /\ Len(t) = Len(top) - 1
      BY <2>0, <3>2, <1>3
    <3>4. b[1] \in T /\ \E c : Picks(times, n, t, c, T \ {b[1]}, i)
      BY <1>0, <1>2, <2>0, <3>2, PicksLess
    <3>5. PICK c : Picks(times, n, t, c, T \ {b[1]}, i)
      BY <3>4
    <3>6. PICK U : U = (T \ {b[1]}) \cup {i + 1}
      OBVIOUS
    <3>7. PICK d : Picks(times, n, Sunk(t, v), d, U, i + 1)
      BY <1>1, <1>6, <3>5, <3>6, PicksMore
    <3>8. PICK w : w = Sunk(t, v)
      OBVIOUS
    <3>9. w \in Seq(Nat) /\ Len(w) = Worst /\ 1 \in 1 .. Len(w)
      <4>1. PICK k \in 0 .. Len(t) : Sinks(t, v, Sunk(t, v), k)
        BY <1>0, <1>1, <3>3, SunkSinks
      <4>2. w \in Seq(Nat) /\ Len(w) = Len(t) + 1
        BY <3>8, <4>1 DEF Sinks
      <4> QED BY <4>2, <3>3, <2>0, <1>3
    <3>10. top[1] <= w[1] /\ w[1] \in Nat
      <4>1. d[1] \in U /\ w[1] = times[d[1]]
        BY <3>7, <3>8, <3>9 DEF Picks
      <4>2. ASSUME NEW j \in T PROVE top[1] <= times[j]
        <5>1. PICK x \in 1 .. Len(top) : j = b[x]
          BY <1>2 DEF Picks
        <5>2. top[x] = times[j]
          BY <1>2, <5>1 DEF Picks
        <5>3. CASE x = 1
          BY <2>0, <5>2, <5>3
        <5>4. CASE x # 1
          <6>1. 1 < x
            BY <5>4, <1>3
          <6>2. top[1] <= top[x]
            BY <1>2, <2>0, <6>1 DEF Picks
          <6> QED BY <5>2, <6>2
        <5> QED BY <5>3, <5>4
      <4>3. top[1] <= v
        BY <2>0, <2>2, <1>0, <1>1
      <4>4. w[1] \in Nat
        BY <3>9
      <4>5. CASE d[1] = i + 1
        BY <4>1, <4>3, <4>4, <4>5, <1>1
      <4>6. CASE d[1] # i + 1
        BY <4>1, <4>2, <4>4, <4>6, <3>6
      <4> QED BY <4>5, <4>6
    <3>11. ASSUME NEW j \in 1 .. i + 1, times[j] > 0, j \notin U PROVE times[j] <= w[1]
      <4>1. j \in 1 .. i /\ times[j] \in Nat
        BY <3>6, <3>11, <1>0
      <4>2. times[j] <= top[1]
        <5>1. CASE j \in T
          <6>1. j = b[1]
            BY <3>6, <3>11, <5>1
          <6>2. top[1] = times[b[1]]
            BY <1>2, <2>0 DEF Picks
          <6> QED BY <6>1, <6>2, <2>0
        <5>2. CASE j \notin T
          BY <1>2, <4>1, <5>2, <3>11
        <5> QED BY <5>1, <5>2
      <4> QED BY <4>1, <4>2, <3>10, <2>0
    <3>12. TopsOf(times, n, i + 1, w)
      <4>1. Len(w) <= Worst
        BY <3>9, <1>3
      <4> QED BY <3>7, <3>8, <3>9, <3>11, <4>1 DEF TopsOf
    <3> QED BY <1>1, <3>1, <3>2, <3>8, <3>12
  <2> QED BY <2>1, <2>2
<1> QED BY <1>0, <1>1, <1>4, <1>5, <1>6

LEMMA LowFolds ==
  ASSUME NEW n \in Nat, NEW times \in [1 .. n -> Nat]
  PROVE  TopsOf(times, n, n, FoldLeft(Slower, <<>>, times))
<1> DEFINE A == Seq(Nat)  D == DOMAIN times
           It(g) == [S \in SUBSET D |-> IF S = {} THEN <<>> ELSE Slower(g[S \ {Greatest(S)}], times[Greatest(S)])]
           op == [x \in A \X Nat |-> Slower(x[1], x[2])]
<1>1. FoldLeft(Slower, <<>>, times) = (CHOOSE g : g = It(g))[D]
  BY DEF FoldLeft, MapThenFoldSet, Max, Greatest
<1>2. D = 1 .. n /\ <<>> \in A
  OBVIOUS
<1>3. op \in [A \X Nat -> A] /\ \A a \in A, b \in Nat : op[a, b] = Slower(a, b)
  <2>1. \A a \in A, b \in Nat : Slower(a, b) \in A
    BY SlowerTypes
  <2> HIDE DEF A
  <2> QED BY <2>1
<1> HIDE DEF op, D, A
<1>4. \E g : g = It(g)
  <2>0. \E g \in [SUBSET (1 .. n) -> A] : Iterates(g, op, <<>>, times, n)
    BY <1>2, <1>3, FoldExists, Zenon
  <2>1. PICK g \in [SUBSET (1 .. n) -> A] : \A S \in SUBSET (1 .. n) :
           g[S] = IF S = {} THEN <<>> ELSE op[g[S \ {Greatest(S)}], times[Greatest(S)]]
    BY <2>0 DEF Iterates
  <2>2. ASSUME NEW S \in SUBSET D
        PROVE  g[S] = IF S = {} THEN <<>> ELSE Slower(g[S \ {Greatest(S)}], times[Greatest(S)])
    <3>1. CASE S = {}
      BY <1>2, <2>1, <3>1
    <3>2. CASE S # {}
      <4>1. Greatest(S) \in 1 .. n
        BY <1>2, <3>2, GreatestIn
      <4>2. g[S \ {Greatest(S)}] \in A /\ times[Greatest(S)] \in Nat
        BY <1>2, <2>1, <4>1
      <4> QED BY <1>2, <1>3, <2>1, <3>2, <4>2
    <3> QED BY <3>1, <3>2
  <2>3. g = [S \in SUBSET D |-> g[S]]
    BY <1>2
  <2>4. [S \in SUBSET D |-> g[S]] = It(g)
    BY <2>2
  <2> QED BY <2>3, <2>4
<1>5. PICK g : g = (CHOOSE h : h = It(h))
  OBVIOUS
<1>6. g = It(g)
  BY <1>4, <1>5
<1>7. g[1 .. 0] = <<>>
  <2>1. 1 .. 0 = {} /\ {} \in SUBSET D
    OBVIOUS
  <2> QED BY <2>1, <1>6
<1>8. ASSUME NEW i \in 1 .. n PROVE g[1 .. i] = Slower(g[1 .. i - 1], times[i])
  <2>1. Greatest(1 .. i) = i /\ (1 .. i) \ {i} = 1 .. i - 1 /\ 1 .. i # {}
    <3>1. i \in Nat /\ i > 0
      OBVIOUS
    <3> QED BY <3>1, GreatestUpTo
  <2>2. 1 .. i \in SUBSET D
    <3>1. 1 .. i \subseteq 1 .. n
      OBVIOUS
    <3> QED BY <3>1, <1>2
  <2> QED BY <1>6, <2>1, <2>2
<1> DEFINE E == {i \in 0 .. n : TopsOf(times, n, i, g[1 .. i])}
<1>9. 0 \in E
  <2>1. TopsOf(times, n, 0, <<>>) /\ 0 \in 0 .. n
    BY TopsBegin
  <2> QED BY <2>1, <1>7
<1>10. ASSUME NEW i \in 0 .. n - 1, i \in E PROVE i + 1 \in E
  <2>1. i + 1 \in 1 .. n /\ i + 1 \in 0 .. n /\ (i + 1) - 1 = i
    OBVIOUS
  <2>2. g[1 .. i + 1] = Slower(g[1 .. i], times[i + 1])
    BY <1>8, <2>1
  <2>3. TopsOf(times, n, i, g[1 .. i])
    BY <1>10
  <2>4. TopsOf(times, n, i + 1, Slower(g[1 .. i], times[i + 1]))
    BY <2>3, TopsStep
  <2> QED BY <2>1, <2>2, <2>4
<1> HIDE DEF E
<1>11. n \in E
  <2>1. n \in 0 .. n
    OBVIOUS
  <2>2. 0 .. n \subseteq E
    BY <1>9, <1>10, StepByStep
  <2> QED BY <2>1, <2>2
<1>12. TopsOf(times, n, n, g[1 .. n])
  BY <1>11 DEF E
<1>13. FoldLeft(Slower, <<>>, times) = g[D]
  BY <1>1, <1>5
<1> QED BY <1>2, <1>12, <1>13

\* l is the mean of the slowest that r holds
Mean(r, l) ==
  LET Some == {i \in 1 .. Slots : r[i] > 0}
  IN \E T \in SUBSET Some :
       /\ Cardinality(T) = IF Cardinality(Some) < Worst THEN Cardinality(Some) ELSE Worst
       /\ \A i \in T, j \in Some \ T : r[i] >= r[j]
       /\ l = (Cardinality(T) * Second) \div Total([i \in 1 .. Slots |-> IF i \in T THEN r[i] ELSE 0])

LEMMA SlotFacts == Slots \in Nat /\ Slots > 0 /\ Worst \in Nat /\ Worst > 0
  BY CountAssumption

LEMMA TopsMean ==
  ASSUME NEW r \in [1 .. Slots -> Nat], NEW top, TopsOf(r, Slots, Slots, top), NEW one \in 1 .. Slots, r[one] > 0
  PROVE  top # <<>> /\ Mean(r, (Len(top) * Second) \div Total(top))
<1> DEFINE Some == {i \in 1 .. Slots : r[i] > 0}
<1>1. PICK b, T : /\ Picks(r, Slots, top, b, T, Slots) /\ Len(top) <= Worst
                  /\ \A j \in 1 .. Slots : r[j] > 0 /\ j \notin T => Len(top) = Worst /\ r[j] <= top[1]
  BY DEF TopsOf
<1>2. /\ top \in Seq(Nat) /\ Len(top) \in Nat /\ T = {b[x] : x \in 1 .. Len(top)}
      /\ b \in [1 .. Len(top) -> 1 .. Slots] /\ IsFiniteSet(T) /\ Cardinality(T) = Len(top)
      /\ \A x \in 1 .. Len(top) : top[x] = r[b[x]] /\ top[x] > 0 /\ top[x] \in Nat
      /\ \A x, y \in 1 .. Len(top) : x < y => top[x] <= top[y]
      /\ Total(top) = Total(Mask(r, Slots, T))
  <2>1. top \in Seq(Nat) /\ Len(top) \in Nat
    BY <1>1 DEF Picks
  <2>2. \A x \in 1 .. Len(top) : top[x] \in Nat
    BY <2>1
  <2> QED BY <1>1, <2>1, <2>2 DEF Picks
<1>3. T \subseteq Some
  <2>1. ASSUME NEW x \in 1 .. Len(top) PROVE b[x] \in Some
    BY <1>2
  <2> HIDE DEF Some
  <2> QED BY <1>2, <2>1
<1>4. ASSUME NEW i \in T, NEW j \in Some \ T PROVE r[i] >= r[j]
  <2>1. PICK x \in 1 .. Len(top) : i = b[x]
    BY <1>2
  <2>0. 1 \in 1 .. Len(top)
    BY <1>2
  <2>2. top[x] = r[i] /\ top[x] \in Nat /\ 1 \in 1 .. Len(top)
    <3>1. top[x] = r[b[x]] /\ top[x] \in Nat
      BY <1>2
    <3> QED BY <2>0, <2>1, <3>1
  <2>3. top[1] <= top[x]
    <3>1. CASE x = 1
      BY <1>2, <2>2, <3>1
    <3>2. CASE x # 1
      <4>1. 1 < x
        BY <3>2, <1>2
      <4> QED BY <1>2, <2>2, <4>1
    <3> QED BY <3>1, <3>2
  <2>4. r[j] <= top[1] /\ r[j] \in Nat /\ top[1] \in Nat
    BY <1>1, <1>2, <1>4, <2>2
  <2> QED BY <2>2, <2>3, <2>4
<1>5. IsFiniteSet(Some) /\ Cardinality(Some) \in Nat
  <2>1. IsFiniteSet(1 .. Slots)
    BY SlotFacts, FS_Interval
  <2>2. IsFiniteSet(Some)
    BY <2>1, FS_Subset
  <2> QED BY <2>2, FS_CardinalityType
<1>6. Cardinality(T) = (IF Cardinality(Some) < Worst THEN Cardinality(Some) ELSE Worst) /\ top # <<>>
  <2>1. CASE Some = T
    <3>1. one \in Some
      OBVIOUS
    <3>2. top # <<>>
      <4>1. one \in {b[x] : x \in 1 .. Len(top)}
        <5>1. T = {b[x] : x \in 1 .. Len(top)}
          BY <1>2
        <5> QED BY <2>1, <3>1, <5>1
      <4>2. PICK x \in 1 .. Len(top) : one = b[x]
        BY <4>1
      <4> QED BY <4>2
    <3>3. Cardinality(Some) <= Worst
      BY <1>1, <1>2, <2>1
    <3> HIDE DEF Some
    <3> QED BY <2>1, <3>2, <3>3, <1>5, SlotFacts
  <2>2. CASE Some # T
    <3>1. PICK j \in Some : j \notin T
      BY <2>2, <1>3
    <3>2. Len(top) = Worst
      BY <1>1, <3>1
    <3>3. Cardinality(T) < Cardinality(Some)
      <4> HIDE DEF Some
      <4>1. Cardinality(T) <= Cardinality(Some) /\ (Cardinality(T) = Cardinality(Some) => T = Some)
        BY <1>3, <1>5, FS_Subset
      <4> QED BY <4>1, <2>2, <1>5, <1>2
    <3>4. top # <<>>
      BY <3>2, SlotFacts
    <3> HIDE DEF Some
    <3> QED BY <3>2, <3>3, <3>4, <1>2, <1>5, SlotFacts
  <2> QED BY <2>1, <2>2
<1>7. (Len(top) * Second) \div Total(top)
        = (Cardinality(T) * Second) \div Total([i \in 1 .. Slots |-> IF i \in T THEN r[i] ELSE 0])
  BY <1>2 DEF Mask
<1>8. Mean(r, (Len(top) * Second) \div Total(top))
  BY <1>3, <1>4, <1>6, <1>7, Zenon DEF Mean
<1> QED BY <1>6, <1>8

\* what Low makes of frametimes that are not all zero
LEMMA LowIsMean ==
  ASSUME NEW r \in [1 .. Slots -> Nat], NEW one \in 1 .. Slots, r[one] > 0
  PROVE  Mean(r, Low(r))
<1>1. PICK top : top = FoldLeft(Slower, <<>>, r)
  OBVIOUS
<1>2. TopsOf(r, Slots, Slots, top)
  BY <1>1, SlotFacts, LowFolds
<1>3. top # <<>> /\ Mean(r, (Len(top) * Second) \div Total(top))
  BY <1>2, TopsMean
<1>4. Low(r) = (Len(top) * Second) \div Total(top)
  BY <1>1, <1>3 DEF Low
<1> QED BY <1>3, <1>4

-----------------------------------------------------------------------------
\* how many frametimes were kept after the one in slot j
Age(j, p) == IF j < p THEN p - 1 - j ELSE p - 1 - j + Slots
\* the frametime so many before the last
Gap(fs, a) == IF a + 2 <= Len(fs) THEN fs[Len(fs) - a] - fs[Len(fs) - a - 1] ELSE 0
Kept(r, fs, p) == \A j \in 1 .. Slots : r[j] = Gap(fs, Age(j, p))
NextSlot(p) == (p % Slots) + 1
Longer(fs, t) == Append(IF Len(fs) > Slots THEN Tail(fs) ELSE fs, t)

LEMMA AgeTypes ==
  ASSUME NEW j \in 1 .. Slots, NEW p \in 1 .. Slots
  PROVE  Age(j, p) \in 0 .. Slots - 1 /\ Age(p, p) = Slots - 1
  BY SlotFacts DEF Age

LEMMA Ages ==
  ASSUME NEW p \in 1 .. Slots
  PROVE  /\ NextSlot(p) \in 1 .. Slots /\ Age(p, NextSlot(p)) = 0
         /\ \A j \in 1 .. Slots \ {p} : Age(j, NextSlot(p)) = Age(j, p) + 1 /\ Age(j, p) \in 0 .. Slots - 2
<1>1. CASE p = Slots
  <2>1. NextSlot(p) = 1
    BY <1>1, SlotFacts DEF NextSlot
  <2> QED BY <2>1, <1>1, SlotFacts DEF Age
<1>2. CASE p # Slots
  <2>1. NextSlot(p) = p + 1
    BY <1>2, SlotFacts DEF NextSlot
  <2> QED BY <2>1, <1>2, SlotFacts DEF Age
<1> QED BY <1>1, <1>2

\* one more frame, the oldest of Slots + 1 forgotten
LEMMA LongerFacts ==
  ASSUME NEW fs \in Seq(Nat), Len(fs) <= Slots + 1, NEW t \in Nat
  PROVE  LET gs == Longer(fs, t)  k == IF Len(fs) > Slots THEN 1 ELSE 0
         IN /\ gs \in Seq(Nat) /\ Len(gs) = Len(fs) + 1 - k /\ gs[Len(gs)] = t /\ Len(gs) >= 1
            /\ \A i \in 1 .. Len(fs) - k : gs[i] = fs[i + k]
<1>1. Len(fs) \in Nat
  OBVIOUS
<1>2. CASE Len(fs) > Slots
  <2>1. PICK h : h = Tail(fs)
    OBVIOUS
  <2>2. h \in Seq(Nat) /\ Len(h) = Len(fs) - 1 /\ \A i \in 1 .. Len(fs) - 1 : h[i] = fs[i + 1]
    BY <2>1, <1>2, <1>1, SlotFacts
  <2>3. Longer(fs, t) = Append(h, t)
    BY <2>1, <1>2 DEF Longer
  <2> QED BY <2>2, <2>3, <1>1, <1>2, SlotFacts
<1>3. CASE ~(Len(fs) > Slots)
  BY <1>1, <1>3, SlotFacts DEF Longer
<1> QED BY <1>2, <1>3

MayKeep(fs, t, p, r, s) ==
  /\ fs \in Seq(Nat) /\ fs # <<>> /\ Len(fs) <= Slots + 1 /\ t \in Nat /\ fs[Len(fs)] <= t
  /\ p \in 1 .. Slots /\ r \in [1 .. Slots -> Nat] /\ Kept(r, fs, p) /\ Total(r) = fs[Len(fs)] - fs[1]
  /\ s = [r EXCEPT ![p] = t - fs[Len(fs)]]
HasKept(gs, p, s) == s \in [1 .. Slots -> Nat] /\ Kept(s, gs, NextSlot(p)) /\ Total(s) = gs[Len(gs)] - gs[1]

LEMMA KeptOn ==
  ASSUME NEW fs, NEW t, NEW p, NEW r, NEW s, MayKeep(fs, t, p, r, s)
  PROVE  HasKept(Longer(fs, t), p, s)
<1>0. /\ fs \in Seq(Nat) /\ fs # <<>> /\ Len(fs) <= Slots + 1 /\ t \in Nat /\ fs[Len(fs)] <= t
      /\ p \in 1 .. Slots /\ r \in [1 .. Slots -> Nat] /\ Kept(r, fs, p) /\ Total(r) = fs[Len(fs)] - fs[1]
      /\ s = [r EXCEPT ![p] = t - fs[Len(fs)]]
  BY DEF MayKeep
<1> DEFINE k == IF Len(fs) > Slots THEN 1 ELSE 0
<1>1. PICK gs : gs = Longer(fs, t)
  OBVIOUS
<1>2. PICK n : n = Len(fs)
  OBVIOUS
<1>3. PICK m : m = Len(gs)
  OBVIOUS
<1>4. n \in 1 .. Slots + 1 /\ \A i \in 1 .. n : fs[i] \in Nat
  BY <1>0, <1>2, SlotFacts
<1>5. k \in {0, 1} /\ (k = 1 <=> n = Slots + 1)
  BY <1>2, <1>4, SlotFacts
<1>6. gs \in Seq(Nat) /\ m = n + 1 - k /\ gs[m] = t /\ \A i \in 1 .. n - k : gs[i] = fs[i + k]
  BY <1>0, <1>1, <1>2, <1>3, LongerFacts
<1> HIDE DEF k
<1>7. s \in [1 .. Slots -> Nat] /\ s[p] = t - fs[n] /\ \A j \in 1 .. Slots \ {p} : s[j] = r[j]
  BY <1>0, <1>2, <1>4
<1>8. Kept(s, gs, NextSlot(p))
  <2>1. SUFFICES ASSUME NEW j \in 1 .. Slots PROVE s[j] = Gap(gs, Age(j, NextSlot(p)))
    BY DEF Kept
  <2>2. CASE j = p
    <3>1. Age(j, NextSlot(p)) = 0
      BY <1>0, <2>2, Ages
    <3>2. 0 + 2 <= m /\ m - 0 = m /\ m - 0 - 1 = n - k /\ n - k \in 1 .. n - k /\ (n - k) + k = n
      BY <1>4, <1>5, <1>6, SlotFacts
    <3>3. gs[n - k] = fs[n]
      BY <1>6, <3>2
    <3>4. Gap(gs, 0) = t - fs[n]
      BY <1>3, <1>6, <3>2, <3>3 DEF Gap
    <3> QED BY <2>2, <3>1, <3>4, <1>7
  <2>3. CASE j # p
    <3>1. PICK a \in 0 .. Slots - 2 : a = Age(j, p) /\ Age(j, NextSlot(p)) = a + 1
      BY <1>0, <2>3, Ages
    <3>2. r[j] = Gap(fs, a) /\ s[j] = r[j]
      BY <1>0, <2>3, <3>1, <1>7 DEF Kept
    <3>3. CASE a + 2 <= n
      <4>1. (a + 1) + 2 <= m /\ m - (a + 1) = n - k - a /\ m - (a + 1) - 1 = n - k - a - 1
        BY <1>4, <1>5, <1>6, <3>3, SlotFacts
      <4>2. n - k - a \in 1 .. n - k /\ n - k - a - 1 \in 1 .. n - k /\ (n - k - a) + k = n - a /\ (n - k - a - 1) + k = n - a - 1
        BY <1>4, <1>5, <1>6, <3>3, SlotFacts
      <4>3. gs[n - k - a] = fs[n - a] /\ gs[n - k - a - 1] = fs[n - a - 1]
        <5>1. gs[n - k - a] = fs[(n - k - a) + k] /\ gs[n - k - a - 1] = fs[(n - k - a - 1) + k]
          BY <1>6, <4>2
        <5> QED BY <4>2, <5>1
      <4>4. Gap(fs, a) = fs[n - a] - fs[n - a - 1]
        BY <1>2, <3>3 DEF Gap
      <4>5. Gap(gs, a + 1) = gs[n - k - a] - gs[n - k - a - 1]
        BY <1>3, <4>1 DEF Gap
      <4> QED BY <3>1, <3>2, <4>3, <4>4, <4>5
    <3>4. CASE ~(a + 2 <= n)
      <4>1. ~((a + 1) + 2 <= m)
        BY <1>4, <1>5, <1>6, <3>4, SlotFacts
      <4>2. Gap(fs, a) = 0 /\ Gap(gs, a + 1) = 0
        BY <1>2, <1>3, <3>4, <4>1 DEF Gap
      <4> QED BY <3>1, <3>2, <4>2
    <3> QED BY <3>3, <3>4
  <2> QED BY <2>2, <2>3
<1>9. Total(s) = gs[m] - gs[1]
  <2>1. Total(s) = Total(r) - r[p] + s[p]
    <3>1. Slots \in Nat /\ r \in [1 .. Slots -> Nat] /\ p \in 1 .. Slots
      BY <1>0, SlotFacts
    <3> QED BY <3>1, <1>7, TotalChange, Zenon
  <2>2. r[p] = Gap(fs, Slots - 1)
    BY <1>0, AgeTypes DEF Kept
  <2>3. CASE k = 0
    <3>1. ~((Slots - 1) + 2 <= n) /\ 1 \in 1 .. n - k /\ 1 + k = 1
      BY <1>4, <1>5, <2>3, SlotFacts
    <3>2. r[p] = 0 /\ gs[1] = fs[1]
      BY <1>2, <1>6, <2>2, <3>1 DEF Gap
    <3>3. fs[n] \in Nat /\ fs[1] \in Nat
      BY <1>4
    <3> QED BY <1>0, <2>1, <3>2, <3>3, <1>2, <1>6, <1>7
  <2>4. CASE k = 1
    <3>1. (Slots - 1) + 2 <= n /\ n - (Slots - 1) = 2 /\ n - (Slots - 1) - 1 = 1 /\ 1 \in 1 .. n - k /\ 1 + k = 2
      BY <1>4, <1>5, <2>4, SlotFacts
    <3>2. r[p] = fs[2] - fs[1] /\ gs[1] = fs[2]
      BY <1>2, <1>6, <2>2, <3>1 DEF Gap
    <3>3. n \in 1 .. n /\ 1 \in 1 .. n /\ 2 \in 1 .. n
      BY <1>4, <1>5, <2>4, SlotFacts
    <3>4. PICK x, y, z \in Nat : x = fs[n] /\ y = fs[1] /\ z = fs[2]
      BY <1>4, <3>3
    <3>5. Total(s) = (x - y) - (z - y) + (t - x)
      BY <1>0, <2>1, <3>2, <3>4, <1>2, <1>7
    <3>6. t \in Nat
      BY <1>0
    <3>7. \A e, f, g, h \in Nat : (e - f) - (g - f) + (h - e) = h - g
      OBVIOUS
    <3>8. Total(s) = t - z
      BY <3>5, <3>6, <3>7
    <3> QED BY <3>2, <3>4, <3>8, <1>6
  <2> QED BY <2>3, <2>4, <1>5
<1> QED BY <1>1, <1>3, <1>7, <1>8, <1>9 DEF HasKept

CountTypes ==
  /\ tick \in Nat /\ tick > 0 /\ last \in Nat /\ last <= tick /\ lowAt \in Nat /\ lowAt <= last
  /\ ring \in [1 .. Slots -> Nat] /\ place \in 1 .. Slots
Framed ==
  /\ frames \in Seq(Nat) /\ Len(frames) <= Slots + 1 /\ (frames = <<>> <=> last = 0)
  /\ frames # <<>> => frames[Len(frames)] = last
\* the ring holds the gaps between the frames, where place says
Ringed ==
  IF frames = <<>> THEN \A j \in 1 .. Slots : ring[j] = 0
  ELSE Kept(ring, frames, place) /\ Total(ring) = frames[Len(frames)] - frames[1]
Lows == lowAt > 0 /\ lowAt = last => Mean(ring, low)
Bursts == ~mixed /\ run \in 0 .. 4 /\ flips \in Nat /\ flips >= run - 1 /\ flipAt \in Nat
CountInv == CountTypes /\ Framed /\ Ringed /\ Lows /\ Bursts

LEMMA CountInitially == CountInit => CountInv
<1> SUFFICES ASSUME CountInit PROVE CountInv
  OBVIOUS
<1>1. CountTypes
  BY SlotFacts, CountAssumption DEF CountInit, CountTypes
<1>2. Framed
  BY SlotFacts DEF CountInit, Framed
<1>3. Ringed /\ Lows
  BY DEF CountInit, Ringed, Lows
<1>4. Bursts
  BY DEF CountInit, Bursts
<1> QED BY <1>1, <1>2, <1>3, <1>4 DEF CountInv

\* the first frame: nothing is between it and another
LEMMA FirstFrame ==
  ASSUME NEW t \in Nat, NEW p \in 1 .. Slots, NEW r \in [1 .. Slots -> Nat], \A j \in 1 .. Slots : r[j] = 0
  PROVE  /\ Longer(<<>>, t) = <<t>> /\ Kept(r, <<t>>, p) /\ Total(r) = t - t
<1>1. Longer(<<>>, t) = <<t>>
  BY SlotFacts DEF Longer
<1>2. ASSUME NEW j \in 1 .. Slots PROVE Gap(<<t>>, Age(j, p)) = 0
  <2>1. Age(j, p) \in Nat
    BY AgeTypes, SlotFacts
  <2> QED BY <2>1 DEF Gap
<1>3. Kept(r, <<t>>, p)
  BY <1>2 DEF Kept
<1>4. Total(r) = 0
  BY SlotFacts, TotalNothing
<1> QED BY <1>1, <1>3, <1>4

LEMMA FrameKeeps ==
  ASSUME CountTypes, Framed, Ringed, Lows, tick' = tick, CountFrame, last = 0 \/ tick - last >= Floor
  PROVE  CountTypes' /\ Framed' /\ Ringed' /\ Lows'
<1>1. /\ tick \in Nat /\ tick > 0 /\ last \in Nat /\ last <= tick /\ lowAt \in Nat /\ lowAt <= last
      /\ ring \in [1 .. Slots -> Nat] /\ place \in 1 .. Slots
      /\ frames \in Seq(Nat) /\ Len(frames) <= Slots + 1
  BY DEF CountTypes, Framed
<1>2. frames' = Longer(frames, tick) /\ last' = tick
  BY DEF CountFrame, Longer
<1>3. PICK gs : gs = Longer(frames, tick)
  OBVIOUS
<1>4. gs \in Seq(Nat) /\ Len(gs) <= Slots + 1 /\ gs # <<>> /\ gs[Len(gs)] = tick
  BY <1>1, <1>3, LongerFacts, SlotFacts
<1>5. Framed'
  BY <1>1, <1>2, <1>3, <1>4 DEF Framed
<1>6. CASE last = 0
  <2>1. frames = <<>> /\ \A j \in 1 .. Slots : ring[j] = 0
    BY <1>6 DEF Framed, Ringed
  <2>2. ring' = ring /\ place' = place /\ lowAt' = lowAt /\ low' = low
    BY <1>6 DEF CountFrame
  <2>3. gs = <<tick>> /\ Kept(ring, <<tick>>, place) /\ Total(ring) = tick - tick
    BY <1>1, <1>3, <2>1, FirstFrame
  <2>4. Ringed'
    <3>1. frames' = <<tick>> /\ <<tick>> # <<>> /\ Len(<<tick>>) = 1 /\ <<tick>>[1] = tick
      BY <1>2, <1>3, <2>3
    <3> QED BY <2>2, <2>3, <3>1 DEF Ringed, Kept
  <2>5. CountTypes'
    BY <1>1, <1>2, <2>2 DEF CountTypes
  <2>6. Lows'
    BY <1>1, <1>6, <2>2 DEF Lows
  <2> QED BY <1>5, <2>4, <2>5, <2>6
<1>7. CASE last # 0
  <2>1. frames # <<>> /\ frames[Len(frames)] = last /\ Kept(ring, frames, place)
        /\ Total(ring) = frames[Len(frames)] - frames[1]
    BY <1>7 DEF Framed, Ringed
  <2>2. PICK s : s = [ring EXCEPT ![place] = tick - last]
    OBVIOUS
  <2>3. ring' = s /\ place' = NextSlot(place)
    BY <1>7, <2>2 DEF CountFrame, NextSlot
  <2>4. s \in [1 .. Slots -> Nat] /\ Kept(s, gs, NextSlot(place)) /\ Total(s) = gs[Len(gs)] - gs[1]
    <3>1. s = [ring EXCEPT ![place] = tick - frames[Len(frames)]] /\ frames[Len(frames)] <= tick
      BY <1>1, <2>1, <2>2
    <3>2. MayKeep(frames, tick, place, ring, s)
      BY <1>1, <2>1, <3>1 DEF MayKeep
    <3>3. HasKept(gs, place, s)
      BY <1>3, <3>2, KeptOn
    <3> QED BY <3>3 DEF HasKept
  <2>5. Ringed'
    BY <1>2, <1>3, <1>4, <2>3, <2>4 DEF Ringed, Kept
  <2>6. tick - last >= Floor /\ Floor > 0 /\ Floor \in Nat /\ LowEvery \in Nat /\ LowEvery > 0
    BY <1>7, CountAssumption
  <2>7. NextSlot(place) \in 1 .. Slots
    BY <1>1, Ages
  <2>8. s[place] > 0
    BY <1>1, <2>2, <2>6
  <2>9. CASE tick - lowAt >= LowEvery
    <3>1. low' = Low(s) /\ lowAt' = tick
      BY <1>7, <2>3, <2>9 DEF CountFrame
    <3>2. Mean(s, Low(s))
      BY <1>1, <2>4, <2>8, LowIsMean
    <3>3. Lows'
      BY <2>3, <3>1, <3>2 DEF Lows, Mean
    <3>4. CountTypes'
      BY <1>1, <1>2, <2>3, <2>4, <2>7, <3>1 DEF CountTypes
    <3> QED BY <1>5, <2>5, <3>3, <3>4
  <2>10. CASE ~(tick - lowAt >= LowEvery)
    <3>1. low' = low /\ lowAt' = lowAt
      BY <1>7, <2>10 DEF CountFrame
    <3>2. lowAt' # last'
      BY <1>1, <1>2, <2>6, <3>1
    <3>3. Lows'
      BY <3>2 DEF Lows
    <3>4. CountTypes'
      BY <1>1, <1>2, <2>3, <2>4, <2>7, <3>1 DEF CountTypes
    <3> QED BY <1>5, <2>5, <3>3, <3>4
  <2> QED BY <2>9, <2>10
<1> QED BY <1>6, <1>7

LEMMA TickKeeps ==
  ASSUME CountTypes, Framed, Ringed, Lows, tick' = tick, FpsTick
  PROVE  CountTypes' /\ Framed' /\ Ringed' /\ Lows'
<1>1. CASE last # 0 /\ tick - last < Floor
  <2>1. UNCHANGED <<last, opened, inWindow, rate, ring, place, lowAt, low, frames>>
    BY <1>1 DEF FpsTick, NoTick, mine
  <2> QED BY <2>1 DEF CountTypes, Framed, Ringed, Lows, Mean, Kept
<1>2. CASE ~(last # 0 /\ tick - last < Floor)
  <2>1. CountFrame
    BY <1>2 DEF FpsTick
  <2>2. last = 0 \/ tick - last >= Floor
    BY <1>2, CountAssumption DEF CountTypes
  <2> QED BY <2>1, <2>2, FrameKeeps
<1> QED BY <1>1, <1>2

\* a burst that the counter of presents has not noticed yet is short
LEMMA NotMixed ==
  ASSUME CountTypes, Bursts, ~FlipsCount
  PROVE  ~(Running > 3)
<1>1. Quiet \in Nat
  BY CountAssumption
<1> QED BY <1>1 DEF CountTypes, Bursts, FlipsCount, Running

LEMMA CountStep == CountInv /\ [CountNext]_countVars => CountInv'
<1> SUFFICES ASSUME CountInv, [CountNext]_countVars PROVE CountInv'
  OBVIOUS
<1>0. CountTypes /\ Framed /\ Ringed /\ Lows /\ Bursts
  BY DEF CountInv
<1>1. CASE Flip
  <2>1. CountTypes' /\ Framed' /\ Ringed' /\ Lows'
    BY <1>0, <1>1, TickKeeps DEF Flip
  <2>2. Bursts'
    <3>1. FlipCap \in Nat /\ FlipCap >= 3 /\ Quiet \in Nat
      BY CountAssumption
    <3>2. flips' = (IF tick - flipAt < Quiet THEN (IF flips < FlipCap THEN flips + 1 ELSE flips) ELSE 0)
          /\ flipAt' = tick /\ run' = (IF Running > 3 THEN 4 ELSE Running + 1) /\ mixed' = mixed
      BY <1>1 DEF Flip
    <3>3. tick \in Nat /\ ~mixed /\ run \in 0 .. 4 /\ flips \in Nat /\ flips >= run - 1 /\ flipAt \in Nat
      BY <1>0 DEF CountTypes, Bursts
    <3>4. CASE tick - flipAt < Quiet
      <4>1. Running = run
        BY <3>4 DEF Running
      <4> QED BY <3>1, <3>2, <3>3, <3>4, <4>1 DEF Bursts
    <3>5. CASE ~(tick - flipAt < Quiet)
      <4>1. Running = 0
        BY <3>5 DEF Running
      <4> QED BY <3>2, <3>3, <3>5, <4>1 DEF Bursts
    <3> QED BY <3>4, <3>5
  <2> QED BY <2>1, <2>2 DEF CountInv
<1>2. CASE Blank \/ Listed
  <2>1. /\ ~FlipsCount /\ FpsTick /\ mixed' = (mixed \/ (Running > 3 /\ frames' # frames))
        /\ UNCHANGED <<tick, flipAt, flips, run>>
    BY <1>2 DEF Blank, Listed
  <2>2. CountTypes' /\ Framed' /\ Ringed' /\ Lows'
    BY <1>0, <2>1, TickKeeps
  <2>3. ~(Running > 3)
    BY <1>0, <2>1, NotMixed
  <2>4. Bursts'
    BY <1>0, <2>1, <2>3 DEF Bursts
  <2> QED BY <2>2, <2>4 DEF CountInv
<1>3. CASE Elapse
  <2>1. /\ tick' = tick + 1
        /\ UNCHANGED <<last, opened, inWindow, rate, flipAt, flips, blankAt, ring, place, lowAt, low, frames, run, mixed>>
    BY <1>3 DEF Elapse
  <2>2. CountTypes'
    BY <1>0, <2>1 DEF CountTypes
  <2>3. Framed' /\ Ringed' /\ Lows' /\ Bursts'
    BY <1>0, <2>1 DEF Framed, Ringed, Lows, Bursts, Mean, Kept
  <2> QED BY <2>2, <2>3 DEF CountInv
<1>4. CASE UNCHANGED countVars
  BY <1>0, <1>4 DEF countVars, CountInv, CountTypes, Framed, Ringed, Lows, Bursts, Mean, Kept
<1> QED BY <1>1, <1>2, <1>3, <1>4 DEF CountNext

LEMMA CountShows == CountInv => CountsAreTrue
<1> SUFFICES ASSUME CountInv PROVE CountsAreTrue
  OBVIOUS
<1>1. FrametimesAddUp
  BY DEF CountInv, Ringed, FrametimesAddUp
<1>2. LowIsWorst
  <2>1. SUFFICES ASSUME lowAt = last, lowAt > 0
        PROVE \E T \in SUBSET Taken :
           /\ Cardinality(T) = IF Cardinality(Taken) < Worst THEN Cardinality(Taken) ELSE Worst
           /\ \A i \in T, j \in Taken \ T : ring[i] >= ring[j]
           /\ low = (Cardinality(T) * Second) \div Total([i \in 1 .. Slots |-> IF i \in T THEN ring[i] ELSE 0])
    BY Zenon DEF LowIsWorst
  <2>2. Mean(ring, low)
    BY <2>1 DEF CountInv, Lows
  <2> QED BY <2>2, Zenon DEF Mean, Taken
<1>3. TiersYield
  BY DEF CountInv, Bursts, TiersYield
<1> QED BY <1>1, <1>2, <1>3 DEF CountsAreTrue

\* The figures the overlay shows are the frames' own: the frametimes kept add up to the time
\* between the frames, a frame shown again neither counted nor restarting the clock; the 1% low is
\* the mean of the slowest of them; and once a game presents steadily no other hook counts beside
\* its presents (fps_tick, fps_calc_1pct_low, the hooks' cascade).
THEOREM CountsStayTrue == CountSpec => []CountsAreTrue
<1> QED BY CountInitially, CountStep, CountShows, PTL DEF CountSpec

\* the frames of the window came one after the other, none of the gaps kept is shorter than a
\* present that shows a frame again, and the rate is what they allow
WindowInv ==
  /\ opened \in Nat /\ inWindow \in Nat /\ opened + inWindow <= last
  /\ flips \in 0 .. FlipCap /\ rate \in 0 .. Second \div Floor + Second
  /\ \A i \in 1 .. Slots : ring[i] = 0 \/ ring[i] >= Floor

LEMMA Floored ==
  ASSUME NEW a \in Nat, NEW b \in Nat, NEW d \in Nat, d > 0, a <= d * b
  PROVE  a \div d \in 0 .. b
<1>1. PICK q : q = a \div d
  OBVIOUS
<1>2. q \in Nat /\ d * q <= a
  BY <1>1
<1>3. ~(q > b)
  <2>1. SUFFICES ASSUME q >= b + 1 PROVE FALSE
    BY <1>2
  <2>2. PICK e \in Nat : q = b + 1 + e
    <3>1. q - (b + 1) \in Nat /\ q = b + 1 + (q - (b + 1))
      BY <1>2, <2>1
    <3> QED BY <3>1
  <2>3. d * q = d * b + d + d * e /\ d * e \in Nat /\ d * b \in Nat
    BY <2>2
  <2> QED BY <1>2, <2>3
<1> QED BY <1>1, <1>2, <1>3

\* more frames than ticks never fit a window
LEMMA RateBound ==
  ASSUME NEW n \in Nat, NEW d \in Nat, d >= n + 1
  PROVE  ((n + 1) * Second) \div d \in 0 .. Second \div Floor + Second
<1>1. Second \in Nat /\ Floor \in Nat /\ Floor > 0
  BY CountAssumption
<1>2. Second \div Floor \in Nat
  BY <1>1
<1>3. (n + 1) * Second \in Nat /\ (n + 1) * Second <= d * Second
  <2>1. PICK e \in Nat : d = (n + 1) + e
    <3>1. d - (n + 1) \in Nat /\ d = (n + 1) + (d - (n + 1))
      OBVIOUS
    <3> QED BY <3>1
  <2>2. d * Second = (n + 1) * Second + e * Second /\ e * Second \in Nat /\ (n + 1) * Second \in Nat
    BY <1>1, <2>1
  <2> QED BY <2>2
<1>4. PICK a \in Nat : a = (n + 1) * Second
  BY <1>3
<1>5. a \div d \in 0 .. Second
  BY <1>1, <1>3, <1>4, Floored
<1> QED BY <1>1, <1>2, <1>4, <1>5

LEMMA FrameInWindow ==
  ASSUME CountTypes, WindowInv, tick' = tick, FpsTick, flips' \in 0 .. FlipCap
  PROVE  WindowInv'
<1>1. /\ tick \in Nat /\ tick > 0 /\ last \in Nat /\ last <= tick /\ ring \in [1 .. Slots -> Nat]
      /\ place \in 1 .. Slots
  BY DEF CountTypes
<1>2. /\ opened \in Nat /\ inWindow \in Nat /\ opened + inWindow <= last
      /\ rate \in 0 .. Second \div Floor + Second
      /\ \A i \in 1 .. Slots : ring[i] = 0 \/ ring[i] >= Floor
  BY DEF WindowInv
<1>3. Floor \in Nat /\ Floor > 0 /\ Window \in Nat /\ Window > 0
  BY CountAssumption
<1>4. CASE last # 0 /\ tick - last < Floor
  <2>1. UNCHANGED <<last, opened, inWindow, rate, ring>>
    BY <1>4 DEF FpsTick, NoTick, mine
  <2> QED BY <1>2, <2>1 DEF WindowInv
<1>5. CASE ~(last # 0 /\ tick - last < Floor)
  <2>1. CountFrame
    BY <1>5 DEF FpsTick
  <2>2. last' = tick /\ last + 1 <= tick
    BY <1>1, <1>3, <1>5, <2>1 DEF CountFrame
  <2>3. \A i \in 1 .. Slots : ring'[i] = 0 \/ ring'[i] >= Floor
    <3>1. CASE last = 0
      BY <1>2, <2>1, <3>1 DEF CountFrame
    <3>2. CASE last # 0
      <4>1. ring' = [ring EXCEPT ![place] = tick - last] /\ tick - last >= Floor
        BY <1>1, <1>3, <1>5, <2>1, <3>2 DEF CountFrame
      <4>2. ASSUME NEW i \in 1 .. Slots PROVE ring'[i] = 0 \/ ring'[i] >= Floor
        <5>1. ring'[i] = IF i = place THEN tick - last ELSE ring[i]
          BY <1>1, <4>1
        <5> QED BY <1>2, <4>1, <5>1
      <4> QED BY <4>2
    <3> QED BY <3>1, <3>2
  <2>4. CASE tick - opened < Window
    <3>1. inWindow' = inWindow + 1 /\ opened' = opened /\ rate' = rate
      BY <2>1, <2>4 DEF CountFrame
    <3>2. opened + (inWindow + 1) <= tick /\ inWindow + 1 \in Nat
      BY <1>1, <1>2, <2>2
    <3> QED BY <1>2, <2>2, <2>3, <3>1, <3>2 DEF WindowInv
  <2>5. CASE ~(tick - opened < Window)
    <3>1. rate' = ((inWindow + 1) * Second) \div (tick - opened) /\ opened' = tick /\ inWindow' = 0
      BY <2>1, <2>5 DEF CountFrame
    <3>2. PICK d : d = tick - opened
      OBVIOUS
    <3>3. d \in Nat /\ d >= inWindow + 1
      BY <1>1, <1>2, <2>2, <3>2
    <3>4. rate' \in 0 .. Second \div Floor + Second
      BY <1>2, <3>1, <3>2, <3>3, RateBound
    <3>5. tick + 0 <= tick /\ 0 \in Nat
      BY <1>1
    <3> QED BY <1>1, <2>2, <2>3, <3>1, <3>4, <3>5 DEF WindowInv
  <2> QED BY <2>4, <2>5
<1> QED BY <1>4, <1>5

LEMMA WindowStays == ASSUME CountInv, WindowInv, [CountNext]_countVars PROVE WindowInv'
<1>0. CountTypes /\ flips \in 0 .. FlipCap
  BY DEF CountInv, WindowInv
<1>1. CASE Flip
  <2>1. FlipCap \in Nat
    BY CountAssumption
  <2>2. flips' = (IF tick - flipAt < Quiet THEN (IF flips < FlipCap THEN flips + 1 ELSE flips) ELSE 0)
    BY <1>1 DEF Flip
  <2>3. flips' \in 0 .. FlipCap
    BY <1>0, <2>1, <2>2
  <2> QED BY <1>0, <1>1, <2>3, FrameInWindow DEF Flip
<1>2. CASE Blank \/ Listed
  <2>1. FpsTick /\ tick' = tick /\ flips' = flips
    BY <1>2 DEF Blank, Listed
  <2> QED BY <1>0, <2>1, FrameInWindow
<1>3. CASE Elapse \/ UNCHANGED countVars
  BY <1>3 DEF Elapse, countVars, WindowInv
<1> QED BY <1>1, <1>2, <1>3 DEF CountNext

LEMMA WindowInitially == CountInit => WindowInv
<1> SUFFICES ASSUME CountInit PROVE WindowInv
  OBVIOUS
<1>1. Second \in Nat /\ Floor \in Nat /\ Floor > 0 /\ FlipCap \in Nat
  BY CountAssumption
<1>2. Second \div Floor \in Nat
  BY <1>1
<1> QED BY <1>1, <1>2 DEF CountInit, WindowInv

LEMMA CountTyped == CountInv /\ WindowInv => CountTypeOK
BY DEF CountInv, CountTypes, WindowInv, CountTypeOK

\* For every length of the window and every floor: no frametime is kept that is shorter than a
\* present showing a frame again, the count of presents stays under its cap, the ring's place in
\* the ring, and the rate within what the frames of a window allow (fps_tick,
\* fps_display_set_frame_buf_patched).
THEOREM CountTypesHold == CountSpec => []CountTypeOK
<1>1. CountInit => CountInv /\ WindowInv
  BY CountInitially, WindowInitially
<1>2. (CountInv /\ WindowInv) /\ [CountNext]_countVars => (CountInv /\ WindowInv)'
  BY CountStep, WindowStays
<1> QED BY <1>1, <1>2, CountTyped, PTL DEF CountSpec

-----------------------------------------------------------------------------
(* The types of what is left: the HUD, the page's highlighted row, and all *)
(* the parts of MCRoutines together.                                       *)

\* The settings and their words on the card are in the range, and a hold has not counted past its
\* fold.
HudShape ==
  /\ value \in [Axes -> HudLow .. HudTop] /\ screen \in [Axes -> HudLow .. HudTop]
  /\ words \in [Axes -> HudLow .. HudTop]
  /\ held \in [Axes -> Holds]
  /\ worker \in {"none", "top", "save", "write", "check", "leave", "wait"}
  /\ hud \in BOOLEAN /\ edited \in BOOLEAN /\ keys \in BOOLEAN /\ menuUp \in BOOLEAN /\ started \in BOOLEAN

LEMMA ShapeInitially == HudInit => HudShape
<1> SUFFICES ASSUME HudInit PROVE HudShape
  OBVIOUS
<1>1. HudOff \in HudLow .. HudTop /\ HudTop \in HudLow .. HudTop
  BY HudAssumption DEF HudOff
<1>2. value \in [Axes -> HudLow .. HudTop] /\ screen = value /\ words = value
  BY <1>1 DEF HudInit
<1>3. held \in [Axes -> Holds]
  BY DEF HudInit, Holds
<1>4. /\ worker \in {"none", "top"} /\ started \in BOOLEAN
      /\ hud = FALSE /\ edited = FALSE /\ keys = FALSE /\ menuUp = FALSE
  BY DEF HudInit, Correcting
<1> QED BY <1>2, <1>3, <1>4 DEF HudShape

LEMMA EnsureShape ==
  ASSUME HudShape, NEW need, Ensure(need)
  PROVE  started' \in BOOLEAN /\ worker' \in {"none", "top", "save", "write", "check", "leave", "wait"}
BY DEF HudShape, Ensure

LEMMA HudShapeStep == HudShape /\ [HudNext]_hudVars => HudShape'
<1> SUFFICES ASSUME HudShape, [HudNext]_hudVars PROVE HudShape'
  OBVIOUS
<1>1. CASE OpenHud
  <2>1. Ensure(TRUE) /\ hud' = TRUE /\ keys' = TRUE /\ menuUp' = FALSE
        /\ UNCHANGED <<value, screen, edited, held, words>>
    BY <1>1 DEF OpenHud
  <2> QED BY <2>1, EnsureShape DEF HudShape
<1>2. CASE MenuComes
  BY <1>2 DEF MenuComes, HudShape
<1>3. CASE MenuGoes
  BY <1>3 DEF MenuGoes, HudShape
<1>4. CASE MenuChart
  <2>1. PICK a \in Axes, x \in HudLow .. HudTop : value' = [value EXCEPT ![a] = x]
    BY <1>4 DEF MenuChart
  <2>2. /\ screen' = value' /\ UNCHANGED <<hud, edited, held, keys, menuUp, words>>
        /\ Ensure(Correcting(value'))
    BY <1>4 DEF MenuChart
  <2>3. value' \in [Axes -> HudLow .. HudTop]
    BY <2>1 DEF HudShape
  <2> QED BY <2>2, <2>3, EnsureShape DEF HudShape
<1>5. ASSUME NEW d \in Dirs \cup {<<"none", 0>>}, NEW close \in BOOLEAN, ReadPad(d, close)
      PROVE  HudShape'
  <2> DEFINE step(a) == LET s == {e \in Dirs : e[1] = a /\ StepsNow(e, e = d)}
                            by == {e[2] : e \in s}
                        IN (IF 1 \in by THEN 1 ELSE 0) - (IF -1 \in by THEN 1 ELSE 0)
             new == [a \in Axes |-> Inside(value[a], step(a), HudLow, HudTop)]
  <2>1. /\ value' = new /\ edited' = (edited \/ {a \in Axes : new[a] # value[a]} # {})
        /\ held' = [a \in Axes |-> HoldOf(held[a], IF d[1] = a THEN d[2] ELSE 0)]
        /\ hud' = ~(close /\ ~keys) /\ keys' = close /\ UNCHANGED <<screen, menuUp, words>>
    BY <1>5 DEF ReadPad
  <2>2. PICK need : Ensure(need)
    BY <1>5 DEF ReadPad
  <2>3. value' \in [Axes -> HudLow .. HudTop]
    <3>1. HudLow \in Int /\ HudTop \in Int
      BY HudAssumption
    <3> HIDE DEF step
    <3>2. ASSUME NEW a \in Axes PROVE Inside(value[a], step(a), HudLow, HudTop) \in HudLow .. HudTop
      <4>1. value[a] \in HudLow .. HudTop
        BY DEF HudShape
      <4> QED BY <3>1, <4>1, InsideFits
    <3> QED BY <2>1, <3>2
  <2>4. held' \in [Axes -> Holds]
    <3>1. ASSUME NEW a \in Axes PROVE HoldOf(held[a], IF d[1] = a THEN d[2] ELSE 0) \in Holds
      <4>1. held[a] \in Holds
        BY DEF HudShape
      <4>2. (IF d[1] = a THEN d[2] ELSE 0) \in -1 .. 1
        BY DEF Dirs
      <4> QED BY <4>1, <4>2, HoldFits
    <3> QED BY <2>1, <3>1
  <2>5. edited' \in BOOLEAN /\ hud' \in BOOLEAN /\ keys' \in BOOLEAN
    <3> HIDE DEF new
    <3> QED BY <2>1, Zenon DEF HudShape
  <2>6. started' \in BOOLEAN /\ worker' \in {"none", "top", "save", "write", "check", "leave", "wait"}
    BY <2>2, EnsureShape
  <2>7. UNCHANGED <<screen, menuUp, words>>
    BY <2>1
  <2> HIDE DEF new, step
  <2> QED BY <2>3, <2>4, <2>5, <2>6, <2>7 DEF HudShape
<1>6. CASE Top
  BY <1>6 DEF Top, HudShape
<1>7. CASE Gather
  BY <1>7 DEF Gather, HudShape
<1>8. CASE Write
  BY <1>8 DEF Write, HudShape
<1>9. CASE Check
  BY <1>9 DEF Check, HudShape
<1>10. CASE LeaveHud
  BY <1>10 DEF LeaveHud, HudShape
<1>11. CASE Wakes
  BY <1>11 DEF Wakes, HudShape
<1>12. CASE UNCHANGED hudVars
  BY <1>12 DEF hudVars, HudShape
<1> QED
  BY <1>1, <1>2, <1>3, <1>4, <1>5, <1>6, <1>7, <1>8, <1>9, <1>10, <1>11, <1>12 DEF HudNext

LEMMA HudTyped == HudShape => HudTypeOK
BY DEF HudShape, HudTypeOK, Holds

\* a row is highlighted, and the window behind a row change is a sample or two
RowInv == sel \in 1 .. 13 /\ window \in 0 .. 2

LEMMA RowInitially == PageInit => RowInv
BY DEF PageInit, RowInv

LEMMA RowStep == RowInv /\ [PageNext]_pageVars => RowInv'
<1> SUFFICES ASSUME RowInv, [PageNext]_pageVars PROVE RowInv'
  OBVIOUS
<1>1. CASE Open
  BY <1>1 DEF Open, RowInv
<1>2. CASE Enter
  BY <1>2 DEF Enter, RowInv
<1>3. ASSUME NEW pad \in Keys, Row(pad) PROVE RowInv'
  <2>1. PICK r, w : /\ r = Walked(sel, pad \ prev) /\ w \in {0, 1, 2}
                    /\ sel' = r /\ window' = w
    BY <1>3 DEF Row
  <2>2. r \in 1 .. 13
    BY <2>1 DEF Walked, RowInv
  <2> QED BY <2>1, <2>2 DEF RowInv
<1>4. ASSUME NEW pad \in Keys, Clock(pad) PROVE RowInv'
  BY <1>4 DEF Clock, RowInv
<1>5. ASSUME NEW pad \in Keys, Chart(pad) PROVE RowInv'
  BY <1>5 DEF Chart, RowInv
<1>6. CASE UNCHANGED pageVars
  BY <1>6 DEF pageVars, RowInv
<1> QED BY <1>1, <1>2, <1>3, <1>4, <1>5, <1>6 DEF PageNext

LEMMA PageTyped == KeptInv /\ RowInv => PageTypeOK
<1> SUFFICES ASSUME KeptInv, RowInv PROVE PageTypeOK
  OBVIOUS
<1>1. val.charge \in 0 .. 100
  BY DEF KeptInv, Legal, ChargeWords
<1>2. hold.n \in 0 .. 25 /\ hold.dir \in -1 .. 1
  BY DEF KeptInv, PlaceTypes, Holds
<1>3. at \in {"game", "rows", "clock", "chart"} /\ dirty \subseteq {"global", "game", "chart"}
  BY DEF KeptInv, PlaceTypes, Marks
<1> QED BY <1>1, <1>2, <1>3 DEF KeptInv, Legal, RowInv, PageTypeOK

\* The invariant of the part at work.
RoutineInv ==
  /\ part \in {"ramp", "rails", "page", "hud", "curve", "count", "format"}
  /\ part = "ramp"   => RampInv
  /\ part = "rails"  => TypeOK
  /\ part = "page"   => KeptInv /\ RowInv
  /\ part = "hud"    => HudShape
  /\ part = "curve"  => CurveInv /\ BuiltInv
  /\ part = "count"  => CountInv /\ WindowInv
  /\ part = "format" => FormatInv /\ RoomInv

LEMMA RoutinesBegin == RoutinesInit => RoutineInv
BY InitRamp, InitRails, PageInitially, RowInitially, ShapeInitially, CurveInitially, BuiltInitially,
   CountInitially, WindowInitially, FormatInitially, RoomInitially DEF RoutinesInit, RoutineInv

routineVars == <<part, rampVars, vars, pageVars, hudVars, curveVars, countVars, formatVars>>

LEMMA RoutinesGoOn == RoutineInv /\ [RoutinesNext]_routineVars => RoutineInv'
<1> SUFFICES ASSUME RoutineInv, [RoutinesNext]_routineVars PROVE RoutineInv'
  OBVIOUS
<1>1. part' = part
  BY DEF RoutinesNext, routineVars
<1>2. /\ part = "ramp" => [RampNext]_rampVars
      /\ part = "rails" => [Next]_vars
      /\ part = "page" => [PageNext]_pageVars
      /\ part = "hud" => [HudNext]_hudVars
      /\ part = "curve" => [CurveNext]_curveVars
      /\ part = "count" => [CountNext]_countVars
      /\ part = "format" => [FormatNext]_formatVars
  BY DEF RoutinesNext, routineVars
<1>3. CASE part = "ramp"
  <2>1. RampInv'
    BY <1>2, <1>3, RampStep DEF RoutineInv
  <2> QED BY <2>1, <1>1, <1>3 DEF RoutineInv
<1>4. CASE part = "rails"
  <2>1. TypeOK'
    BY <1>2, <1>4, RailStep DEF RoutineInv
  <2> QED BY <2>1, <1>1, <1>4 DEF RoutineInv
<1>5. CASE part = "page"
  <2>1. KeptInv' /\ RowInv'
    BY <1>2, <1>5, PageStep, RowStep DEF RoutineInv
  <2> QED BY <2>1, <1>1, <1>5 DEF RoutineInv
<1>6. CASE part = "hud"
  <2>1. HudShape'
    BY <1>2, <1>6, HudShapeStep DEF RoutineInv
  <2> QED BY <2>1, <1>1, <1>6 DEF RoutineInv
<1>7. CASE part = "curve"
  <2>1. CurveInv' /\ BuiltInv'
    BY <1>2, <1>7, CurveStep, BuiltStays DEF RoutineInv
  <2> QED BY <2>1, <1>1, <1>7 DEF RoutineInv
<1>8. CASE part = "count"
  <2>1. CountInv' /\ WindowInv'
    BY <1>2, <1>8, CountStep, WindowStays DEF RoutineInv
  <2> QED BY <2>1, <1>1, <1>8 DEF RoutineInv
<1>9. CASE part = "format"
  <2>1. FormatInv' /\ RoomInv'
    BY <1>2, <1>9, FormatStays, RoomStays DEF RoutineInv
  <2> QED BY <2>1, <1>1, <1>9 DEF RoutineInv
<1> QED BY <1>3, <1>4, <1>5, <1>6, <1>7, <1>8, <1>9 DEF RoutineInv

LEMMA RoutinesTyped == RoutineInv => RoutineTypesOK
<1> SUFFICES ASSUME RoutineInv PROVE RoutineTypesOK
  OBVIOUS
<1>1. part = "ramp" => RampTypeOK
  BY DEF RoutineInv, RampInv
<1>2. part = "rails" => TypeOK
  BY DEF RoutineInv
<1>3. part = "page" => PageTypeOK
  BY PageTyped DEF RoutineInv
<1>4. part = "hud" => HudTypeOK
  BY HudTyped DEF RoutineInv
<1>5. part = "curve" => CurveTypeOK
  BY CurveTyped DEF RoutineInv
<1>6. part = "count" => CountTypeOK
  BY CountTyped DEF RoutineInv
<1>7. part = "format" => FormatTypeOK
  BY FormatTyped DEF RoutineInv
<1>8. part \in {"ramp", "rails", "page", "hud", "curve", "count", "format"}
  BY DEF RoutineInv
<1> QED BY <1>1, <1>2, <1>3, <1>4, <1>5, <1>6, <1>7, <1>8 DEF RoutineTypesOK

\* Whichever of them is at work, the ramp, the rails, the settings page, the HUD, the curve, the
\* frame counter and the save format stay within their types, for every value of their constants.
THEOREM RoutineTypesHold == RoutinesInit /\ [][RoutinesNext]_routineVars => []RoutineTypesOK
BY RoutinesBegin, RoutinesGoOn, RoutinesTyped, PTL
===============================================================================
