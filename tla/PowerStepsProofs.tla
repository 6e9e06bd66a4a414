--------------------------- MODULE PowerStepsProofs ---------------------------
(***************************************************************************)
(* PowerSteps for every number of steps and levels, every stock level and  *)
(* every set of bus targets.  TypeOK is inductive.  The clock's properties *)
(* need where the clock may be at every point of the menu thread           *)
(* (ClockInv); the voltage's need that g_cv_now tells the truth about a    *)
(* rail at stock (VoltInv); consent needs both the card and the points     *)
(* (ConsentInv).                                                           *)
(***************************************************************************)
EXTENDS PowerSteps, TLAPS

LEMMA Values ==
  /\ Stock \in Levels /\ Levels \subseteq Nat /\ 0 \in Steps /\ Steps \subseteq Nat
  /\ NoLevel \notin Levels /\ NoCode \notin Levels /\ 0 \in Targets
  /\ \A level \in Int : Clamp(level) \in Levels
  /\ \A level \in Levels : Clamp(level) = level
BY StepsAssumption DEF Levels, Steps, NoLevel, NoCode, Clamp

(***************************************************************************)
(* What the helpers leave of the globals r they are given.                 *)
(***************************************************************************)
CvKept(r) ==
  /\ ram' \in Ram /\ hw' \in Hw
  /\ ram'.step = r.step /\ ram'.stable = r.stable /\ ram'.bus = r.bus
  /\ ram'.reapply = r.reapply
  /\ hw'.clock = hw.clock /\ hw'.gear = hw.gear

\* A rail that the plugin never moved, or moved back, is at stock, in scePower too.
Truth(r, volt, stored) == r.now \in {NoCode, Stock} => volt = Stock /\ stored = Stock

\* No level, no moved rail; and no write at all where the fuse model failed.
Bare(r) ==
  /\ r.level = NoLevel => r.now \in {NoCode, Stock}
  /\ ~ChipOk => r.now = NoCode

\* The rail holds the level, or the menu thread was asked to see to it.
Held(r, volt) == r.level # NoLevel => ChipOk /\ (volt = r.level \/ r.reapply)

LEMMA WriteEffect ==
  ASSUME NEW r \in Ram, hw \in Hw, NEW level \in Levels, CvWriteCode(r, level)
  PROVE  /\ CvKept(r) /\ ram'.level = r.level /\ ram'.now = level
         /\ hw'.volt = level /\ hw'.stored = level
BY DEF CvWriteCode, CvKept, Ram, Hw

LEMMA RevertEffect ==
  ASSUME NEW r \in Ram, hw \in Hw, CvRevert(r), ChipOk \/ r.level = NoLevel
  PROVE  /\ CvKept(r) /\ ram'.level = NoLevel
         /\ Truth(r, hw.volt, hw.stored) /\ (~ChipOk => r.now = NoCode)
              => Truth(ram', hw'.volt, hw'.stored) /\ Bare(ram')
<1> DEFINE clear == [r EXCEPT !.level = NoLevel]
<1>1. /\ clear \in Ram /\ clear.level = NoLevel /\ clear.now = r.now
      /\ clear.step = r.step /\ clear.stable = r.stable /\ clear.bus = r.bus
      /\ clear.reapply = r.reapply
  BY DEF Ram
<1>2. CASE ~ChipOk /\ ram' = r /\ UNCHANGED hw
  BY <1>2 DEF CvKept, Truth, Bare
<1>3. CASE ChipOk /\ r.now \in {NoCode, Stock} /\ ram' = clear /\ UNCHANGED hw
  <2> HIDE DEF clear
  <2> QED
    BY <1>1, <1>3 DEF CvKept, Truth, Bare
<1>4. CASE ChipOk /\ r.now \notin {NoCode, Stock} /\ CvWriteCode(clear, Stock)
  <2> HIDE DEF clear
  <2>1. /\ CvKept(clear) /\ ram'.level = clear.level /\ ram'.now = Stock
        /\ hw'.volt = Stock /\ hw'.stored = Stock
    BY <1>1, <1>4, Values, WriteEffect
  <2> QED
    BY <1>1, <1>4, <2>1 DEF CvKept, Truth, Bare
<1> QED
  BY <1>2, <1>3, <1>4 DEF CvRevert

LEMMA ApplyEffect ==
  ASSUME NEW r \in Ram, hw \in Hw, NEW level \in Int, CvApply(r, level)
  PROVE  /\ CvKept(r)
         /\ Held(ram', hw'.volt)
         /\ Truth(r, hw.volt, hw.stored) /\ (~ChipOk => r.now = NoCode)
              => Truth(ram', hw'.volt, hw'.stored) /\ Bare(ram')
<1>1. CASE ~ChipOk /\ ram' = [r EXCEPT !.level = NoLevel] /\ UNCHANGED hw
  <2>1. CvKept(r) /\ ram'.level = NoLevel /\ ram'.now = r.now
    BY <1>1 DEF CvKept, Ram
  <2> QED
    BY <1>1, <2>1 DEF Held, Truth, Bare
<1>2. CASE ChipOk /\ level = NoLevel /\ CvRevert(r)
  <2>1. /\ CvKept(r) /\ ram'.level = NoLevel
        /\ Truth(r, hw.volt, hw.stored) /\ (~ChipOk => r.now = NoCode)
             => Truth(ram', hw'.volt, hw'.stored) /\ Bare(ram')
    BY <1>2, RevertEffect
  <2> QED
    BY <1>2, <2>1 DEF Held
<1>3. CASE /\ ChipOk /\ level # NoLevel
           /\ CvWriteCode([r EXCEPT !.level = Clamp(level)], Clamp(level))
  <2> DEFINE set == [r EXCEPT !.level = Clamp(level)]
  <2>1. /\ Clamp(level) \in Levels /\ Clamp(level) # NoLevel /\ Clamp(level) # NoCode
    BY Values
  <2>2. /\ set \in Ram /\ set.level = Clamp(level) /\ set.step = r.step
        /\ set.stable = r.stable /\ set.bus = r.bus /\ set.reapply = r.reapply
    BY <2>1 DEF Ram
  <2> HIDE DEF set
  <2>3. /\ CvKept(set) /\ ram'.level = set.level /\ ram'.now = Clamp(level)
        /\ hw'.volt = Clamp(level) /\ hw'.stored = Clamp(level)
    BY <1>3, <2>1, <2>2, WriteEffect DEF set
  <2> QED
    BY <1>3, <2>1, <2>2, <2>3 DEF CvKept, Held, Truth, Bare
<1> QED
  BY <1>1, <1>2, <1>3 DEF CvApply

LEMMA ApplyIfSetEffect ==
  ASSUME NEW r \in Ram, hw \in Hw, CvApplyIfSet(r)
  PROVE  /\ CvKept(r)
         /\ Held(ram', hw'.volt)
         /\ Truth(r, hw.volt, hw.stored) /\ Bare(r)
              => Truth(ram', hw'.volt, hw'.stored) /\ Bare(ram')
<1>1. CASE r.level # NoLevel
  <2>1. r.level \in Levels
    BY <1>1 DEF Ram
  <2>2. r.level \in Int
    BY <2>1, StepsAssumption DEF Levels
  <2> QED
    BY <1>1, <2>2, ApplyEffect DEF CvApplyIfSet, Bare
<1>2. CASE r.level = NoLevel
  BY <1>2 DEF CvApplyIfSet, CvKept, Held, Truth, Bare
<1> QED
  BY <1>1, <1>2

\* Polling keeps what was held: a level it does not restore was not owed.
LEMMA PollEffect ==
  ASSUME ram \in Ram, hw \in Hw, CvPollReapply
  PROVE  /\ ram' \in Ram /\ hw' \in Hw
         /\ ram'.step = ram.step /\ ram'.stable = ram.stable
         /\ hw'.clock = hw.clock
         /\ Held(ram, hw.volt) => Held(ram', hw'.volt)
         /\ Truth(ram, hw.volt, hw.stored) /\ Bare(ram)
              => Truth(ram', hw'.volt, hw'.stored) /\ Bare(ram')
<1> DEFINE polled == [ram EXCEPT !.reapply = FALSE]
<1>1. /\ polled \in Ram /\ polled.step = ram.step /\ polled.stable = ram.stable
      /\ polled.level = ram.level /\ polled.now = ram.now
      /\ ~ram.reapply => polled = ram
  BY DEF Ram
<1>2. CASE ram.reapply /\ ChipOk
  <2>1. CvApplyIfSet(polled)
    BY <1>2 DEF CvPollReapply
  <2> HIDE DEF polled
  <2>2. /\ CvKept(polled) /\ Held(ram', hw'.volt)
        /\ Truth(polled, hw.volt, hw.stored) /\ Bare(polled)
             => Truth(ram', hw'.volt, hw'.stored) /\ Bare(ram')
    BY <1>1, <2>1, ApplyIfSetEffect
  <2> QED
    BY <1>1, <2>2 DEF CvKept, Truth, Bare
<1>3. CASE ~(ram.reapply /\ ChipOk)
  <2>1. ram' = polled /\ hw' = hw
    BY <1>3 DEF CvPollReapply
  <2> HIDE DEF polled
  <2> QED
    BY <1>1, <1>3, <2>1 DEF Held, Truth, Bare
<1> QED
  BY <1>2, <1>3

LEMMA OcApplyEffect ==
  ASSUME NEW h \in Hw, NEW r \in Ram, NEW id \in Steps
  PROVE  /\ OcApply(h, r, id) \in Hw /\ OcApply(h, r, id).clock = id
         /\ OcApply(h, r, id).volt = h.volt /\ OcApply(h, r, id).stored = h.stored
BY DEF OcApply, Hw, Ram
LEMMA ResumedEffect ==
  ASSUME NEW r \in Ram, NEW s \in Levels, Resumed(r, s)
  PROVE  /\ ram' \in Ram /\ hw' \in Hw
         /\ ram'.step = r.step /\ ram'.stable = r.stable /\ ram'.level = r.level
         /\ ram'.now = r.now
         /\ r.level # NoLevel => ram'.reapply
         /\ hw'.clock = r.step /\ hw'.volt \in {Stock, s} /\ hw'.stored = s
<1>1. PICK volt \in {Stock, s} :
        /\ hw' = IF r.step > 0
                   THEN OcApply([clock |-> 0, gear |-> 0, volt |-> volt, stored |-> s], r, r.step)
                   ELSE [clock |-> 0, gear |-> 0, volt |-> volt, stored |-> s]
        /\ ram' = IF r.level # NoLevel THEN [r EXCEPT !.reapply = TRUE] ELSE r
  BY DEF Resumed
<1>2. /\ ram' \in Ram /\ ram'.step = r.step /\ ram'.stable = r.stable
      /\ ram'.level = r.level /\ ram'.now = r.now
      /\ r.level # NoLevel => ram'.reapply
  BY <1>1 DEF Ram
<1>3. r.step \in Nat /\ r.step \in Steps /\ r.bus \in Targets /\ volt \in Levels
  BY Values DEF Ram
<1>4. /\ hw' \in Hw /\ hw'.clock = r.step /\ hw'.volt = volt /\ hw'.stored = s
  <2> DEFINE woken == [clock |-> 0, gear |-> 0, volt |-> volt, stored |-> s]
  <2>1. woken \in Hw /\ woken.clock = 0 /\ woken.volt = volt /\ woken.stored = s
    BY <1>3, Values DEF Hw
  <2>2. hw' = IF r.step > 0 THEN OcApply(woken, r, r.step) ELSE woken
    BY <1>1
  <2> HIDE DEF woken
  <2>3. CASE r.step > 0
    BY <1>3, <2>1, <2>2, <2>3, OcApplyEffect
  <2>4. CASE r.step = 0
    BY <2>1, <2>2, <2>4
  <2> QED
    BY <1>3, <2>3, <2>4
<1> QED
  BY <1>2, <1>4

(***************************************************************************)
(* Types.                                                                  *)
(***************************************************************************)
LEMMA InitType == Init => TypeOK
<1> SUFFICES ASSUME Init PROVE TypeOK
  OBVIOUS
<1>1. ram \in Ram /\ hw \in Hw
  BY Values DEF Init, Ram, Hw, Defaults
<1> QED
  BY <1>1 DEF Init, TypeOK, Points

LEMMA AgreeType ==
  ASSUME TypeOK, NEW s \in Steps, NEW how \in {"now", "always"}, Agree(s, how)
  PROVE  consent' \in [Steps -> {"none", "now", "always"}]
BY DEF TypeOK, Agree

\* Every step that starts with a resume.
LEMMA ResumeType ==
  ASSUME TypeOK, poll' \in Levels \cup {NoLevel},
         Sleep \/ SaveState \/ LoadState
  PROVE  TypeOK'
<1>1. CASE Sleep
  <2>1. ram' \in Ram /\ hw' \in Hw
    <3>1. hw.stored \in Levels /\ ram \in Ram
      BY DEF TypeOK, Hw
    <3> QED
      BY <1>1, <3>1, ResumedEffect DEF Sleep
  <2> QED
    BY <1>1, <2>1 DEF Sleep, TypeOK
<1>2. CASE SaveState
  <2>1. hw.stored \in Levels /\ ram \in Ram
    BY DEF TypeOK, Hw
  <2>2. ram' \in Ram /\ hw' \in Hw
    BY <1>2, <2>1, ResumedEffect DEF SaveState
  <2> QED
    BY <1>2, <2>1, <2>2 DEF SaveState, TypeOK, Points
<1>3. CASE LoadState
  <2>1. /\ slot.ram \in Ram /\ slot.stored \in Levels /\ ram.step \in Steps
    BY <1>3 DEF LoadState, TypeOK, Ram
  <2>2. Carried(slot.ram) \in Ram
    BY <2>1 DEF Carried, Ram
  <2>3. ram' \in Ram /\ hw' \in Hw
    BY <1>3, <2>1, <2>2, ResumedEffect DEF LoadState
  <2>4. consent' \in [Steps -> {"none", "now", "always"}]
    <3>1. CASE slot.ram.stable /\ LoadVouches
      BY <1>3, <2>1, <3>1, AgreeType DEF LoadState
    <3>2. CASE ~(slot.ram.stable /\ LoadVouches)
      BY <1>3, <3>2 DEF LoadState, TypeOK
    <3> QED
      BY <3>1, <3>2
  <2> QED
    BY <1>3, <2>3, <2>4 DEF LoadState, TypeOK, Points
<1> QED
  BY <1>1, <1>2, <1>3

\* The helpers' steps.
LEMMA VoltStepType ==
  ASSUME TypeOK, poll' \in Levels \cup {NoLevel},
         \/ Wake \/ DecideStable \/ DecideNoOverclock \/ Accept \/ Decline
         \/ PickVolt \/ RailDefaults
  PROVE  TypeOK'
<1>0. ram \in Ram /\ hw \in Hw
  BY DEF TypeOK
<1>1. CASE Wake
  <2>1. ram' \in Ram /\ hw' \in Hw
    BY <1>0, <1>1, PollEffect DEF Wake
  <2> QED
    BY <1>1, <2>1 DEF Wake, TypeOK, Points, Undecided
<1>2. CASE DecideStable
  <2>1. ram' \in Ram /\ hw' \in Hw
    BY <1>0, <1>2, ApplyIfSetEffect DEF DecideStable, CvKept
  <2> QED
    BY <1>2, <2>1 DEF DecideStable, TypeOK, Points
<1>3. CASE DecideNoOverclock
  <2>1. ram' \in Ram /\ hw' \in Hw
    <3>1. CASE ram.level = NoLevel
      BY <1>0, <1>3, <3>1 DEF DecideNoOverclock
    <3>2. CASE ram.level # NoLevel
      <4> DEFINE clear == [ram EXCEPT !.level = NoLevel]
      <4>1. clear \in Ram /\ clear.level = NoLevel
        BY <1>0 DEF Ram
      <4>2. CvRevert(clear)
        BY <1>3, <3>2 DEF DecideNoOverclock
      <4> HIDE DEF clear
      <4> QED
        BY <1>0, <4>1, <4>2, RevertEffect DEF CvKept
    <3> QED
      BY <3>1, <3>2
  <2>2. pc' \in {"save_boot", "booted"}
    BY <1>3 DEF DecideNoOverclock
  <2> QED
    BY <1>3, <2>1, <2>2 DEF DecideNoOverclock, TypeOK, Points, SavePoints
<1>4. CASE Accept
  <2>1. ram' \in Ram /\ hw' \in Hw
    BY <1>0, <1>4, ApplyIfSetEffect DEF Accept, CvKept
  <2>2. consent' \in [Steps -> {"none", "now", "always"}]
    <3>1. ram.step \in Steps
      BY <1>0 DEF Ram
    <3> QED
      BY <1>4, <3>1, AgreeType DEF Accept
  <2> QED
    BY <1>4, <2>1, <2>2 DEF Accept, TypeOK, Points
<1>5. CASE Decline
  <2> DEFINE clear == [ram EXCEPT !.step = 0, !.level = NoLevel]
  <2>1. clear \in Ram /\ clear.level = NoLevel
    BY <1>0, Values DEF Ram
  <2>2. CvRevert(clear)
    BY <1>5 DEF Decline
  <2> HIDE DEF clear
  <2>3. ram' \in Ram /\ hw' \in Hw
    BY <1>0, <2>1, <2>2, RevertEffect DEF CvKept
  <2> QED
    BY <1>5, <2>3 DEF Decline, TypeOK, Points, SavePoints
<1>6. CASE PickVolt
  <2>1. PICK d \in {-1, 1} : CvApply(ram, CvLevel + d)
    BY <1>6 DEF PickVolt
  <2>2. CvLevel + d \in Int
    BY <1>0, StepsAssumption DEF CvLevel, Ram, Levels
  <2>3. ram' \in Ram /\ hw' \in Hw
    BY <1>0, <2>1, <2>2, ApplyEffect DEF CvKept
  <2> QED
    BY <1>6, <2>3 DEF PickVolt, TypeOK
<1>7. CASE RailDefaults
  <2> DEFINE clear == [ram EXCEPT !.level = NoLevel]
  <2>1. clear \in Ram
    BY <1>0 DEF Ram
  <2>2. CvWriteCode(clear, Stock) \/ UNCHANGED <<ram, hw>>
    BY <1>7 DEF RailDefaults, CvRestoreStock
  <2> HIDE DEF clear
  <2>3. ram' \in Ram /\ hw' \in Hw
    BY <1>0, <2>1, <2>2, Values, WriteEffect DEF CvKept
  <2> QED
    BY <1>7, <2>3 DEF RailDefaults, TypeOK
<1> QED
  BY <1>1, <1>2, <1>3, <1>4, <1>5, <1>6, <1>7

LEMMA StartType ==
  ASSUME TypeOK, poll' \in Levels \cup {NoLevel}, Start
  PROVE  TypeOK'
<1>1. ram' \in Ram
  BY Values DEF Start, TypeOK, File, Ram, Defaults
<1>2. hw' \in Hw
  <2>1. PICK clock \in {0, hw.clock} :
          hw' = [hw EXCEPT !.clock = clock, !.volt = Stock, !.stored = Stock]
    BY DEF Start
  <2>2. hw \in Hw /\ clock \in Steps /\ Stock \in Levels
    BY Values DEF TypeOK, Hw
  <2> QED
    BY <2>1, <2>2 DEF Hw
<1>3. pending' \in BOOLEAN /\ pc' \in Points
  BY DEF Start, Points, Undecided
<1>4. consent' \in [Steps -> {"none", "now", "always"}]
  BY DEF Start
<1> QED
  BY <1>1, <1>2, <1>3, <1>4 DEF Start, TypeOK

\* The steps that touch neither rail nor scePower.
LEMMA OtherType ==
  ASSUME TypeOK, poll' \in Levels \cup {NoLevel},
         \/ SaveOpen \/ SaveWrite \/ SaveNotOpened \/ DecideToAsk \/ ApplyClock
         \/ BootDone \/ OpenPage \/ PickStep \/ PickBus \/ ToggleStable
         \/ ClosePage \/ CloseMenu \/ ExitGame \/ ExitEnds \/ PowerLost
  PROVE  TypeOK'
<1>0. ram \in Ram /\ hw \in Hw /\ ram.step \in Steps
  BY DEF TypeOK, Ram
<1>1. \A p \in SavePoints : AfterSave[p] \in Points
  BY DEF SavePoints, AfterSave, Points, Undecided
<1>2. CASE SaveOpen
  BY <1>2 DEF SaveOpen, TypeOK
<1>3. CASE SaveWrite
  <2>1. [step |-> ram.step, stable |-> ram.stable, level |-> ram.level] \in File
    BY <1>0 DEF Ram, File
  <2>2. card' \in File \cup {NoFile, OtherFile}
    BY <1>3, <2>1 DEF SaveWrite
  <2> QED
    BY <1>1, <1>3, <2>2 DEF SaveWrite, TypeOK
<1>4. CASE SaveNotOpened
  BY <1>1, <1>4 DEF SaveNotOpened, TypeOK
<1>5. CASE DecideToAsk
  <2>1. pc' \in {"prompt", "booted"}
    BY <1>5 DEF DecideToAsk
  <2> QED
    BY <1>5, <2>1 DEF DecideToAsk, TypeOK, Points, Undecided
<1>6. CASE ApplyClock
  <2>1. hw' \in Hw
    BY <1>0, <1>6, OcApplyEffect DEF ApplyClock
  <2> QED
    BY <1>6, <2>1 DEF ApplyClock, TypeOK, Points
<1>7. CASE BootDone \/ OpenPage \/ ClosePage \/ CloseMenu
  <2>1. pc' \in {"asleep", "menu", "page", "save_page"} /\ changed' \in BOOLEAN
    BY <1>7 DEF BootDone, OpenPage, ClosePage, CloseMenu, TypeOK
  <2> QED
    BY <1>7, <2>1 DEF BootDone, OpenPage, ClosePage, CloseMenu, TypeOK, Points, SavePoints
<1>8. CASE PickStep
  <2>1. PICK s \in {ram.step - 1, ram.step + 1} \cap Steps :
          ram' = [ram EXCEPT !.step = s, !.stable = FALSE] /\ Agree(s, "now")
    BY <1>8 DEF PickStep
  <2>2. ram' \in Ram
    BY <1>0, <2>1 DEF Ram
  <2>3. consent' \in [Steps -> {"none", "now", "always"}]
    BY <2>1, AgreeType
  <2> QED
    BY <1>8, <2>2, <2>3 DEF PickStep, TypeOK, Points
<1>9. CASE PickBus
  <2>1. ram' \in Ram
    BY <1>0, <1>9 DEF PickBus, Ram
  <2> QED
    BY <1>9, <2>1 DEF PickBus, TypeOK, Points
<1>10. CASE ToggleStable
  <2>1. ram' \in Ram
    BY <1>0, <1>10 DEF ToggleStable, Ram
  <2>2. consent' \in [Steps -> {"none", "now", "always"}]
    <3>1. CASE ram.stable
      BY <1>10, <3>1 DEF ToggleStable, TypeOK
    <3>2. CASE ~ram.stable
      BY <1>0, <1>10, <3>2, AgreeType DEF ToggleStable
    <3> QED
      BY <3>1, <3>2
  <2> QED
    BY <1>10, <2>1, <2>2 DEF ToggleStable, TypeOK
<1>11. CASE ExitGame
  <2>1. hw' \in Hw
    BY <1>0, <1>11, Values, OcApplyEffect DEF ExitGame
  <2> QED
    BY <1>11, <2>1 DEF ExitGame, TypeOK
<1>12. CASE ExitEnds \/ PowerLost
  <2>1. Defaults \in Ram /\ hw' \in Hw
    BY <1>0, <1>12, Values DEF Defaults, Ram, Hw, ExitEnds, PowerLost
  <2> QED
    BY <1>12, <2>1 DEF ExitEnds, PowerLost, Gone, TypeOK, Points
<1> QED
  BY <1>2, <1>3, <1>4, <1>5, <1>6, <1>7, <1>8, <1>9, <1>10, <1>11, <1>12

\* What the battery thread leaves alone.
LEMMA BatteryEffect ==
  ASSUME TypeOK, BatteryTake \/ BatteryWrite
  PROVE  /\ ram' \in Ram /\ hw' \in Hw /\ poll' \in Levels \cup {NoLevel}
         /\ ram'.step = ram.step /\ ram'.stable = ram.stable /\ ram'.level = ram.level
         /\ hw'.clock = hw.clock
         /\ UNCHANGED <<pc, pending, changed, card, slot, exiting, consent>>
<1>0. ram \in Ram /\ hw \in Hw /\ ram.level \in Levels \cup {NoLevel}
  BY DEF TypeOK, Ram
<1>1. CASE BatteryTake
  <2>1. ram' = [ram EXCEPT !.reapply = FALSE] /\ hw' = hw
    BY <1>1 DEF BatteryTake
  <2>2. poll' \in Levels \cup {NoLevel}
    BY <1>0, <1>1 DEF BatteryTake
  <2>3. /\ ram' \in Ram /\ ram'.step = ram.step /\ ram'.stable = ram.stable
        /\ ram'.level = ram.level
    BY <1>0, <2>1 DEF Ram
  <2> QED
    BY <1>0, <1>1, <2>1, <2>2, <2>3 DEF BatteryTake
<1>2. CASE BatteryWrite
  <2>1. poll \in Levels
    BY <1>2 DEF BatteryWrite, TypeOK
  <2>2. CvKept(ram) /\ ram'.level = ram.level
    BY <1>0, <1>2, <2>1, WriteEffect DEF BatteryWrite
  <2> QED
    BY <1>2, <2>2 DEF BatteryWrite, CvKept
<1> QED
  BY <1>1, <1>2

LEMMA TypeStep == TypeOK /\ [Next]_vars => TypeOK'
<1> SUFFICES ASSUME TypeOK, [Next]_vars PROVE TypeOK'
  OBVIOUS
<1>1. CASE UNCHANGED vars
  BY <1>1 DEF vars, TypeOK
<1>2. CASE BatteryTake \/ BatteryWrite
  BY <1>2, BatteryEffect DEF TypeOK
<1>3. CASE Step /\ poll' = IF pc' = "out" THEN NoLevel ELSE poll
  <2>1. poll' \in Levels \cup {NoLevel}
    BY <1>3 DEF TypeOK
  <2> QED
    BY <1>3, <2>1, ResumeType, VoltStepType, StartType, OtherType DEF Step
<1> QED
  BY <1>1, <1>2, <1>3 DEF Next

\* The state keeps its types: no level, code or step ever leaves its table.
THEOREM StepTypes == Spec => []TypeOK
BY InitType, TypeStep, PTL DEF Spec

(***************************************************************************)
(* The clock.  Before the decision it is at stock, afterwards at the step, *)
(* and between raising the voltage and raising the clock at one of the     *)
(* two, since a sleep re-applies the step.                                 *)
(***************************************************************************)
Settled == {"booted", "asleep", "menu", "page", "save_boot", "save_declined", "save_page"}

ClockInv ==
  /\ pc = "out" => hw.clock = 0 /\ ~exiting
  /\ pc \in Undecided => hw.clock = 0
  /\ pc \in {"save_new", "boot_asleep", "decide"} => (pending <=> ram.step > 0)
  /\ pc \in Settled /\ ~exiting => hw.clock = ram.step
  /\ exiting => hw.clock = 0 /\ GameRuns
  /\ pc = "volted" => hw.clock \in {0, ram.step}

\* A step of anyone but the battery thread.
LEMMA ClockStep ==
  ASSUME ~EarlySleep, ~PromptFails, ~SlowExit, TypeOK, ClockInv, [Step]_vars
  PROVE  ClockInv'
<1> USE DEF ClockInv, GameRuns, Settled, Undecided, SavePoints, Points
<1>0. /\ ram \in Ram /\ hw \in Hw /\ ram.step \in Steps /\ hw.stored \in Levels
      /\ Steps \subseteq Nat
  BY Values DEF TypeOK, Ram, Hw
<1>1. CASE UNCHANGED vars
  BY <1>1 DEF vars
<1>2. CASE Sleep
  <2>1. ram'.step = ram.step /\ hw'.clock = ram.step
    BY <1>0, <1>2, ResumedEffect DEF Sleep
  <2> QED
    BY <1>2, <2>1 DEF Sleep
<1>3. CASE SaveOpen
  BY <1>3 DEF SaveOpen
<1>4. CASE SaveWrite \/ SaveNotOpened
  <2>1. /\ pc = "save_new" => pc' = "boot_asleep"
        /\ pc \in {"save_boot", "save_declined"} => pc' = "booted"
        /\ pc = "save_page" => pc' = "menu"
        /\ pc \in SavePoints
    BY <1>4 DEF SaveWrite, SaveNotOpened, AfterSave
  <2> QED
    BY <1>4, <2>1 DEF SaveWrite, SaveNotOpened, MenuThread
<1>5. CASE Start
  <2>1. hw'.clock = 0
    BY <1>0, <1>5 DEF Start, Hw
  <2> QED
    BY <1>5, <2>1 DEF Start
<1>6. CASE Wake
  <2>1. ram'.step = ram.step /\ hw'.clock = hw.clock
    BY <1>0, <1>6, PollEffect DEF Wake
  <2> QED
    BY <1>6, <2>1 DEF Wake, MenuThread
<1>7. CASE DecideStable
  <2>1. ram'.step = ram.step /\ hw'.clock = hw.clock
    BY <1>0, <1>7, ApplyIfSetEffect DEF DecideStable, CvKept
  <2> QED
    BY <1>7, <2>1 DEF DecideStable, MenuThread
<1>8. CASE DecideToAsk
  BY <1>8 DEF DecideToAsk, MenuThread
<1>9. CASE DecideNoOverclock
  <2>1. ram.step = 0
    BY <1>0, <1>9 DEF DecideNoOverclock
  <2>2. ram'.step = 0 /\ hw'.clock = hw.clock
    <3>1. CASE ram.level = NoLevel
      BY <1>9, <2>1, <3>1 DEF DecideNoOverclock
    <3>2. CASE ram.level # NoLevel
      <4> DEFINE clear == [ram EXCEPT !.level = NoLevel]
      <4>1. clear \in Ram /\ clear.level = NoLevel /\ clear.step = 0
        BY <1>0, <2>1 DEF Ram
      <4>2. CvRevert(clear)
        BY <1>9, <3>2 DEF DecideNoOverclock
      <4> HIDE DEF clear
      <4> QED
        BY <1>0, <4>1, <4>2, RevertEffect DEF CvKept
    <3> QED
      BY <3>1, <3>2
  <2>3. pc' \in {"save_boot", "booted"}
    BY <1>9 DEF DecideNoOverclock
  <2> QED
    BY <1>9, <2>2, <2>3 DEF DecideNoOverclock, MenuThread
<1>10. CASE Accept
  <2>1. ram'.step = ram.step /\ hw'.clock = hw.clock
    BY <1>0, <1>10, ApplyIfSetEffect DEF Accept, CvKept
  <2> QED
    BY <1>10, <2>1 DEF Accept
<1>11. CASE Decline
  <2> DEFINE clear == [ram EXCEPT !.step = 0, !.level = NoLevel]
  <2>1. clear \in Ram /\ clear.level = NoLevel /\ clear.step = 0
    BY <1>0, Values DEF Ram
  <2>2. CvRevert(clear)
    BY <1>11 DEF Decline
  <2> HIDE DEF clear
  <2>3. ram'.step = 0 /\ hw'.clock = hw.clock
    BY <1>0, <2>1, <2>2, RevertEffect DEF CvKept
  <2> QED
    BY <1>11, <2>3 DEF Decline
<1>12. CASE ApplyClock
  <2>1. hw'.clock = ram.step
    BY <1>0, <1>12, OcApplyEffect DEF ApplyClock
  <2> QED
    BY <1>12, <2>1 DEF ApplyClock, MenuThread
<1>13. CASE BootDone \/ OpenPage \/ ClosePage \/ CloseMenu
  BY <1>13 DEF BootDone, OpenPage, ClosePage, CloseMenu, MenuThread
<1>14. CASE PickStep \/ PickBus
  <2>1. pc = "page" /\ pc' = "stepped" /\ UNCHANGED <<hw, exiting>>
    BY <1>14 DEF PickStep, PickBus
  <2> QED
    BY <2>1
<1>15. CASE PickVolt
  <2>1. PICK d \in {-1, 1} : CvApply(ram, CvLevel + d)
    BY <1>15 DEF PickVolt
  <2>2. CvLevel + d \in Int
    BY <1>0, StepsAssumption DEF CvLevel, Ram, Levels
  <2>3. ram'.step = ram.step /\ hw'.clock = hw.clock
    BY <1>0, <2>1, <2>2, ApplyEffect DEF CvKept
  <2> QED
    BY <1>15, <2>3 DEF PickVolt
<1>16. CASE ToggleStable
  <2>1. ram'.step = ram.step
    BY <1>0, <1>16 DEF ToggleStable, Ram
  <2> QED
    BY <1>16, <2>1 DEF ToggleStable
<1>17. CASE RailDefaults
  <2>1. ram'.step = ram.step /\ hw'.clock = hw.clock
    BY <1>0, <1>17 DEF RailDefaults, CvRestoreStock, CvWriteCode, Ram, Hw
  <2> QED
    BY <1>17, <2>1 DEF RailDefaults
<1>18. CASE SaveState
  <2>1. ram'.step = ram.step /\ hw'.clock = ram.step
    BY <1>0, <1>18, ResumedEffect DEF SaveState
  <2> QED
    BY <1>18, <2>1 DEF SaveState
<1>19. CASE LoadState
  <2>1. slot.ram \in Ram /\ slot.stored \in Levels
    BY <1>19 DEF LoadState, TypeOK
  <2>2. Carried(slot.ram) \in Ram /\ Carried(slot.ram).step = ram.step
    BY <1>0, <2>1 DEF Carried, Ram
  <2>3. ram'.step = ram.step /\ hw'.clock = ram.step
    BY <1>19, <2>1, <2>2, ResumedEffect DEF LoadState
  <2> QED
    BY <1>19, <2>3 DEF LoadState
<1>20. CASE ExitGame
  <2>1. hw'.clock = 0
    <3>1. CASE ram.step > 0
      BY <1>0, <1>20, <3>1, Values, OcApplyEffect DEF ExitGame
    <3>2. CASE ram.step = 0
      BY <1>0, <1>20, <3>2 DEF ExitGame
    <3>3. ram.step = 0 \/ ram.step > 0
      BY <1>0, StepsAssumption DEF Steps
    <3> QED
      BY <3>1, <3>2, <3>3
  <2> QED
    BY <1>20, <2>1 DEF ExitGame
<1>21. CASE ExitEnds \/ PowerLost
  <2>1. hw'.clock = 0
    BY <1>0, <1>21 DEF ExitEnds, PowerLost, Hw
  <2> QED
    BY <1>21, <2>1 DEF ExitEnds, PowerLost, Gone
<1> QED
  BY <1>1, <1>2, <1>3, <1>4, <1>5, <1>6, <1>7, <1>8, <1>9, <1>10, <1>11, <1>12,
     <1>13, <1>14, <1>15, <1>16, <1>17, <1>18, <1>19, <1>20, <1>21 DEF Step

LEMMA ClockNext ==
  ASSUME ~EarlySleep, ~PromptFails, ~SlowExit, TypeOK, ClockInv, [Next]_vars
  PROVE  ClockInv'
<1>1. CASE BatteryTake \/ BatteryWrite
  <2>1. /\ ram'.step = ram.step /\ hw'.clock = hw.clock
        /\ UNCHANGED <<pc, pending, exiting>>
    BY <1>1, BatteryEffect
  <2> QED
    BY <2>1 DEF ClockInv, GameRuns
<1>2. CASE [Step]_vars
  BY <1>2, ClockStep
<1> QED
  BY <1>1, <1>2 DEF Next

\* The exit hook may trust the step: where the decision is not overtaken by a
\* sleep, a failed freeze or the menu thread itself, the clock is the step the
\* plugin shows at every point where the thread rests.
THEOREM ClockFollowsStep ==
  ASSUME ~EarlySleep, ~PromptFails, ~SlowExit
  PROVE  Spec => []ClockIsStep
<1>1. Init => ClockInv
  BY DEF Init, ClockInv, Undecided, SavePoints, Settled
<1>2. TypeOK /\ ClockInv /\ [Next]_vars => ClockInv'
  BY ClockNext
<1>3. ClockInv => ClockIsStep
  BY DEF ClockInv, ClockIsStep, Settled
<1> QED
  BY <1>1, <1>2, <1>3, StepTypes, PTL DEF Spec

\* And then no game leaves a raised clock behind.
THEOREM ExitIsStock ==
  ASSUME ~EarlySleep, ~PromptFails, ~SlowExit
  PROVE  Spec => []ExitLeavesStock
<1>1. Init => ClockInv
  BY DEF Init, ClockInv, Undecided, SavePoints, Settled
<1>2. TypeOK /\ ClockInv /\ [Next]_vars => ClockInv'
  BY ClockNext
<1>3. ClockInv => ExitLeavesStock
  BY DEF ClockInv, ExitLeavesStock
<1> QED
  BY <1>1, <1>2, <1>3, StepTypes, PTL DEF Spec

(***************************************************************************)
(* The voltage.                                                            *)
(***************************************************************************)
Before == Undecided \cup {"out"}

VoltInv ==
  /\ pc # "out" => Truth(ram, hw.volt, hw.stored) /\ Bare(ram)
  /\ pc \notin Before /\ poll = NoLevel => Held(ram, hw.volt)
  /\ poll # NoLevel => ChipOk /\ pc # "out" /\ poll = ram.level
  /\ slot # NoSave => /\ slot.ram.now \in {NoCode, Stock} => slot.stored = Stock
                      /\ Bare(slot.ram)
                      /\ slot.ram.level # NoLevel => ChipOk

LEMMA ResumedVolt ==
  ASSUME NEW r \in Ram, NEW s \in Levels, Resumed(r, s), Bare(r),
         r.now \in {NoCode, Stock} => s = Stock
  PROVE  /\ Truth(ram', hw'.volt, hw'.stored) /\ Bare(ram')
         /\ (r.level # NoLevel => ChipOk) => Held(ram', hw'.volt)
<1>1. /\ ram'.level = r.level /\ ram'.now = r.now
      /\ r.level # NoLevel => ram'.reapply
      /\ hw'.volt \in {Stock, s} /\ hw'.stored = s
  BY ResumedEffect
<1> QED
  BY <1>1 DEF Truth, Bare, Held

LEMMA VoltStep ==
  ASSUME ~PromptFails, TypeOK, ClockInv, VoltInv, [Step]_vars,
         poll = NoLevel, poll' = NoLevel
  PROVE  VoltInv'
<1> USE DEF VoltInv, Before, Undecided
<1>0. /\ ram \in Ram /\ hw \in Hw /\ hw.stored \in Levels /\ ram.step \in Steps
      /\ NoLevel \notin Levels
  BY Values DEF TypeOK, Ram, Hw
<1>1. CASE UNCHANGED vars
  BY <1>1 DEF vars
<1>2. CASE Sleep
  <2>1. /\ Truth(ram', hw'.volt, hw'.stored) /\ Bare(ram')
        /\ (ram.level # NoLevel => ChipOk) => Held(ram', hw'.volt)
    BY <1>0, <1>2, ResumedVolt DEF Sleep, Truth
  <2> QED
    BY <1>2, <2>1 DEF Sleep, Held
<1>3. CASE SaveOpen \/ SaveWrite \/ SaveNotOpened
  <2>1. /\ pc # "out" /\ UNCHANGED <<ram, hw, slot>>
        /\ pc' \notin Before => pc \notin Before
    BY <1>3 DEF SaveOpen, SaveWrite, SaveNotOpened, AfterSave, SavePoints
  <2> QED
    BY <2>1
<1>4. CASE Start
  <2>1. ram'.now = NoCode
    BY <1>0, <1>4 DEF Start, Defaults, File
  <2>2. hw'.volt = Stock /\ hw'.stored = Stock
    BY <1>0, <1>4 DEF Start, Hw
  <2> QED
    BY <1>4, <2>1, <2>2 DEF Start, Truth, Bare
<1>5. CASE Wake
  <2>1. /\ Held(ram, hw.volt) => Held(ram', hw'.volt)
        /\ Truth(ram', hw'.volt, hw'.stored) /\ Bare(ram')
    BY <1>0, <1>5, PollEffect DEF Wake
  <2> QED
    BY <1>5, <2>1 DEF Wake
<1>6. CASE DecideStable \/ Accept
  <2>1. pc \in {"decide", "prompt"} /\ CvApplyIfSet(ram) /\ UNCHANGED slot
    BY <1>6 DEF DecideStable, Accept
  <2>2. Held(ram', hw'.volt) /\ Truth(ram', hw'.volt, hw'.stored) /\ Bare(ram')
    BY <1>0, <2>1, ApplyIfSetEffect
  <2> QED
    BY <2>1, <2>2
<1>7. CASE DecideToAsk
  BY <1>7 DEF DecideToAsk
<1>8. CASE DecideNoOverclock
  <2>1. CASE ram.level = NoLevel
    BY <1>8, <2>1 DEF DecideNoOverclock, Held
  <2>2. CASE ram.level # NoLevel
    <3> DEFINE clear == [ram EXCEPT !.level = NoLevel]
    <3>1. clear \in Ram /\ clear.level = NoLevel /\ clear.now = ram.now
      BY <1>0 DEF Ram
    <3>2. CvRevert(clear) /\ pc = "decide" /\ UNCHANGED slot
      BY <1>8, <2>2 DEF DecideNoOverclock
    <3>3. /\ Truth(clear, hw.volt, hw.stored) /\ (~ChipOk => clear.now = NoCode)
      BY <3>1, <3>2 DEF Truth, Bare
    <3> HIDE DEF clear
    <3>4. ram'.level = NoLevel /\ Truth(ram', hw'.volt, hw'.stored) /\ Bare(ram')
      BY <1>0, <3>1, <3>2, <3>3, RevertEffect
    <3> QED
      BY <3>2, <3>4 DEF Held
  <2> QED
    BY <2>1, <2>2
<1>9. CASE Decline
  <2> DEFINE clear == [ram EXCEPT !.step = 0, !.level = NoLevel]
  <2>1. clear \in Ram /\ clear.level = NoLevel /\ clear.now = ram.now
    BY <1>0, Values DEF Ram
  <2>2. CvRevert(clear) /\ pc = "prompt" /\ UNCHANGED slot
    BY <1>9 DEF Decline
  <2>3. /\ Truth(clear, hw.volt, hw.stored) /\ (~ChipOk => clear.now = NoCode)
    BY <2>1, <2>2 DEF Truth, Bare
  <2> HIDE DEF clear
  <2>4. ram'.level = NoLevel /\ Truth(ram', hw'.volt, hw'.stored) /\ Bare(ram')
    BY <1>0, <2>1, <2>2, <2>3, RevertEffect
  <2> QED
    BY <2>2, <2>4 DEF Held
<1>10. CASE ApplyClock
  <2>1. hw'.volt = hw.volt /\ hw'.stored = hw.stored
    BY <1>0, <1>10, OcApplyEffect DEF ApplyClock
  <2> QED
    BY <1>10, <2>1 DEF ApplyClock
<1>11. CASE BootDone \/ OpenPage \/ ClosePage \/ CloseMenu
  <2>1. pc \in {"booted", "menu", "page"} /\ UNCHANGED <<ram, hw, slot>>
    BY <1>11 DEF BootDone, OpenPage, ClosePage, CloseMenu
  <2> QED
    BY <2>1
<1>12. CASE PickStep \/ PickBus \/ ToggleStable
  <2>1. /\ pc = "page" /\ UNCHANGED <<hw, slot>>
        /\ ram'.level = ram.level /\ ram'.now = ram.now /\ ram'.reapply = ram.reapply
    BY <1>0, <1>12 DEF PickStep, PickBus, ToggleStable, Ram
  <2> QED
    BY <2>1 DEF Truth, Bare, Held
<1>13. CASE PickVolt
  <2>1. PICK d \in {-1, 1} : CvApply(ram, CvLevel + d)
    BY <1>13 DEF PickVolt
  <2>2. CvLevel + d \in Int
    BY <1>0, StepsAssumption DEF CvLevel, Ram, Levels
  <2>3. pc = "page" /\ Truth(ram, hw.volt, hw.stored) /\ (~ChipOk => ram.now = NoCode)
    BY <1>13 DEF PickVolt, Bare
  <2>4. Held(ram', hw'.volt) /\ Truth(ram', hw'.volt, hw'.stored) /\ Bare(ram')
    BY <1>0, <2>1, <2>2, <2>3, ApplyEffect
  <2> QED
    BY <1>13, <2>4 DEF PickVolt
<1>14. CASE RailDefaults
  <2> DEFINE clear == [ram EXCEPT !.level = NoLevel]
  <2>1. clear \in Ram /\ clear.level = NoLevel
    BY <1>0 DEF Ram
  <2>2. (ChipOk /\ CvWriteCode(clear, Stock)) \/ UNCHANGED <<ram, hw>>
    BY <1>14 DEF RailDefaults, CvRestoreStock
  <2> HIDE DEF clear
  <2>3. pc = "page" /\ UNCHANGED <<pc, slot>>
    BY <1>14 DEF RailDefaults
  <2>4. CASE ChipOk /\ CvWriteCode(clear, Stock)
    <3>1. ram'.level = NoLevel /\ ram'.now = Stock /\ hw'.volt = Stock /\ hw'.stored = Stock
      BY <1>0, <2>1, <2>4, Values, WriteEffect
    <3> QED
      BY <2>3, <2>4, <3>1 DEF Truth, Bare, Held
  <2>5. CASE UNCHANGED <<ram, hw>>
    BY <2>3, <2>5
  <2> QED
    BY <2>2, <2>4, <2>5
<1>15. CASE SaveState
  <2>1. pc = "menu" /\ slot' = [ram |-> ram, stored |-> hw.stored] /\ Resumed(ram, hw.stored)
    BY <1>15 DEF SaveState
  <2>2. /\ Truth(ram', hw'.volt, hw'.stored) /\ Bare(ram')
        /\ (ram.level # NoLevel => ChipOk) => Held(ram', hw'.volt)
    BY <1>0, <2>1, ResumedVolt DEF Truth
  <2> QED
    BY <2>1, <2>2 DEF Truth, Held
<1>16. CASE LoadState
  <2>1. /\ slot # NoSave /\ slot.ram \in Ram /\ slot.stored \in Levels
        /\ pc = "menu" /\ UNCHANGED slot /\ Resumed(Carried(slot.ram), slot.stored)
    BY <1>16 DEF LoadState, TypeOK
  <2> DEFINE r == Carried(slot.ram)
  <2>2. r \in Ram /\ r.level = slot.ram.level /\ r.now = slot.ram.now
    BY <1>0, <2>1 DEF Carried, Ram
  <2>3. /\ Resumed(r, slot.stored) /\ Bare(r)
        /\ r.now \in {NoCode, Stock} => slot.stored = Stock
        /\ r.level # NoLevel => ChipOk
    BY <2>1, <2>2 DEF Bare
  <2> HIDE DEF r
  <2>4. /\ Truth(ram', hw'.volt, hw'.stored) /\ Bare(ram') /\ Held(ram', hw'.volt)
    BY <2>1, <2>2, <2>3, ResumedVolt
  <2> QED
    BY <2>1, <2>4
<1>17. CASE ExitGame
  <2>1. hw'.volt = hw.volt /\ hw'.stored = hw.stored
    BY <1>0, <1>17, Values, OcApplyEffect DEF ExitGame
  <2> QED
    BY <1>17, <2>1 DEF ExitGame
<1>18. CASE ExitEnds \/ PowerLost
  BY <1>18 DEF ExitEnds, PowerLost, Gone
<1> QED
  BY <1>1, <1>2, <1>3, <1>4, <1>5, <1>6, <1>7, <1>8, <1>9, <1>10, <1>11, <1>12,
     <1>13, <1>14, <1>15, <1>16, <1>17, <1>18 DEF Step

LEMMA VoltNext ==
  ASSUME ~PromptFails, ~PollCut, TypeOK, ClockInv, VoltInv, [Next]_vars
  PROVE  VoltInv'
<1>0. ram \in Ram /\ hw \in Hw /\ NoLevel \notin Levels /\ NoCode \notin Levels
  BY Values DEF TypeOK
<1>1. CASE UNCHANGED vars
  BY <1>1 DEF vars, VoltInv
<1>2. CASE BatteryTake
  <2>1. ram' = [ram EXCEPT !.reapply = FALSE]
    BY <1>2 DEF BatteryTake
  <2>2. ram'.level = ram.level /\ ram'.now = ram.now
    BY <1>0, <2>1 DEF Ram
  <2>3. /\ UNCHANGED <<pc, hw, slot>> /\ pc # "out" /\ poll = NoLevel
        /\ poll' = IF ChipOk THEN ram.level ELSE NoLevel
    BY <1>2 DEF BatteryTake
  <2>4. ~ChipOk /\ pc \notin Before => ram.level = NoLevel
    BY <2>3 DEF VoltInv, Held
  <2>5. pc' # "out" => Truth(ram', hw'.volt, hw'.stored) /\ Bare(ram')
    BY <2>2, <2>3 DEF VoltInv, Truth, Bare
  <2>6. pc' \notin Before /\ poll' = NoLevel => ram'.level = NoLevel
    BY <2>2, <2>3, <2>4
  <2>7. poll' # NoLevel => ChipOk /\ pc' # "out" /\ poll' = ram'.level
    BY <2>2, <2>3
  <2> QED
    BY <2>3, <2>5, <2>6, <2>7 DEF VoltInv, Held
<1>3. CASE BatteryWrite
  <2>1. poll \in Levels
    BY <1>3 DEF BatteryWrite, TypeOK
  <2>2. /\ ram'.level = ram.level /\ ram'.now = poll
        /\ hw'.volt = poll /\ hw'.stored = poll
    BY <1>0, <1>3, <2>1, WriteEffect DEF BatteryWrite
  <2>3. ChipOk /\ pc # "out" /\ poll = ram.level /\ ram.level # NoLevel
    BY <1>0, <1>3, <2>1 DEF BatteryWrite, VoltInv
  <2>4. poll' = NoLevel /\ UNCHANGED <<pc, slot>>
    BY <1>3 DEF BatteryWrite
  <2> QED
    BY <1>0, <2>1, <2>2, <2>3, <2>4 DEF VoltInv, Truth, Bare, Held
<1>4. CASE poll = NoLevel /\ Step /\ poll' = IF pc' = "out" THEN NoLevel ELSE poll
  BY <1>4, VoltStep
<1> QED
  BY <1>1, <1>2, <1>3, <1>4 DEF Next

LEMMA InitVolt == Init => ClockInv /\ VoltInv
BY DEF Init, ClockInv, VoltInv, Undecided, Before, SavePoints, Settled

\* cv_revert may trust g_cv_now: with no level set the rail is at its stock code,
\* whatever sleeps, presses and loads of older states there were.
THEOREM RevertIsEnough ==
  ASSUME ~EarlySleep, ~PromptFails, ~SlowExit, ~PollCut
  PROVE  Spec => []StockMeansStock
<1>1. TypeOK /\ ClockInv /\ [Next]_vars => ClockInv'
  BY ClockNext
<1>2. TypeOK /\ ClockInv /\ VoltInv /\ [Next]_vars => VoltInv'
  BY VoltNext
<1>3. VoltInv => StockMeansStock
  BY DEF VoltInv, StockMeansStock, Truth, Bare
<1> QED
  BY <1>1, <1>2, <1>3, InitVolt, StepTypes, PTL DEF Spec

\* No path that raises the clock forgets the voltage.
THEOREM VoltageIsOwed ==
  ASSUME ~EarlySleep, ~PromptFails, ~SlowExit, ~PollCut
  PROVE  Spec => []VoltsOwed
<1>1. TypeOK /\ ClockInv /\ [Next]_vars => ClockInv'
  BY ClockNext
<1>2. TypeOK /\ ClockInv /\ VoltInv /\ [Next]_vars => VoltInv'
  BY VoltNext
<1>3. TypeOK /\ ClockInv /\ VoltInv => VoltsOwed
  BY DEF TypeOK, ClockInv, VoltInv, VoltsOwed, Held, Before, Undecided
<1> QED
  BY <1>1, <1>2, <1>3, InitVolt, StepTypes, PTL DEF Spec

(***************************************************************************)
(* Consent.                                                                *)
(***************************************************************************)
ConsentInv ==
  /\ hw.clock # 0 => consent[hw.clock] # "none"
  /\ ram.stable /\ ram.step > 0 => consent[ram.step] = "always"
  /\ card \in File /\ card.stable /\ card.step > 0 => consent[card.step] = "always"
  /\ pc \notin Before /\ ram.step > 0 => consent[ram.step] # "none"

LEMMA AgreeEffect ==
  ASSUME TypeOK, NEW s \in Steps, NEW how \in {"now", "always"}, Agree(s, how)
  PROVE  /\ consent'[s] # "none" /\ (how = "always" => consent'[s] = "always")
         /\ \A t \in Steps : /\ consent[t] # "none" => consent'[t] # "none"
                             /\ consent[t] = "always" => consent'[t] = "always"
BY DEF TypeOK, Agree

LEMMA FileOrNot == NoFile \notin File /\ OtherFile \notin File
<1>1. \A f \in File : "step" \in DOMAIN f
  BY DEF File
<1>2. "step" \notin DOMAIN NoFile /\ "step" \notin DOMAIN OtherFile
  BY DEF NoFile, OtherFile
<1> QED
  BY <1>1, <1>2

\* Steps that leave the user's word, the marks and the card alone.
LEMMA ConsentKept ==
  ASSUME TypeOK, ConsentInv, UNCHANGED <<card, consent>>,
         ram'.step = ram.step, ram'.stable = ram.stable,
         hw'.clock = hw.clock \/ hw'.clock = ram.step,
         hw'.clock # hw.clock => pc \notin Before \/ ram.step = 0,
         pc' \notin Before => pc \notin Before \/ ram.step = 0 \/ ram.stable
  PROVE  ConsentInv'
<1>1. ram.step \in Nat /\ hw.clock \in Nat
  BY StepsAssumption DEF TypeOK, Ram, Hw, Steps
<1>2. hw'.clock # 0 => consent'[hw'.clock] # "none"
  BY <1>1 DEF ConsentInv
<1>3. pc' \notin Before /\ ram'.step > 0 => consent'[ram'.step] # "none"
  BY <1>1 DEF ConsentInv
<1> QED
  BY <1>2, <1>3 DEF ConsentInv

\* Steps in which the user agrees to something.
LEMMA ConsentGrown ==
  ASSUME TypeOK, ConsentInv, UNCHANGED card, hw'.clock = hw.clock,
         \A t \in Steps : /\ consent[t] # "none" => consent'[t] # "none"
                          /\ consent[t] = "always" => consent'[t] = "always",
         ram'.stable /\ ram'.step > 0 => consent'[ram'.step] = "always",
         pc' \notin Before /\ ram'.step > 0 => consent'[ram'.step] # "none"
  PROVE  ConsentInv'
<1>1. hw'.clock # 0 => consent'[hw'.clock] # "none"
  <2>1. hw.clock \in Steps
    BY DEF TypeOK, Hw
  <2>2. hw.clock # 0 => consent[hw.clock] # "none"
    BY DEF ConsentInv
  <2>3. consent[hw.clock] # "none" => consent'[hw.clock] # "none"
    BY <2>1
  <2> QED
    BY <2>2, <2>3
<1>2. card' \in File /\ card'.stable /\ card'.step > 0 => consent'[card'.step] = "always"
  <2>1. card \in File => card.step \in Steps
    BY DEF File
  <2>2. card \in File /\ card.stable /\ card.step > 0 => consent[card.step] = "always"
    BY DEF ConsentInv
  <2>3. card \in File /\ consent[card.step] = "always" => consent'[card.step] = "always"
    BY <2>1
  <2> QED
    BY <2>2, <2>3
<1> QED
  BY <1>1, <1>2 DEF ConsentInv

LEMMA ConsentStep ==
  ASSUME ~EarlySleep, ~PromptFails, ~SlowExit, LoadVouches, TypeOK, ClockInv, ConsentInv, [Step]_vars
  PROVE  ConsentInv'
<1> USE DEF Before, Undecided
<1>0. /\ ram \in Ram /\ hw \in Hw /\ ram.step \in Steps /\ hw.clock \in Steps
      /\ hw.stored \in Levels /\ Steps \subseteq Nat
  BY Values DEF TypeOK, Ram, Hw
<1>1. CASE UNCHANGED vars
  BY <1>1 DEF vars, ConsentInv
<1>2. CASE Sleep \/ SaveState
  <2>1. Resumed(ram, hw.stored)
    BY <1>2 DEF Sleep, SaveState
  <2>2. ram'.step = ram.step /\ ram'.stable = ram.stable /\ hw'.clock = ram.step
    BY <1>0, <2>1, ResumedEffect
  <2>3. /\ UNCHANGED <<card, consent>> /\ pc # "out"
        /\ pc \notin Undecided \/ ram.step = 0
        /\ pc' \notin Before => pc \notin Before
    BY <1>2 DEF Sleep, SaveState
  <2> QED
    BY <2>2, <2>3, ConsentKept
<1>3. CASE SaveOpen
  <2>1. card' \notin File
    BY <1>3, FileOrNot DEF SaveOpen
  <2> QED
    BY <1>3, <2>1 DEF SaveOpen, ConsentInv
<1>4. CASE SaveWrite
  <2>1. /\ pc' \notin Before => pc \notin Before
        /\ UNCHANGED <<ram, hw, consent>>
    BY <1>4 DEF SaveWrite, AfterSave, SavePoints
  <2>2. card' \in File /\ card'.stable /\ card'.step > 0 => consent[card'.step] = "always"
    <3>1. CASE card' \in {OtherFile, NoFile}
      BY <3>1, FileOrNot
    <3>2. CASE card' = [step |-> ram.step, stable |-> ram.stable, level |-> ram.level]
      BY <3>2 DEF ConsentInv
    <3> QED
      BY <1>4, <3>1, <3>2 DEF SaveWrite
  <2> QED
    BY <2>1, <2>2 DEF ConsentInv
<1>5. CASE SaveNotOpened
  <2>1. pc' \notin Before => pc \notin Before
    BY <1>5 DEF SaveNotOpened, AfterSave, SavePoints
  <2> QED
    BY <1>5, <2>1, ConsentKept DEF SaveNotOpened
<1>6. CASE Start
  <2>1. hw'.clock = 0 /\ pc' \in Before /\ UNCHANGED card
    BY <1>0, <1>6 DEF Start, Hw, ClockInv
  <2>2. \A s \in Steps : consent[s] = "always" => consent'[s] = "always"
    BY <1>6 DEF Start
  <2>3. ram'.stable /\ ram'.step > 0 => consent'[ram'.step] = "always"
    <3>1. CASE card \in File
      <4>1. ram'.step = card.step /\ ram'.stable = card.stable /\ card.step \in Steps
        BY <1>6, <3>1 DEF Start, Defaults, File
      <4> QED
        BY <2>2, <3>1, <4>1 DEF ConsentInv
    <3>2. CASE card \notin File
      BY <1>6, <3>2 DEF Start, Defaults
    <3> QED
      BY <3>1, <3>2
  <2>4. card' \in File /\ card'.stable /\ card'.step > 0 => consent'[card'.step] = "always"
    BY <2>1, <2>2 DEF ConsentInv, File
  <2> QED
    BY <2>1, <2>3, <2>4 DEF ConsentInv
<1>7. CASE Wake
  <2>1. ram'.step = ram.step /\ ram'.stable = ram.stable /\ hw'.clock = hw.clock
    BY <1>0, <1>7, PollEffect DEF Wake
  <2> QED
    BY <1>7, <2>1, ConsentKept DEF Wake
<1>8. CASE DecideStable
  <2>1. ram'.step = ram.step /\ ram'.stable = ram.stable /\ hw'.clock = hw.clock
    BY <1>0, <1>8, ApplyIfSetEffect DEF DecideStable, CvKept
  <2> QED
    BY <1>8, <2>1, ConsentKept DEF DecideStable
<1>9. CASE DecideToAsk
  BY <1>9, ConsentKept DEF DecideToAsk
<1>10. CASE DecideNoOverclock
  <2>1. ram.step = 0
    BY <1>0, <1>10 DEF DecideNoOverclock, ClockInv
  <2>2. ram'.step = ram.step /\ ram'.stable = ram.stable /\ hw'.clock = hw.clock
    <3>1. CASE ram.level = NoLevel
      BY <1>10, <3>1 DEF DecideNoOverclock
    <3>2. CASE ram.level # NoLevel
      <4> DEFINE clear == [ram EXCEPT !.level = NoLevel]
      <4>1. /\ clear \in Ram /\ clear.level = NoLevel /\ clear.step = ram.step
            /\ clear.stable = ram.stable
        BY <1>0 DEF Ram
      <4>2. CvRevert(clear)
        BY <1>10, <3>2 DEF DecideNoOverclock
      <4> HIDE DEF clear
      <4> QED
        BY <1>0, <4>1, <4>2, RevertEffect DEF CvKept
    <3> QED
      BY <3>1, <3>2
  <2> QED
    BY <1>10, <2>1, <2>2, ConsentKept DEF DecideNoOverclock
<1>11. CASE Accept
  <2>1. ram'.step = ram.step /\ ram'.stable = ram.stable /\ hw'.clock = hw.clock
    BY <1>0, <1>11, ApplyIfSetEffect DEF Accept, CvKept
  <2>2. /\ consent'[ram.step] # "none"
        /\ \A t \in Steps : /\ consent[t] # "none" => consent'[t] # "none"
                            /\ consent[t] = "always" => consent'[t] = "always"
    BY <1>0, <1>11, AgreeEffect DEF Accept
  <2>3. ram'.stable /\ ram'.step > 0 => consent'[ram'.step] = "always"
    BY <1>0, <2>1, <2>2 DEF ConsentInv
  <2> QED
    BY <1>11, <2>1, <2>2, <2>3, ConsentGrown DEF Accept
<1>12. CASE Decline
  <2> DEFINE clear == [ram EXCEPT !.step = 0, !.level = NoLevel]
  <2>1. clear \in Ram /\ clear.level = NoLevel /\ clear.step = 0
    BY <1>0, Values DEF Ram
  <2>2. CvRevert(clear)
    BY <1>12 DEF Decline
  <2> HIDE DEF clear
  <2>3. ram'.step = 0 /\ hw'.clock = hw.clock
    BY <1>0, <2>1, <2>2, RevertEffect DEF CvKept
  <2> QED
    BY <1>12, <2>3 DEF Decline, ConsentInv
<1>13. CASE ApplyClock
  <2>1. hw'.clock = ram.step
    BY <1>0, <1>13, OcApplyEffect DEF ApplyClock
  <2> QED
    BY <1>13, <2>1, ConsentKept DEF ApplyClock
<1>14. CASE BootDone \/ OpenPage \/ ClosePage \/ CloseMenu
  <2>1. UNCHANGED <<ram, hw, card, consent>> /\ pc \notin Before
    BY <1>14 DEF BootDone, OpenPage, ClosePage, CloseMenu
  <2> QED
    BY <2>1, ConsentKept
<1>15. CASE PickStep
  <2>1. PICK s \in {ram.step - 1, ram.step + 1} \cap Steps :
          ram' = [ram EXCEPT !.step = s, !.stable = FALSE] /\ Agree(s, "now")
    BY <1>15 DEF PickStep
  <2>2. ram'.step = s /\ ~ram'.stable /\ s \in Steps
    BY <1>0, <2>1 DEF Ram
  <2>3. /\ consent'[s] # "none"
        /\ \A t \in Steps : /\ consent[t] # "none" => consent'[t] # "none"
                            /\ consent[t] = "always" => consent'[t] = "always"
    BY <2>1, <2>2, AgreeEffect
  <2>4. UNCHANGED <<hw, card>>
    BY <1>15 DEF PickStep
  <2> QED
    BY <2>2, <2>3, <2>4, ConsentGrown
<1>16. CASE PickBus
  <2>1. ram'.step = ram.step /\ ram'.stable = ram.stable /\ UNCHANGED <<hw, card, consent>>
    BY <1>0, <1>16 DEF PickBus, Ram
  <2> QED
    BY <1>16, <2>1, ConsentKept DEF PickBus
<1>17. CASE PickVolt
  <2>1. PICK d \in {-1, 1} : CvApply(ram, CvLevel + d)
    BY <1>17 DEF PickVolt
  <2>2. CvLevel + d \in Int
    BY <1>0, StepsAssumption DEF CvLevel, Ram, Levels
  <2>3. ram'.step = ram.step /\ ram'.stable = ram.stable /\ hw'.clock = hw.clock
    BY <1>0, <2>1, <2>2, ApplyEffect DEF CvKept
  <2> QED
    BY <1>17, <2>3, ConsentKept DEF PickVolt
<1>18. CASE ToggleStable
  <2>1. ram'.step = ram.step /\ ram'.stable = ~ram.stable
    BY <1>0, <1>18 DEF ToggleStable, Ram
  <2>2. UNCHANGED <<pc, hw, card>>
    BY <1>18 DEF ToggleStable
  <2>3. CASE ram.stable
    <3>1. UNCHANGED consent
      BY <1>18, <2>3 DEF ToggleStable
    <3> QED
      BY <2>1, <2>2, <2>3, <3>1 DEF ConsentInv
  <2>4. CASE ~ram.stable
    <3>1. /\ consent'[ram.step] = "always"
          /\ \A t \in Steps : /\ consent[t] # "none" => consent'[t] # "none"
                              /\ consent[t] = "always" => consent'[t] = "always"
      BY <1>0, <1>18, <2>4, AgreeEffect DEF ToggleStable
    <3>2. consent'[ram'.step] = "always"
      BY <2>1, <3>1
    <3> QED
      BY <2>2, <3>1, <3>2, ConsentGrown
  <2> QED
    BY <2>3, <2>4
<1>19. CASE RailDefaults
  <2>1. ram'.step = ram.step /\ ram'.stable = ram.stable /\ hw'.clock = hw.clock
    BY <1>0, <1>19 DEF RailDefaults, CvRestoreStock, CvWriteCode, Ram, Hw
  <2> QED
    BY <1>19, <2>1, ConsentKept DEF RailDefaults
<1>20. CASE LoadState
  <2>1. /\ slot.ram \in Ram /\ slot.stored \in Levels /\ pc = "menu"
        /\ Resumed(Carried(slot.ram), slot.stored)
    BY <1>20 DEF LoadState, TypeOK
  <2>2. /\ Carried(slot.ram) \in Ram /\ Carried(slot.ram).step = ram.step
        /\ Carried(slot.ram).stable = slot.ram.stable
    BY <1>0, <2>1 DEF Carried, Ram
  <2>3. ram'.step = ram.step /\ ram'.stable = slot.ram.stable /\ hw'.clock = ram.step
    BY <2>1, <2>2, ResumedEffect
  <2>4. hw.clock = ram.step
    BY <2>1 DEF ClockInv, Settled, GameRuns
  <2>5. /\ slot.ram.stable => consent'[ram.step] = "always"
        /\ \A t \in Steps : /\ consent[t] # "none" => consent'[t] # "none"
                            /\ consent[t] = "always" => consent'[t] = "always"
    <3>1. CASE slot.ram.stable
      BY <1>0, <1>20, <3>1, AgreeEffect DEF LoadState
    <3>2. CASE ~slot.ram.stable
      BY <1>20, <3>2 DEF LoadState
    <3> QED
      BY <3>1, <3>2
  <2>6. ram.step > 0 => consent[ram.step] # "none"
    BY <2>1 DEF ConsentInv
  <2>7. UNCHANGED card
    BY <1>20 DEF LoadState
  <2> QED
    BY <1>0, <2>3, <2>4, <2>5, <2>6, <2>7, ConsentGrown
<1>21. CASE ExitGame
  <2>1. hw'.clock = 0 \/ hw'.clock = hw.clock
    BY <1>0, <1>21, Values, OcApplyEffect DEF ExitGame
  <2>2. UNCHANGED <<pc, ram, card, consent>>
    BY <1>21 DEF ExitGame
  <2>3. hw'.clock # 0 => consent'[hw'.clock] # "none"
    BY <2>1, <2>2 DEF ConsentInv
  <2> QED
    BY <2>2, <2>3 DEF ConsentInv
<1>22. CASE ExitEnds \/ PowerLost
  <2>0. hw'.clock = 0 \/ hw'.clock = hw.clock
    BY <1>0, <1>22 DEF ExitEnds, PowerLost, Hw
  <2>1. /\ hw'.clock = 0 \/ hw'.clock = hw.clock
        /\ ram'.step = 0 /\ ~ram'.stable /\ pc' = "out" /\ UNCHANGED <<card, consent>>
    BY <1>22, <2>0 DEF ExitEnds, PowerLost, Gone, Defaults
  <2>2. hw'.clock # 0 => consent'[hw'.clock] # "none"
    BY <2>1 DEF ConsentInv
  <2>3. pc' \in Before /\ ~(ram'.step > 0)
    BY <2>1
  <2> QED
    BY <2>1, <2>2, <2>3 DEF ConsentInv
<1> QED
  BY <1>1, <1>2, <1>3, <1>4, <1>5, <1>6, <1>7, <1>8, <1>9, <1>10, <1>11, <1>12, <1>13,
     <1>14, <1>15, <1>16, <1>17, <1>18, <1>19, <1>20, <1>21, <1>22 DEF Step

LEMMA ConsentNext ==
  ASSUME ~EarlySleep, ~PromptFails, ~SlowExit, LoadVouches, TypeOK, ClockInv, ConsentInv, [Next]_vars
  PROVE  ConsentInv'
<1>1. CASE BatteryTake \/ BatteryWrite
  <2>1. /\ ram'.step = ram.step /\ ram'.stable = ram.stable /\ hw'.clock = hw.clock
        /\ UNCHANGED <<pc, card, consent>>
    BY <1>1, BatteryEffect
  <2> QED
    BY <2>1 DEF ConsentInv
<1>2. CASE [Step]_vars
  BY <1>2, ConsentStep
<1> QED
  BY <1>1, <1>2 DEF Next

LEMMA InitConsent == Init => ConsentInv
<1> SUFFICES ASSUME Init PROVE ConsentInv
  OBVIOUS
<1>1. card \in File => ~card.stable
  BY FileOrNot DEF Init
<1> QED
  BY <1>1 DEF Init, ConsentInv, Before, Defaults

\* The clock runs raised only at a step the user agreed to, loads included.
THEOREM RaisedWithConsent ==
  ASSUME ~EarlySleep, ~PromptFails, ~SlowExit, LoadVouches
  PROVE  Spec => []ClockHasConsent
<1>1. TypeOK /\ ClockInv /\ [Next]_vars => ClockInv'
  BY ClockNext
<1>2. TypeOK /\ ClockInv /\ ConsentInv /\ [Next]_vars => ConsentInv'
  BY ConsentNext
<1>3. ConsentInv => ClockHasConsent
  BY DEF ConsentInv, ClockHasConsent
<1> QED
  BY <1>1, <1>2, <1>3, InitVolt, InitConsent, StepTypes, PTL DEF Spec

\* And a step shown stable was marked stable by the user or by a loaded state.
THEOREM StableByTheUser ==
  ASSUME ~EarlySleep, ~PromptFails, ~SlowExit, LoadVouches
  PROVE  Spec => []StableIsVouched
<1>1. TypeOK /\ ClockInv /\ [Next]_vars => ClockInv'
  BY ClockNext
<1>2. TypeOK /\ ClockInv /\ ConsentInv /\ [Next]_vars => ConsentInv'
  BY ConsentNext
<1>3. ConsentInv => StableIsVouched
  BY DEF ConsentInv, StableIsVouched
<1> QED
  BY <1>1, <1>2, <1>3, InitVolt, InitConsent, StepTypes, PTL DEF Spec
=============================================================================
