------------------------------ MODULE PommelRails ------------------------------
(***************************************************************************)
(* The rails of the Pommel that only this plugin ever writes: DDR and the  *)
(* four unknown ones.  The Pommel keeps its registers through sleeps,      *)
(* reboots and resets, so the plugin reads each one at boot, keeps in RAM  *)
(* what it last wrote, and can hold a baseline in settings.cfg that every  *)
(* plugin start puts back.  A LOAD replaces what the plugin remembers and  *)
(* leaves the registers as they are.                                       *)
(*                                                                         *)
(* Codes are written as levels.  g_ddr_level and the level of a rail are   *)
(* shown and never read, so they are left out, as are the two reverts that *)
(* nothing calls.                                                          *)
(***************************************************************************)
EXTENDS Integers

CONSTANTS
  Rails,     \* g_rails and the DDR rail
  MaxLevel,  \* CV_LEVEL_MAX (code: 11)
  Builtin    \* CV_DEF_BUILTIN

Levels  == 0 .. MaxLevel
Unknown == -1   \* a code the plugin has not read, or not written

ASSUME RailsAssumption ==
  /\ MaxLevel \in Nat
  /\ Builtin \in [Rails -> Levels]

VARIABLES
  on,        \* is the plugin running?
  rail,      \* the Pommel's registers
  base, now, \* what the plugin read at boot, what it last wrote
  valid,     \* g_def_valid
  card,      \* is a baseline in settings.cfg?
  slot,      \* a save state's base, now and valid
  dead,      \* registers that do not answer a read
  loaded     \* observer: was a save state loaded since the start?

vars == <<on, rail, base, now, valid, card, slot, dead, loaded>>

NoSave == [kind |-> "nosave"]
Belief == [Rails -> Levels \cup {Unknown}]

TypeOK ==
  /\ on \in BOOLEAN /\ valid \in BOOLEAN /\ card \in BOOLEAN
  /\ rail \in [Rails -> Levels]
  /\ base \in Belief /\ now \in Belief
  /\ slot \in [base : Belief, now : Belief, valid : BOOLEAN] \cup {NoSave}
  /\ dead \subseteq Rails /\ loaded \in BOOLEAN

Forgotten == [r \in Rails |-> Unknown]

Init ==
  /\ on = FALSE /\ valid = FALSE /\ card = FALSE /\ slot = NoSave
  /\ rail \in [Rails -> Levels]
  /\ base = Forgotten /\ now = Forgotten
  /\ dead \in SUBSET Rails /\ loaded = FALSE

\* cv_ddr_code, cv_rail_code: the code the plugin takes the rail to run at.
Code(b, n, r) == IF n[r] # Unknown THEN n[r] ELSE b[r]

Clamp(level) == IF level > MaxLevel THEN MaxLevel ELSE IF level < 0 THEN 0 ELSE level

\* Variant: only a rail the plugin wrote itself is taken for a stray.
WrittenStrays(b, n) == {r \in Rails : n[r] # Unknown /\ n[r] # Builtin[r]}

\* The rails the baseline is written to: known, and believed to be elsewhere.
Strays(b, n) == {r \in Rails : Code(b, n, r) # Unknown /\ Code(b, n, r) # Builtin[r]}

\* cv_rail_defaults_restore: the baseline becomes the boot code of what it moves.
Restore(b, n, was) ==
  LET strays == Strays(b, n) IN
  /\ rail' = [r \in Rails |-> IF r \in strays THEN Builtin[r] ELSE was[r]]
  /\ base' = [r \in Rails |-> IF r \in strays THEN Builtin[r] ELSE b[r]]
  /\ now'  = [r \in Rails |-> IF r \in strays THEN Builtin[r] ELSE n[r]]

\* load_settings, then cv_probe: the sweep of the registers and cv_rails_boot_init.
Start ==
  /\ ~on /\ on' = TRUE
  /\ valid' = card
  /\ LET read == [r \in Rails |-> IF r \in dead THEN Unknown ELSE rail[r]] IN
       IF card THEN Restore(read, Forgotten, rail)
               ELSE base' = read /\ now' = Forgotten /\ UNCHANGED rail
  /\ UNCHANGED <<card, slot, dead, loaded>>

\* A press on a rail's row.  A rail whose register does not answer is not written.
Press(r) ==
  /\ on /\ base[r] # Unknown
  /\ \E d \in {-1, 1} :
       LET level == Clamp(Code(base, now, r) + d) IN
       /\ rail' = [rail EXCEPT ![r] = level]
       /\ now' = [now EXCEPT ![r] = level]
  /\ UNCHANGED <<on, base, valid, card, slot, dead, loaded>>

\* cv_rail_defaults_builtin.  The page asks for the settings to be saved, which
\* can fail.
AdoptDefaults ==
  /\ on
  /\ valid' = TRUE
  /\ Restore(base, now, rail)
  /\ UNCHANGED <<on, card, slot, dead, loaded>>

SaveSettings ==
  /\ on /\ card' = valid
  /\ UNCHANGED <<on, rail, base, now, valid, slot, dead, loaded>>

\* The file is lost, or of another generation.
LoseSettings ==
  /\ card /\ card' = FALSE
  /\ UNCHANGED <<on, rail, base, now, valid, slot, dead, loaded>>

SaveState ==
  /\ on
  /\ slot' = [base |-> base, now |-> now, valid |-> valid]
  /\ UNCHANGED <<on, rail, base, now, valid, card, dead, loaded>>

LoadState ==
  /\ on /\ slot # NoSave
  /\ base' = slot.base /\ now' = slot.now /\ valid' = slot.valid
  /\ loaded' = TRUE
  /\ UNCHANGED <<on, rail, card, slot, dead>>

Gone ==
  /\ on /\ on' = FALSE /\ loaded' = FALSE
  /\ base' = Forgotten /\ now' = Forgotten /\ valid' = FALSE
  /\ UNCHANGED <<rail, card, slot, dead>>

\* The exit hook writes no rail: its context allows no syscon transaction.
ExitGame == on /\ Gone

\* A crash, a hang, a reset: the Pommel notices nothing.
PowerLost == on /\ Gone

Next ==
  \/ Start \/ AdoptDefaults \/ SaveSettings \/ LoseSettings
  \/ SaveState \/ LoadState \/ ExitGame \/ PowerLost
  \/ \E r \in Rails : Press(r)

Spec == Init /\ [][Next]_vars

\* The row of a rail shows the code it runs at ("the code now running",
\* corevolt.h:119, 143), from boot through presses, saves of state and crashes.  Only
\* a LOAD may break it, since it brings back what the plugin remembered.
RailAsShown ==
  on /\ ~loaded => \A r \in Rails : base[r] # Unknown => Code(base, now, r) = rail[r]

\* A session that left a rail anywhere is recovered by the next start once a
\* baseline is kept, for every register that answers (corevolt.c:459).
StartRecovers == Start /\ card => \A r \in Rails \ dead : rail'[r] = Builtin[r]

\* A rail is where its row says, and a start puts it on the baseline.
RailsHold == [][RailAsShown' /\ StartRecovers]_vars
=============================================================================
