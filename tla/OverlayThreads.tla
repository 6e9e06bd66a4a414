---------------------------- MODULE OverlayThreads ----------------------------
(***************************************************************************)
(* The threads behind the overlay: one polls the battery and holds the     *)
(* charging threshold, one draws. The settings page starts them when       *)
(* something wants them, each leaves on its own when nothing does.         *)
(***************************************************************************)
EXTENDS Integers

CONSTANTS
  Thresholds,  \* Stop-Charging settings: 0 off, 100 never charge, else the percentage
  Charges,     \* percentages the battery may read (-1: there is none)
  CreateFails, \* the kernel may refuse to create a thread
  Preempts     \* the menu thread may run between a thread's last look and its leaving

ASSUME OverlayAssumption == Thresholds \subseteq 0 .. 100 /\ {CreateFails, Preempts} \subseteq BOOLEAN

VARIABLES
  overlay,   \* g_show_battery (the drawing thread also wants it)
  threshold, \* g_batt_stop_charge
  percent,   \* g_batt_percent as last read
  sent,      \* g_chg_gate_sent: 1 forbid, 0 permit, -1 nothing yet
  poller,    \* battery_poll_thread: "none", "look", "leave", "read", "gate", "sleep"
  polling,   \* g_battery_poll_started
  drawer,    \* fps_poll_thread: "none", "look", "leave", "draw"
  drawing,   \* g_fps_poll_started
  forbidden, \* the charger, which no load brings back
  backup,    \* the savegame's copy of all but the charger
  broughtBack     \* history: a load has brought the variables back, but not the charger

ours == <<overlay, threshold, percent, sent, poller, polling, drawer, drawing>>
overlayVars == <<overlay, threshold, percent, sent, poller, polling, drawer, drawing, forbidden, backup, broughtBack>>

Wanted == overlay \/ threshold > 0

OverlayInit ==
  /\ overlay \in BOOLEAN /\ threshold \in Thresholds /\ percent = -1 /\ sent = -1
  /\ polling = Wanted /\ poller = (IF Wanted THEN "look" ELSE "none")
  /\ drawing = overlay /\ drawer = (IF overlay THEN "look" ELSE "none")
  /\ forbidden = FALSE /\ backup = <<>> /\ broughtBack = FALSE

-----------------------------------------------------------------------------
(* battery_poll_thread *)

\* Variant: the thread leaves without permitting.
LeaveForbidding == UNCHANGED <<sent, forbidden>>

\* charging is permitted again on the way out
LeavePermitting ==
  /\ forbidden' = (IF sent = 1 THEN FALSE ELSE forbidden)
  /\ sent' = (IF sent = 1 THEN 0 ELSE sent)

\* the head of the loop: somebody wants it, or it goes
PollLooks ==
  /\ poller = "look"
  /\ IF Wanted THEN poller' = "read" /\ UNCHANGED <<sent, forbidden>>
     ELSE poller' = "leave" /\ LeavePermitting
  /\ UNCHANGED <<overlay, threshold, percent, polling, drawer, drawing, backup, broughtBack>>

PollLeaves ==
  /\ poller = "leave" /\ poller' = "none" /\ polling' = FALSE
  /\ UNCHANGED <<overlay, threshold, percent, sent, drawer, drawing, forbidden, backup, broughtBack>>

\* battery_refresh
PollReads ==
  /\ poller = "read" /\ poller' = "gate" /\ percent' \in Charges \cup {-1}
  /\ UNCHANGED <<overlay, threshold, sent, polling, drawer, drawing, forbidden, backup, broughtBack>>

\* forbid at and above the threshold, always at 100, never when off
Want == IF threshold <= 0 THEN 0 ELSE IF threshold >= 100 \/ percent >= threshold THEN 1 ELSE 0

\* battery_charge_gate: the firmware is told only of a change
PollGates ==
  /\ poller = "gate" /\ poller' = "sleep"
  /\ sent' = Want /\ forbidden' = (IF Want = sent THEN forbidden ELSE Want = 1)
  /\ UNCHANGED <<overlay, threshold, percent, polling, drawer, drawing, backup, broughtBack>>
PollWakes ==
  /\ poller = "sleep" /\ poller' = "look"
  /\ UNCHANGED <<overlay, threshold, percent, sent, polling, drawer, drawing, forbidden, backup, broughtBack>>

-----------------------------------------------------------------------------
(* fps_poll_thread *)

DrawLooks ==
  /\ drawer = "look" /\ drawer' = IF overlay THEN "draw" ELSE "leave"
  /\ UNCHANGED <<overlay, threshold, percent, sent, poller, polling, drawing, forbidden, backup, broughtBack>>
DrawLeaves ==
  /\ drawer = "leave" /\ drawer' = "none" /\ drawing' = FALSE
  /\ UNCHANGED <<overlay, threshold, percent, sent, poller, polling, forbidden, backup, broughtBack>>
DrawWaits ==
  /\ drawer = "draw" /\ drawer' = "look"
  /\ UNCHANGED <<overlay, threshold, percent, sent, poller, polling, drawing, forbidden, backup, broughtBack>>

-----------------------------------------------------------------------------
(* The settings page *)

Leaving == poller = "leave" \/ drawer = "leave"
Acts == Leaving => Preempts

CanCreate == IF CreateFails THEN BOOLEAN ELSE {TRUE}

\* battery_poll_ensure_started: the flag is up whether or not the thread came to be
EnsurePoll ==
  \E ok \in CanCreate :
    /\ poller' = (IF ~polling /\ ok THEN "look" ELSE poller) /\ polling' = TRUE
EnsureDraw ==
  \E ok \in CanCreate :
    /\ drawer' = (IF ~drawing /\ ok THEN "look" ELSE drawer) /\ drawing' = TRUE

\* run_settings_menu, the battery row: both threads
SetOverlay ==
  /\ Acts /\ overlay' = ~overlay
  /\ IF overlay' THEN EnsurePoll /\ EnsureDraw ELSE UNCHANGED <<poller, polling, drawer, drawing>>
  /\ UNCHANGED <<threshold, percent, sent, forbidden, backup, broughtBack>>

\* ... and the threshold: the poller, whether the overlay is on or not
SetThreshold ==
  /\ Acts /\ threshold' \in Thresholds \ {threshold}
  /\ IF threshold' > 0 THEN EnsurePoll ELSE UNCHANGED <<poller, polling>>
  /\ UNCHANGED <<overlay, percent, sent, drawer, drawing, forbidden, backup, broughtBack>>

-----------------------------------------------------------------------------
(* One save and one load *)

Snapshot ==
  /\ backup = <<>> /\ ~broughtBack /\ backup' = ours
  /\ UNCHANGED <<overlay, threshold, percent, sent, poller, polling, drawer, drawing, forbidden, broughtBack>>

\* fatsave.c: the kernel image takes every variable of the plugin back to save time
LoadBack ==
  /\ backup # <<>> /\ backup' = <<>> /\ ~broughtBack /\ broughtBack' = TRUE
  /\ overlay' = backup[1] /\ threshold' = backup[2] /\ percent' = backup[3] /\ sent' = backup[4]
  /\ poller' = backup[5] /\ polling' = backup[6] /\ drawer' = backup[7] /\ drawing' = backup[8]
  /\ UNCHANGED forbidden

OverlayNext ==
  \/ PollLooks \/ PollLeaves \/ PollReads \/ PollGates \/ PollWakes
  \/ DrawLooks \/ DrawLeaves \/ DrawWaits \/ SetOverlay \/ SetThreshold \/ Snapshot \/ LoadBack

OverlaySpec == OverlayInit /\ [][OverlayNext]_overlayVars

-----------------------------------------------------------------------------
(* Properties *)

OverlayTypeOK ==
  /\ sent \in {-1, 0, 1} /\ percent \in Charges \cup {-1}
  /\ poller \in {"none", "look", "leave", "read", "gate", "sleep"} /\ poller # "none" => polling
  /\ drawer \in {"none", "look", "leave", "draw"} /\ drawer # "none" => drawing

\* Without the poll thread nobody would ever allow charging again: it is gone only while the
\* charger permits (sysstats.c:406-407, "always re-permit on the way out"). A load may have
\* brought back a `sent` that is not what the charger was told last.
NoneForbidden == poller = "none" => ~forbidden \/ broughtBack

\* Whenever the thread goes to sleep the charger does what the threshold and the battery say,
\* a new threshold from the next round on, again until a load (sysstats.c:357).
GateFollows ==
  poller = "gate" /\ poller' = "sleep" => (forbidden' = (Want = 1)) \/ broughtBack'

\* The charger does what the thread last worked out, and is never left forbidding.
ChargerFollows == [][NoneForbidden' /\ GateFollows]_overlayVars
===============================================================================
