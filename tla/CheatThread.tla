------------------------------ MODULE CheatThread -----------------------------
(***************************************************************************)
(* The thread that applies the chosen FPS unlock to the game's memory at   *)
(* every vertical blank, against the settings page that changes the        *)
(* choice, the save or load that must find the memory still, and the       *)
(* game's exit.                                                            *)
(***************************************************************************)
EXTENDS Integers, Sequences, FiniteSets

CONSTANTS
  Unlocks,     \* the options' code: a sequence of sequences of lines
  MaxBackup,   \* originals kept (FPS_MAX_CHEAT_LINES)
  Gated,       \* ticks a gated thread sleeps (100 ms)
  VBlank,      \* ticks to the next vertical blank
  StopPolls    \* ticks the exit waits for the thread (60 polls of 2 ms)

Cells == 1 .. 3

\* what a line writes: all of its cells, or none if one is outside the memory
Covers(l) == {c \in Cells : l.at + l.size - 1 \in Cells /\ c \in l.at .. l.at + l.size - 1}

Writes(u) == {i \in 1 .. Len(Unlocks[u]) : Unlocks[u][i].t = "write"}
Written(u) == {Unlocks[u][i].at : i \in {w \in Writes(u) : Covers(Unlocks[u][w]) # {}}}

\* A line writes `to` over `size` cells, or skips lines unless the game's flag is set ("never":
\* the flag's address cannot be read).  An option has a line, and no more than the backup has
\* places (cheats.c:200, 258); the exit outwaits a sleep of the thread (cheats.c:497).
ASSUME ThreadAssumption ==
  /\ {Gated, VBlank, StopPolls, MaxBackup} \subseteq Nat \ {0}
  /\ Gated < StopPolls /\ VBlank < StopPolls
  /\ Len(Unlocks) \in Nat
  /\ \A u \in 1 .. Len(Unlocks) :
       /\ Len(Unlocks[u]) \in Nat \ {0} /\ Cardinality(Written(u)) <= MaxBackup
       /\ \A i \in 1 .. Len(Unlocks[u]) :
            \/ Unlocks[u][i].t = "write" /\ Unlocks[u][i].at \in Nat \ {0} /\ Unlocks[u][i].size \in 1 .. 2
            \/ Unlocks[u][i].t \in {"if", "never"} /\ Unlocks[u][i].skip \in Nat

VARIABLES
  gameCode,     \* the game's code, 0 is what the game shipped with
  flag,    \* a datum of the game's that conditional lines look at
  chosen,  \* g_fps_active
  originals,  \* g_bk_addr, g_bk_sz, g_bk_val
  thread,  \* the apply thread: its point, ticks left to sleep, the option and the line it is at
  started, \* g_fps_thread_started
  quit,    \* g_fps_quit
  menu,    \* g_menu_open
  hold,    \* g_st_op_hold
  op,      \* the operation: where it is, what it has of the image
  image,   \* the savegame: every variable a load brings back
  leaving  \* the exit: ticks it still waits, -1 before it, 0 when it goes on

gameVars == <<gameCode, flag>>
choice == <<chosen, originals>>
gateVars == <<menu, hold>>
threadVars == <<gameCode, flag, chosen, originals, thread, started, quit, menu, hold, op, image, leaving>>

NoThread == [at |-> "none", left |-> 0, of |-> 0, line |-> 0]
At(point) == [NoThread EXCEPT !.at = point]
NoImage == [gameCode |-> <<>>]

\* the thread has the processor (it runs below the menu thread and above nothing that waits)
Running == thread.at \in {"top", "after", "apply", "leave"}
Closed == menu \/ hold

ThreadInit ==
  /\ gameCode = [c \in Cells |-> 0] /\ flag \in BOOLEAN
  /\ chosen \in 0 .. Len(Unlocks) /\ originals = <<>>
  /\ thread = (IF chosen > 0 THEN At("top") ELSE NoThread) /\ started = (chosen > 0)
  /\ quit = FALSE /\ menu = FALSE /\ hold = FALSE /\ op = "none" /\ image = NoImage /\ leaving = -1

-----------------------------------------------------------------------------
(* cheats_thread *)

\* the head of the loop: retire, sleep while gated, or wait for the blank
Loop ==
  /\ thread.at = "top"
  /\ thread' = IF quit \/ chosen <= 0 THEN At("leave")
               ELSE IF Closed THEN [At("asleep") EXCEPT !.left = Gated]
               ELSE [At("blank") EXCEPT !.left = VBlank]
  /\ UNCHANGED <<gameVars, choice, started, quit, gateVars, op, image, leaving>>

\* the sleep is over
Wakes ==
  /\ thread.at \in {"asleep", "blank"} /\ thread.left = 0
  /\ thread' = At(IF thread.at = "asleep" THEN "top" ELSE "after")
  /\ UNCHANGED <<gameVars, choice, started, quit, gateVars, op, image, leaving>>

\* the gate is looked at again behind the wait
RecheckGate == Closed

\* after the blank everything is looked at again
Recheck ==
  /\ thread.at = "after"
  /\ thread' = IF quit \/ chosen <= 0 THEN At("leave")
               ELSE IF RecheckGate THEN At("top")
               ELSE [At("apply") EXCEPT !.of = chosen, !.line = 1]
  /\ UNCHANGED <<gameVars, choice, started, quit, gateVars, op, image, leaving>>

Known(l) == \E i \in 1 .. Len(originals) : originals[i].at = l.at
Original(l, now) == [at |-> l.at, size |-> l.size, was |-> now]

\* Variant: the last place of the backup stays empty.
NotedShort(l, now) == IF Known(l) \/ Len(originals) >= MaxBackup - 1 THEN originals ELSE Append(originals, Original(l, now))
\* backup_addr: the original of an address, the first time it is changed
Noted(l, now) == IF Known(l) \/ Len(originals) >= MaxBackup THEN originals ELSE Append(originals, Original(l, now))

\* one line of cheats_apply_active
ApplyUnlock ==
  /\ thread.at = "apply"
  /\ LET code == Unlocks[thread.of]
         l == code[thread.line]
         next(n) == IF n > Len(code) THEN At("top") ELSE [thread EXCEPT !.line = n]
     IN IF l.t = "write"
        THEN LET now == [c \in Covers(l) |-> gameCode[c]]
                 changes == \E c \in Covers(l) : gameCode[c] # l.to
             IN /\ originals' = IF changes THEN Noted(l, now) ELSE originals
                /\ gameCode' = [c \in Cells |-> IF c \in Covers(l) THEN l.to ELSE gameCode[c]]
                /\ thread' = next(thread.line + 1)
        ELSE /\ thread' = next(thread.line + 1 + (IF l.t = "if" /\ flag THEN 0 ELSE l.skip))
             /\ UNCHANGED <<gameCode, originals>>
  /\ UNCHANGED <<flag, chosen, started, quit, gateVars, op, image, leaving>>

\* Variant: the started flag stays up.
RetireQuietly ==
  /\ thread.at = "leave" /\ thread' = NoThread
  /\ UNCHANGED <<gameVars, choice, started, quit, gateVars, op, image, leaving>>

\* the flag falls just before the thread is gone
Retire ==
  /\ thread.at = "leave" /\ thread' = NoThread /\ started' = FALSE
  /\ UNCHANGED <<gameVars, choice, quit, gateVars, op, image, leaving>>

-----------------------------------------------------------------------------
(* The menu thread *)

\* the player is slower than the thread's few instructions
Settled == ~Running /\ leaving = -1 /\ op = "none"

OpenMenu == /\ ~menu /\ op = "none" /\ leaving = -1 /\ menu' = TRUE
            /\ UNCHANGED <<gameVars, choice, thread, started, quit, hold, op, image, leaving>>
CloseMenu == /\ menu /\ Settled /\ menu' = FALSE
             /\ UNCHANGED <<gameVars, choice, thread, started, quit, hold, op, image, leaving>>

\* cheats_restore_backup goes through the entries in order: the last one that has a cell decides
Deciding(c) ==
  {i \in 1 .. Len(originals) :
     c \in DOMAIN originals[i].was /\ \A j \in i + 1 .. Len(originals) : c \notin DOMAIN originals[j].was}
PutBack ==
  [c \in Cells |->
     IF Deciding(c) = {} THEN gameCode[c] ELSE originals[CHOOSE i \in Deciding(c) : TRUE].was[c]]

\* cheats_fps_cycle: undo, choose, and start the thread unless it is there
CycleUnlock ==
  /\ menu /\ Settled /\ Unlocks # <<>>
  /\ \E nw \in {IF chosen < Len(Unlocks) THEN chosen + 1 ELSE 0,
                IF chosen > 0 THEN chosen - 1 ELSE Len(Unlocks)} :
       /\ chosen' = nw
       /\ IF ~started /\ nw > 0 THEN thread' = At("top") /\ started' = TRUE /\ quit' = FALSE
          ELSE UNCHANGED <<thread, started, quit>>
  /\ gameCode' = PutBack /\ originals' = <<>>
  /\ UNCHANGED <<flag, gateVars, op, image, leaving>>

-----------------------------------------------------------------------------
(* A save or a load, as the apply thread meets it *)

\* the trigger (menu.c): the hold first ...
Trigger ==
  /\ menu /\ Settled /\ hold' = TRUE
  /\ op' \in {"save", "load"} /\ (op' = "load" => image # NoImage)
  /\ UNCHANGED <<gameVars, choice, thread, started, quit, menu, image, leaving>>

\* ... then the menu flag
MenuFlagOff ==
  /\ op \in {"save", "load"} /\ op' = (IF op = "save" THEN "saving" ELSE "loading")
  /\ menu' = FALSE
  /\ UNCHANGED <<gameVars, choice, thread, started, quit, hold, image, leaving>>

\* the game's memory, the plugin's own memory and the state of the threads are in the image
Capture ==
  /\ op = "saving" /\ op' = "done"
  /\ image' = [gameCode |-> gameCode, flag |-> flag, chosen |-> chosen, originals |-> originals, thread |-> thread,
               started |-> started, quit |-> quit]
  /\ UNCHANGED <<gameVars, choice, thread, started, quit, gateVars, leaving>>

\* the load goes on from where the save captured
Restore ==
  /\ op = "loading" /\ op' = "done"
  /\ gameCode' = image.gameCode /\ flag' = image.flag /\ chosen' = image.chosen /\ originals' = image.originals
  /\ thread' = image.thread /\ started' = image.started /\ quit' = image.quit
  /\ UNCHANGED <<gateVars, image, leaving>>

\* the end of the operation, or its failure
Release ==
  /\ op \in {"saving", "loading", "done"} /\ op' = "none" /\ hold' = FALSE
  /\ UNCHANGED <<gameVars, choice, thread, started, quit, menu, image, leaving>>

-----------------------------------------------------------------------------
(* The game and its exit *)

\* the game's flag changes
GameFlips ==
  /\ op = "none" /\ leaving # 0 /\ flag' = ~flag
  /\ UNCHANGED <<gameCode, choice, thread, started, quit, gateVars, op, image, leaving>>

\* cheats_stop: quit, and wait for the thread, but not for ever
Stop ==
  /\ leaving = -1 /\ op = "none" /\ quit' = TRUE /\ leaving' = StopPolls
  /\ UNCHANGED <<gameVars, choice, thread, started, gateVars, op, image>>
StopDone ==
  /\ leaving > 0 /\ ~started /\ leaving' = 0
  /\ UNCHANGED <<gameVars, choice, thread, started, quit, gateVars, op, image>>

\* time passes while the thread sleeps
PassTime ==
  /\ op = "none" /\ ~Running /\ leaving # 0 /\ (thread.left > 0 \/ leaving > 0)
  /\ thread.at \in {"asleep", "blank"} => thread.left > 0
  /\ thread' = IF thread.left > 0 THEN [thread EXCEPT !.left = @ - 1] ELSE thread
  /\ leaving' = IF leaving > 0 THEN leaving - 1 ELSE leaving
  /\ UNCHANGED <<gameVars, choice, started, quit, gateVars, op, image>>

ThreadNext ==
  \/ Loop \/ Wakes \/ Recheck \/ ApplyUnlock \/ Retire
  \/ OpenMenu \/ CloseMenu \/ CycleUnlock \/ Trigger \/ MenuFlagOff \/ Capture \/ Restore \/ Release
  \/ GameFlips \/ Stop \/ StopDone \/ PassTime

ThreadSpec == ThreadInit /\ [][ThreadNext]_threadVars

-----------------------------------------------------------------------------
(* Properties *)

ThreadTypeOK ==
  /\ chosen \in 0 .. Len(Unlocks) /\ Len(originals) <= MaxBackup /\ leaving \in -1 .. StopPolls
  /\ started = (thread.at # "none")

\* Whatever the thread has patched can be put back to the game's own code at any moment, however
\* its lines, the page, a save and a load of another time interleave, and with Stock chosen it has
\* been (cheats.c:42-45, "so returning to Stock (or switching options) reverts the cheat's patches").
StockIsStock ==
  /\ \A c \in Cells : PutBack[c] = 0
  /\ chosen = 0 => \A c \in Cells : gameCode[c] = 0

\* From the menu's opening to the end of a save or load the thread writes nothing
\* (cheats.c:474, "never touch game RAM mid-op").
QuietDuringOp == op # "none" => thread.at # "apply"

\* When the exit goes on and takes the game's memory down, the thread is gone.
GoneAtExit == leaving = 0 => thread.at = "none"

\* The game's code is written only while the game owns it and can always be put back.
CheatsGiveBack == StockIsStock /\ QuietDuringOp /\ GoneAtExit
===============================================================================
