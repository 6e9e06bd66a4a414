----------------------------- MODULE ThreadFreeze -----------------------------
(***************************************************************************)
(* Freezing and resuming the game: suspend_escalating, the three retry     *)
(* loops built on it (run_save_browser, FreezeSave, FreezeLoad), the       *)
(* checks that follow it (suspend query, me_rpc_probe,                     *)
(* ms_probe_after_freeze / ms_probe_reap) and the two ways back            *)
(* (resume_nongame_threads, resume_game_threads).  SaveLoad takes a        *)
(* freeze as one step; this module shows what that step rests on.          *)
(*                                                                         *)
(* The threads of the system run all the while.  A user thread can take    *)
(* the ME RPC mutex or the FAT lock, keep a driver busy, wait, exit, start *)
(* another thread or suspend one itself.  The order of the thread list is  *)
(* arbitrary, so the pass takes the listed threads in any order.  The wait *)
(* of up to cap_ms for a WAITING thread only lets time pass: with          *)
(* stable_gate = 0, its only use, the thread is suspended in any case.     *)
(*                                                                         *)
(* A dormant thread stands for one that ended, one that was created and    *)
(* not started, and one that does not exist yet: a list the plugin asks    *)
(* the kernel for may or may not name it.  The tables hold 64 entries;     *)
(* here they hold every thread.                                            *)
(***************************************************************************)
EXTENDS Naturals, FiniteSets

CONSTANTS
  Game,      \* the game's user threads (attribute exactly USER)
  System,    \* other non-kernel threads: VSH, USB/WLAN
  Drivers,   \* kernel threads, never suspended
  None,
  MaxTries,  \* bound of the retry loops (code: 8 menu, 1000 save, 20 load)
  MaySpawn   \* may the game start a thread while an operation runs?

User == Game \cup System
Threads == User \cup Drivers

ASSUME ThreadsAssumption ==
  /\ Game \cap System = {} /\ User \cap Drivers = {}
  /\ None \notin Threads
  /\ IsFiniteSet(Threads)
  /\ MaxTries \in Nat \ {0}
  /\ MaySpawn \in BOOLEAN

VARIABLES
  state,     \* state[t]: "ready", "waiting" or "dormant"
  by,        \* by[t]: who suspended t, "none", "game" or "plugin"
  me,        \* owner of the SceMediaEngineRpc mutex, or None
  fat,       \* owner of the Memory Stick's FAT lock, or None
  busy,      \* a driver would veto the suspend query
  pc,        \* where the menu thread is
  op,        \* "menu", "save" or "load"
  tries,     \* attempts made
  todo,      \* listed threads suspend_escalating has not looked at
  target,    \* the thread it is about to suspend, or None
  fails,     \* did a thread fail to freeze?
  tracked,   \* suspended_ids
  game_tids, \* result of identify_game_threads
  probe_fd,  \* g_probe_fd: "none", "pending" or "done"
  me_probe   \* g_me_probe_state: was the mutex found on this console?

threads == <<state, by, me, fat, busy>>
menu    == <<pc, op, tries, todo, target, fails, tracked, game_tids, probe_fd>>
vars    == <<state, by, me, fat, busy, pc, op, tries, todo, target, fails,
             tracked, game_tids, probe_fd, me_probe>>

Points == {"idle", "identified", "retry", "list", "pass", "suspend", "passed",
           "requeried", "reap", "frozen", "handshake"}

TypeOK ==
  /\ state \in [Threads -> {"ready", "waiting", "dormant"}]
  /\ by \in [Threads -> {"none", "game", "plugin"}]
  /\ me \in Threads \cup {None} /\ fat \in Threads \cup {None}
  /\ busy \in BOOLEAN /\ fails \in BOOLEAN /\ me_probe \in BOOLEAN
  /\ pc \in Points
  /\ op \in {"menu", "save", "load"}
  /\ tries \in 0 .. MaxTries
  /\ todo \subseteq Threads /\ tracked \subseteq User /\ game_tids \subseteq Game
  /\ target \in User \cup {None}
  /\ probe_fd \in {"none", "pending", "done"}

Init ==
  /\ state \in [Threads -> {"ready", "dormant"}]
  /\ \A t \in Drivers : state[t] = "ready"
  /\ by = [t \in Threads |-> "none"]
  /\ me = None /\ fat = None /\ busy = FALSE
  /\ pc = "idle" /\ op = "menu" /\ tries = 0
  /\ todo = {} /\ target = None /\ fails = FALSE
  /\ tracked = {} /\ game_tids = {} /\ probe_fd = "none"
  /\ me_probe \in BOOLEAN

-----------------------------------------------------------------------------
(* The threads of the system. *)

CanRun(t) == state[t] = "ready" /\ by[t] = "none"

Dormant == {t \in User : state[t] = "dormant"}

SetState(t, s) == state' = [state EXCEPT ![t] = s]

\* A thread waits, wakes (also while suspended), or ends; a lock is never held
\* by a thread that ended.
Wait(t) == CanRun(t) /\ SetState(t, "waiting") /\ UNCHANGED <<by, me, fat, busy>>
Wake(t) == state[t] = "waiting" /\ SetState(t, "ready") /\ UNCHANGED <<by, me, fat, busy>>
Exit(t) == /\ CanRun(t) /\ t \notin {me, fat} /\ SetState(t, "dormant")
           /\ UNCHANGED <<by, me, fat, busy>>

\* A game thread starts a dormant one; outside operations it always may.
Start(t) == /\ MaySpawn \/ pc = "idle"
            /\ state[t] = "dormant"
            /\ \E a \in Game : CanRun(a)
            /\ SetState(t, "ready")
            /\ UNCHANGED <<by, me, fat, busy>>

\* A game thread suspends another one itself, and resumes it.
Park(t)   == /\ \E a \in Game \ {t} : CanRun(a)
             /\ by[t] = "none" /\ state[t] # "dormant" /\ t \notin {me, fat}
             /\ by' = [by EXCEPT ![t] = "game"]
             /\ UNCHANGED <<state, me, fat, busy>>
Unpark(t) == /\ \E a \in Game \ {t} : CanRun(a)
             /\ by[t] = "game"
             /\ by' = [by EXCEPT ![t] = "none"]
             /\ UNCHANGED <<state, me, fat, busy>>

TakeMe(t)  == CanRun(t) /\ me = None /\ me' = t /\ UNCHANGED <<state, by, fat, busy>>
DropMe(t)  == CanRun(t) /\ me = t /\ me' = None /\ UNCHANGED <<state, by, fat, busy>>
TakeFat(t) == CanRun(t) /\ fat = None /\ fat' = t /\ UNCHANGED <<state, by, me, busy>>
DropFat(t) == CanRun(t) /\ fat = t /\ fat' = None /\ UNCHANGED <<state, by, me, busy>>

\* A game thread starts a device read; the device finishes it by itself.
StartRead(t) == CanRun(t) /\ ~busy /\ busy' = TRUE /\ UNCHANGED <<state, by, me, fat>>
ReadDone     == busy /\ busy' = FALSE /\ UNCHANGED <<state, by, me, fat>>

ThreadStep ==
  /\ \/ \E t \in Threads : Wake(t) \/ DropMe(t) \/ DropFat(t)
     \/ \E t \in User : Wait(t) \/ TakeMe(t) \/ TakeFat(t)
     \/ \E t \in Drivers : TakeMe(t)
     \/ \E t \in Game : Exit(t) \/ Start(t) \/ Park(t) \/ Unpark(t) \/ StartRead(t)
     \/ ReadDone
  /\ UNCHANGED <<menu, me_probe>>

-----------------------------------------------------------------------------
(* The menu thread. *)

Goto(l) == pc' = l

\* run_save_browser freezes to browse; FreezeSave and FreezeLoad first note the
\* game's threads and then let the game release volatile memory.
BeginMenu ==
  /\ pc = "idle"
  /\ op' = "menu" /\ tries' = 0 /\ Goto("retry")
  /\ UNCHANGED <<threads, todo, target, fails, tracked, game_tids, probe_fd, me_probe>>

BeginOp ==
  /\ pc = "idle"
  /\ op' \in {"save", "load"} /\ tries' = 0 /\ Goto("identified")
  /\ \E unborn \in SUBSET Dormant : game_tids' = Game \ unborn
  /\ UNCHANGED <<threads, todo, target, fails, tracked, probe_fd, me_probe>>

VolmemDone ==
  /\ pc = "identified"
  /\ Goto("retry")
  /\ UNCHANGED <<threads, op, tries, todo, target, fails, tracked, game_tids, probe_fd, me_probe>>

\* Variant: one attempt too many.
AttemptOneMore ==
  /\ pc = "retry"
  /\ \/ /\ tries <= MaxTries
        /\ tries' = tries + 1
        /\ IF op = "save" /\ busy THEN UNCHANGED pc ELSE Goto("list")
     \/ /\ tries > MaxTries
        /\ Goto("idle") /\ UNCHANGED tries
  /\ UNCHANGED <<threads, op, todo, target, fails, tracked, game_tids, probe_fd, me_probe>>

\* One more attempt, or the loop gives up with the game running.  A SAVE
\* freezes only where the suspend query is clear.
Attempt ==
  /\ pc = "retry"
  /\ \/ /\ tries < MaxTries
        /\ tries' = tries + 1
        /\ IF op = "save" /\ busy THEN UNCHANGED pc ELSE Goto("list")
     \/ /\ tries = MaxTries
        /\ Goto("idle") /\ UNCHANGED tries
  /\ UNCHANGED <<threads, op, todo, target, fails, tracked, game_tids, probe_fd, me_probe>>

\* suspend_escalating: forget the old table and list the threads.  A failing
\* enumeration froze nothing and reports it.
ListThreads ==
  /\ pc = "list"
  /\ tracked' = {} /\ target' = None
  /\ \/ fails' = FALSE /\ Goto("pass")
        /\ \E unborn \in SUBSET Dormant : todo' = User \ unborn
     \/ todo' = {} /\ fails' = TRUE /\ Goto("passed")
  /\ UNCHANGED <<threads, op, tries, game_tids, probe_fd, me_probe>>

\* A dormant thread is skipped, any other is waited for.
Look(t) ==
  /\ pc = "pass"
  /\ t \in todo
  /\ todo' = todo \ {t}
  /\ IF state[t] = "dormant"
     THEN UNCHANGED <<pc, target>>
     ELSE target' = t /\ Goto("suspend")
  /\ UNCHANGED <<threads, op, tries, fails, tracked, game_tids, probe_fd, me_probe>>

\* Variants: a thread that does not freeze is not counted; it is tracked.
SuspendUncounted ==
  /\ pc = "suspend"
  /\ IF state[target] # "dormant" /\ by[target] = "none"
     THEN /\ by' = [by EXCEPT ![target] = "plugin"]
          /\ tracked' = tracked \cup {target}
     ELSE UNCHANGED <<by, tracked>>
  /\ target' = None
  /\ Goto("pass")
  /\ UNCHANGED <<state, me, fat, busy, op, tries, todo, fails, game_tids, probe_fd, me_probe>>

SuspendTracksAll ==
  /\ pc = "suspend"
  /\ tracked' = tracked \cup {target}
  /\ IF state[target] # "dormant" /\ by[target] = "none"
     THEN by' = [by EXCEPT ![target] = "plugin"] /\ UNCHANGED fails
     ELSE fails' = TRUE /\ UNCHANGED by
  /\ target' = None
  /\ Goto("pass")
  /\ UNCHANGED <<state, me, fat, busy, op, tries, todo, game_tids, probe_fd, me_probe>>

\* sceKernelSuspendThread, with dispatching off.  It fails on a thread that has
\* ended meanwhile and on one the game suspended itself.
SuspendTarget ==
  /\ pc = "suspend"
  /\ IF state[target] # "dormant" /\ by[target] = "none"
     THEN /\ by' = [by EXCEPT ![target] = "plugin"]
          /\ tracked' = tracked \cup {target}
          /\ UNCHANGED fails
     ELSE /\ fails' = TRUE
          /\ UNCHANGED <<by, tracked>>
  /\ target' = None
  /\ Goto("pass")
  /\ UNCHANGED <<state, me, fat, busy, op, tries, todo, game_tids, probe_fd, me_probe>>

PassDone ==
  /\ pc = "pass"
  /\ todo = {}
  /\ Goto("passed")
  /\ UNCHANGED <<threads, op, tries, todo, target, fails, tracked, game_tids, probe_fd, me_probe>>

\* sceKernelResumeThread wakes a suspended thread, whoever suspended it.
Resume(T) == by' = [t \in Threads |-> IF t \in T THEN "none" ELSE by[t]]

\* resume_game_threads
ResumeTracked == Resume(tracked)
Undo(l) == ResumeTracked /\ tracked' = {} /\ Goto(l) /\ UNCHANGED <<state, me, fat, busy>>

\* Variant: the failed attempt is not undone.
PassFailedFrozen ==
  /\ pc = "passed"
  /\ fails
  /\ Goto("retry")
  /\ UNCHANGED <<threads, op, tries, todo, target, fails, tracked, game_tids, probe_fd, me_probe>>

PassFailed ==
  /\ pc = "passed"
  /\ fails
  /\ Undo("retry")
  /\ UNCHANGED <<op, tries, todo, target, fails, game_tids, probe_fd, me_probe>>

\* Variant: the query is not repeated.
RequerySkipped ==
  /\ pc = "passed" /\ ~fails
  /\ op = "save"
  /\ Goto("requeried")
  /\ UNCHANGED <<threads, op, tries, todo, target, fails, tracked, game_tids, probe_fd, me_probe>>

\* SAVE: the query once more, for a read that began during the pass.
Requery ==
  /\ pc = "passed" /\ ~fails
  /\ op = "save"
  /\ IF busy THEN Undo("retry") ELSE Goto("requeried") /\ UNCHANGED <<threads, tracked>>
  /\ UNCHANGED <<op, tries, todo, target, fails, game_tids, probe_fd, me_probe>>

\* me_rpc_probe: a free mutex passes, so does a console without one; a frozen
\* owner, or a live one that keeps it for 50 ms, undoes the freeze.
MeProbe ==
  /\ \/ pc = "requeried"
     \/ pc = "passed" /\ ~fails /\ op = "load"
  /\ \/ (me = None \/ ~me_probe) /\ Goto("frozen") /\ UNCHANGED <<threads, tracked>>
     \/ me # None /\ me_probe /\ Undo("retry")
  /\ UNCHANGED <<op, tries, todo, target, fails, game_tids, probe_fd, me_probe>>

MsProbeReapFirst ==
  /\ pc = "passed" /\ ~fails
  /\ op = "menu"
  /\ IF fat = None THEN Goto("frozen") /\ UNCHANGED probe_fd
                   ELSE Goto("reap") /\ probe_fd' = "pending"
  /\ UNCHANGED <<threads, op, tries, todo, target, fails, tracked, game_tids, me_probe>>

\* ms_probe_after_freeze: an open queued to the I/O thread; it passes when the
\* FAT lock is free within 100 ms, else the freeze is undone and the fd reaped.
MsProbe ==
  /\ pc = "passed" /\ ~fails
  /\ op = "menu"
  /\ \/ fat = None /\ Goto("frozen") /\ UNCHANGED <<threads, tracked, probe_fd>>
     \/ fat # None /\ Undo("reap") /\ probe_fd' = "pending"
     \/ Undo("reap") /\ UNCHANGED probe_fd             \* could not be queued
  /\ UNCHANGED <<op, tries, todo, target, fails, game_tids, me_probe>>

\* The I/O thread completes the parked open once the lock is free.
ProbeCompletes ==
  /\ probe_fd = "pending"
  /\ fat = None
  /\ probe_fd' = "done"
  /\ UNCHANGED <<threads, pc, op, tries, todo, target, fails, tracked, game_tids, me_probe>>

\* ms_probe_reap waits for it and closes the fd.
Reap ==
  /\ pc = "reap"
  /\ probe_fd # "pending"
  /\ probe_fd' = "none"
  /\ Goto("retry")
  /\ UNCHANGED <<threads, op, tries, todo, target, fails, tracked, game_tids, me_probe>>

\* resume_nongame_threads, for the suspend handshake or a prompt.
ResumeNonGame ==
  /\ pc = "frozen"
  /\ op # "menu"
  /\ Resume(tracked \ game_tids)
  /\ Goto("handshake")
  /\ UNCHANGED <<state, me, fat, busy, op, tries, todo, target, fails, tracked,
                 game_tids, probe_fd, me_probe>>

\* The browser closes, the operation ends or aborts.
ResumeGame ==
  /\ pc = "handshake" \/ pc = "frozen"
  /\ Undo("idle")
  /\ UNCHANGED <<op, tries, todo, target, fails, game_tids, probe_fd, me_probe>>

MenuStep == BeginMenu \/ BeginOp \/ VolmemDone \/ Attempt \/ ListThreads
              \/ (\E t \in User : Look(t)) \/ SuspendTarget \/ PassDone \/ PassFailed
              \/ Requery \/ MeProbe \/ MsProbe \/ Reap \/ ResumeNonGame \/ ResumeGame

Next == ThreadStep \/ MenuStep \/ ProbeCompletes

Spec == Init /\ [][Next]_vars

\* The menu thread is scheduled (it runs at a high priority); a waiting thread
\* wakes, a running one that comes back to its FAT lock releases it, and the
\* I/O thread finishes a queued open whenever the lock is free.
Fairness ==
  /\ WF_vars(MenuStep /\ pc # "idle")
  /\ \A t \in Threads : WF_vars(Wake(t) /\ UNCHANGED <<menu, me_probe>>)
  /\ \A t \in Threads : SF_vars(DropFat(t) /\ UNCHANGED <<menu, me_probe>>)
  /\ SF_vars(ProbeCompletes)

FairSpec == Spec /\ Fairness

-----------------------------------------------------------------------------
(* Properties. *)

Stopped(t) == state[t] = "dormant" \/ by[t] # "none"

\* "0 = all frozen": from a committed freeze until the game is resumed no thread
\* of the game can run, through the retries, the threads that end or are parked
\* during the pass, and the resume of the others for the suspend handshake.
GameStopped == pc \in {"frozen", "handshake"} => \A t \in Game : Stopped(t)

\* A save or load never goes on with the ME RPC mutex in the hands of a frozen
\* thread (the descent to sleep would block on it), where the mutex was found.
NoFrozenMutexHolder ==
  pc \in {"frozen", "handshake"} /\ op # "menu" /\ me_probe /\ me # None
    => by[me] = "none"

\* A SAVE is frozen at a point where no driver vetoes the suspend, and as the
\* game cannot begin a new read, none vetoes it later.
SaveIsQuiescent ==
  pc \in {"frozen", "handshake"} /\ op = "save" => ~busy

\* The browser uses the card only when no frozen thread holds its FAT lock.
BrowserCardFree ==
  pc = "frozen" /\ op = "menu" /\ fat # None => by[fat] = "none"

\* Every way out, the failed attempts included, resumes all that was suspended.
ResumeIsComplete ==
  pc \in {"idle", "retry", "reap"} => \A t \in Threads : by[t] # "plugin"

\* "game-parked threads stay parked": the plugin never resumes a thread the game
\* had suspended itself.
ParkedStaysParked == pc' # pc => \A t \in Threads : by[t] = "game" => by'[t] = "game"

\* Opening the browser, a save and a load come to a freeze or give up; they do
\* not wait for ever on a thread, nor on the parked probe of the card.
FreezeReturns == pc # "idle" ~> pc \in {"idle", "frozen"}

\* A committed freeze stands at a point its operation can use: the handshake with the ME,
\* the native suspend of a SAVE and the browser's card accesses all go through.
PointIsUsable == NoFrozenMutexHolder /\ SaveIsQuiescent /\ BrowserCardFree

\* The plugin resumes all it has suspended, and nothing else.
ResumesItsOwn == [][ResumeIsComplete' /\ ParkedStaysParked]_vars
=============================================================================
