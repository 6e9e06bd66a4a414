-------------------------- MODULE ThreadFreezeProofs --------------------------
(***************************************************************************)
(* Proofs about ThreadFreeze, for any set of threads and any number of     *)
(* attempts.  What a freeze gives back does not depend on the game; that   *)
(* it stops the game rests on the game not starting threads meanwhile.     *)
(***************************************************************************)
EXTENDS ThreadFreeze, TLAPS

-----------------------------------------------------------------------------
(* Types *)

TypeInv == TypeOK /\ (pc = "suspend" => target \in User)

LEMMA InitTypes == Init => TypeInv
<1> SUFFICES ASSUME Init PROVE TypeInv
  OBVIOUS
<1>1. \A t \in Threads : state[t] \in {"ready", "waiting", "dormant"}
  BY DEF Init
<1>2. state \in [Threads -> {"ready", "waiting", "dormant"}]
  BY <1>1 DEF Init
<1>3. by \in [Threads -> {"none", "game", "plugin"}]
  BY DEF Init
<1>4. tries \in 0 .. MaxTries
  BY ThreadsAssumption DEF Init
<1>5. pc \in Points /\ pc # "suspend"
  BY DEF Init, Points
<1> QED
  BY <1>2, <1>3, <1>4, <1>5 DEF Init, TypeInv, TypeOK

\* A step of a thread of the system.
LEMMA ThreadTypes == TypeInv /\ ThreadStep => TypeInv'
<1> SUFFICES ASSUME TypeInv, ThreadStep PROVE TypeInv'
  OBVIOUS
<1>1. UNCHANGED <<menu, me_probe>>
  BY DEF ThreadStep
<1>2. state' \in [Threads -> {"ready", "waiting", "dormant"}]
  BY DEF ThreadStep, TypeInv, TypeOK, Wait, Wake, Exit, Start, Park, Unpark, TakeMe, DropMe,
         TakeFat, DropFat, StartRead, ReadDone, SetState
<1>3. by' \in [Threads -> {"none", "game", "plugin"}]
  BY DEF ThreadStep, TypeInv, TypeOK, Wait, Wake, Exit, Start, Park, Unpark, TakeMe, DropMe,
         TakeFat, DropFat, StartRead, ReadDone
<1>4. me' \in Threads \cup {None} /\ fat' \in Threads \cup {None} /\ busy' \in BOOLEAN
  BY DEF ThreadStep, TypeInv, TypeOK, Threads, User, Wait, Wake, Exit, Start, Park, Unpark,
         TakeMe, DropMe, TakeFat, DropFat, StartRead, ReadDone
<1> QED
  BY <1>1, <1>2, <1>3, <1>4 DEF TypeInv, TypeOK, menu

LEMMA ResumeTypes ==
  ASSUME TypeInv, NEW T, Resume(T)
  PROVE  by' \in [Threads -> {"none", "game", "plugin"}]
BY DEF TypeInv, TypeOK, Resume

\* A step of the menu thread.
LEMMA MenuTypes == TypeInv /\ MenuStep => TypeInv'
<1> SUFFICES ASSUME TypeInv, MenuStep PROVE TypeInv'
  OBVIOUS
<1> USE DEF TypeInv, TypeOK, Points, Goto, threads
<1>1. CASE BeginMenu
  BY <1>1, ThreadsAssumption DEF BeginMenu
<1>2. CASE BeginOp
  BY <1>2, ThreadsAssumption DEF BeginOp
<1>3. CASE VolmemDone
  BY <1>3 DEF VolmemDone
<1>4. CASE Attempt
  BY <1>4, ThreadsAssumption DEF Attempt
<1>5. CASE ListThreads
  BY <1>5 DEF ListThreads, Threads
<1>6. CASE \E t \in User : Look(t)
  BY <1>6 DEF Look
<1>7. CASE SuspendTarget
  BY <1>7 DEF SuspendTarget
<1>8. CASE PassDone
  BY <1>8 DEF PassDone
<1>9. CASE PassFailed
  BY <1>9, ResumeTypes DEF PassFailed, Undo, ResumeTracked
<1>10. CASE Requery
  BY <1>10, ResumeTypes DEF Requery, Undo, ResumeTracked
<1>11. CASE MeProbe
  BY <1>11, ResumeTypes DEF MeProbe, Undo, ResumeTracked
<1>12. CASE MsProbe
  BY <1>12, ResumeTypes DEF MsProbe, Undo, ResumeTracked
<1>13. CASE Reap
  BY <1>13 DEF Reap
<1>14. CASE ResumeNonGame
  BY <1>14, ResumeTypes DEF ResumeNonGame
<1>15. CASE ResumeGame
  BY <1>15, ResumeTypes DEF ResumeGame, Undo, ResumeTracked
<1> QED
  BY <1>1, <1>2, <1>3, <1>4, <1>5, <1>6, <1>7, <1>8, <1>9, <1>10, <1>11, <1>12, <1>13, <1>14,
     <1>15 DEF MenuStep

LEMMA TypesStep == TypeInv /\ [Next]_vars => TypeInv'
<1> SUFFICES ASSUME TypeInv, [Next]_vars PROVE TypeInv'
  OBVIOUS
<1>1. CASE ProbeCompletes
  BY <1>1 DEF ProbeCompletes, TypeInv, TypeOK, threads
<1>2. CASE UNCHANGED vars
  BY <1>2 DEF vars, TypeInv, TypeOK
<1> QED
  BY <1>1, <1>2, ThreadTypes, MenuTypes DEF Next

\* The menu thread's tables and points stay what they are: a thread that is about to be
\* suspended is one of the list (suspend_escalating, fatsave.c:563).
THEOREM FreezeTypes == Spec => []TypeOK
<1>1. TypeInv => TypeOK
  BY DEF TypeInv
<1> QED
  BY <1>1, InitTypes, TypesStep, PTL DEF Spec

-----------------------------------------------------------------------------
(* What is suspended is known, and given back *)

\* Points between the listing of the threads and the resume, and those of them at which
\* nothing that was suspended has been resumed yet.
Holding == {"pass", "suspend", "passed", "requeried", "frozen"}
Working == Holding \cup {"handshake"}

\* suspended_ids names every thread the plugin suspended; it is empty when no freeze is under
\* way; and until the first resume it names only such threads.
OursInv ==
  /\ \A t \in Threads : by[t] = "plugin" => t \in tracked
  /\ pc \notin Working => tracked = {}
  /\ pc \in Holding => \A t \in tracked : by[t] = "plugin"

\* The threads of the system neither suspend for the plugin nor undo what it suspended.
LEMMA ThreadsLeaveOurs ==
  ASSUME TypeInv, ThreadStep, NEW t \in Threads
  PROVE  by'[t] = "plugin" <=> by[t] = "plugin"
BY DEF ThreadStep, TypeInv, TypeOK, Wait, Wake, Exit, Start, Park, Unpark, TakeMe, DropMe,
       TakeFat, DropFat, StartRead, ReadDone

LEMMA InitOurs == Init => OursInv
BY DEF Init, OursInv, Working, Holding

\* resume_game_threads resumes every thread of the table, which names all of ours.
LEMMA UndoOurs ==
  ASSUME TypeInv, OursInv, NEW l \in {"retry", "reap", "idle"}, Undo(l)
  PROVE  OursInv'
<1>1. tracked' = {} /\ pc' = l
  BY DEF Undo, Goto
<1>2. \A t \in Threads : by'[t] = IF t \in tracked THEN "none" ELSE by[t]
  BY DEF Undo, ResumeTracked, Resume
<1> QED
  BY <1>1, <1>2 DEF OursInv, Working, Holding

LEMMA OursStep == TypeInv /\ OursInv /\ [Next]_vars => OursInv'
<1> SUFFICES ASSUME TypeInv, OursInv, [Next]_vars PROVE OursInv'
  OBVIOUS
<1> USE DEF Goto, threads
<1>1. CASE ThreadStep
  <2>1. pc' = pc /\ tracked' = tracked
    BY <1>1 DEF ThreadStep, menu
  <2>2. tracked \subseteq Threads
    BY DEF TypeInv, TypeOK, Threads
  <2> QED
    BY <1>1, <2>1, <2>2, ThreadsLeaveOurs DEF OursInv
<1>2. CASE BeginMenu \/ BeginOp \/ VolmemDone \/ Attempt \/ Reap
  BY <1>2 DEF BeginMenu, BeginOp, VolmemDone, Attempt, Reap, OursInv, Working, Holding
<1>3. CASE ListThreads
  BY <1>3 DEF ListThreads, OursInv, Working, Holding
<1>4. CASE (\E t \in User : Look(t)) \/ PassDone
  BY <1>4 DEF Look, PassDone, OursInv, Working, Holding
<1>5. CASE SuspendTarget
  <2>1. target \in Threads /\ tracked \subseteq Threads
    BY <1>5 DEF SuspendTarget, TypeInv, TypeOK, Threads
  <2>2. pc = "suspend" /\ pc' = "pass"
    BY <1>5 DEF SuspendTarget
  <2>3. CASE state[target] # "dormant" /\ by[target] = "none"
    BY <1>5, <2>1, <2>2, <2>3 DEF SuspendTarget, TypeInv, TypeOK, OursInv, Working, Holding
  <2>4. CASE ~(state[target] # "dormant" /\ by[target] = "none")
    BY <1>5, <2>2, <2>4 DEF SuspendTarget, OursInv, Working, Holding
  <2> QED
    BY <2>3, <2>4
<1>6. CASE PassFailed \/ ResumeGame
  BY <1>6, UndoOurs DEF PassFailed, ResumeGame
<1>7. CASE Requery
  <2>1. CASE Undo("retry")
    BY <2>1, UndoOurs
  <2>2. CASE UNCHANGED <<by, tracked>> /\ pc' = "requeried"
    BY <1>7, <2>2 DEF Requery, OursInv, Working, Holding
  <2> QED
    BY <1>7, <2>1, <2>2 DEF Requery
<1>8. CASE MeProbe
  <2>1. CASE Undo("retry")
    BY <2>1, UndoOurs
  <2>2. CASE UNCHANGED <<by, tracked>> /\ pc' = "frozen"
    BY <1>8, <2>2 DEF MeProbe, OursInv, Working, Holding
  <2> QED
    BY <1>8, <2>1, <2>2 DEF MeProbe
<1>9. CASE MsProbe
  <2>1. CASE Undo("reap")
    BY <2>1, UndoOurs
  <2>2. CASE UNCHANGED <<by, tracked>> /\ pc' = "frozen"
    BY <1>9, <2>2 DEF MsProbe, OursInv, Working, Holding
  <2> QED
    BY <1>9, <2>1, <2>2 DEF MsProbe
<1>10. CASE ResumeNonGame
  <2>1. \A t \in Threads : by'[t] = "plugin" => by[t] = "plugin"
    BY <1>10 DEF ResumeNonGame, Resume
  <2> QED
    BY <1>10, <2>1 DEF ResumeNonGame, OursInv, Working, Holding
<1>11. CASE ProbeCompletes \/ UNCHANGED vars
  BY <1>11 DEF ProbeCompletes, vars, OursInv
<1> QED
  BY <1>1, <1>2, <1>3, <1>4, <1>5, <1>6, <1>7, <1>8, <1>9, <1>10, <1>11 DEF Next, MenuStep

\* Every way out of a freeze, the failed attempts included, resumes all that the plugin
\* suspended (resume_game_threads at fatsave.c's and menu.c's every return).
THEOREM ResumeReturnsAll == Spec => []ResumeIsComplete
<1>1. OursInv => ResumeIsComplete
  BY DEF OursInv, ResumeIsComplete, Working, Holding
<1> QED
  BY <1>1, InitTypes, InitOurs, TypesStep, OursStep, PTL DEF Spec

-----------------------------------------------------------------------------
(* The game stands still *)

\* Suspended by the plugin, or ended.
Done(t) == state[t] = "dormant" \/ by[t] = "plugin"
Stands  == {"requeried", "frozen", "handshake"}

\* A game thread the operation did not identify does not run.
KnownInv == op # "menu" /\ pc # "idle" => \A t \in Game \ game_tids : state[t] = "dormant"

\* During the pass a game thread is still to be looked at, about to be suspended, or done,
\* unless one did not freeze; a pass without failure has done them all.
PassInv ==
  /\ pc \in {"pass", "suspend"} /\ ~fails =>
       \A t \in Game : Done(t) \/ t \in todo \/ (pc = "suspend" /\ t = target)
  /\ pc = "passed" /\ ~fails => \A t \in Game : Done(t)

\* From then on they stay done, also when the others run for the handshake.
StandInv ==
  /\ pc \in Stands => \A t \in Game : Done(t)
  /\ pc = "requeried" => op = "save"
  /\ pc \in Stands /\ op = "save" => ~busy
  /\ pc = "handshake" => op # "menu" /\ \A t \in tracked : by[t] # "game"

StopInv == KnownInv /\ PassInv /\ StandInv

LEMMA InitStop == Init => StopInv
BY DEF Init, StopInv, KnownInv, PassInv, StandInv, Stands

\* What is done stays done while the threads of the system go on.
LEMMA DoneStays ==
  ASSUME TypeInv, ThreadStep, ~MaySpawn, pc # "idle", NEW t \in Threads
  PROVE  /\ state[t] = "dormant" => state'[t] = "dormant"
         /\ Done(t) => Done(t)'
<1>1. state[t] = "dormant" => state'[t] = "dormant"
  BY DEF ThreadStep, TypeInv, TypeOK, Threads, User, Wait, Wake, Exit, Start, Park, Unpark, TakeMe,
         DropMe, TakeFat, DropFat, StartRead, ReadDone, SetState, CanRun
<1> QED
  BY <1>1, ThreadsLeaveOurs DEF Done

\* With all of the game done no thread is parked and no read begins.
LEMMA NobodyActs ==
  ASSUME TypeInv, ThreadStep, \A t \in Game : Done(t)
  PROVE  /\ busy' => busy
         /\ \A t \in Threads : by'[t] = "game" => by[t] = "game"
<1>1. \A a \in Game : ~CanRun(a)
  BY DEF Done, CanRun
<1> QED
  BY <1>1 DEF ThreadStep, TypeInv, TypeOK, Wait, Wake, Exit, Start, Park, Unpark, TakeMe,
              DropMe, TakeFat, DropFat, StartRead, ReadDone

LEMMA StopThreads ==
  ASSUME TypeInv, StopInv, ThreadStep, ~MaySpawn
  PROVE  StopInv'
<1>1. UNCHANGED <<pc, op, todo, target, fails, tracked, game_tids>>
  BY DEF ThreadStep, menu
<1>2. Game \subseteq Threads /\ tracked \subseteq Threads
  BY DEF Threads, User, TypeInv, TypeOK
<1>3. pc # "idle" => \A t \in Game : Done(t) => Done(t)'
  BY <1>2, DoneStays
<1>4. KnownInv'
  BY <1>1, <1>2, DoneStays DEF StopInv, KnownInv
<1>5. PassInv'
  BY <1>1, <1>3 DEF StopInv, PassInv
<1>6. StandInv'
  BY <1>1, <1>2, <1>3, NobodyActs DEF StopInv, StandInv, Stands
<1> QED
  BY <1>4, <1>5, <1>6 DEF StopInv

\* An undone freeze owes nothing but what was identified.
LEMMA UndoStop ==
  ASSUME StopInv, NEW l \in {"retry", "reap", "idle"}, Undo(l), pc # "idle", UNCHANGED <<op, game_tids>>
  PROVE  StopInv'
BY DEF Undo, Goto, StopInv, KnownInv, PassInv, StandInv, Stands

LEMMA StopMenu ==
  ASSUME TypeInv, OursInv, StopInv, MenuStep
  PROVE  StopInv'
<1> USE DEF Goto, threads, Stands
<1>1. CASE BeginMenu
  BY <1>1 DEF BeginMenu, StopInv, KnownInv, PassInv, StandInv
<1>2. CASE BeginOp
  BY <1>2 DEF BeginOp, Dormant, User, StopInv, KnownInv, PassInv, StandInv
<1>3. CASE VolmemDone \/ Attempt \/ Reap
  BY <1>3 DEF VolmemDone, Attempt, Reap, StopInv, KnownInv, PassInv, StandInv
<1>4. CASE ListThreads
  <2>1. KnownInv'
    BY <1>4 DEF ListThreads, StopInv, KnownInv
  <2>2. PassInv'
    BY <1>4 DEF ListThreads, PassInv, Dormant, User, Done
  <2>3. StandInv'
    BY <1>4 DEF ListThreads, StandInv
  <2> QED
    BY <2>1, <2>2, <2>3 DEF StopInv
<1>5. ASSUME NEW u \in User, Look(u) PROVE StopInv'
  <2>1. KnownInv'
    BY <1>5 DEF Look, StopInv, KnownInv
  <2>2. PassInv'
    BY <1>5 DEF Look, StopInv, PassInv, Done
  <2>3. StandInv'
    BY <1>5 DEF Look, StandInv
  <2> QED
    BY <2>1, <2>2, <2>3 DEF StopInv
<1>6. CASE SuspendTarget
  <2>1. KnownInv'
    BY <1>6 DEF SuspendTarget, StopInv, KnownInv
  <2>2. PassInv'
    <3>1. CASE state[target] # "dormant" /\ by[target] = "none"
      <4>1. \A t \in Game : by'[t] = IF t = target THEN "plugin" ELSE by[t]
        BY <1>6, <3>1 DEF SuspendTarget, TypeInv, TypeOK, Threads, User
      <4> QED
        BY <1>6, <3>1, <4>1 DEF SuspendTarget, StopInv, PassInv, Done
    <3>2. CASE ~(state[target] # "dormant" /\ by[target] = "none")
      BY <1>6, <3>2 DEF SuspendTarget, PassInv
    <3> QED
      BY <3>1, <3>2
  <2>3. StandInv'
    BY <1>6 DEF SuspendTarget, StandInv
  <2> QED
    BY <2>1, <2>2, <2>3 DEF StopInv
<1>7. CASE PassDone
  BY <1>7 DEF PassDone, StopInv, KnownInv, PassInv, StandInv, Done
<1>8. CASE PassFailed \/ ResumeGame
  BY <1>8, UndoStop DEF PassFailed, ResumeGame
<1>9. CASE Requery
  <2>1. CASE Undo("retry")
    BY <1>9, <2>1, UndoStop DEF Requery
  <2>2. CASE ~busy /\ pc' = "requeried" /\ UNCHANGED <<threads, tracked>>
    BY <1>9, <2>2 DEF Requery, StopInv, KnownInv, PassInv, StandInv, Done
  <2> QED
    BY <1>9, <2>1, <2>2 DEF Requery
<1>10. CASE MeProbe
  <2>1. CASE Undo("retry")
    BY <1>10, <2>1, UndoStop DEF MeProbe
  <2>2. CASE pc' = "frozen" /\ UNCHANGED <<threads, tracked>>
    BY <1>10, <2>2 DEF MeProbe, StopInv, KnownInv, PassInv, StandInv, Done
  <2> QED
    BY <1>10, <2>1, <2>2 DEF MeProbe
<1>11. CASE MsProbe
  <2>1. CASE Undo("reap")
    BY <1>11, <2>1, UndoStop DEF MsProbe
  <2>2. CASE pc' = "frozen" /\ UNCHANGED <<threads, tracked>>
    BY <1>11, <2>2 DEF MsProbe, StopInv, KnownInv, PassInv, StandInv, Done
  <2> QED
    BY <1>11, <2>1, <2>2 DEF MsProbe
<1>12. CASE ResumeNonGame
  <2>1. \A t \in Threads : by'[t] = IF t \in tracked \ game_tids THEN "none" ELSE by[t]
    BY <1>12 DEF ResumeNonGame, Resume
  <2>2. \A t \in Game : Done(t)'
    BY <1>12, <2>1 DEF ResumeNonGame, StopInv, KnownInv, StandInv, Done, Threads, User
  <2>3. \A t \in tracked : by'[t] # "game"
    BY <1>12, <2>1 DEF ResumeNonGame, OursInv, Holding, TypeInv, TypeOK, Threads
  <2> QED
    BY <1>12, <2>2, <2>3 DEF ResumeNonGame, StopInv, KnownInv, PassInv, StandInv
<1> QED
  BY <1>1, <1>2, <1>3, <1>4, <1>5, <1>6, <1>7, <1>8, <1>9, <1>10, <1>11, <1>12 DEF MenuStep

LEMMA StopStep ==
  ASSUME ~MaySpawn
  PROVE  TypeInv /\ OursInv /\ StopInv /\ [Next]_vars => StopInv'
<1> SUFFICES ASSUME TypeInv, OursInv, StopInv, [Next]_vars PROVE StopInv'
  OBVIOUS
<1>1. CASE ProbeCompletes \/ UNCHANGED vars
  BY <1>1 DEF ProbeCompletes, threads, vars, StopInv, KnownInv, PassInv, StandInv, Done
<1> QED
  BY <1>1, StopThreads, StopMenu DEF Next

\* A committed freeze stops every thread of the game, through retries, threads that end or
\* are parked during the pass, and the resume of the others (suspend_escalating, fatsave.c:563).
THEOREM GameStaysStopped ==
  ASSUME ~MaySpawn
  PROVE  Spec => []GameStopped
<1>1. StopInv => GameStopped
  BY DEF StopInv, StandInv, Stands, Done, GameStopped, Stopped
<1>2. TypeInv /\ OursInv /\ StopInv /\ [Next]_vars => StopInv'
  BY StopStep
<1> QED
  BY <1>1, <1>2, InitTypes, InitOurs, InitStop, TypesStep, OursStep, PTL DEF Spec

-----------------------------------------------------------------------------
(* The point is usable *)

\* The owner of a lock that was free at the probe took it while it could run, and is not
\* suspended while it owns it.
LockInv == NoFrozenMutexHolder /\ BrowserCardFree /\ (pc = "requeried" => op = "save")

LEMMA InitLock == Init => LockInv
BY DEF Init, LockInv, NoFrozenMutexHolder, BrowserCardFree

\* A thread of the system takes a lock only while it runs, and is not parked with one.
LEMMA OwnersRun ==
  ASSUME TypeInv, ThreadStep
  PROVE  /\ me' # None /\ (me = None \/ by[me] = "none") => by'[me'] = "none"
         /\ fat' # None /\ (fat = None \/ by[fat] = "none") => by'[fat'] = "none"
<1>1. CASE \E t \in Threads : Park(t)
  BY <1>1 DEF Park, TypeInv, TypeOK
<1>2. CASE \E t \in Threads : Unpark(t)
  BY <1>2 DEF Unpark, TypeInv, TypeOK
<1>3. CASE by' = by
  <2>1. me' = me \/ me' = None \/ CanRun(me')
    BY <1>3 DEF ThreadStep, Threads, User, Wait, Wake, Exit, Start, Park, Unpark, TakeMe, DropMe,
                TakeFat, DropFat, StartRead, ReadDone
  <2>2. fat' = fat \/ fat' = None \/ CanRun(fat')
    BY <1>3 DEF ThreadStep, Threads, User, Wait, Wake, Exit, Start, Park, Unpark, TakeMe, DropMe,
                TakeFat, DropFat, StartRead, ReadDone
  <2> QED
    BY <1>3, <2>1, <2>2 DEF CanRun
<1> QED
  BY <1>1, <1>2, <1>3 DEF ThreadStep, Threads, User, Wait, Wake, Exit, Start, TakeMe, DropMe,
                          TakeFat, DropFat, StartRead, ReadDone

LEMMA LockStep == TypeInv /\ LockInv /\ [Next]_vars => LockInv'
<1> SUFFICES ASSUME TypeInv, LockInv, [Next]_vars PROVE LockInv'
  OBVIOUS
<1> USE DEF Goto, threads, LockInv, NoFrozenMutexHolder, BrowserCardFree
<1>1. CASE ThreadStep
  <2>1. UNCHANGED <<pc, op, me_probe>>
    BY <1>1 DEF ThreadStep, menu
  <2>2. NoFrozenMutexHolder'
    BY <1>1, <2>1, OwnersRun
  <2>3. BrowserCardFree'
    BY <1>1, <2>1, OwnersRun
  <2> QED
    BY <2>1, <2>2, <2>3
<1>2. CASE BeginMenu \/ BeginOp \/ VolmemDone \/ Attempt \/ Reap \/ ListThreads
  BY <1>2 DEF BeginMenu, BeginOp, VolmemDone, Attempt, Reap, ListThreads
<1>3. CASE (\E t \in User : Look(t)) \/ PassDone \/ SuspendTarget
  BY <1>3 DEF Look, PassDone, SuspendTarget
<1>4. CASE PassFailed \/ ResumeGame
  BY <1>4 DEF PassFailed, ResumeGame, Undo
<1>5. CASE Requery
  BY <1>5 DEF Requery, Undo
<1>6. CASE MeProbe
  BY <1>6 DEF MeProbe, Undo
<1>7. CASE MsProbe
  BY <1>7 DEF MsProbe, Undo
<1>8. CASE ResumeNonGame
  <2>1. \A t \in Threads : by[t] = "none" => by'[t] = "none"
    BY <1>8 DEF ResumeNonGame, Resume
  <2> QED
    BY <1>8, <2>1 DEF ResumeNonGame, TypeInv, TypeOK
<1>9. CASE ProbeCompletes \/ UNCHANGED vars
  BY <1>9 DEF ProbeCompletes, vars
<1> QED
  BY <1>1, <1>2, <1>3, <1>4, <1>5, <1>6, <1>7, <1>8, <1>9 DEF Next, MenuStep

\* What an operation goes on with is usable: no frozen thread holds the ME's mutex, no driver
\* vetoes the suspend, and the browser finds the card free (the probes behind each
\* suspend_escalating).
THEOREM PointStaysUsable ==
  ASSUME ~MaySpawn
  PROVE  Spec => []PointIsUsable
<1>1. StopInv /\ LockInv => PointIsUsable
  BY DEF StopInv, StandInv, Stands, LockInv, SaveIsQuiescent, PointIsUsable
<1>2. TypeInv /\ OursInv /\ StopInv /\ [Next]_vars => StopInv'
  BY StopStep
<1> QED
  BY <1>1, <1>2, InitTypes, InitOurs, InitStop, InitLock, TypesStep, OursStep, LockStep, PTL
  DEF Spec

-----------------------------------------------------------------------------
(* Parked threads *)

\* A resume of the whole table wakes nobody the game had suspended.
LEMMA UndoParked ==
  ASSUME TypeInv, OursInv, StopInv, pc \in Working, NEW l, Undo(l),
         NEW t \in Threads, by[t] = "game"
  PROVE  by'[t] = "game"
<1>1. t \notin tracked
  BY DEF OursInv, StopInv, StandInv, Working
<1> QED
  BY <1>1 DEF Undo, ResumeTracked, Resume

LEMMA ParkedStep ==
  ASSUME TypeInv, OursInv, StopInv, [Next]_vars
  PROVE  [ParkedStaysParked]_vars
<1> SUFFICES ASSUME pc' # pc, NEW t \in Threads, by[t] = "game" PROVE by'[t] = "game"
  BY DEF ParkedStaysParked
<1> USE DEF Goto, threads, Working, Holding
<1>1. CASE ThreadStep \/ ProbeCompletes \/ UNCHANGED vars
  BY <1>1 DEF ThreadStep, menu, ProbeCompletes, vars
<1>2. CASE BeginMenu \/ BeginOp \/ VolmemDone \/ Attempt \/ Reap \/ ListThreads
  BY <1>2 DEF BeginMenu, BeginOp, VolmemDone, Attempt, Reap, ListThreads
<1>3. CASE (\E u \in User : Look(u)) \/ PassDone
  BY <1>3 DEF Look, PassDone
<1>4. CASE SuspendTarget
  BY <1>4 DEF SuspendTarget, TypeInv, TypeOK
<1>5. CASE PassFailed \/ ResumeGame
  BY <1>5, UndoParked DEF PassFailed, ResumeGame
<1>6. CASE Requery
  BY <1>6, UndoParked DEF Requery
<1>7. CASE MeProbe
  BY <1>7, UndoParked DEF MeProbe
<1>8. CASE MsProbe
  BY <1>8, UndoParked DEF MsProbe
<1>9. CASE ResumeNonGame
  <2>1. t \notin tracked
    BY <1>9 DEF ResumeNonGame, OursInv
  <2> QED
    BY <1>9, <2>1 DEF ResumeNonGame, Resume
<1> QED
  BY <1>1, <1>2, <1>3, <1>4, <1>5, <1>6, <1>7, <1>8, <1>9 DEF Next, MenuStep

\* The plugin resumes all it has suspended and nothing else: "game-parked threads stay parked"
\* (resume_game_threads and resume_nongame_threads).
THEOREM ResumesOnlyItsOwn ==
  ASSUME ~MaySpawn
  PROVE  Spec => ResumesItsOwn
<1>1. TypeInv /\ OursInv /\ StopInv /\ [Next]_vars => StopInv'
  BY StopStep
<1>2. TypeInv /\ OursInv /\ StopInv /\ [Next]_vars => [ParkedStaysParked]_vars
  BY ParkedStep
<1>3. OursInv => ResumeIsComplete
  BY DEF OursInv, ResumeIsComplete, Working, Holding
<1>4. OursInv' /\ [ParkedStaysParked]_vars => [ResumeIsComplete' /\ ParkedStaysParked]_vars
  BY <1>3 DEF OursInv, ResumeIsComplete, Working, Holding
<1> QED
  BY <1>1, <1>2, <1>4, InitTypes, InitOurs, InitStop, TypesStep, OursStep, PTL
  DEF Spec, ResumesItsOwn
===============================================================================
