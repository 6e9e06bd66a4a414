------------------------------ MODULE MCGameSide -------------------------------
(***************************************************************************)
(* For TLC: the menu thread, and the parts that meet the game from their   *)
(* own threads and from its calls, one at work at a time: they share no    *)
(* state.                                                                  *)
(***************************************************************************)
EXTENDS GammaPass, VideoSkip, PadHooks, CheatDb, CheatThread, FramePace, MCMenuThread,
        OverlayThreads

VARIABLE part

\* a cheat's name is kept whole
Whole(n) == n

W(a, s, v) == [t |-> "write", at |-> a, size |-> s, to |-> v]
\* plain and guarded writes, one address written twice; a guard that skips past the end
Apart == << <<W(1, 1, 1), [t |-> "if", skip |-> 1], W(2, 2, 1)>>,
            <<W(1, 1, 2), W(1, 1, 3), [t |-> "never", skip |-> 2], W(9, 1, 1)>> >>

GameSideInit ==
  /\ part \in {"gamma", "video", "pad", "db", "cheats", "pace", "menu", "overlay"}
  /\ GammaInit  /\ (part # "gamma" => kind = "flip")
  /\ VideoInit  /\ (part # "video" => mode = "capture")
  /\ PadInit
  /\ DbInit     /\ (part # "db" => kept = "")
  /\ ThreadInit /\ (part # "cheats" => chosen = 0 /\ ~flag)
  /\ PaceInit   /\ (part # "pace" => time = 0 /\ limit = 2)
  /\ MenuInit   /\ (part # "menu" => file[RunningGame].skip = Default)
  /\ OverlayInit /\ (part # "overlay" => ~overlay /\ threshold = 0)

\* A second change of the surroundings takes back the first.
TakesBack ==
  changes' # changes /\ changes' = Changes
  => active' /\ gate' = "open" /\ susp' = "no" /\ ~exiting'

GameSideNext ==
  \/ part = "gamma" /\ GammaNext /\ TakesBack
     /\ UNCHANGED <<part, videoVars, padVars, dbVars, threadVars, paceVars, menuVars, overlayVars>>
  \/ part = "video" /\ VideoNext
     /\ UNCHANGED <<part, gammaVars, padVars, dbVars, threadVars, paceVars, menuVars, overlayVars>>
  \/ part = "pad" /\ PadNext
     /\ UNCHANGED <<part, gammaVars, videoVars, dbVars, threadVars, paceVars, menuVars, overlayVars>>
  \/ part = "db" /\ DbNext
     /\ UNCHANGED <<part, gammaVars, videoVars, padVars, threadVars, paceVars, menuVars, overlayVars>>
  \/ part = "cheats" /\ ThreadNext
     /\ UNCHANGED <<part, gammaVars, videoVars, padVars, dbVars, paceVars, menuVars, overlayVars>>
  \/ part = "pace" /\ PaceNext
     /\ UNCHANGED <<part, gammaVars, videoVars, padVars, dbVars, threadVars, menuVars, overlayVars>>
  \/ part = "menu" /\ MenuNext
     /\ UNCHANGED <<part, gammaVars, videoVars, padVars, dbVars, threadVars, paceVars, overlayVars>>
  \/ part = "overlay" /\ OverlayNext
     /\ UNCHANGED <<part, gammaVars, videoVars, padVars, dbVars, threadVars, paceVars, menuVars>>

\* The types of the part at work; the others keep their initial states.
GameSideTypesOK ==
  CASE part = "gamma" -> GammaTypeOK [] part = "video"  -> VideoTypeOK  [] part = "pad"  -> PadTypeOK
    [] part = "db"    -> DbTypeOK    [] part = "cheats" -> ThreadTypeOK [] part = "pace" -> PaceTypeOK
    [] part = "menu"  -> MenuTypeOK  [] part = "overlay" -> OverlayTypeOK
===============================================================================
