--------------------------- MODULE ScreenTuningProofs -------------------------
(***************************************************************************)
(* Proofs about the correction of what the screen shows: that a PS1 game's *)
(* display is never stale, half written or copied from itself, for any     *)
(* number of ticks the shadow waits for; and that a frame of a PSP game is *)
(* curved once, by a list that one party at a time builds.                 *)
(***************************************************************************)
EXTENDS PopsShadow, GammaPass, TLAPS

\* Between the two stores of st_pops_restore.
Returning == {"stand", "leave", "yield"}
Copying   == {"both", "back0", "back1"}

\* The worker redirects, copies and hands back only around a latched source.
SourceWhere ==
  /\ redirected \/ worker \in Copying => dbState = 3
  /\ dbState = 3 \/ redirected \/ worker \in Returning \cup Copying => src # NoBuffer

\* Whoever clears the flag still has the hand-back before it.
FlagWhere == worker \in {"none"} \cup Returning => ~redirected

\* A resume is of a suspend, and an ended plugin is not suspended.
PowerWhere == (resuming => suspended) /\ ~(suspended /\ quit)

\* Without the flag no shadow is shown, but in a hand-back, a suspend or the exit.
NotRedirected ==
  /\ scanout \in Shadow /\ ~redirected =>
       quit \/ suspended \/ worker \in Returning \/ "copy" \in cut
  /\ suspended /\ resuming /\ scanout \in Shadow => "copy" \in cut
  /\ suspended /\ worker = "both" => "copy" \in cut

\* The shown shadow is the front one, and a tick starts with no buffer waiting.
FrontWhere ==
  /\ ready = NoBuffer /\ redirected /\ scanout \in Shadow => "copy" \in cut
  /\ scanout \in Shadow /\ ~suspended /\ ~quit => front = scanout \/ cut # {}
  /\ worker = "both" => ready = NoBuffer
  /\ worker = "tick" => ready \in {NoBuffer, front} \/ cut # {}
  /\ worker = "back0" => ready # 0 \/ cut # {}
  /\ worker = "back1" => ready # 1 \/ cut # {}

PopsInv ==
  ScanoutIsSound /\ SourceWhere /\ FlagWhere /\ PowerWhere /\ NotRedirected /\ FrontWhere

-----------------------------------------------------------------------------
(* The proof: one step for each action *)

LEMMA PopsTypeStep ==
  ASSUME PopsTypeOK, SourceWhere, [PopsNext]_popsVars
  PROVE  PopsTypeOK'
<1> DEFINE Flags  == /\ {menuUp, hold, flipping, popsMenu, suspended, resuming, quit}
                          \subseteq BOOLEAN
                     /\ redirected \in BOOLEAN /\ {block, isr} \subseteq BOOLEAN
           Others == /\ wanted \in {"off", "hud", "on"} /\ scanout \in Shadow \cup {Pops}
                     /\ src \in Shadow \cup {Pops, NoBuffer}
                     /\ dbState \in {0, 3, 9} /\ stable \in 0 .. Stable
                     /\ front \in Shadow \cup {NoBuffer} /\ ready \in Shadow \cup {NoBuffer}
                     /\ worker \in Places /\ cut \subseteq {"gate", "copy"}
<1>. USE PopsAssumption DEF PopsTypeOK, SourceWhere, Shadow, Pops, NoBuffer, Places, Returning,
                            Copying
<1>1. ASSUME NEW w \in {"off", "hud", "on"}, Choose(w) PROVE PopsTypeOK'
  BY <1>1 DEF Choose, gates, power, display, setup
<1>2. CASE Menu
  BY <1>2 DEF Menu, gates, power, display, setup
<1>3. CASE Dialog
  BY <1>3 DEF Dialog, gates, power, display, setup
<1>4. CASE Flip
  BY <1>4 DEF Flip, gates, power, display, setup
<1>5. CASE FlipsIdle
  <2>1. Flags'
    BY <1>5 DEF FlipsIdle, gates, power, display, setup
  <2>2. Others'
    BY <1>5 DEF FlipsIdle, gates, power, display, setup
  <2>. QED
    BY <2>1, <2>2
<1>6. CASE WorkerStarts
  BY <1>6 DEF WorkerStarts, gates, power, display, setup
<1>7. CASE Suspend
  BY <1>7 DEF Suspend, Restored, gates, power, display, setup
<1>8. CASE PowerResumes
  BY <1>8 DEF PowerResumes, gates, power, display, setup
<1>9. CASE Stop
  <2>1. Flags'
    BY <1>9 DEF Stop, Restored, gates, power, display, setup
  <2>2. Others'
    BY <1>9 DEF Stop, Restored, gates, power, display, setup
  <2>. QED
    BY <2>1, <2>2
<1>10. CASE Free
  <2>1. Flags'
    BY <1>10 DEF Free, gates, power, display, setup
  <2>2. Others'
    BY <1>10 DEF Free, gates, power, display, setup
  <2>. QED
    BY <2>1, <2>2
<1>11. CASE Vblank
  <2>1. Flags'
    BY <1>11 DEF Vblank, MayFlip, gates, power, display, setup
  <2>2. Others'
    <3>1. scanout' \in Shadow \cup {Pops} /\ front' \in Shadow \cup {NoBuffer}
      BY <1>11 DEF Vblank, MayFlip
    <3>2. worker' \in Places /\ cut' \subseteq {"gate", "copy"}
      BY <1>11 DEF Vblank
    <3>3. UNCHANGED <<wanted, src, dbState, stable, ready>>
      BY <1>11 DEF Vblank, gates, setup
    <3>. QED
      BY <3>1, <3>2, <3>3
  <2>. QED
    BY <2>1, <2>2
<1>12. CASE End
  <2>1. Flags'
    BY <1>12 DEF End, gates, power, display, setup
  <2>2. Others'
    BY <1>12 DEF End, gates, power, display, setup
  <2>. QED
    BY <2>1, <2>2
<1>13. CASE Reacquire
  <2>1. Flags'
    BY <1>13 DEF Reacquire, gates, power, display, setup
  <2>2. Others'
    BY <1>13 DEF Reacquire, gates, power, display, setup
  <2>. QED
    BY <2>1, <2>2
<1>14. CASE Pace
  BY <1>14 DEF Pace, gates, power, display, setup
<1>15. CASE TimerEnds
  BY <1>15 DEF TimerEnds, gates, power, display, setup
<1>16. CASE SkipTick
  BY <1>16 DEF SkipTick, gates, power, display, setup
<1>17. CASE TickStands
  BY <1>17 DEF TickStands, StandDown, gates, power, display, setup
<1>18. CASE TickYields
  BY <1>18 DEF TickYields, StandDown, gates, power, display, setup
<1>19. CASE HandBack
  BY <1>19 DEF HandBack, gates, power, display, setup
<1>20. CASE TickCopies
  BY <1>20 DEF TickCopies, Engaged, StandDown, Back, gates, power, display, setup
<1>21. CASE BothCopied
  BY <1>21 DEF BothCopied, gates, power, display, setup
<1>22. CASE BackCopied
  BY <1>22 DEF BackCopied, gates, power, display, setup
<1>23. CASE TickWaits
  <2>1. stable' \in 0 .. Stable
    <3>1. CASE dbState = 9
      BY <1>23, <3>1 DEF TickWaits
    <3>2. CASE dbState = 0
      BY <1>23, <3>2 DEF TickWaits
    <3>. QED
      BY <1>23, <3>1, <3>2 DEF TickWaits
  <2>. QED
    BY <1>23, <2>1 DEF TickWaits, Engaged, StandDown, gates, power, display
<1>24. CASE TickLatches
  BY <1>24 DEF TickLatches, Engaged, StandDown, gates, power, display, setup
<1>25. CASE UNCHANGED popsVars
  BY <1>25 DEF popsVars, gates, power, display, setup
<1>. QED
  BY <1>1, <1>2, <1>3, <1>4, <1>5, <1>6, <1>7, <1>8, <1>9, <1>10, <1>11, <1>12,
     <1>13, <1>14, <1>15, <1>16, <1>17, <1>18, <1>19, <1>20, <1>21, <1>22, <1>23, <1>24, <1>25
     DEF PopsNext, Environment, Worker

LEMMA PopsStep ==
  ASSUME PopsInv, [PopsNext]_popsVars
  PROVE  (/\ SourceWhere /\ FlagWhere /\ PowerWhere /\ NotRedirected /\ FrontWhere
          /\ ShadowHasWorker /\ PlayIsWhole /\ SourceIsPops)'
<1>. USE DEF PopsInv, ScanoutIsSound, SourceWhere, FlagWhere, PowerWhere, NotRedirected, FrontWhere,
             ShadowHasWorker, PlayIsWhole, SourceIsPops, PopsTypeOK, Writing,
             Shadow, Pops, NoBuffer, Places, Returning, Copying
<1>1. ASSUME NEW w \in {"off", "hud", "on"}, Choose(w) 
      PROVE  (/\ SourceWhere /\ FlagWhere /\ PowerWhere
               /\ NotRedirected /\ FrontWhere /\ ShadowHasWorker /\ PlayIsWhole
               /\ SourceIsPops)'
  BY <1>1 DEF Choose, gates, power, display, setup
<1>2. CASE Menu
  BY <1>2 DEF Menu, gates, power, display, setup
<1>3. CASE Dialog
  BY <1>3 DEF Dialog, gates, power, display, setup
<1>4. CASE Flip
  BY <1>4 DEF Flip, gates, power, display, setup
<1>5. CASE FlipsIdle
  BY <1>5 DEF FlipsIdle, gates, power, display, setup
<1>6. CASE WorkerStarts
  BY <1>6 DEF WorkerStarts, gates, power, display, setup
<1>7. CASE Suspend
  BY <1>7 DEF Suspend, Restored, gates, power, display, setup
<1>8. CASE PowerResumes
  BY <1>8 DEF PowerResumes, gates, power, display, setup
<1>9. CASE Stop
  BY <1>9 DEF Stop, Restored, gates, power, display, setup
<1>10. CASE Free
  BY <1>10 DEF Free, gates, power, display, setup
<1>11. CASE Vblank
  BY <1>11 DEF Vblank, MayFlip, gates, power, display, setup
<1>12. CASE End
  BY <1>12 DEF End, gates, power, display, setup
<1>13. CASE Reacquire
  BY <1>13 DEF Reacquire, gates, power, display, setup
<1>14. CASE Pace
  BY <1>14 DEF Pace, gates, power, display, setup
<1>15. CASE TimerEnds
  BY <1>15 DEF TimerEnds, gates, power, display, setup
<1>16. CASE SkipTick
  BY <1>16 DEF SkipTick, gates, power, display, setup
<1>17. CASE TickStands
  BY <1>17 DEF TickStands, StandDown, gates, power, display, setup
<1>18. CASE TickYields
  BY <1>18 DEF TickYields, StandDown, gates, power, display, setup
<1>19. CASE HandBack
  BY <1>19 DEF HandBack, gates, power, display, setup
<1>20. CASE TickCopies
  BY <1>20 DEF TickCopies, Engaged, StandDown, Back, gates, power, display, setup
<1>21. CASE BothCopied
  BY <1>21 DEF BothCopied, gates, power, display, setup
<1>22. CASE BackCopied
  BY <1>22 DEF BackCopied, gates, power, display, setup
<1>23. CASE TickWaits
  BY <1>23 DEF TickWaits, Engaged, StandDown, gates, power, display, setup
<1>24. CASE TickLatches
  BY <1>24 DEF TickLatches, Engaged, StandDown, gates, power, display, setup
<1>25. CASE UNCHANGED popsVars
  BY <1>25 DEF popsVars, gates, power, display, setup
<1>. QED
  BY <1>1, <1>2, <1>3, <1>4, <1>5, <1>6, <1>7, <1>8, <1>9, <1>10, <1>11, <1>12,
     <1>13, <1>14, <1>15, <1>16, <1>17, <1>18, <1>19, <1>20, <1>21, <1>22, <1>23, <1>24, <1>25
     DEF PopsNext, Environment, Worker

\* What the display shows is fresh, whole and POPS's (screen_tuning.c:1535-1734), whatever the
\* interrupt, the menu thread, a suspend and the exit do between two steps of the worker.
THEOREM DisplayIsSound == PopsSpec => []ScanoutIsSound
<1>1. PopsInit => PopsInv
  <2> SUFFICES ASSUME PopsInit PROVE PopsInv
    OBVIOUS
  <2>. USE DEF PopsInit, Shadow, Pops, NoBuffer
  <2>1. PopsTypeOK
    <3>1. /\ {menuUp, hold, flipping, popsMenu, suspended, resuming, quit} \subseteq BOOLEAN
          /\ redirected \in BOOLEAN /\ {block, isr} \subseteq BOOLEAN
      BY Zenon
    <3>2. stable \in 0 .. Stable
      BY PopsAssumption
    <3>. QED
      BY <3>1, <3>2 DEF PopsTypeOK, Places
  <2>2. ShadowHasWorker /\ PlayIsWhole /\ SourceIsPops
    BY DEF ShadowHasWorker, PlayIsWhole, SourceIsPops, Writing
  <2>3. SourceWhere /\ FlagWhere /\ PowerWhere /\ NotRedirected /\ FrontWhere
    BY DEF SourceWhere, FlagWhere, PowerWhere, NotRedirected, FrontWhere, Returning, Copying
  <2>. QED
    BY <2>1, <2>2, <2>3 DEF PopsInv, ScanoutIsSound
<1>2. PopsInv /\ [PopsNext]_popsVars => PopsInv'
  BY PopsTypeStep, PopsStep DEF PopsInv, ScanoutIsSound
<1>3. PopsInv => ScanoutIsSound
  BY DEF PopsInv
<1>. QED
  BY <1>1, <1>2, <1>3, PTL DEF PopsSpec

-----------------------------------------------------------------------------
(* The list the correction is drawn with, built by the game's thread at a   *)
(* present or an injection and by the worker: only under the claim.         *)

LEMMA InitBuilder == GammaInit => OneBuilder
BY DEF GammaInit, OneBuilder

\* Each party takes the claim before it builds and gives it back after its list ran.
LEMMA BuilderStep == OneBuilder /\ [GammaNext]_gammaVars => OneBuilder'
<1> SUFFICES ASSUME OneBuilder, [GammaNext]_gammaVars PROVE OneBuilder'
  OBVIOUS
<1> USE DEF OneBuilder
<1>1. CASE UNCHANGED <<game, helper, busy>>
  BY <1>1
<1>2. CASE AfterSubmit
  <2>1. helper' = helper /\ game = "after"
    BY <1>2 DEF AfterSubmit, workv
  <2>2. \/ busy = "free" /\ busy' = "game" /\ game' = "inject"
        \/ busy' = busy /\ game' = "idle"
    BY <1>2 DEF AfterSubmit
  <2> QED
    BY <2>1, <2>2
<1>3. CASE Inject
  <2>1. helper' = helper /\ game = "inject" /\ game' = "idle" /\ busy' = "free"
    BY <1>3 DEF Inject, workv
  <2> QED
    BY <2>1
<1>4. CASE SubmitDraw \/ RealEnqueue \/ PresentThread
  <2>1. UNCHANGED <<helper, busy>>
    BY <1>4 DEF SubmitDraw, RealEnqueue, PresentThread, workv
  <2>2. game \in {"idle", "enqueue"} /\ game' \in {"idle", "enqueue", "after", "claim"}
    <3>1. CASE SubmitDraw
      BY <3>1 DEF SubmitDraw
    <3>2. CASE RealEnqueue
      BY <3>2 DEF RealEnqueue
    <3>3. CASE PresentThread
      <4>1. game = "idle"
        BY <3>3 DEF PresentThread, CanPresent
      <4>2. game' = game \/ game' = "claim"
        BY <3>3 DEF PresentThread
      <4> QED
        BY <4>1, <4>2
    <3> QED
      BY <1>4, <3>1, <3>2, <3>3
  <2> QED
    BY <2>1, <2>2
<1>5. CASE PresentClaim
  <2>1. helper' = helper /\ game = "claim"
    BY <1>5 DEF PresentClaim, workv
  <2>2. \/ busy = "free" /\ busy' = "game" /\ game' = "build"
        \/ busy' = busy /\ game' = "idle"
    BY <1>5 DEF PresentClaim
  <2> QED
    BY <2>1, <2>2
<1>6. CASE PresentBuild
  <2>1. UNCHANGED <<helper, busy>> /\ game = "build" /\ game' = "sync"
    BY <1>6 DEF PresentBuild, workv
  <2> QED
    BY <2>1
<1>7. CASE PresentDone
  <2>1. helper' = helper /\ game = "sync" /\ game' = "idle" /\ busy' = "free"
    BY <1>7 DEF PresentDone, workv
  <2> QED
    BY <2>1
<1>8. CASE StartHelper \/ EndHelper \/ TakeStash \/ Poll \/ Decide \/ Sweep \/ Apply
  <2>1. UNCHANGED <<game, busy>>
    BY <1>8 DEF StartHelper, EndHelper, TakeStash, Poll, Decide, Sweep, Apply, Goes, gamev
  <2>2. helper \in {"none", "loop", "drained", "sweep", "apply"}
        /\ helper' \in {"none", "loop", "drained", "sweep", "apply", "claim"}
    <3>1. CASE StartHelper \/ EndHelper \/ Poll
      BY <3>1 DEF StartHelper, EndHelper, Poll, Works
    <3>2. CASE TakeStash
      BY <3>2 DEF TakeStash, Works
    <3>3. CASE Decide
      BY <3>3 DEF Decide
    <3>4. CASE Sweep
      BY <3>4 DEF Sweep
    <3>5. CASE Apply
      BY <3>5 DEF Apply, Goes
    <3> QED
      BY <1>8, <3>1, <3>2, <3>3, <3>4, <3>5
  <2> QED
    BY <2>1, <2>2
<1>9. CASE ApplyClaim
  <2>1. game' = game /\ helper = "claim"
    BY <1>9 DEF ApplyClaim, gamev
  <2>2. \/ busy = "free" /\ busy' = "worker" /\ helper' = "build"
        \/ busy' = busy /\ helper' = "loop"
    BY <1>9 DEF ApplyClaim
  <2> QED
    BY <2>1, <2>2
<1>10. CASE ApplyBuild
  <2>1. UNCHANGED <<game, busy>> /\ helper = "build" /\ helper' = "sync"
    BY <1>10 DEF ApplyBuild, gamev
  <2> QED
    BY <2>1
<1>11. CASE ApplyDone
  <2>1. game' = game /\ helper = "sync" /\ helper' = "loop" /\ busy' = "free"
    BY <1>11 DEF ApplyDone, gamev
  <2> QED
    BY <2>1
<1>12. CASE GeRuns \/ InterruptSubmit \/ PresentInterrupt \/ Disprove \/ ReacquireGe \/ Surroundings
            \/ AfterResume
  <2>1. UNCHANGED <<game, helper, busy>>
    BY <1>12 DEF GeRuns, InterruptSubmit, PresentInterrupt, Disprove, ReacquireGe, Surroundings,
       AfterResume, gamev, workv
  <2> QED
    BY <1>1, <2>1
<1>13. CASE UNCHANGED gammaVars
  <2>1. UNCHANGED <<game, helper, busy>>
    BY <1>13 DEF gammaVars, gamev, workv
  <2> QED
    BY <1>1, <2>1
<1> QED
  BY <1>2, <1>3, <1>4, <1>5, <1>6, <1>7, <1>8, <1>9, <1>10, <1>11, <1>12, <1>13
     DEF GammaNext, GameThread, Helper

-----------------------------------------------------------------------------
(* What the lists on the GE lead to *)

\* The buffers this game has.
Own == IF kind = "flip" THEN Displays ELSE {"A", "off"}

\* A list: what it does, to which buffer, and who queued it.
GeLists == {"draw", "copy", "curve"} \X Buffers \X {"game", "isr", "worker"}

\* What one list makes of the curves in the buffers, and of the render target.
Makes(l, p, q) ==
  /\ l[1] = "curve" => p[l[2]] = 0
  /\ q = [p EXCEPT ![l[2]] = IF l[1] = "draw" THEN 0 ELSE IF l[1] = "copy" THEN p["off"] ELSE 1]

\* The render target after a list: ours restores it.
Names(l, a, b) == b = IF l[1] = "curve" THEN a ELSE l[2]

\* No buffer is curved.
None == [b \in Buffers |-> 0]

\* The lists s one after the other: c is the curves, e the render target after each of them.
\* No list curves a buffer that is curved.
Runs(s, c, e) ==
  /\ s \in Seq(GeLists)
  /\ c \in [0 .. Len(s) -> [Buffers -> 0 .. 1]] /\ e \in [0 .. Len(s) -> Own]
  /\ c[0] = curved /\ e[0] = fbp
  /\ \A i \in 1 .. Len(s) : Makes(s[i], c[i - 1], c[i]) /\ Names(s[i], e[i - 1], e[i])
  /\ \A i \in 0 .. Len(s) :
       c[i] = None /\ (\A k \in i + 1 .. Len(s) : s[k][1] # "curve") => c[Len(s)] = None

\* When the GE has run the lists s, the buffers have the curves f and g is the render target.
Leads(s, f, g) == \E c, e : Runs(s, c, e) /\ f = c[Len(s)] /\ g = e[Len(s)]

\* Before the first frame the GE has no list.
LEMMA LeadsInit == GammaInit => Leads(ge, None, "A")
<1> SUFFICES ASSUME GammaInit PROVE Leads(ge, None, "A")
  OBVIOUS
<1> DEFINE c == [i \in 0 .. 0 |-> None]
           e == [i \in 0 .. 0 |-> "A"]
<1>1. ge = <<>> /\ Len(ge) = 0 /\ ge \in Seq(GeLists) /\ curved = None /\ fbp = "A"
  BY DEF GammaInit, None
<1>2. None \in [Buffers -> 0 .. 1] /\ "A" \in Own
  BY DEF None, Own, Displays
<1>3. Runs(ge, c, e)
  BY <1>1, <1>2 DEF Runs
<1> QED
  BY <1>1, <1>3 DEF Leads

\* Whoever queues no list leaves alone what those on the GE lead to.
LEMMA LeadsStay ==
  ASSUME NEW s, NEW f, NEW g, Leads(s, f, g), ge' = s, UNCHANGED <<curved, fbp, kind>>
  PROVE  Leads(ge, f, g)'
BY DEF Leads, Runs, Own

\* When no list is left, the buffers are what was led to; and where nothing is curved and no
\* curve is queued, nothing will be (st_reacquire waits for that, screen_tuning.c:2000).
LEMMA LeadsTo ==
  ASSUME NEW f, NEW g, Leads(ge, f, g)
  PROVE  /\ f \in [Buffers -> 0 .. 1] /\ g \in Own /\ fbp \in Own
         /\ ge \in Seq(GeLists) /\ curved \in [Buffers -> 0 .. 1]
         /\ ge = <<>> => f = curved /\ g = fbp
         /\ curved = None /\ Uncurved(ge) => f = None
<1>1. PICK c, e : Runs(ge, c, e) /\ f = c[Len(ge)] /\ g = e[Len(ge)]
  BY DEF Leads
<1>2. /\ ge \in Seq(GeLists) /\ Len(ge) \in Nat
      /\ c \in [0 .. Len(ge) -> [Buffers -> 0 .. 1]] /\ e \in [0 .. Len(ge) -> Own]
      /\ c[0] = curved /\ e[0] = fbp
  BY <1>1 DEF Runs
<1>3. 0 \in 0 .. Len(ge) /\ Len(ge) \in 0 .. Len(ge)
  BY <1>2
<1>4. f \in [Buffers -> 0 .. 1] /\ g \in Own /\ fbp \in Own /\ curved \in [Buffers -> 0 .. 1]
  BY <1>1, <1>2, <1>3
<1>5. ge = <<>> => f = curved /\ g = fbp
  BY <1>1, <1>2
<1>6. curved = None /\ Uncurved(ge) => f = None
  <2> SUFFICES ASSUME curved = None, Uncurved(ge) PROVE f = None
    OBVIOUS
  <2>1. \A k \in 0 + 1 .. Len(ge) : ge[k][1] # "curve"
    BY <1>2 DEF Uncurved
  <2> QED
    BY <1>1, <1>2, <1>3, <2>1 DEF Runs
<1> QED
  BY <1>2, <1>4, <1>5, <1>6

\* The GE runs a list: what all of them lead to is the same.
LEMMA LeadsRun ==
  ASSUME NEW f, NEW g, Leads(ge, f, g), GeRuns
  PROVE  Leads(ge, f, g)'
<1>1. PICK c, e : Runs(ge, c, e) /\ f = c[Len(ge)] /\ g = e[Len(ge)]
  BY DEF Leads
<1>2. /\ ge \in Seq(GeLists) /\ Len(ge) \in Nat
      /\ c \in [0 .. Len(ge) -> [Buffers -> 0 .. 1]] /\ e \in [0 .. Len(ge) -> Own]
      /\ c[0] = curved /\ e[0] = fbp
  BY <1>1 DEF Runs
<1> DEFINE what == Head(ge)[1]
           b == Head(ge)[2]
<1>3. /\ ge # <<>> /\ ge' = Tail(ge) /\ kind' = kind
      /\ curved' = [curved EXCEPT ![b] =
                      CASE what = "draw"  -> 0
                        [] what = "copy"  -> curved["off"]
                        [] what = "curve" -> IF @ = 2 THEN 2 ELSE @ + 1]
      /\ fbp' = IF what = "curve" THEN fbp ELSE b
  BY DEF GeRuns, around
<1>4. /\ ge' \in Seq(GeLists) /\ Len(ge') = Len(ge) - 1 /\ Len(ge) >= 1
      /\ \A i \in 1 .. Len(ge') : i + 1 \in 1 .. Len(ge) /\ ge'[i] = ge[i + 1]
  BY <1>2, <1>3
<1>5. /\ Head(ge) = ge[1] /\ ge[1] \in GeLists
      /\ 1 \in 1 .. Len(ge) /\ 0 \in 0 .. Len(ge) /\ 1 \in 0 .. Len(ge)
  BY <1>2, <1>4
<1>6. what \in {"draw", "copy", "curve"} /\ b \in Buffers
  BY <1>5 DEF GeLists
<1>7. Makes(ge[1], c[0], c[1]) /\ Names(ge[1], e[0], e[1])
  <2>1. \A i \in 1 .. Len(ge) : Makes(ge[i], c[i - 1], c[i]) /\ Names(ge[i], e[i - 1], e[i])
    BY <1>1 DEF Runs
  <2>2. 1 - 1 = 0
    OBVIOUS
  <2> QED
    BY <1>5, <2>1, <2>2
<1>8. curved' = c[1]
  <2>1. curved \in [Buffers -> 0 .. 1] /\ "off" \in Buffers
    BY <1>2, <1>5 DEF Buffers
  <2>2. c[1] = [curved EXCEPT ![b] = IF what = "draw" THEN 0
                                     ELSE IF what = "copy" THEN curved["off"] ELSE 1]
    BY <1>2, <1>7 DEF Makes
  <2>3. what = "curve" => curved[b] = 0
    BY <1>2, <1>7 DEF Makes
  <2>4. CASE what = "draw"
    BY <1>3, <2>2, <2>4
  <2>5. CASE what = "copy"
    BY <1>3, <2>2, <2>5
  <2>6. CASE what = "curve"
    <3>1. curved' = [curved EXCEPT ![b] = IF @ = 2 THEN 2 ELSE @ + 1]
      BY <1>3, <2>6
    <3>2. c[1] = [curved EXCEPT ![b] = 1]
      BY <2>2, <2>6
    <3> HIDE DEF b
    <3>3. curved' = [curved EXCEPT ![b] = 1]
      <4>1. curved[b] = 0 /\ (IF curved[b] = 2 THEN 2 ELSE curved[b] + 1) = 1
        BY <2>3, <2>6
      <4>2. curved' = [curved EXCEPT ![b] = IF curved[b] = 2 THEN 2 ELSE curved[b] + 1]
        BY <3>1
      <4> QED
        BY <4>1, <4>2
    <3> QED
      BY <3>2, <3>3
  <2> QED
    BY <1>6, <2>4, <2>5, <2>6
<1>9. fbp' = e[1]
  BY <1>2, <1>3, <1>7 DEF Names
<1> HIDE DEF what, b
<1>a. PICK d : d = [i \in 0 .. Len(ge') |-> c[i + 1]]
  OBVIOUS
<1>b. PICK h : h = [i \in 0 .. Len(ge') |-> e[i + 1]]
  OBVIOUS
<1>10. \A i \in 0 .. Len(ge') : i + 1 \in 0 .. Len(ge) /\ d[i] = c[i + 1] /\ h[i] = e[i + 1]
  BY <1>2, <1>4, <1>a, <1>b
<1>11. d \in [0 .. Len(ge') -> [Buffers -> 0 .. 1]] /\ h \in [0 .. Len(ge') -> Own]
  BY <1>2, <1>10, <1>a, <1>b
<1>12. Len(ge') \in 0 .. Len(ge') /\ 0 \in 0 .. Len(ge') /\ Len(ge') + 1 = Len(ge) /\ 0 + 1 = 1
  BY <1>2, <1>4
<1>13. d[0] = curved' /\ h[0] = fbp' /\ d[Len(ge')] = f /\ h[Len(ge')] = g
  BY <1>1, <1>8, <1>9, <1>10, <1>12
<1>14. ASSUME NEW i \in 1 .. Len(ge')
       PROVE  Makes(ge'[i], d[i - 1], d[i]) /\ Names(ge'[i], h[i - 1], h[i])
  <2>0. i \in Int /\ Len(ge') \in Nat
    BY <1>2, <1>4
  <2>1. /\ i + 1 \in 1 .. Len(ge) /\ ge'[i] = ge[i + 1]
        /\ i \in 0 .. Len(ge') /\ i - 1 \in 0 .. Len(ge') /\ (i + 1) - 1 = i /\ (i - 1) + 1 = i
    BY <1>4, <2>0
  <2>2. d[i] = c[i + 1] /\ h[i] = e[i + 1] /\ d[i - 1] = c[i] /\ h[i - 1] = e[i]
    BY <1>10, <2>1
  <2>3. Makes(ge[i + 1], c[(i + 1) - 1], c[i + 1]) /\ Names(ge[i + 1], e[(i + 1) - 1], e[i + 1])
    BY <1>1, <2>1 DEF Runs
  <2> QED
    BY <2>1, <2>2, <2>3
<1>15. ASSUME NEW i \in 0 .. Len(ge'), d[i] = None,
              \A k \in i + 1 .. Len(ge') : ge'[k][1] # "curve"
       PROVE  d[Len(ge')] = None
  <2>1. i + 1 \in 0 .. Len(ge) /\ c[i + 1] = None
    BY <1>10, <1>15
  <2>2. ASSUME NEW k \in (i + 1) + 1 .. Len(ge) PROVE ge[k][1] # "curve"
    <3>1. k - 1 \in i + 1 .. Len(ge') /\ k - 1 \in 1 .. Len(ge') /\ (k - 1) + 1 = k
      BY <1>2, <1>4
    <3> QED
      BY <1>4, <1>15, <3>1
  <2>3. c[Len(ge)] = None
    BY <1>1, <2>1, <2>2 DEF Runs
  <2> QED
    BY <1>1, <1>13, <2>3
<1>16. Own' = Own
  BY <1>3 DEF Own
<1>17. Runs(ge, d, h)'
  BY <1>4, <1>11, <1>13, <1>14, <1>15, <1>16 DEF Runs
<1> QED
  BY <1>13, <1>17 DEF Leads

\* Another list is queued.
LEMMA LeadsOn ==
  ASSUME NEW s, NEW f, NEW g, Leads(s, f, g), NEW l \in GeLists, NEW q, NEW r,
         l[2] \in Own, Makes(l, f, q), Names(l, g, r)
  PROVE  Leads(Append(s, l), q, r)
<1>0. PICK t : t = Append(s, l)
  OBVIOUS
<1>1. PICK c, e : Runs(s, c, e) /\ f = c[Len(s)] /\ g = e[Len(s)]
  BY DEF Leads
<1>2. /\ s \in Seq(GeLists) /\ Len(s) \in Nat
      /\ c \in [0 .. Len(s) -> [Buffers -> 0 .. 1]] /\ e \in [0 .. Len(s) -> Own]
      /\ c[0] = curved /\ e[0] = fbp
  BY <1>1 DEF Runs
<1>3. /\ t \in Seq(GeLists) /\ Len(t) = Len(s) + 1 /\ t[Len(s) + 1] = l
      /\ \A i \in 1 .. Len(s) : t[i] = s[i]
  BY <1>2, <1>0
<1>a. PICK d : d = [i \in 0 .. Len(t) |-> IF i = Len(t) THEN q ELSE c[i]]
  OBVIOUS
<1>b. PICK h : h = [i \in 0 .. Len(t) |-> IF i = Len(t) THEN r ELSE e[i]]
  OBVIOUS
<1>4. f \in [Buffers -> 0 .. 1] /\ g \in Own
  <2>1. Len(s) \in 0 .. Len(s)
    BY <1>2
  <2> QED
    BY <1>1, <1>2, <2>1
<1>5. q \in [Buffers -> 0 .. 1] /\ r \in Own
  <2>1. l[2] \in Buffers /\ "off" \in Buffers
    BY DEF GeLists, Buffers
  <2> QED
    BY <1>4, <2>1 DEF Makes, Names
<1>6. /\ d[Len(t)] = q /\ h[Len(t)] = r
      /\ \A i \in 0 .. Len(s) : d[i] = c[i] /\ h[i] = e[i] /\ i \in 0 .. Len(t)
  BY <1>2, <1>3, <1>a, <1>b
<1>7. d \in [0 .. Len(t) -> [Buffers -> 0 .. 1]] /\ h \in [0 .. Len(t) -> Own]
  <2>1. \A i \in 0 .. Len(t) : i = Len(t) \/ i \in 0 .. Len(s)
    BY <1>2, <1>3
  <2> QED
    BY <1>2, <1>5, <1>6, <1>a, <1>b, <2>1
<1>8. d[0] = curved /\ h[0] = fbp
  <2>1. 0 \in 0 .. Len(s)
    BY <1>2
  <2> QED
    BY <1>2, <1>6, <2>1
<1>9. ASSUME NEW i \in 1 .. Len(t)
      PROVE  Makes(t[i], d[i - 1], d[i]) /\ Names(t[i], h[i - 1], h[i])
  <2>1. CASE i \in 1 .. Len(s)
    <3>1. i \in 0 .. Len(s) /\ i - 1 \in 0 .. Len(s) /\ t[i] = s[i]
      BY <1>2, <1>3, <2>1
    <3>2. Makes(s[i], c[i - 1], c[i]) /\ Names(s[i], e[i - 1], e[i])
      BY <1>1, <2>1 DEF Runs
    <3> QED
      BY <1>6, <3>1, <3>2
  <2>2. CASE i = Len(s) + 1
    <3>1. i - 1 = Len(s) /\ Len(s) \in 0 .. Len(s) /\ i = Len(t)
      BY <1>2, <1>3, <2>2
    <3>2. d[i - 1] = f /\ h[i - 1] = g /\ d[i] = q /\ h[i] = r /\ t[i] = l
      BY <1>1, <1>3, <1>6, <2>2, <3>1
    <3> QED
      BY <3>2
  <2> QED
    BY <1>2, <1>3, <2>1, <2>2
<1>10. ASSUME NEW i \in 0 .. Len(t), d[i] = None,
              \A k \in i + 1 .. Len(t) : t[k][1] # "curve"
       PROVE  d[Len(t)] = None
  <2>1. CASE i = Len(t)
    BY <1>10, <2>1
  <2>2. CASE i # Len(t)
    <3>1. i \in 0 .. Len(s) /\ Len(t) \in i + 1 .. Len(t) /\ Len(s) \in 0 .. Len(s)
      BY <1>2, <1>3, <2>2
    <3>2. c[i] = None /\ l[1] # "curve"
      BY <1>3, <1>6, <1>10, <3>1
    <3>3. \A k \in i + 1 .. Len(s) : s[k][1] # "curve"
      <4> TAKE k \in i + 1 .. Len(s)
      <4>1. k \in 1 .. Len(s) /\ k \in i + 1 .. Len(t)
        BY <1>2, <1>3, <3>1
      <4> QED
        BY <1>3, <1>10, <4>1
    <3>4. f = None
      BY <1>1, <3>1, <3>2, <3>3 DEF Runs
    <3>5. q = None
      <4>1. /\ l[1] \in {"draw", "copy"} /\ l[2] \in Buffers /\ "off" \in Buffers
            /\ None["off"] = 0
        BY <3>2 DEF GeLists, Buffers, None
      <4>2. q = [None EXCEPT ![l[2]] = 0]
        BY <3>2, <3>4, <4>1 DEF Makes
      <4> QED
        BY <4>1, <4>2 DEF None
    <3> QED
      BY <1>6, <3>5
  <2> QED
    BY <2>1, <2>2
<1>11. Runs(t, d, h)
  BY <1>3, <1>7, <1>8, <1>9, <1>10 DEF Runs
<1> QED
  BY <1>0, <1>6, <1>11 DEF Leads

\* The same for a step that queues it (sceGeListEnQueue, screen_tuning.c:1133).
LEMMA LeadsQueued ==
  ASSUME NEW f, NEW g, Leads(ge, f, g), NEW l \in GeLists, NEW q, NEW r,
         l[2] \in Own, Makes(l, f, q), Names(l, g, r),
         ge' = Append(ge, l), UNCHANGED <<curved, fbp, kind>>
  PROVE  Leads(ge, q, r)'
<1>1. PICK s : s = ge
  OBVIOUS
<1>2. PICK t : t = Append(s, l)
  OBVIOUS
<1>3. Leads(s, f, g)
  BY <1>1
<1>4. Leads(t, q, r)
  BY <1>2, <1>3, LeadsOn
<1> QED
  BY <1>1, <1>2, <1>4, LeadsStay

-----------------------------------------------------------------------------
(* The invariant of CurveLaidOnce: f is what the lists on the GE lead to *)

\* Every buffer that a hook or the worker keeps is one of this game's.
GammaTypes ==
  /\ kind \in {"flip", "comp"} /\ phase \in {"draw", "show"} /\ busy \in {"free", "game", "worker"}
  /\ game \in {"idle", "enqueue", "after", "inject", "claim", "build", "sync"}
  /\ helper \in {"none", "loop", "drained", "sweep", "apply", "claim", "build", "sync"}
  /\ shown \in Displays /\ (kind = "comp" => shown = "A")
  /\ offFb \in Own \cup {NoBuf} /\ lastFb \in Own \cup {NoBuf} /\ wbuf \in Own \cup {NoBuf}

\* The render target when the GE has run all it has.
Rendered == IF phase = "draw" THEN shown ELSE Target

\* What the game's thread works on in each hook; a stashed present is on the screen.
GameWhere ==
  /\ game = "enqueue" => phase = "draw" /\ gbuf = Target
  /\ game \in {"after", "inject"} => phase = "show" \/ kind = "comp"
  /\ game \in {"claim", "build", "sync"} => gbuf = Presented /\ (phase = "draw" \/ kind = "flip")
  /\ (game \in {"enqueue", "after"} /\ pending) \/ game = "inject" => offFb # NoBuf
  /\ stash # NoBuf
     => stash = shown /\ phase = "draw" /\ game \in {"idle", "enqueue", "claim", "build"}

\* What the worker works on; what was submitted meanwhile is not on the GE before it is done.
HelperWhere ==
  /\ helper \in {"sweep", "apply", "claim", "build"} => wbuf = shown /\ phase = "draw"
  /\ helper = "drained" => wbuf = Rendered /\ anew
  /\ helper = "sweep" => ~arm
  /\ helper = "apply" => ~arm \/ game \notin {"after", "inject"}
  /\ helper \in {"claim", "build"} => game \notin {"after", "inject", "sync"}
  /\ wfresh => fresh /\ helper \in Window /\ (helper = "sync" \/ game = "enqueue")

\* A scene that is or will be curved is not taken for the next one.
ScenesApart(f) ==
  /\ kind = "comp" /\ phase = "show" /\ f["off"] = 1 => ~parNext
  /\ (game \in {"enqueue", "after"} /\ pending) \/ (game = "inject" /\ phase = "show") => ~parNext

\* What somebody is about to curve is not curved.
Undone(f) ==
  /\ game = "inject" \/ (game = "after" /\ (pending \/ kind = "flip")) => f[Target] = 0
  /\ game \in {"claim", "build"} => f[gbuf] = 0
  /\ helper \in {"claim", "build"} => f[wbuf] = 0

\* The double-apply guard knows that b is curved, or will when the worker has returned.
Guards(b)  == lastFb = b /\ ~fresh
Working(b) == helper = "sync" /\ wbuf = b /\ ~wfresh

\* The last list was an injection, and the injection stays up until another frame is begun.
Injected == lastFb = "off" /\ ((arm /\ injected) \/ helper = "none" \/ ~anew)

\* A curved buffer that could be curved again is known to be.
Known(f) ==
  /\ phase = "draw" /\ game # "enqueue" /\ f[shown] = 1
     => \/ Working(shown)
        \/ helper # "sync" /\ (Guards(shown) \/ (game = "sync" /\ gbuf = shown) \/ Injected)
  /\ phase = "show" /\ kind = "flip" /\ f[Target] = 1
     => helper # "sync" /\ (Guards(Target) \/ game = "sync")
  /\ phase = "show" /\ kind = "comp" /\ f["off"] = 1
     => Injected /\ helper \notin {"apply", "claim", "build", "sync"}
  /\ stash # NoBuf /\ game # "enqueue" /\ f[shown] = 1 => Guards(shown) \/ Working(shown)
  /\ helper \in {"sweep", "apply"} /\ game # "enqueue" /\ f[wbuf] = 1
     => Guards(wbuf) \/ (game = "sync" /\ gbuf = wbuf)

\* The code's variables follow what the lists lead to.
Follows(f, g) ==
  /\ GammaTypes /\ g = Rendered /\ GameWhere /\ HelperWhere
  /\ ScenesApart(f) /\ Undone(f) /\ Known(f)

\* No list curves a curved buffer, neither one on the GE nor one that will be queued.
Once == \E f, g : Leads(ge, f, g) /\ Follows(f, g)

\* After a race nothing is claimed.
GammaInv == OneBuilder /\ (raced \/ Once)

\* The game's thread in a hook, without a list of its own.
LEMMA HooksFollow ==
  ASSUME OneBuilder, ~raced, ~raced', NEW f, NEW g, Leads(ge, f, g), Follows(f, g),
         SubmitDraw \/ AfterSubmit \/ PresentThread \/ PresentClaim \/ PresentDone
  PROVE  Follows(f, g)'
<1>a. /\ fbp \in Own /\ f \in [Buffers -> 0 .. 1] /\ g \in Own
      /\ ge = <<>> => f = curved /\ g = fbp
  BY LeadsTo
<1>b. OneBuilder
  OBVIOUS
<1>1. CASE SubmitDraw
  <2>1. GammaTypes'
    BY <1>a, <1>b, <1>1 DEF SubmitDraw, Follows, GammaTypes, around, screen, target, Own
  <2>2. (g = Rendered)'
    BY <1>a, <1>b, <1>1 DEF SubmitDraw, Follows, screen, Rendered
  <2>3. GameWhere'
    BY <1>a, <1>b, <1>1 DEF SubmitDraw, Follows, GameWhere, around, screen, target, Target,
       Decision, Open
  <2>4. HelperWhere'
    BY <1>a, <1>b, <1>1 DEF SubmitDraw, Follows, HelperWhere, screen, target, Rendered, Submits
  <2>5. ScenesApart(f)'
    BY <1>a, <1>b, <1>1 DEF SubmitDraw, ScenesApart, Latch, Decision, Scene
  <2>6. Undone(f)'
    BY <1>a, <1>b, <1>1 DEF SubmitDraw, Follows, Undone
  <2>7. Known(f)'
    BY <1>a, <1>b, <1>1 DEF SubmitDraw, Known
  <2> QED
    BY <2>1, <2>2, <2>3, <2>4, <2>5, <2>6, <2>7 DEF Follows
<1>2. CASE AfterSubmit
  BY <1>a, <1>b, <1>2 DEF AfterSubmit, Follows, GammaTypes, GameWhere, HelperWhere, ScenesApart,
     Undone, Known, Guards, Working, Injected, around, screen, guard, target, workv, Target,
     Rendered, Own
<1>3. CASE PresentThread
  <2>1. GammaTypes'
    BY <1>a, <1>b, <1>3 DEF PresentThread, Follows, GammaTypes, around, guard, workv, Presented,
       Rendered, Own, Show
  <2>2. (g = Rendered)'
    BY <1>a, <1>b, <1>3 DEF PresentThread, Follows, GammaTypes, around, Target, Presented, Rendered,
       Show, CanPresent
  <2>3. GameWhere'
    BY <1>a, <1>b, <1>3 DEF PresentThread, Follows, GameWhere, around, Target, Presented, Show,
       CanPresent
  <2>4. HelperWhere'
    BY <1>a, <1>b, <1>3 DEF PresentThread, Follows, GammaTypes, HelperWhere, around, guard, workv,
       Target, Presented, Rendered, Show, CanPresent, Disarm
  <2>5. ScenesApart(f)'
    BY <1>a, <1>b, <1>3 DEF PresentThread, Follows, ScenesApart, around, Show
  <2>6. Undone(f)'
    <3>1. CASE game' # "claim"
      BY <1>3, <1>a, <1>b, <3>1 DEF PresentThread, Follows, Undone, CanPresent, workv
    <3>2. CASE game' = "claim"
      <4>1. /\ game = "idle" /\ (phase = "draw" \/ kind = "flip") /\ gbuf' = Presented
            /\ lastFb # "off" /\ helper # "sync" /\ ~arm
            /\ Presented # lastFb \/ fresh
            /\ UNCHANGED <<shown, phase, kind, helper, wbuf>>
        BY <1>3, <3>2 DEF PresentThread, CanPresent, Skips, Show, Disarm, around, workv
      <4>2. f[Presented] = 0
        <5>1. Presented \in Buffers
          BY <2>1 DEF Follows, GammaTypes, Presented, Target, Displays, Buffers
        <5>2. CASE phase = "draw"
          <6>1. Presented = shown
            BY <5>2 DEF Presented
          <6>2. f[shown] # 1
            BY <4>1, <5>2, <6>1 DEF Follows, Known, Guards, Working, Injected
          <6> QED
            BY <1>a, <5>1, <6>1, <6>2
        <5>3. CASE phase # "draw"
          <6>1. Presented = Target /\ phase = "show" /\ kind = "flip"
            BY <4>1, <5>3 DEF Presented, Follows, GammaTypes
          <6>2. f[Target] # 1
            BY <4>1, <6>1 DEF Follows, Known, Guards
          <6> QED
            BY <1>a, <5>1, <6>1, <6>2
        <5> QED
          BY <5>2, <5>3
      <4> QED
        BY <3>2, <4>1, <4>2 DEF Follows, Undone
    <3> QED
      BY <3>1, <3>2
  <2>7. Known(f)'
    BY <1>a, <1>b, <1>3 DEF PresentThread, Follows, GammaTypes, Known, Guards, Working, Injected,
       around, guard, workv, Target, Presented, Show, CanPresent
  <2> QED
    BY <2>1, <2>2, <2>3, <2>4, <2>5, <2>6, <2>7 DEF Follows
<1>4. CASE PresentClaim
  BY <1>a, <1>b, <1>4 DEF PresentClaim, Follows, GammaTypes, GameWhere, HelperWhere, ScenesApart,
     Undone, Known, around, guard, target, workv, Target, Presented, Rendered, Own, Show
<1>5. CASE PresentDone
  BY <1>a, <1>b, <1>5 DEF PresentDone, Follows, GammaTypes, GameWhere, HelperWhere, ScenesApart,
     Undone, Known, Guards, OneBuilder, around, target, workv, Presented, Rendered, Own, Show
<1> QED
  BY <1>1, <1>2, <1>3, <1>4, <1>5

\* The worker, without a list of its own.
LEMMA WorkerFollows ==
  ASSUME OneBuilder, ~raced, ~raced', NEW f, NEW g, Leads(ge, f, g), Follows(f, g),
         StartHelper \/ EndHelper \/ Disprove \/ ReacquireGe \/ TakeStash \/ Poll \/ Decide
         \/ Sweep \/ Apply \/ ApplyClaim \/ ApplyDone
  PROVE  Follows(f, g)'
<1>a. /\ fbp \in Own /\ f \in [Buffers -> 0 .. 1] /\ g \in Own
      /\ ge = <<>> => f = curved /\ g = fbp
  BY LeadsTo
<1>b. OneBuilder
  OBVIOUS
<1>1. CASE StartHelper
  BY <1>a, <1>b, <1>1 DEF StartHelper, Follows, GammaTypes, GameWhere, HelperWhere, ScenesApart,
     Undone, Known, Guards, Working, Injected, around, screen, guard, gamev, Target, Presented,
     Rendered, Own, Window
<1>2. CASE EndHelper
  BY <1>a, <1>b, <1>2 DEF EndHelper, Follows, GammaTypes, GameWhere, HelperWhere, ScenesApart,
     Undone, Known, Guards, Working, Injected, around, screen, guard, gamev, Target, Presented,
     Rendered, Own, Window
<1>3. CASE Disprove
  BY <1>a, <1>b, <1>3 DEF Disprove, Follows, GammaTypes, GameWhere, HelperWhere, ScenesApart,
     Undone, Known, Guards, Working, Injected, around, screen, guard, role, gamev, workv, Target,
     Presented, Rendered, Own
<1>4. CASE ReacquireGe
  <2>1. GammaTypes'
    BY <1>a, <1>b, <1>4 DEF ReacquireGe, Follows, GammaTypes, screen, gamev, workv, Own
  <2>2. (g = Rendered)'
    BY <1>a, <1>b, <1>4 DEF ReacquireGe, Follows, screen, gamev, Target, Rendered
  <2>3. GameWhere'
    BY <1>a, <1>b, <1>4 DEF ReacquireGe, Follows, GameWhere, screen, gamev, Target
  <2>4. HelperWhere'
    BY <1>a, <1>b, <1>4 DEF ReacquireGe, Follows, HelperWhere, gamev, workv
  <2>5. ScenesApart(f)'
    BY <1>a, <1>b, <1>4 DEF ReacquireGe, ScenesApart
  <2>6. Undone(f)'
    BY <1>a, <1>b, <1>4 DEF ReacquireGe, Follows, Undone, screen, gamev, workv, Target
  <2>7. Known(f)'
    <3>1. f = None
      <4>1. curved \in [Buffers -> 0 .. 1] /\ (\A b \in Buffers : curved[b] = 0) /\ Uncurved(ge)
        BY <1>4, LeadsTo DEF ReacquireGe
      <4>2. curved = None
        BY <4>1 DEF None
      <4> QED
        BY <4>1, <4>2, LeadsTo
    <3>2. \A b \in Buffers : f[b] = 0
      BY <3>1 DEF None
    <3>3. /\ Target' \in Buffers /\ shown' \in Buffers /\ "off" \in Buffers
          /\ helper' \notin {"sweep", "apply"}
      <4>1. shown' = shown /\ kind' = kind /\ helper' = "loop" /\ shown \in Displays
        BY <1>4 DEF ReacquireGe, Follows, GammaTypes, screen, workv
      <4> QED
        BY <4>1 DEF Target, Displays, Buffers
    <3> QED
      BY <3>2, <3>3 DEF Known, Buffers
  <2> QED
    BY <2>1, <2>2, <2>3, <2>4, <2>5, <2>6, <2>7 DEF Follows
<1>5. CASE TakeStash
  BY <1>a, <1>b, <1>5 DEF TakeStash, Follows, GammaTypes, GameWhere, HelperWhere, ScenesApart,
     Undone, Known, Guards, Working, around, screen, guard, target, role, gamev, Target, Presented,
     Rendered, Own, Works, Window
<1>6. CASE Poll
  BY <1>a, <1>b, <1>6 DEF Poll, Follows, GammaTypes, GameWhere, HelperWhere, ScenesApart, Undone,
     Known, Guards, Working, Injected, around, screen, guard, target, role, gamev, Target,
     Presented, Rendered, Own, Works, Drained, Window
<1>7. CASE Decide
  BY <1>a, <1>b, <1>7 DEF Decide, Follows, GammaTypes, GameWhere, HelperWhere, ScenesApart, Undone,
     Known, Guards, Working, Injected, around, screen, guard, role, gamev, Target, Presented,
     Rendered, Own, NoBuf, Window
<1>8. CASE Sweep
  BY <1>a, <1>b, <1>8 DEF Sweep, Follows, GammaTypes, GameWhere, HelperWhere, ScenesApart, Undone,
     Known, Guards, around, screen, guard, role, gamev, Target, Presented, Rendered, Own, Displays,
     NoBuf, Window
<1>9. CASE Apply
  <2>1. GammaTypes'
    BY <1>a, <1>b, <1>9 DEF Apply, Follows, GammaTypes, around, screen, guard, target, gamev, Own,
       Goes
  <2>2. (g = Rendered)'
    BY <1>a, <1>b, <1>9 DEF Apply, Follows, around, screen, gamev, Target, Rendered, Goes
  <2>3. GameWhere'
    BY <1>a, <1>b, <1>9 DEF Apply, Follows, GameWhere, screen, gamev, Goes
  <2>4. HelperWhere'
    BY <1>a, <1>b, <1>9 DEF Apply, Follows, HelperWhere, screen, gamev, Skips, Goes
  <2>5. ScenesApart(f)'
    BY <1>a, <1>b, <1>9 DEF Apply, Follows, HelperWhere, ScenesApart, gamev, Goes
  <2>6. Undone(f)'
    <3>1. CASE helper' # "claim"
      BY <1>9, <1>a, <1>b, <3>1 DEF Apply, Goes, Undone, gamev
    <3>2. CASE helper' = "claim"
      <4>1. /\ helper = "apply" /\ game = "idle" /\ wbuf' = wbuf /\ wbuf = shown /\ phase = "draw"
            /\ wbuf # lastFb \/ fresh
            /\ UNCHANGED <<game, gbuf, shown, kind, pending>>
        BY <1>9, <3>2 DEF Apply, Goes, Skips, Follows, HelperWhere, around, screen, gamev, role
      <4>2. f[wbuf] = 0
        <5>1. wbuf \in Buffers
          BY <4>1 DEF Follows, GammaTypes, Displays, Buffers
        <5>2. f[wbuf] # 1
          BY <4>1 DEF Follows, Known, Guards
        <5> QED
          BY <1>a, <5>1, <5>2
      <4> QED
        BY <3>2, <4>1, <4>2 DEF Undone
    <3> QED
      BY <3>1, <3>2
  <2>7. Known(f)'
    BY <1>a, <1>b, <1>9 DEF Apply, Follows, GameWhere, HelperWhere, Known, Guards, screen, guard,
       gamev, Goes
  <2> QED
    BY <2>1, <2>2, <2>3, <2>4, <2>5, <2>6, <2>7 DEF Follows
<1>10. CASE ApplyClaim
  BY <1>a, <1>b, <1>10 DEF ApplyClaim, Follows, GammaTypes, GameWhere, HelperWhere, ScenesApart,
     Undone, Known, around, screen, guard, target, role, gamev, Target, Presented, Rendered, Own,
     Window
<1>11. CASE ApplyDone
  BY <1>a, <1>b, <1>11 DEF ApplyDone, Follows, GammaTypes, GameWhere, HelperWhere, ScenesApart,
     Undone, Known, Guards, Working, around, screen, target, role, gamev, Target, Presented,
     Rendered, Own
<1> QED
  BY <1>1, <1>2, <1>3, <1>4, <1>5, <1>6, <1>7, <1>8, <1>9, <1>10, <1>11

\* Settings, menus, dialogs, power and the exit.
LEMMA AroundFollows ==
  ASSUME OneBuilder, ~raced, ~raced', NEW f, NEW g, Leads(ge, f, g), Follows(f, g),
         Surroundings \/ AfterResume
  PROVE  Follows(f, g)'
<1>a. /\ fbp \in Own /\ f \in [Buffers -> 0 .. 1] /\ g \in Own
      /\ ge = <<>> => f = curved /\ g = fbp
  BY LeadsTo
<1>b. OneBuilder
  OBVIOUS
<1>1. CASE Surroundings
  BY <1>a, <1>b, <1>1 DEF Surroundings, Follows, GammaTypes, GameWhere, HelperWhere, ScenesApart,
     Undone, Known, Guards, Working, Injected, screen, guard, target, role, gamev, workv, Target,
     Presented, Rendered, Own
<1>2. CASE AfterResume
  BY <1>a, <1>b, <1>2 DEF AfterResume, Follows, GammaTypes, GameWhere, HelperWhere, ScenesApart,
     Undone, Known, Guards, Working, Injected, screen, guard, target, role, gamev, workv, Target,
     Presented, Rendered, Own
<1> QED
  BY <1>1, <1>2

-----------------------------------------------------------------------------
(* Those who queue a list *)

\* The game's list draws a buffer anew.
LEMMA RealEnqueueOnce ==
  ASSUME OneBuilder, ~raced, NEW f, NEW g, Leads(ge, f, g), Follows(f, g), RealEnqueue
  PROVE  raced' \/ Once'
<1> SUFFICES ASSUME ~raced' PROVE Once'
  OBVIOUS
<1>1. fbp \in Own /\ f \in [Buffers -> 0 .. 1] /\ g \in Own
  BY LeadsTo
<1>2. OneBuilder
  OBVIOUS
<1>l. PICK l : l = <<"draw", gbuf, "game">>
  OBVIOUS
<1>q. PICK q : q = [f EXCEPT ![gbuf] = 0]
  OBVIOUS
<1>r. PICK r : r = gbuf
  OBVIOUS
<1>3. Leads(ge, q, r)'
  <2>1. l \in GeLists /\ l[2] \in Own
    BY <1>1, <1>2, <1>l DEF RealEnqueue, Follows, GammaTypes, GameWhere, Target, Own, Displays,
       Buffers, GeLists
  <2>2. Makes(l, f, q) /\ Names(l, g, r)
    BY <1>1, <1>2, <1>l, <1>q, <1>r DEF Makes, Names
  <2>3. ge' = Append(ge, l) /\ UNCHANGED <<curved, fbp, kind>>
    BY <1>l DEF RealEnqueue, around, screen, guard, target, role, gamev, workv
  <2> QED
    BY <2>1, <2>2, <2>3, LeadsQueued
<1>4. q \in [Buffers -> 0 .. 1]
  <2>1. 0 \in 0 .. 1 /\ 1 \in 0 .. 1
    OBVIOUS
  <2> QED
    BY <1>1, <1>q, <2>1, Zenon
<1>5. Follows(q, r)'
  <2>1. GammaTypes'
    BY <1>1, <1>2, <1>4, <1>l, <1>q, <1>r DEF RealEnqueue, Follows, GammaTypes, around, guard,
       target, Own
  <2>2. (r = Rendered)'
    BY <1>1, <1>2, <1>4, <1>l, <1>q, <1>r DEF RealEnqueue, Follows, GameWhere, around, Target,
       Rendered
  <2>3. GameWhere'
    BY <1>1, <1>2, <1>4, <1>l, <1>q, <1>r DEF RealEnqueue, Follows, GameWhere, Late, target, role
  <2>4. HelperWhere'
    BY <1>1, <1>2, <1>4, <1>l, <1>q, <1>r DEF RealEnqueue, Follows, HelperWhere, Late, guard, Window
  <2>5. ScenesApart(q)'
    BY <1>1, <1>2, <1>4, <1>l, <1>q, <1>r DEF RealEnqueue, Follows, GameWhere, ScenesApart, around,
       role, Target
  <2>6. Undone(q)'
    BY <1>1, <1>2, <1>4, <1>l, <1>q, <1>r DEF RealEnqueue, Follows, GameWhere, Undone, around,
       Target
  <2>7. Known(q)'
    <3>1. /\ phase' = "show" /\ kind' = kind
          /\ Target' = Target /\ gbuf = Target /\ Target \in Buffers
          /\ stash' = NoBuf /\ helper' \notin {"sweep", "apply"}
      BY DEF RealEnqueue, Follows, GameWhere, Late, Target, Displays, Buffers, around
    <3>2. q[Target'] = 0
      BY <1>1, <1>q, <3>1
    <3> QED
      BY <3>1, <3>2 DEF Known, Target
  <2> QED
    BY <2>1, <2>2, <2>3, <2>4, <2>5, <2>6, <2>7 DEF Follows
<1> QED
  BY <1>3, <1>5 DEF Once

\* The injection follows the scene it corrects (screen_tuning.c:2417).
LEMMA InjectOnce ==
  ASSUME OneBuilder, ~raced, NEW f, NEW g, Leads(ge, f, g), Follows(f, g), Inject
  PROVE  raced' \/ Once'
<1> SUFFICES ASSUME ~raced' PROVE Once'
  OBVIOUS
<1>1. fbp \in Own /\ f \in [Buffers -> 0 .. 1] /\ g \in Own
  BY LeadsTo
<1>2. OneBuilder
  OBVIOUS
<1>l. PICK l : l = <<"curve", offFb, "game">>
  OBVIOUS
<1>q. PICK q : q = [f EXCEPT ![offFb] = 1]
  OBVIOUS
<1>r. PICK r : r = g
  OBVIOUS
<1>3. Leads(ge, q, r)'
  <2>1. l \in GeLists /\ l[2] \in Own
    BY <1>1, <1>2, <1>l DEF Inject, Follows, GammaTypes, GameWhere, Own, Buffers, GeLists
  <2>2. Makes(l, f, q) /\ Names(l, g, r)
    BY <1>1, <1>2, <1>l, <1>q, <1>r DEF Inject, Follows, GammaTypes, GameWhere, Undone, Target, Own,
       Displays, NoBuf, Makes, Names
  <2>3. ge' = Append(ge, l) /\ UNCHANGED <<curved, fbp, kind>>
    BY <1>l DEF Inject, around, screen, guard, target, role, gamev, workv
  <2> QED
    BY <2>1, <2>2, <2>3, LeadsQueued
<1>4. q \in [Buffers -> 0 .. 1]
  <2>1. 0 \in 0 .. 1 /\ 1 \in 0 .. 1
    OBVIOUS
  <2> QED
    BY <1>1, <1>q, <2>1, Zenon
<1>5. Follows(q, r)'
  BY <1>1, <1>2, <1>4, <1>l, <1>q, <1>r DEF Inject, Follows, GammaTypes, GameWhere, HelperWhere,
     ScenesApart, Undone, Known, Guards, Injected, OneBuilder, around, role, workv, Target,
     Rendered, Own, Displays, NoBuf
<1> QED
  BY <1>3, <1>5 DEF Once

\* The list of an inline present.
LEMMA PresentBuildOnce ==
  ASSUME OneBuilder, ~raced, NEW f, NEW g, Leads(ge, f, g), Follows(f, g), PresentBuild
  PROVE  raced' \/ Once'
<1> SUFFICES ASSUME ~raced' PROVE Once'
  OBVIOUS
<1>1. fbp \in Own /\ f \in [Buffers -> 0 .. 1] /\ g \in Own
  BY LeadsTo
<1>2. OneBuilder
  OBVIOUS
<1>l. PICK l : l = <<"curve", gbuf, "game">>
  OBVIOUS
<1>q. PICK q : q = [f EXCEPT ![gbuf] = 1]
  OBVIOUS
<1>r. PICK r : r = g
  OBVIOUS
<1>3. Leads(ge, q, r)'
  <2>1. l \in GeLists /\ l[2] \in Own
    BY <1>1, <1>2, <1>l DEF PresentBuild, Follows, GammaTypes, GameWhere, Presented, Rendered, Own,
       Buffers, GeLists
  <2>2. Makes(l, f, q) /\ Names(l, g, r)
    BY <1>1, <1>2, <1>l, <1>q, <1>r DEF PresentBuild, Follows, Undone, Makes, Names
  <2>3. ge' = Append(ge, l) /\ UNCHANGED <<curved, fbp, kind>>
    BY <1>l DEF PresentBuild, around, screen, guard, target, role, gamev, workv
  <2> QED
    BY <2>1, <2>2, <2>3, LeadsQueued
<1>4. q \in [Buffers -> 0 .. 1]
  <2>1. 0 \in 0 .. 1 /\ 1 \in 0 .. 1
    OBVIOUS
  <2> QED
    BY <1>1, <1>q, <2>1, Zenon
<1>5. Follows(q, r)'
  BY <1>1, <1>2, <1>4, <1>l, <1>q, <1>r DEF PresentBuild, Follows, GammaTypes, GameWhere,
     HelperWhere, ScenesApart, Undone, Known, OneBuilder, Late, around, guard, target, workv,
     Target, Presented, Rendered, Own
<1> QED
  BY <1>3, <1>5 DEF Once

\* The worker's list.
LEMMA ApplyBuildOnce ==
  ASSUME OneBuilder, ~raced, NEW f, NEW g, Leads(ge, f, g), Follows(f, g), ApplyBuild
  PROVE  raced' \/ Once'
<1> SUFFICES ASSUME ~raced' PROVE Once'
  OBVIOUS
<1>1. fbp \in Own /\ f \in [Buffers -> 0 .. 1] /\ g \in Own
  BY LeadsTo
<1>2. OneBuilder
  OBVIOUS
<1>l. PICK l : l = <<"curve", wbuf, "worker">>
  OBVIOUS
<1>q. PICK q : q = [f EXCEPT ![wbuf] = 1]
  OBVIOUS
<1>r. PICK r : r = g
  OBVIOUS
<1>3. Leads(ge, q, r)'
  <2>1. l \in GeLists /\ l[2] \in Own
    BY <1>1, <1>2, <1>l DEF ApplyBuild, Follows, GammaTypes, HelperWhere, Displays, Buffers, NoBuf,
       GeLists
  <2>2. Makes(l, f, q) /\ Names(l, g, r)
    BY <1>1, <1>2, <1>l, <1>q, <1>r DEF ApplyBuild, Follows, Undone, Makes, Names
  <2>3. ge' = Append(ge, l) /\ UNCHANGED <<curved, fbp, kind>>
    BY <1>l DEF ApplyBuild, around, screen, guard, target, role, gamev, workv
  <2> QED
    BY <2>1, <2>2, <2>3, LeadsQueued
<1>4. q \in [Buffers -> 0 .. 1]
  <2>1. 0 \in 0 .. 1 /\ 1 \in 0 .. 1
    OBVIOUS
  <2> QED
    BY <1>1, <1>q, <2>1, Zenon
<1>5. Follows(q, r)'
  <2>1. GammaTypes' /\ (r = Rendered)'
    BY <1>1, <1>2, <1>4, <1>l, <1>q, <1>r DEF ApplyBuild, Follows, GammaTypes, around, guard,
       target, role, gamev, Target, Rendered, Own
  <2>2. GameWhere'
    BY <1>1, <1>2, <1>4, <1>l, <1>q, <1>r DEF ApplyBuild, Follows, GammaTypes, GameWhere, around,
       target, role, gamev, Target, Presented
  <2>3. HelperWhere'
    BY <1>1, <1>2, <1>4, <1>l, <1>q, <1>r DEF ApplyBuild, Follows, HelperWhere, guard, gamev, Window
  <2>4. ScenesApart(q)'
    BY <1>1, <1>2, <1>4, <1>l, <1>q, <1>r DEF ApplyBuild, Follows, GammaTypes, HelperWhere,
       ScenesApart, around, role, gamev, Displays, Own
  <2>5. Undone(q)'
    BY <1>1, <1>2, <1>4, <1>l, <1>q, <1>r DEF ApplyBuild, Follows, GammaTypes, GameWhere,
       HelperWhere, Undone, OneBuilder, around, role, gamev, Target
  <2>6. Known(q)'
    BY <1>1, <1>2, <1>4, <1>l, <1>q, <1>r DEF ApplyBuild, Follows, GammaTypes, HelperWhere, Known,
       Working, around, guard, gamev, Target, Window
  <2> QED
    BY <2>1, <2>2, <2>3, <2>4, <2>5, <2>6 DEF Follows
<1> QED
  BY <1>3, <1>5 DEF Once

\* The game's own list from an interrupt handler, and ours behind it: the latch says that it
\* is the scene, not the composite (screen_tuning.c:2353-2373).
LEMMA InterruptSubmitOnce ==
  ASSUME OneBuilder, ~raced, NEW f, NEW g, Leads(ge, f, g), Follows(f, g), InterruptSubmit
  PROVE  raced' \/ Once'
<1> SUFFICES ASSUME ~raced' PROVE Once'
  OBVIOUS
<1>1. fbp \in Own /\ f \in [Buffers -> 0 .. 1] /\ g \in Own
  BY LeadsTo
<1>2. OneBuilder
  OBVIOUS
<1>l. PICK l : l = IF phase = "draw" THEN <<"draw", Target, "isr">> ELSE <<"copy", "A", "isr">>
  OBVIOUS
<1>r. PICK r : r = l[2]
  OBVIOUS
<1>p. PICK p : p = [f EXCEPT ![r] = IF phase = "draw" THEN 0 ELSE f["off"]]
  OBVIOUS
<1>3. l \in GeLists /\ r \in Own /\ r \in Buffers /\ Makes(l, f, p) /\ Names(l, g, r)
  BY <1>1, <1>l, <1>r, <1>p DEF Follows, GammaTypes, Target, Own, Displays, Buffers, GeLists, Makes,
     Names
<1>4. p \in [Buffers -> 0 .. 1]
  <2>1. 0 \in 0 .. 1 /\ f["off"] \in 0 .. 1
    BY <1>1 DEF Buffers
  <2> QED
    BY <1>1, <1>p, <2>1, Zenon
<1>5. /\ GameLists < Ahead /\ Latch(TRUE) /\ pending' = FALSE
      /\ wfresh' = (helper \in Window) /\ anew' = (anew \/ phase = "draw")
      /\ \/ phase = "draw" /\ game = "idle" /\ phase' = "show"
         \/ phase = "show" /\ kind = "comp" /\ phase' = "draw"
      /\ UNCHANGED <<around, curved, fbp, shown, busy, stash, arm, offFb, dispFb, game, gbuf,
                 helper, wbuf>>
  BY DEF InterruptSubmit
<1>8. ~Late
  BY DEF InterruptSubmit
<1>6. CASE ge' = Append(ge, l) /\ fresh' = TRUE /\ UNCHANGED <<lastFb, injected>>
  <2>1. Leads(ge, p, r)'
    BY <1>3, <1>5, <1>6, <1>r, LeadsQueued DEF around
  <2>2. Follows(p, r)'
    <3>1. GammaTypes'
      BY <1>1, <1>2, <1>4, <1>5, <1>8, <1>6, <1>l, <1>p, <1>r DEF Follows, GammaTypes, around, Own
    <3>2. (r = Rendered)'
      BY <1>1, <1>2, <1>4, <1>5, <1>8, <1>6, <1>l, <1>p, <1>r DEF Follows, GammaTypes, around,
         Target, Rendered
    <3>3. GameWhere'
      BY <1>1, <1>2, <1>4, <1>5, <1>8, <1>6, <1>l, <1>p, <1>r DEF Follows, GameWhere, Late, around
    <3>4. HelperWhere'
      BY <1>1, <1>2, <1>4, <1>5, <1>8, <1>6, <1>l, <1>p, <1>r DEF HelperWhere, Late, Window
    <3>5. ScenesApart(p)'
      BY <1>1, <1>2, <1>4, <1>5, <1>8, <1>6, <1>l, <1>p, <1>r DEF ScenesApart, around, Target
    <3>6. Undone(p)'
      BY <1>1, <1>2, <1>4, <1>5, <1>8, <1>6, <1>l, <1>p, <1>r DEF Follows, GameWhere, HelperWhere,
         Undone, around, Target
    <3>7. Known(p)'
      <4>1. /\ shown' = shown /\ kind' = kind /\ stash' = NoBuf
            /\ helper' = helper /\ helper \notin {"sweep", "apply"} /\ Target' = Target
        BY <1>5, <1>8 DEF Late, around, Target
      <4>2. CASE phase = "draw"
        <5>1. phase' = "show" /\ p[Target'] = 0
          BY <1>1, <1>3, <1>5, <1>l, <1>r, <1>p, <4>1, <4>2
        <5> QED
          BY <4>1, <5>1 DEF Known, Target
      <4>3. CASE phase = "show"
        <5>1. phase' = "draw" /\ kind = "comp" /\ shown = "A" /\ r = "A" /\ p["A"] = f["off"]
          BY <1>1, <1>3, <1>5, <1>l, <1>r, <1>p, <4>3 DEF Follows, GammaTypes
        <5>2. f["off"] = 1 => Injected /\ helper # "sync"
          BY <4>3, <5>1 DEF Follows, Known
        <5>3. Injected => Injected'
          BY <1>5, <1>6, <4>1, <4>3 DEF Injected
        <5> QED
          BY <4>1, <5>1, <5>2, <5>3 DEF Known
      <4> QED
        BY <1>5, <4>2, <4>3
    <3> QED
      BY <3>1, <3>2, <3>3, <3>4, <3>5, <3>6, <3>7 DEF Follows
  <2> QED
    BY <2>1, <2>2 DEF Once
<1>7. CASE /\ ge' = ge \o <<l, <<"curve", offFb, "isr">>>> /\ Live /\ Open /\ parNext
           /\ lastFb' = offFb /\ fresh' = FALSE /\ injected' = TRUE /\ offFb # shown
  <2>k. PICK k : k = <<"curve", offFb, "isr">>
    OBVIOUS
  <2>q. PICK q : q = [p EXCEPT ![offFb] = 1]
    OBVIOUS
  <2>1. offFb = Target
    BY <1>7, <1>2 DEF Open, Follows, GammaTypes, Own, Target, Displays
  <2>2. k \in GeLists /\ k[2] \in Own /\ Names(k, r, r)
    BY <2>k, <2>1 DEF Follows, GammaTypes, Target, Own, Displays, Buffers, GeLists, Names
  <2>3. Makes(k, p, q)
    <3>1. p[offFb] = 0
      BY <1>1, <1>5, <1>7, <1>l, <1>p, <1>r, <2>1 DEF Follows, ScenesApart, Target, Displays,
         Buffers
    <3> QED
      BY <2>k, <2>q, <3>1 DEF Makes
  <2>4. Leads(ge, q, r)'
    <3>s. PICK s : s = ge
      OBVIOUS
    <3>t. PICK t : t = Append(s, l)
      OBVIOUS
    <3>u. PICK u : u = Append(t, k)
      OBVIOUS
    <3>1. Leads(t, p, r)
      BY <1>r, <1>3, <3>s, <3>t, LeadsOn
    <3>2. Leads(u, q, r)
      BY <2>2, <2>3, <3>1, <3>u, LeadsOn
    <3>3. ge' = u
      <4>1. s \in Seq(GeLists)
        BY LeadsTo, <3>s
      <4> QED
        BY <1>3, <1>7, <2>2, <2>k, <3>s, <3>t, <3>u, <4>1
    <3> QED
      BY <1>5, <3>2, <3>3, LeadsStay DEF around
  <2>5. q \in [Buffers -> 0 .. 1]
    <3>1. 1 \in 0 .. 1
      OBVIOUS
    <3> QED
      BY <1>4, <2>q, <3>1, Zenon
  <2>6. Follows(q, r)'
    <3>1. GammaTypes'
      BY <1>1, <1>2, <1>4, <1>5, <1>7, <1>8, <1>l, <1>p, <1>r, <2>1, <2>q, <2>5 DEF Follows,
         GammaTypes, around, Own
    <3>2. (r = Rendered)'
      BY <1>1, <1>2, <1>4, <1>5, <1>7, <1>8, <1>l, <1>p, <1>r, <2>1, <2>q, <2>5 DEF Follows,
         GammaTypes, Rendered
    <3>3. GameWhere'
      BY <1>1, <1>2, <1>4, <1>5, <1>7, <1>8, <1>l, <1>p, <1>r, <2>1, <2>q, <2>5 DEF Follows,
         GameWhere, around
    <3>4. HelperWhere'
      BY <1>1, <1>2, <1>4, <1>5, <1>7, <1>8, <1>l, <1>p, <1>r, <2>1, <2>q, <2>5 DEF HelperWhere,
         OneBuilder, Late, Open, Window
    <3>5. ScenesApart(q)'
      BY <1>1, <1>2, <1>4, <1>5, <1>7, <1>8, <1>l, <1>p, <1>r, <2>1, <2>q, <2>5 DEF ScenesApart
    <3>6. Undone(q)'
      BY <1>1, <1>2, <1>4, <1>5, <1>7, <1>8, <1>l, <1>p, <1>r, <2>1, <2>q, <2>5 DEF Follows,
         GameWhere, HelperWhere, ScenesApart, Undone, around
    <3>7. Known(q)'
      BY <1>1, <1>2, <1>4, <1>5, <1>7, <1>8, <1>l, <1>p, <1>r, <2>1, <2>q, <2>5 DEF Follows,
         GammaTypes, HelperWhere, ScenesApart, Known
    <3> QED
      BY <3>1, <3>2, <3>3, <3>4, <3>5, <3>6, <3>7 DEF Follows
  <2> QED
    BY <2>4, <2>6 DEF Once
<1> QED
  BY <1>l, <1>6, <1>7 DEF InterruptSubmit, Decision, Scene

\* A flip from an interrupt handler: the double-apply guard keeps a curved buffer out.
LEMMA PresentInterruptOnce ==
  ASSUME OneBuilder, ~raced, NEW f, NEW g, Leads(ge, f, g), Follows(f, g), PresentInterrupt
  PROVE  raced' \/ Once'
<1> SUFFICES ASSUME ~raced' PROVE Once'
  OBVIOUS
<1>1. fbp \in Own /\ f \in [Buffers -> 0 .. 1] /\ g \in Own
  BY LeadsTo
<1>2. OneBuilder
  OBVIOUS
<1>3. /\ CanPresent /\ kind = "flip" /\ Show(Presented)
      /\ UNCHANGED <<around, curved, fbp, busy, stash, offFb, dispFb, injected, pending, parNext,
                     game, gbuf, workv>>
  BY DEF PresentInterrupt
<1>4. CASE ge' = ge /\ UNCHANGED guard /\ (arm' = arm \/ arm' = FALSE)
  <2>1. Leads(ge, f, g)'
    BY <1>3, <1>4, LeadsStay DEF around
  <2>2. Follows(f, g)'
    <3>1. GammaTypes'
      BY <1>1, <1>2, <1>3, <1>4 DEF Follows, GammaTypes, around, guard, workv, Presented, Rendered,
         Own, Show
    <3>2. (g = Rendered)'
      BY <1>1, <1>2, <1>3, <1>4 DEF Follows, GammaTypes, Presented, Rendered, Show
    <3>3. GameWhere'
      BY <1>1, <1>2, <1>3, <1>4 DEF Follows, GameWhere, Presented, Show, CanPresent
    <3>4. HelperWhere'
      BY <1>1, <1>2, <1>3, <1>4 DEF Follows, GammaTypes, HelperWhere, guard, workv, Presented,
         Rendered, Show
    <3>5. ScenesApart(f)'
      BY <1>1, <1>2, <1>3, <1>4 DEF ScenesApart, Show, CanPresent
    <3>6. Undone(f)'
      BY <1>1, <1>2, <1>3, <1>4 DEF Follows, Undone, workv, CanPresent
    <3>7. Known(f)'
      BY <1>1, <1>2, <1>3, <1>4 DEF Follows, GammaTypes, GameWhere, Known, Guards, Working,
         Injected, guard, workv, Presented, Own, Displays, NoBuf, Show
    <3> QED
      BY <3>1, <3>2, <3>3, <3>4, <3>5, <3>6, <3>7 DEF Follows
  <2> QED
    BY <2>1, <2>2 DEF Once
<1>5. CASE /\ ge' = Append(ge, <<"curve", Presented, "isr">>) /\ busy = "free" /\ arm' = FALSE
           /\ lastFb' = Presented /\ fresh' = FALSE /\ ~Late /\ (Presented # lastFb \/ fresh)
  <2>l. PICK l : l = <<"curve", Presented, "isr">>
    OBVIOUS
  <2>q. PICK q : q = [f EXCEPT ![Presented] = 1]
    OBVIOUS
  <2>1. Presented \in Own /\ Presented \in Buffers
    BY <1>3 DEF Follows, GammaTypes, Presented, Target, Own, Displays, Buffers
  <2>2. f[Presented] = 0
    <3>1. f[Presented] # 1
      BY <1>2, <1>3, <1>5 DEF Follows, GammaTypes, Known, Guards, Working, Injected, Presented,
         OneBuilder, CanPresent, Own, Displays, NoBuf
    <3> QED
      BY <1>1, <2>1, <3>1
  <2>3. Leads(ge, q, g)'
    <3>1. l \in GeLists /\ l[2] \in Own /\ Makes(l, f, q) /\ Names(l, g, g)
      BY <2>l, <2>q, <2>1, <2>2 DEF GeLists, Makes, Names
    <3> QED
      BY <1>3, <1>5, <2>l, <3>1, LeadsQueued DEF around
  <2>4. q \in [Buffers -> 0 .. 1]
    <3>1. 1 \in 0 .. 1
      OBVIOUS
    <3> QED
      BY <1>1, <2>q, <3>1, Zenon
  <2>5. Follows(q, g)'
    <3>1. GammaTypes'
      BY <1>1, <1>2, <1>3, <1>5, <2>q, <2>1, <2>2, <2>4 DEF Follows, GammaTypes, around, workv, Own,
         Show
    <3>2. (g = Rendered)'
      BY <1>1, <1>2, <1>3, <1>5, <2>q, <2>1, <2>2, <2>4 DEF Follows, GammaTypes, Presented,
         Rendered, Show
    <3>3. GameWhere'
      BY <1>1, <1>2, <1>3, <1>5, <2>q, <2>1, <2>2, <2>4 DEF GameWhere, Late, CanPresent
    <3>4. HelperWhere'
      BY <1>1, <1>2, <1>3, <1>5, <2>q, <2>1, <2>2, <2>4 DEF Follows, HelperWhere, OneBuilder, Late,
         workv, Window
    <3>5. ScenesApart(q)'
      BY <1>1, <1>2, <1>3, <1>5, <2>q, <2>1, <2>2, <2>4 DEF ScenesApart, Show, CanPresent
    <3>6. Undone(q)'
      BY <1>1, <1>2, <1>3, <1>5, <2>q, <2>1, <2>2, <2>4 DEF Undone, Late, workv, CanPresent
    <3>7. Known(q)'
      BY <1>1, <1>2, <1>3, <1>5, <2>q, <2>1, <2>2, <2>4 DEF Known, Guards, OneBuilder, Late, workv,
         Show
    <3> QED
      BY <3>1, <3>2, <3>3, <3>4, <3>5, <3>6, <3>7 DEF Follows
  <2> QED
    BY <2>3, <2>5 DEF Once
<1> QED
  BY <1>4, <1>5 DEF PresentInterrupt, Disarm, Skips

-----------------------------------------------------------------------------
(* The step and the theorem *)

\* Those who queue none.
LEMMA ListlessOnce ==
  ASSUME ~raced, Once, OneBuilder, ~raced',
         SubmitDraw \/ AfterSubmit \/ PresentThread \/ PresentClaim \/ PresentDone \/ StartHelper
         \/ EndHelper \/ Disprove \/ ReacquireGe \/ TakeStash \/ Poll \/ Decide \/ Sweep \/ Apply
         \/ ApplyClaim \/ ApplyDone \/ Surroundings \/ AfterResume
  PROVE  Once'
<1>1. PICK f, g : Leads(ge, f, g) /\ Follows(f, g)
  BY DEF Once
<1>2. Follows(f, g)'
  BY <1>1, HooksFollow, WorkerFollows, AroundFollows
<1>3. UNCHANGED <<ge, curved, fbp, kind>>
  BY DEF SubmitDraw, AfterSubmit, PresentThread, PresentClaim, PresentDone, StartHelper,
     EndHelper, Disprove, ReacquireGe, TakeStash, Poll, Decide, Sweep, Apply, Goes, ApplyClaim,
     ApplyDone, Surroundings, AfterResume, around, screen
<1>4. Leads(ge, f, g)'
  <2>1. PICK s : s = ge
    OBVIOUS
  <2> QED
    BY <1>1, <1>3, <2>1, LeadsStay
<1> QED
  BY <1>2, <1>4 DEF Once

\* The GE runs a list: nothing the code keeps has changed.
LEMMA GeOnce == ASSUME ~raced, Once, GeRuns PROVE Once'
<1>1. PICK f, g : Leads(ge, f, g) /\ Follows(f, g)
  BY DEF Once
<1>2. Leads(ge, f, g)'
  BY <1>1, LeadsRun
<1>3. UNCHANGED <<around, shown, guard, busy, stash, target, role, gamev, workv, raced>>
  BY DEF GeRuns
<1>4. Follows(f, g)'
  <2>1. GammaTypes' /\ (g = Rendered)' /\ GameWhere' /\ HelperWhere'
    BY <1>1, <1>3 DEF Follows, GammaTypes, Rendered, GameWhere, HelperWhere, Own, Target, Presented,
       around, guard, target, role, gamev, workv
  <2>2. ScenesApart(f)' /\ Undone(f)'
    BY <1>1, <1>3 DEF Follows, ScenesApart, Undone, Target, around, role, gamev, workv
  <2>3. Known(f)'
    BY <1>1, <1>3 DEF Follows, Known, Guards, Working, Injected, Target, around, guard, target,
       gamev, workv
  <2> QED
    BY <2>1, <2>2, <2>3 DEF Follows
<1> QED
  BY <1>2, <1>4 DEF Once

\* One step for each action.
LEMMA OnceStep ==
  ASSUME OneBuilder, ~raced, Once, [GammaNext]_gammaVars
  PROVE  raced' \/ Once'
<1> SUFFICES ASSUME ~raced' PROVE Once'
  OBVIOUS
<1>1. PICK f, g : Leads(ge, f, g) /\ Follows(f, g)
  BY DEF Once
<1>2. CASE GeRuns
  BY <1>2, GeOnce
<1>3. CASE RealEnqueue \/ Inject \/ PresentBuild \/ ApplyBuild
  BY <1>1, <1>3, RealEnqueueOnce, InjectOnce, PresentBuildOnce, ApplyBuildOnce
<1>4. CASE InterruptSubmit \/ PresentInterrupt
  BY <1>1, <1>4, InterruptSubmitOnce, PresentInterruptOnce
<1>5. CASE UNCHANGED gammaVars
  <2>1. UNCHANGED <<around, screen, guard, busy, stash, target, role, gamev, workv>>
    BY <1>5 DEF gammaVars
  <2>2. Leads(ge, f, g)'
    <3>1. PICK s : s = ge
      OBVIOUS
    <3> QED
      BY <1>1, <2>1, <3>1, LeadsStay DEF screen, around
  <2>3. Follows(f, g)'
    <3>1. GammaTypes' /\ (g = Rendered)' /\ GameWhere' /\ HelperWhere'
      BY <1>1, <2>1 DEF Follows, GammaTypes, Rendered, GameWhere, HelperWhere, Own, Target,
         Presented, around, screen, guard, target, role, gamev, workv
    <3>2. ScenesApart(f)' /\ Undone(f)'
      BY <1>1, <2>1 DEF Follows, ScenesApart, Undone, Target, around, screen, role, gamev, workv
    <3>3. Known(f)'
      BY <1>1, <2>1 DEF Follows, Known, Guards, Working, Injected, Target, around, screen, guard,
         target, gamev, workv
    <3> QED
      BY <3>1, <3>2, <3>3 DEF Follows
  <2> QED
    BY <2>2, <2>3 DEF Once
<1>6. CASE \/ SubmitDraw \/ AfterSubmit \/ PresentThread \/ PresentClaim \/ PresentDone
           \/ StartHelper \/ EndHelper \/ Disprove \/ ReacquireGe \/ TakeStash \/ Poll \/ Decide
           \/ Sweep \/ Apply \/ ApplyClaim \/ ApplyDone \/ Surroundings \/ AfterResume
  BY <1>6, ListlessOnce
<1> QED
  BY <1>2, <1>3, <1>4, <1>5, <1>6 DEF GammaNext, GameThread, Helper

\* Nothing is curved before the first frame.
LEMMA OnceInit == GammaInit => Once
<1> SUFFICES ASSUME GammaInit PROVE Once
  OBVIOUS
<1>1. Leads(ge, None, "A")
  BY LeadsInit
<1>2. Follows(None, "A")
  BY DEF GammaInit, Follows, GammaTypes, Rendered, GameWhere, HelperWhere, ScenesApart, Undone,
     Known, Displays, Buffers, None
<1> QED
  BY <1>1, <1>2 DEF Once

\* No frame is curved twice and one party at a time builds the list, whatever presents,
\* injections, interrupts, the worker, settings, menus, a suspend and the exit do in between, for
\* any number of the game's lists ahead on the GE and of changes of the surroundings
\* (st_on_present, screen_tuning.c:1361; st_claim, screen_tuning.c:1180-1193).
THEOREM FramesAreCurvedOnce == GammaSpec => []CurveLaidOnce
<1>1. GammaInit => GammaInv
  BY InitBuilder, OnceInit DEF GammaInv
<1>2. GammaInv /\ [GammaNext]_gammaVars => GammaInv'
  <2> SUFFICES ASSUME GammaInv, [GammaNext]_gammaVars PROVE GammaInv'
    OBVIOUS
  <2>1. OneBuilder /\ OneBuilder'
    BY BuilderStep DEF GammaInv
  <2>2. CASE raced
    <3>1. UNCHANGED gammaVars
      BY <2>2 DEF GammaNext
    <3>2. raced'
      BY <2>2, <3>1 DEF gammaVars
    <3> QED
      BY <2>1, <3>2 DEF GammaInv
  <2>3. CASE ~raced
    BY <2>1, <2>3, OnceStep DEF GammaInv
  <2> QED
    BY <2>2, <2>3
<1>3. GammaInv => CurveLaidOnce
  <2> SUFFICES ASSUME OneBuilder, Once PROVE CurveLaidOnce
    BY DEF GammaInv, CurveLaidOnce, Washed
  <2>1. PICK f, g : Leads(ge, f, g) /\ Follows(f, g)
    BY DEF Once
  <2>2. curved \in [Buffers -> 0 .. 1] /\ shown \in Buffers
    BY <2>1, LeadsTo DEF Follows, GammaTypes, Buffers
  <2>3. curved[shown] # 2
    BY <2>2
  <2> QED
    BY <2>3 DEF CurveLaidOnce, Washed
<1> QED
  BY <1>1, <1>2, <1>3, PTL DEF GammaSpec

=============================================================================
